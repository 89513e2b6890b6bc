-------------------------- MODULE FundingWorkerProofs --------------------------
(***************************************************************************)
(* The worker of an exchange keeps every row readable and is never refused *)
(* by its repository; no page it fetched is stale; and on OKX a claimed    *)
(* coverage is in the history.  One lemma per transaction says that it     *)
(* leaves a row that validateStateRow accepts, and whose running tasks the *)
(* repository lets go on; the worker's steps put them in sequence.         *)
(***************************************************************************)
EXTENDS FundingWorker, TLAPS, FiniteSetTheorems, WellFoundedInduction

\* The tasks a row says are running are allowed to.
Leased(row) ==
    /\ row.status = "BACKFILLING" => row.gen > 0 /\ AllowsCoverage(row, row.kind, row.gen)
    /\ row.incStatus = "RUNNING" => AllowsIncremental(row)

GoodRow(row) ==
    /\ row \in Row
    /\ ~Known(row) => row = NoRow
    /\ Known(row) => Readable(row) /\ Leased(row)

-----------------------------------------------------------------------------
(* New rows *)

LEMMA NoRowGood == GoodRow(NoRow) /\ ~Known(NoRow)
<1>1. NoRow \in Row
  BY DEF NoRow, Row, CoverageStatuses, CoverageKinds, IncrementalStatuses, Null
<1> QED BY <1>1 DEF GoodRow, Known, NoRow

LEMMA NewRowGood == GoodRow(NewRow) /\ Known(NewRow) /\ NewRow.active
<1>1. NewRow \in Row
  BY DEF NewRow, NoRow, Row, CoverageStatuses, CoverageKinds, IncrementalStatuses, Null
<1>2. Known(NewRow) BY DEF NewRow, NoRow, Known
<1>3. Readable(NewRow)
  <2> DEFINE n == NewRow
  <2>1. BoundsReadable(n) /\ ProofReadable(n) /\ AnchorReadable(n) /\ TaskStartReadable(n)
    BY DEF BoundsReadable, ProofReadable, AnchorReadable, TaskStartReadable, NewRow, NoRow, Null
  <2>2. ReactivationReadable(n) /\ FinalReadable(n)
    BY DEF ReactivationReadable, FinalReadable, NewRow, NoRow, Null
  <2>3. CoverageReadable(n) BY DEF CoverageReadable, NewRow, NoRow, Null
  <2>4. IncrementalReadable(n) BY DEF IncrementalReadable, NewRow, NoRow, Null
  <2> QED BY <2>1, <2>2, <2>3, <2>4 DEF Readable
<1>4. Leased(NewRow) BY DEF Leased, NewRow, NoRow
<1>5. NewRow.active BY DEF NewRow, NoRow
<1> QED BY <1>1, <1>2, <1>3, <1>4, <1>5 DEF GoodRow

-----------------------------------------------------------------------------
(* The parts of a row that a transaction leaves alone *)

SameMarket(n, row) ==
    /\ n.active = row.active /\ n.reactivation = row.reactivation
    /\ n.reactivationAfter = row.reactivationAfter /\ n.finalDone = row.finalDone

SameTask(n, row) ==
    /\ n.status = row.status /\ n.gen = row.gen /\ n.kind = row.kind /\ n.cutoff = row.cutoff
    /\ n.required = row.required /\ n.initial = row.initial
    /\ n.after = row.after /\ n.afterGen = row.afterGen
    /\ n.ended = row.ended /\ n.failed = row.failed

SameProof(n, row) == n.proofGen = row.proofGen /\ n.proofCutoff = row.proofCutoff

SameBounds(n, row) == n.oldest = row.oldest /\ n.latest = row.latest

SameIncremental(n, row) ==
    /\ n.incStatus = row.incStatus /\ n.incGen = row.incGen /\ n.frozen = row.frozen
    /\ n.incEnded = row.incEnded /\ n.incFailed = row.incFailed

LEMMA StatusTypes ==
    /\ "PENDING" \in CoverageStatuses \cup {"UNKNOWN"}
    /\ "BACKFILLING" \in CoverageStatuses \cup {"UNKNOWN"}
    /\ "CAUGHT_UP" \in CoverageStatuses \cup {"UNKNOWN"}
    /\ "INCOMPLETE" \in CoverageStatuses \cup {"UNKNOWN"}
    /\ "IDLE" \in IncrementalStatuses /\ "RUNNING" \in IncrementalStatuses
    /\ "INCOMPLETE" \in IncrementalStatuses
    /\ Null \in Nat /\ Null = 0
BY DEF CoverageStatuses, IncrementalStatuses, Null

-----------------------------------------------------------------------------
(* Coverage *)

LEMMA StartCoverageFields ==
    ASSUME NEW row \in Row, NEW kind \in CoverageKinds, NEW at \in Nat
    PROVE  LET n == StartCoverage(row, kind, at) IN
           /\ n \in Row
           /\ n.status = "BACKFILLING" /\ n.gen = row.gen + 1 /\ n.kind = kind /\ n.cutoff = at
           /\ n.required = (IF Exchange = "bitget" THEN row.oldest ELSE Null)
           /\ n.initial = Null /\ n.after = Null /\ n.afterGen = Null /\ ~n.ended /\ ~n.failed
           /\ SameMarket(n, row) /\ SameProof(n, row) /\ SameBounds(n, row)
           /\ SameIncremental(n, row)
<1> DEFINE q == IF Exchange = "bitget" THEN row.oldest ELSE Null
           g == row.gen + 1
           n == [row EXCEPT !.status = "BACKFILLING", !.gen = g, !.kind = kind, !.cutoff = at,
                    !.required = q, !.initial = Null, !.after = Null, !.afterGen = Null,
                    !.ended = FALSE, !.failed = FALSE]
<1>1. /\ q \in Nat /\ g \in Nat /\ kind \in CoverageKinds \cup {"none"} /\ Null \in Nat
      /\ "BACKFILLING" \in CoverageStatuses \cup {"UNKNOWN"}
  BY StatusTypes DEF Row
<1>2. StartCoverage(row, kind, at) = n BY DEF StartCoverage
<1> HIDE DEF q, g
<1>3. n \in Row BY <1>1, Zenon DEF Row
<1>4. /\ n.status = "BACKFILLING" /\ n.gen = g /\ n.kind = kind /\ n.cutoff = at
      /\ n.required = q /\ n.initial = Null /\ n.after = Null /\ n.afterGen = Null
      /\ ~n.ended /\ ~n.failed
  BY DEF Row
<1>5. SameMarket(n, row) /\ SameProof(n, row) /\ SameBounds(n, row) /\ SameIncremental(n, row)
  BY DEF Row, SameMarket, SameProof, SameBounds, SameIncremental
<1> HIDE DEF n
<1> QED BY <1>2, <1>3, <1>4, <1>5 DEF q, g

LEMMA StartCoverageGood ==
    ASSUME NEW row, GoodRow(row), Known(row), NEW kind \in CoverageKinds,
           MayStartCoverage(row, kind), NEW at \in Nat \ {0}
    PROVE  LET n == StartCoverage(row, kind, at) IN GoodRow(n) /\ Known(n)
<1> DEFINE n == StartCoverage(row, kind, at)
<1> SUFFICES GoodRow(n) /\ Known(n) OBVIOUS
<1>1. row \in Row /\ Readable(row) /\ Leased(row) BY DEF GoodRow
<1>2. /\ n \in Row
      /\ n.status = "BACKFILLING" /\ n.gen = row.gen + 1 /\ n.kind = kind /\ n.cutoff = at
      /\ n.required = (IF Exchange = "bitget" THEN row.oldest ELSE Null)
      /\ n.initial = Null /\ n.after = Null /\ n.afterGen = Null /\ ~n.ended /\ ~n.failed
      /\ SameMarket(n, row) /\ SameProof(n, row) /\ SameBounds(n, row)
      /\ SameIncremental(n, row)
  BY <1>1, StartCoverageFields
<1> HIDE DEF n
<1>3. BoundsReadable(n) BY <1>1, <1>2 DEF Readable, BoundsReadable, SameBounds
<1>4. ProofReadable(n)
  BY <1>1, <1>2, StatusTypes DEF Readable, ProofReadable, CoverageReadable, SameProof, Row,
     CoverageStatuses, Known
<1>5. AnchorReadable(n) BY <1>2 DEF AnchorReadable
<1>6. TaskStartReadable(n) BY <1>2, ExchangeAssumption DEF TaskStartReadable
<1>7. ~row.finalDone
  BY <1>1 DEF MayStartCoverage, AllowsCoverage, Readable, FinalReadable, ReactivationReadable
<1>8. ReactivationReadable(n)
  BY <1>1, <1>2 DEF Readable, ReactivationReadable, SameMarket, Row
<1>9. FinalReadable(n) BY <1>2, <1>7 DEF FinalReadable, SameMarket
<1>10. CoverageReadable(n) BY <1>2, StatusTypes DEF CoverageReadable, CoverageKinds
<1>11. IncrementalReadable(n)
  BY <1>1, <1>2 DEF Readable, IncrementalReadable, SameIncremental, SameBounds
<1>12. Leased(n)
  BY <1>1, <1>2 DEF Leased, MayStartCoverage, AllowsCoverage, AllowsIncremental, SameMarket,
     SameIncremental, SameProof, Row
<1> QED
  BY <1>2, <1>3, <1>4, <1>5, <1>6, <1>8, <1>9, <1>10, <1>11, <1>12 DEF GoodRow, Readable, Known

LEMMA ResumeCoverageFields ==
    ASSUME NEW row \in Row
    PROVE  LET n == ResumeCoverage(row) IN
           /\ n \in Row
           /\ n.status = row.status /\ n.gen = row.gen + 1 /\ n.kind = row.kind
           /\ n.cutoff = row.cutoff /\ n.after = row.after
           /\ n.required = (IF Exchange = "bitget" THEN row.oldest ELSE Null)
           /\ n.initial = (IF Exchange = "okx" THEN row.after ELSE Null)
           /\ n.afterGen = (IF Exchange = "okx" /\ row.after # Null THEN row.gen + 1 ELSE Null)
           /\ n.ended = row.ended /\ n.failed = row.failed
           /\ SameMarket(n, row) /\ SameProof(n, row) /\ SameBounds(n, row)
           /\ SameIncremental(n, row)
<1> DEFINE q == IF Exchange = "bitget" THEN row.oldest ELSE Null
           g == row.gen + 1
           i == IF Exchange = "okx" THEN row.after ELSE Null
           a == IF Exchange = "okx" /\ row.after # Null THEN row.gen + 1 ELSE Null
           n == [row EXCEPT !.gen = g, !.required = q, !.initial = i, !.afterGen = a]
<1>1. q \in Nat /\ g \in Nat /\ i \in Nat /\ a \in Nat BY StatusTypes DEF Row
<1>2. ResumeCoverage(row) = n BY DEF ResumeCoverage
<1> HIDE DEF q, g, i, a
<1>3. n \in Row BY <1>1, Zenon DEF Row
<1>4. /\ n.status = row.status /\ n.gen = g /\ n.kind = row.kind /\ n.cutoff = row.cutoff
      /\ n.after = row.after /\ n.required = q /\ n.initial = i /\ n.afterGen = a
      /\ n.ended = row.ended /\ n.failed = row.failed
  BY DEF Row
<1>5. SameMarket(n, row) /\ SameProof(n, row) /\ SameBounds(n, row) /\ SameIncremental(n, row)
  BY DEF Row, SameMarket, SameProof, SameBounds, SameIncremental
<1> HIDE DEF n
<1> QED BY <1>2, <1>3, <1>4, <1>5 DEF q, g, i, a

LEMMA ResumeCoverageGood ==
    ASSUME NEW row, GoodRow(row), row.status = "BACKFILLING"
    PROVE  LET n == ResumeCoverage(row) IN GoodRow(n) /\ Known(n)
<1> DEFINE n == ResumeCoverage(row)
<1> SUFFICES GoodRow(n) /\ Known(n) OBVIOUS
<1>1. row \in Row /\ Readable(row) /\ Leased(row) BY DEF GoodRow, Known
<1>2. /\ n \in Row
      /\ n.status = row.status /\ n.gen = row.gen + 1 /\ n.kind = row.kind
      /\ n.cutoff = row.cutoff /\ n.after = row.after
      /\ n.required = (IF Exchange = "bitget" THEN row.oldest ELSE Null)
      /\ n.initial = (IF Exchange = "okx" THEN row.after ELSE Null)
      /\ n.afterGen = (IF Exchange = "okx" /\ row.after # Null THEN row.gen + 1 ELSE Null)
      /\ n.ended = row.ended /\ n.failed = row.failed
      /\ SameMarket(n, row) /\ SameProof(n, row) /\ SameBounds(n, row)
      /\ SameIncremental(n, row)
  BY <1>1, ResumeCoverageFields
<1> HIDE DEF n
<1>3. BoundsReadable(n) BY <1>1, <1>2 DEF Readable, BoundsReadable, SameBounds
<1>4. ProofReadable(n) BY <1>1, <1>2 DEF Readable, ProofReadable, SameProof, Row
<1>5. AnchorReadable(n) BY <1>1, <1>2 DEF Readable, AnchorReadable, Null, Row
<1>6. TaskStartReadable(n) BY <1>1, <1>2, ExchangeAssumption DEF TaskStartReadable, Row
<1>7. ReactivationReadable(n)
  BY <1>1, <1>2 DEF Readable, ReactivationReadable, SameMarket, Row
<1>8. FinalReadable(n) BY <1>1, <1>2 DEF Readable, FinalReadable, SameMarket
<1>9. CoverageReadable(n) BY <1>1, <1>2 DEF Readable, CoverageReadable
<1>10. IncrementalReadable(n)
  BY <1>1, <1>2 DEF Readable, IncrementalReadable, SameIncremental, SameBounds
<1>11. Leased(n)
  BY <1>1, <1>2 DEF Leased, AllowsCoverage, AllowsIncremental, SameMarket, SameIncremental,
     SameProof, Row, Readable, ReactivationReadable
<1> QED
  BY <1>1, <1>2, <1>3, <1>4, <1>5, <1>6, <1>7, <1>8, <1>9, <1>10, <1>11 DEF GoodRow, Readable, Known

LEMMA WidenFields ==
    ASSUME NEW row \in Row, NEW lo \in Nat, NEW hi \in Nat
    PROVE  LET n == Widen(row, lo, hi) IN
           /\ n \in Row
           /\ n.oldest = (IF row.oldest = Null \/ lo < row.oldest THEN lo ELSE row.oldest)
           /\ n.latest = (IF row.latest = Null \/ hi > row.latest THEN hi ELSE row.latest)
           /\ SameMarket(n, row) /\ SameProof(n, row) /\ SameTask(n, row)
           /\ SameIncremental(n, row)
<1> DEFINE o == IF row.oldest = Null \/ lo < row.oldest THEN lo ELSE row.oldest
           l == IF row.latest = Null \/ hi > row.latest THEN hi ELSE row.latest
           n == [row EXCEPT !.oldest = o, !.latest = l]
<1>1. o \in Nat /\ l \in Nat BY DEF Row
<1>2. Widen(row, lo, hi) = n BY DEF Widen
<1> HIDE DEF o, l
<1>3. n \in Row BY <1>1, Zenon DEF Row
<1>4. n.oldest = o /\ n.latest = l BY DEF Row
<1>5. SameMarket(n, row) /\ SameProof(n, row) /\ SameTask(n, row) /\ SameIncremental(n, row)
  BY DEF Row, SameMarket, SameProof, SameTask, SameIncremental
<1> HIDE DEF n
<1> QED BY <1>2, <1>3, <1>4, <1>5 DEF o, l

\* A page widens the bounds and moves no other thing.
LEMMA WidenGood ==
    ASSUME NEW row, GoodRow(row), Known(row), NEW lo \in Nat \ {0}, NEW hi \in Nat, lo <= hi
    PROVE  LET n == Widen(row, lo, hi) IN GoodRow(n) /\ Known(n)
<1> DEFINE n == Widen(row, lo, hi)
<1> SUFFICES GoodRow(n) /\ Known(n) OBVIOUS
<1>1. row \in Row /\ Readable(row) /\ Leased(row) BY DEF GoodRow
<1>2. /\ n \in Row
      /\ n.oldest = (IF row.oldest = Null \/ lo < row.oldest THEN lo ELSE row.oldest)
      /\ n.latest = (IF row.latest = Null \/ hi > row.latest THEN hi ELSE row.latest)
      /\ SameMarket(n, row) /\ SameProof(n, row) /\ SameTask(n, row)
      /\ SameIncremental(n, row)
  BY <1>1, WidenFields
<1> HIDE DEF n
<1>3. BoundsReadable(n) BY <1>1, <1>2 DEF Readable, BoundsReadable, Row, Null
<1>4. ProofReadable(n) BY <1>1, <1>2 DEF Readable, ProofReadable, SameProof, SameTask
<1>5. AnchorReadable(n) BY <1>1, <1>2 DEF Readable, AnchorReadable, SameTask
<1>6. TaskStartReadable(n) BY <1>1, <1>2 DEF Readable, TaskStartReadable, SameTask
<1>7. ReactivationReadable(n)
  BY <1>1, <1>2 DEF Readable, ReactivationReadable, SameMarket, SameTask
<1>8. FinalReadable(n) BY <1>1, <1>2 DEF Readable, FinalReadable, SameMarket, SameTask
<1>9. CoverageReadable(n)
  BY <1>1, <1>2 DEF Readable, CoverageReadable, SameTask, SameProof, SameMarket
<1>10. IncrementalReadable(n)
  BY <1>1, <1>2 DEF Readable, IncrementalReadable, SameIncremental, Row, Null
<1>11. Leased(n)
  BY <1>1, <1>2 DEF Leased, AllowsCoverage, AllowsIncremental, SameMarket, SameIncremental,
     SameProof, SameTask
<1> QED
  BY <1>2, <1>3, <1>4, <1>5, <1>6, <1>7, <1>8, <1>9, <1>10, <1>11
  DEF GoodRow, Readable, Known, SameTask

LEMMA CommitCoverageFields ==
    ASSUME NEW row \in Row, NEW lo \in Nat, NEW hi \in Nat
    PROVE  LET n == CommitCoverage(row, lo, hi)
               w == Widen(row, lo, hi) IN
           /\ n \in Row
           /\ n.status = row.status /\ n.gen = row.gen /\ n.kind = row.kind
           /\ n.cutoff = row.cutoff /\ n.required = row.required /\ n.initial = row.initial
           /\ n.ended = row.ended /\ n.failed = row.failed
           /\ n.after = (IF Exchange = "okx" THEN hi ELSE Null)
           /\ n.afterGen = (IF Exchange = "okx" THEN row.gen ELSE Null)
           /\ SameMarket(n, w) /\ SameProof(n, w) /\ SameBounds(n, w) /\ SameIncremental(n, w)
<1> DEFINE w == Widen(row, lo, hi)
           a == IF Exchange = "okx" THEN hi ELSE Null
           g == IF Exchange = "okx" THEN row.gen ELSE Null
           n == [w EXCEPT !.after = a, !.afterGen = g]
<1>1. a \in Nat /\ g \in Nat BY StatusTypes DEF Row
<1>2. CommitCoverage(row, lo, hi) = n BY DEF CommitCoverage
<1>3. w \in Row /\ SameTask(w, row) BY WidenFields
<1> HIDE DEF a, g, w
<1>4. n \in Row BY <1>1, <1>3, Zenon DEF Row
<1>5. /\ n.status = w.status /\ n.gen = w.gen /\ n.kind = w.kind
      /\ n.cutoff = w.cutoff /\ n.required = w.required /\ n.initial = w.initial
      /\ n.ended = w.ended /\ n.failed = w.failed /\ n.after = a /\ n.afterGen = g
  BY <1>3 DEF Row
<1>6. SameMarket(n, w) /\ SameProof(n, w) /\ SameBounds(n, w) /\ SameIncremental(n, w)
  BY <1>3 DEF Row, SameMarket, SameProof, SameBounds, SameIncremental
<1> HIDE DEF n
<1> QED BY <1>2, <1>3, <1>4, <1>5, <1>6 DEF a, g, w, SameTask

LEMMA CommitCoverageGood ==
    ASSUME NEW row, GoodRow(row), row.status = "BACKFILLING",
           NEW lo \in Nat \ {0}, NEW hi \in Nat, lo <= hi,
           row.initial # Null => hi <= row.initial
    PROVE  LET n == CommitCoverage(row, lo, hi) IN GoodRow(n) /\ Known(n)
<1> DEFINE n == CommitCoverage(row, lo, hi)
           w == Widen(row, lo, hi)
<1> SUFFICES GoodRow(n) /\ Known(n) OBVIOUS
<1>1. Known(row) BY DEF Known
<1>2. row \in Row /\ GoodRow(w) /\ Known(w) BY <1>1, WidenGood DEF GoodRow
<1>3. SameTask(w, row) BY <1>2, WidenFields
<1>4. /\ n \in Row
      /\ n.status = row.status /\ n.gen = row.gen /\ n.kind = row.kind
      /\ n.cutoff = row.cutoff /\ n.required = row.required /\ n.initial = row.initial
      /\ n.ended = row.ended /\ n.failed = row.failed
      /\ n.after = (IF Exchange = "okx" THEN hi ELSE Null)
      /\ n.afterGen = (IF Exchange = "okx" THEN row.gen ELSE Null)
      /\ SameMarket(n, w) /\ SameProof(n, w) /\ SameBounds(n, w) /\ SameIncremental(n, w)
  BY <1>2, CommitCoverageFields
<1> HIDE DEF n, w
<1>5. Readable(w) /\ Leased(w) BY <1>2 DEF GoodRow
<1>6. BoundsReadable(n) BY <1>4, <1>5 DEF Readable, BoundsReadable, SameBounds
<1>7. ProofReadable(n) BY <1>3, <1>4, <1>5 DEF Readable, ProofReadable, SameProof, SameTask
<1>8. AnchorReadable(n)
  <2>1. row.gen > 0 BY <1>3, <1>5 DEF Leased, SameTask
  <2> QED BY <1>2, <1>4, <2>1 DEF AnchorReadable, Null, Row
<1>9. TaskStartReadable(n)
  <2>1. Exchange = "bitget" => row.initial = Null
    BY <1>3, <1>5 DEF Readable, TaskStartReadable, SameTask
  <2> QED BY <1>3, <1>4, <1>5, <2>1, ExchangeAssumption
          DEF Readable, TaskStartReadable, SameTask, Null
<1>10. ReactivationReadable(n)
  BY <1>3, <1>4, <1>5 DEF Readable, ReactivationReadable, SameMarket, SameTask
<1>11. FinalReadable(n) BY <1>3, <1>4, <1>5 DEF Readable, FinalReadable, SameMarket, SameTask
<1>12. CoverageReadable(n)
  BY <1>3, <1>4, <1>5 DEF Readable, CoverageReadable, SameTask, SameProof, SameMarket
<1>13. IncrementalReadable(n)
  BY <1>4, <1>5 DEF Readable, IncrementalReadable, SameIncremental, SameBounds
<1>14. Leased(n)
  BY <1>3, <1>4, <1>5 DEF Leased, AllowsCoverage, AllowsIncremental, SameMarket, SameIncremental,
     SameProof, SameTask
<1> QED
  BY <1>4, <1>6, <1>7, <1>8, <1>9, <1>10, <1>11, <1>12, <1>13, <1>14 DEF GoodRow, Readable, Known

LEMMA CompleteCoverageFields ==
    ASSUME NEW row \in Row
    PROVE  LET n == CompleteCoverage(row) IN
           /\ n \in Row
           /\ n.status = "CAUGHT_UP" /\ n.gen = row.gen /\ n.kind = row.kind
           /\ n.cutoff = row.cutoff /\ n.proofGen = row.gen /\ n.proofCutoff = row.cutoff
           /\ n.required = Null /\ n.initial = Null /\ n.after = Null /\ n.afterGen = Null
           /\ n.ended /\ ~n.failed /\ n.active = row.active
           /\ n.finalDone <=> row.finalDone \/ row.kind = "INACTIVE_FINAL"
           /\ n.reactivation <=> row.reactivation /\ row.kind # "REACTIVATION"
           /\ n.reactivationAfter = (IF row.kind = "REACTIVATION" THEN Null ELSE row.reactivationAfter)
           /\ SameBounds(n, row) /\ SameIncremental(n, row)
<1> DEFINE f == row.finalDone \/ row.kind = "INACTIVE_FINAL"
           r == row.reactivation /\ row.kind # "REACTIVATION"
           a == IF row.kind = "REACTIVATION" THEN Null ELSE row.reactivationAfter
           n == [row EXCEPT !.status = "CAUGHT_UP", !.proofGen = row.gen,
                    !.proofCutoff = row.cutoff, !.required = Null, !.initial = Null,
                    !.after = Null, !.afterGen = Null, !.ended = TRUE, !.failed = FALSE,
                    !.finalDone = f, !.reactivation = r, !.reactivationAfter = a]
<1>1. /\ f \in BOOLEAN /\ r \in BOOLEAN /\ a \in Nat /\ Null \in Nat
      /\ row.gen \in Nat /\ row.cutoff \in Nat
      /\ "CAUGHT_UP" \in CoverageStatuses \cup {"UNKNOWN"}
  BY StatusTypes DEF Row
<1>2. CompleteCoverage(row) = n BY DEF CompleteCoverage
<1> HIDE DEF f, r, a
<1>3. n \in Row BY <1>1, ZenonT(30) DEF Row
<1>4. /\ n.status = "CAUGHT_UP" /\ n.gen = row.gen /\ n.kind = row.kind
      /\ n.cutoff = row.cutoff /\ n.proofGen = row.gen /\ n.proofCutoff = row.cutoff
      /\ n.required = Null /\ n.initial = Null /\ n.after = Null /\ n.afterGen = Null
      /\ n.ended /\ ~n.failed /\ n.active = row.active
      /\ n.finalDone = f /\ n.reactivation = r /\ n.reactivationAfter = a
  BY DEF Row
<1>5. SameBounds(n, row) /\ SameIncremental(n, row) BY DEF Row, SameBounds, SameIncremental
<1> HIDE DEF n
<1> QED BY <1>1, <1>2, <1>3, <1>4, <1>5 DEF f, r, a

LEMMA CompleteCoverageGood ==
    ASSUME NEW row, GoodRow(row), row.status = "BACKFILLING"
    PROVE  LET n == CompleteCoverage(row) IN GoodRow(n) /\ Known(n)
<1> DEFINE n == CompleteCoverage(row)
<1> SUFFICES GoodRow(n) /\ Known(n) OBVIOUS
<1>1. row \in Row /\ Readable(row) /\ Leased(row) BY DEF GoodRow, Known
<1>2. /\ n \in Row
      /\ n.status = "CAUGHT_UP" /\ n.gen = row.gen /\ n.kind = row.kind
      /\ n.cutoff = row.cutoff /\ n.proofGen = row.gen /\ n.proofCutoff = row.cutoff
      /\ n.required = Null /\ n.initial = Null /\ n.after = Null /\ n.afterGen = Null
      /\ n.ended /\ ~n.failed /\ n.active = row.active
      /\ n.finalDone <=> row.finalDone \/ row.kind = "INACTIVE_FINAL"
      /\ n.reactivation <=> row.reactivation /\ row.kind # "REACTIVATION"
      /\ n.reactivationAfter = (IF row.kind = "REACTIVATION" THEN Null ELSE row.reactivationAfter)
      /\ SameBounds(n, row) /\ SameIncremental(n, row)
  BY <1>1, CompleteCoverageFields
<1> HIDE DEF n
<1>3. /\ row.gen \in Nat \ {0} /\ AllowsCoverage(row, row.kind, row.gen)
      /\ row.kind # "none" /\ row.cutoff # Null /\ ~row.finalDone
      /\ row.reactivation => row.active
  BY <1>1 DEF Leased, Readable, CoverageReadable, FinalReadable, ReactivationReadable, Row
<1>4. BoundsReadable(n) BY <1>1, <1>2 DEF Readable, BoundsReadable, SameBounds
<1>5. ProofReadable(n) BY <1>2, <1>3 DEF ProofReadable, Null
<1>6. AnchorReadable(n) /\ TaskStartReadable(n) BY <1>2 DEF AnchorReadable, TaskStartReadable
<1>7. ~n.reactivation BY <1>2, <1>3 DEF AllowsCoverage
<1>8. ReactivationReadable(n)
  <2>1. n.reactivationAfter = Null
    BY <1>1, <1>2, <1>3, <1>7 DEF Readable, ReactivationReadable
  <2>2. n.reactivation \in BOOLEAN BY <1>2 DEF Row
  <2> QED BY <1>7, <2>1, <2>2 DEF ReactivationReadable
<1>9. FinalReadable(n) BY <1>2, <1>3 DEF FinalReadable, AllowsCoverage
<1>10. n.active = (n.kind # "INACTIVE_FINAL")
  <2>1. n.active \in BOOLEAN BY <1>2 DEF Row
  <2>2. n.active <=> n.kind # "INACTIVE_FINAL" BY <1>2, <1>3 DEF AllowsCoverage
  <2> QED BY <2>1, <2>2
<1>11. CoverageReadable(n)
  BY <1>2, <1>3, <1>10 DEF CoverageReadable, Null
<1>12. IncrementalReadable(n)
  BY <1>1, <1>2 DEF Readable, IncrementalReadable, SameIncremental, SameBounds
<1>13. Leased(n)
  BY <1>1, <1>2, <1>3, <1>7 DEF Leased, AllowsIncremental, SameIncremental, Null
<1> QED
  BY <1>2, <1>4, <1>5, <1>6, <1>8, <1>9, <1>11, <1>12, <1>13 DEF GoodRow, Readable, Known

LEMMA FailCoverageFields ==
    ASSUME NEW row \in Row
    PROVE  LET n == FailCoverage(row) IN
           /\ n \in Row
           /\ n.status = "INCOMPLETE" /\ n.gen = row.gen /\ n.kind = row.kind
           /\ n.cutoff = row.cutoff
           /\ n.required = Null /\ n.initial = Null /\ n.after = Null /\ n.afterGen = Null
           /\ n.ended /\ n.failed
           /\ SameMarket(n, row) /\ SameProof(n, row) /\ SameBounds(n, row)
           /\ SameIncremental(n, row)
<1> DEFINE n == [row EXCEPT !.status = "INCOMPLETE", !.required = Null, !.initial = Null,
                    !.after = Null, !.afterGen = Null, !.ended = TRUE, !.failed = TRUE]
<1>1. Null \in Nat /\ "INCOMPLETE" \in CoverageStatuses \cup {"UNKNOWN"} BY StatusTypes
<1>2. FailCoverage(row) = n BY DEF FailCoverage
<1>3. n \in Row BY <1>1, Zenon DEF Row
<1>4. /\ n.status = "INCOMPLETE" /\ n.gen = row.gen /\ n.kind = row.kind
      /\ n.cutoff = row.cutoff
      /\ n.required = Null /\ n.initial = Null /\ n.after = Null /\ n.afterGen = Null
      /\ n.ended /\ n.failed
  BY DEF Row
<1>5. SameMarket(n, row) /\ SameProof(n, row) /\ SameBounds(n, row) /\ SameIncremental(n, row)
  BY DEF Row, SameMarket, SameProof, SameBounds, SameIncremental
<1> HIDE DEF n
<1> QED BY <1>2, <1>3, <1>4, <1>5

LEMMA FailCoverageGood ==
    ASSUME NEW row, GoodRow(row), row.status = "BACKFILLING"
    PROVE  LET n == FailCoverage(row) IN GoodRow(n) /\ Known(n)
<1> DEFINE n == FailCoverage(row)
<1> SUFFICES GoodRow(n) /\ Known(n) OBVIOUS
<1>1. row \in Row /\ Readable(row) /\ Leased(row) BY DEF GoodRow, Known
<1>2. /\ n \in Row
      /\ n.status = "INCOMPLETE" /\ n.gen = row.gen /\ n.kind = row.kind
      /\ n.cutoff = row.cutoff
      /\ n.required = Null /\ n.initial = Null /\ n.after = Null /\ n.afterGen = Null
      /\ n.ended /\ n.failed
      /\ SameMarket(n, row) /\ SameProof(n, row) /\ SameBounds(n, row)
      /\ SameIncremental(n, row)
  BY <1>1, FailCoverageFields
<1> HIDE DEF n
<1>3. BoundsReadable(n) BY <1>1, <1>2 DEF Readable, BoundsReadable, SameBounds
<1>4. ProofReadable(n) BY <1>1, <1>2 DEF Readable, ProofReadable, SameProof
<1>5. AnchorReadable(n) /\ TaskStartReadable(n) BY <1>2 DEF AnchorReadable, TaskStartReadable
<1>6. ReactivationReadable(n) BY <1>1, <1>2 DEF Readable, ReactivationReadable, SameMarket
<1>7. FinalReadable(n) BY <1>1, <1>2 DEF Readable, FinalReadable, SameMarket
<1>8. CoverageReadable(n) BY <1>1, <1>2 DEF Readable, CoverageReadable
<1>9. IncrementalReadable(n)
  BY <1>1, <1>2 DEF Readable, IncrementalReadable, SameIncremental, SameBounds
<1>10. Leased(n)
  BY <1>1, <1>2 DEF Leased, AllowsIncremental, SameIncremental, SameMarket, SameProof
<1> QED
  BY <1>2, <1>3, <1>4, <1>5, <1>6, <1>7, <1>8, <1>9, <1>10 DEF GoodRow, Readable, Known

-----------------------------------------------------------------------------
(* Incremental tasks *)

LEMMA StartIncrementalFields ==
    ASSUME NEW row \in Row
    PROVE  LET n == StartIncremental(row) IN
           /\ n \in Row
           /\ n.incStatus = "RUNNING" /\ n.incGen = row.incGen + 1 /\ n.frozen = row.latest
           /\ ~n.incEnded /\ ~n.incFailed
           /\ SameMarket(n, row) /\ SameTask(n, row) /\ SameProof(n, row) /\ SameBounds(n, row)
<1> DEFINE g == row.incGen + 1
           n == [row EXCEPT !.incStatus = "RUNNING", !.incGen = g, !.frozen = row.latest,
                    !.incEnded = FALSE, !.incFailed = FALSE]
<1>1. g \in Nat /\ row.latest \in Nat /\ "RUNNING" \in IncrementalStatuses
  BY StatusTypes DEF Row
<1>2. StartIncremental(row) = n BY DEF StartIncremental
<1> HIDE DEF g
<1>3. n \in Row BY <1>1, Zenon DEF Row
<1>4. /\ n.incStatus = "RUNNING" /\ n.incGen = g /\ n.frozen = row.latest
      /\ ~n.incEnded /\ ~n.incFailed
  BY DEF Row
<1>5. SameMarket(n, row) /\ SameTask(n, row) /\ SameProof(n, row) /\ SameBounds(n, row)
  BY DEF Row, SameMarket, SameTask, SameProof, SameBounds
<1> HIDE DEF n
<1> QED BY <1>2, <1>3, <1>4, <1>5 DEF g

LEMMA FinishIncrementalFields ==
    ASSUME NEW row \in Row, NEW status \in {"IDLE", "INCOMPLETE"}
    PROVE  LET n == FinishIncremental(row, status) IN
           /\ n \in Row
           /\ n.incStatus = status /\ n.incGen = row.incGen /\ n.frozen = Null
           /\ n.incEnded /\ (n.incFailed <=> status = "INCOMPLETE")
           /\ SameMarket(n, row) /\ SameTask(n, row) /\ SameProof(n, row) /\ SameBounds(n, row)
<1> DEFINE f == status = "INCOMPLETE"
           n == [row EXCEPT !.incStatus = status, !.frozen = Null, !.incEnded = TRUE,
                    !.incFailed = f]
<1>1. status \in IncrementalStatuses /\ f \in BOOLEAN /\ Null \in Nat BY StatusTypes
<1>2. FinishIncremental(row, status) = n BY DEF FinishIncremental
<1> HIDE DEF f
<1>3. n \in Row BY <1>1, Zenon DEF Row
<1>4. /\ n.incStatus = status /\ n.incGen = row.incGen /\ n.frozen = Null
      /\ n.incEnded /\ n.incFailed = f
  BY DEF Row
<1>5. SameMarket(n, row) /\ SameTask(n, row) /\ SameProof(n, row) /\ SameBounds(n, row)
  BY DEF Row, SameMarket, SameTask, SameProof, SameBounds
<1> HIDE DEF n
<1> QED BY <1>2, <1>3, <1>4, <1>5 DEF f

\* A change that only moves the incremental task.
LEMMA IncrementalMoveGood ==
    ASSUME NEW row, GoodRow(row), Known(row), NEW n \in Row,
           SameMarket(n, row), SameTask(n, row), SameProof(n, row), SameBounds(n, row),
           IncrementalReadable(n), n.incStatus = "RUNNING" => AllowsIncremental(row)
    PROVE  GoodRow(n) /\ Known(n)
<1>1. row \in Row /\ Readable(row) /\ Leased(row) BY DEF GoodRow
<1>2. BoundsReadable(n) BY <1>1 DEF Readable, BoundsReadable, SameBounds
<1>3. ProofReadable(n) BY <1>1 DEF Readable, ProofReadable, SameProof, SameTask
<1>4. AnchorReadable(n) BY <1>1 DEF Readable, AnchorReadable, SameTask
<1>5. TaskStartReadable(n) BY <1>1 DEF Readable, TaskStartReadable, SameTask
<1>6. ReactivationReadable(n) BY <1>1 DEF Readable, ReactivationReadable, SameMarket, SameTask
<1>7. FinalReadable(n) BY <1>1 DEF Readable, FinalReadable, SameMarket, SameTask
<1>8. CoverageReadable(n)
  BY <1>1 DEF Readable, CoverageReadable, SameTask, SameProof, SameMarket
<1>9. Leased(n)
  BY <1>1 DEF Leased, AllowsCoverage, AllowsIncremental, SameMarket, SameProof, SameTask
<1> QED
  BY <1>2, <1>3, <1>4, <1>5, <1>6, <1>7, <1>8, <1>9 DEF GoodRow, Readable, Known, SameTask

LEMMA StartIncrementalGood ==
    ASSUME NEW row, GoodRow(row), Known(row), AllowsIncremental(row)
    PROVE  LET n == StartIncremental(row) IN GoodRow(n) /\ Known(n)
<1> DEFINE n == StartIncremental(row)
<1>1. row \in Row /\ BoundsReadable(row) BY DEF GoodRow, Readable
<1>2. /\ n \in Row
      /\ n.incStatus = "RUNNING" /\ n.frozen = row.latest /\ ~n.incEnded /\ ~n.incFailed
      /\ SameMarket(n, row) /\ SameTask(n, row) /\ SameProof(n, row) /\ SameBounds(n, row)
  BY <1>1, StartIncrementalFields
<1> HIDE DEF n
<1>3. IncrementalReadable(n) BY <1>1, <1>2 DEF IncrementalReadable, SameBounds, Row
<1>4. GoodRow(n) /\ Known(n) BY <1>2, <1>3, IncrementalMoveGood
<1> QED BY <1>4 DEF n

LEMMA FinishIncrementalGood ==
    ASSUME NEW row, GoodRow(row), Known(row), NEW status \in {"IDLE", "INCOMPLETE"}
    PROVE  LET n == FinishIncremental(row, status) IN GoodRow(n) /\ Known(n)
<1> DEFINE n == FinishIncremental(row, status)
<1>1. row \in Row BY DEF GoodRow
<1>2. /\ n \in Row
      /\ n.incStatus = status /\ n.frozen = Null
      /\ n.incEnded /\ (n.incFailed <=> status = "INCOMPLETE")
      /\ SameMarket(n, row) /\ SameTask(n, row) /\ SameProof(n, row) /\ SameBounds(n, row)
  BY <1>1, FinishIncrementalFields
<1> HIDE DEF n
<1>3. IncrementalReadable(n) BY <1>2 DEF IncrementalReadable
<1>4. GoodRow(n) /\ Known(n) BY <1>2, <1>3, IncrementalMoveGood
<1> QED BY <1>4 DEF n

-----------------------------------------------------------------------------
(* Discovery *)

LEMMA TransitionFields ==
    ASSUME NEW row \in Row, NEW active \in BOOLEAN
    PROVE  LET n == Transition(row, active) IN
           /\ n \in Row
           /\ n.active = active /\ n.reactivation = active /\ ~n.finalDone
           /\ n.reactivationAfter = (IF active THEN row.gen + 1 ELSE Null)
           /\ n.status = (IF StaysPending(row) THEN row.status ELSE "INCOMPLETE")
           /\ n.gen = row.gen + 1 /\ n.kind = row.kind /\ n.cutoff = row.cutoff
           /\ n.required = Null /\ n.initial = Null /\ n.after = Null /\ n.afterGen = Null
           /\ n.ended = ~StaysPending(row) /\ n.failed = ~StaysPending(row)
           /\ n.incStatus = (IF row.incStatus = "RUNNING" THEN "IDLE" ELSE row.incStatus)
           /\ n.incGen = (IF row.incStatus = "RUNNING" THEN row.incGen + 1 ELSE row.incGen)
           /\ n.frozen = Null /\ n.incFailed = row.incFailed
           /\ n.incEnded <=> row.incEnded \/ row.incStatus = "RUNNING"
           /\ SameProof(n, row) /\ SameBounds(n, row)
<1> DEFINE a == IF active THEN row.gen + 1 ELSE Null
           t == IF StaysPending(row) THEN row.status ELSE "INCOMPLETE"
           g == row.gen + 1
           e == ~StaysPending(row)
           i == IF row.incStatus = "RUNNING" THEN "IDLE" ELSE row.incStatus
           j == IF row.incStatus = "RUNNING" THEN row.incGen + 1 ELSE row.incGen
           d == row.incEnded \/ row.incStatus = "RUNNING"
           n == [row EXCEPT !.active = active, !.reactivation = active, !.reactivationAfter = a,
                    !.finalDone = FALSE, !.status = t, !.gen = g, !.required = Null,
                    !.initial = Null, !.after = Null, !.afterGen = Null,
                    !.ended = e, !.failed = e, !.incStatus = i, !.incGen = j, !.frozen = Null,
                    !.incEnded = d]
<1>1. /\ a \in Nat /\ g \in Nat /\ j \in Nat /\ Null \in Nat
      /\ t \in CoverageStatuses \cup {"UNKNOWN"} /\ i \in IncrementalStatuses
      /\ e \in BOOLEAN /\ d \in BOOLEAN
  BY StatusTypes DEF Row
<1>2. Transition(row, active) = n BY DEF Transition
<1> HIDE DEF a, t, g, e, i, j, d
<1>3. n \in Row BY <1>1, ZenonT(60) DEF Row
<1>4. /\ n.active = active /\ n.reactivation = active /\ ~n.finalDone
      /\ n.reactivationAfter = a /\ n.status = t
      /\ n.gen = g /\ n.kind = row.kind /\ n.cutoff = row.cutoff
      /\ n.required = Null /\ n.initial = Null /\ n.after = Null /\ n.afterGen = Null
  BY DEF Row
<1>5. /\ n.ended = e /\ n.failed = e
      /\ n.incStatus = i /\ n.incGen = j /\ n.frozen = Null /\ n.incFailed = row.incFailed
      /\ n.incEnded = d
  BY DEF Row
<1>6. SameProof(n, row) /\ SameBounds(n, row) BY DEF Row, SameProof, SameBounds
<1> HIDE DEF n
<1> QED BY <1>2, <1>3, <1>4, <1>5, <1>6 DEF a, t, g, e, i, j, d

LEMMA TransitionGood ==
    ASSUME NEW row, GoodRow(row), Known(row), NEW active \in BOOLEAN
    PROVE  LET n == Transition(row, active) IN GoodRow(n) /\ Known(n)
<1> DEFINE n == Transition(row, active)
<1> SUFFICES GoodRow(n) /\ Known(n) OBVIOUS
<1>1. row \in Row /\ Readable(row) /\ row.status # "UNKNOWN" BY DEF GoodRow, Known
<1>2. /\ n \in Row
      /\ n.active = active /\ n.reactivation = active /\ ~n.finalDone
      /\ n.reactivationAfter = (IF active THEN row.gen + 1 ELSE Null)
      /\ n.status = (IF StaysPending(row) THEN row.status ELSE "INCOMPLETE")
      /\ n.gen = row.gen + 1 /\ n.kind = row.kind /\ n.cutoff = row.cutoff
      /\ n.required = Null /\ n.initial = Null /\ n.after = Null /\ n.afterGen = Null
      /\ n.ended = ~StaysPending(row) /\ n.failed = ~StaysPending(row)
      /\ n.incStatus = (IF row.incStatus = "RUNNING" THEN "IDLE" ELSE row.incStatus)
      /\ n.frozen = Null /\ n.incFailed = row.incFailed
      /\ n.incEnded <=> row.incEnded \/ row.incStatus = "RUNNING"
      /\ SameProof(n, row) /\ SameBounds(n, row)
  BY <1>1, TransitionFields
<1> HIDE DEF n
<1>3. /\ n.status \in {"PENDING", "INCOMPLETE"}
      /\ n.incStatus # "RUNNING"
  BY <1>1, <1>2 DEF StaysPending, Row, IncrementalStatuses
<1>4. BoundsReadable(n) BY <1>1, <1>2 DEF Readable, BoundsReadable, SameBounds
<1>5. ProofReadable(n)
  <2>1. row.proofGen \in Nat /\ row.gen \in Nat /\ row.proofGen <= row.gen
    BY <1>1 DEF Readable, ProofReadable, CoverageReadable, Row, Null
  <2> QED BY <1>1, <1>2, <2>1 DEF Readable, ProofReadable, SameProof
<1>6. AnchorReadable(n) /\ TaskStartReadable(n)
  BY <1>2, <1>3 DEF AnchorReadable, TaskStartReadable
<1>7. ReactivationReadable(n)
  <2>1. row.gen + 1 # Null /\ row.gen \in Nat BY <1>1 DEF Row, Null
  <2> QED BY <1>2, <1>3, <2>1 DEF ReactivationReadable
<1>8. FinalReadable(n) BY <1>2 DEF FinalReadable
<1>9. CoverageReadable(n)
  <2>1. CASE StaysPending(row)
    BY <1>1, <1>2, <2>1 DEF Readable, CoverageReadable, StaysPending, SameProof
  <2>2. CASE ~StaysPending(row)
    <3>1. row.status # "PENDING"
      BY <1>1, <2>2 DEF Readable, CoverageReadable, StaysPending
    <3>2. row.kind # "none" /\ row.cutoff # Null
      BY <1>1, <3>1 DEF Readable, CoverageReadable
    <3> QED BY <1>2, <2>2, <3>2 DEF CoverageReadable
  <2> QED BY <2>1, <2>2
<1>10. IncrementalReadable(n)
  BY <1>1, <1>2 DEF Readable, IncrementalReadable
<1>11. Leased(n) BY <1>3 DEF Leased
<1> QED
  BY <1>2, <1>3, <1>4, <1>5, <1>6, <1>7, <1>8, <1>9, <1>10, <1>11 DEF GoodRow, Readable, Known

LEMMA ObserveGood ==
    ASSUME NEW row, GoodRow(row), NEW active \in BOOLEAN
    PROVE  GoodRow(Observe(row, active))
BY TransitionGood, NewRowGood DEF Observe

-----------------------------------------------------------------------------
(* The queues only ever hold tasks that were put into them.  The order of  *)
(* the market ids is a CHOOSE over enumerations, so the point is that one  *)
(* exists; induction over finite sets is done by a smallest counterexample. *)

\* A family of finite sets has a member with no smaller one in the family.
LEMMA SmallestSet ==
    \A A : \A F \in SUBSET FiniteSubsetsOf(A) :
        F # {} => \E U \in F : \A V \in F : ~(V \subseteq U /\ V # U)
<1> SUFFICES ASSUME NEW A, NEW F \in SUBSET FiniteSubsetsOf(A), F # {}
             PROVE  \E U \in F : \A V \in F : ~(V \subseteq U /\ V # U)
  OBVIOUS
<1>1. IsWellFoundedOn(StrictSubsetOrdering(A), FiniteSubsetsOf(A))
  BY FS_StrictSubsetOrderingWellFounded
<1>2. PICK U \in F : \A V \in F : <<V, U>> \notin StrictSubsetOrdering(A)
  BY <1>1, WFMin
<1>3. ASSUME NEW V \in F, V \subseteq U, V # U PROVE FALSE
  <2>1. <<V, U>> \in (SUBSET A) \X (SUBSET A) BY DEF FiniteSubsetsOf
  <2>2. <<V, U>> \in StrictSubsetOrdering(A) BY <1>3, <2>1 DEF StrictSubsetOrdering
  <2> QED BY <1>2, <2>2
<1> QED BY <1>3

LEMMA LowestNumber ==
    ASSUME NEW S \in SUBSET Nat, IsFiniteSet(S), S # {}
    PROVE  \E x \in S : \A y \in S : x <= y
<1> DEFINE HasLowest(U) == \E x \in U : \A y \in U : x <= y
           F == {U \in FiniteSubsetsOf(Nat) : U # {} /\ ~HasLowest(U)}
<1> SUFFICES ASSUME ~HasLowest(S) PROVE FALSE OBVIOUS
<1>1. S \in F /\ F \in SUBSET FiniteSubsetsOf(Nat) BY DEF FiniteSubsetsOf
<1>2. PICK U \in F : \A V \in F : ~(V \subseteq U /\ V # U)
  <2> HIDE DEF F
  <2>1. F # {} BY <1>1
  <2> QED BY <1>1, <2>1, SmallestSet
<1>3. U \in SUBSET Nat /\ IsFiniteSet(U) /\ U # {} /\ ~HasLowest(U)
  BY DEF FiniteSubsetsOf
<1>4. PICK x \in U : TRUE BY <1>3
<1> DEFINE V == U \ {x}
<1>5. IsFiniteSet(V) /\ V \in SUBSET Nat /\ V \subseteq U /\ V # U
  BY <1>3, <1>4, FS_RemoveElement
<1>6. V \notin F BY <1>2, <1>5
<1>7. V = {} \/ HasLowest(V) BY <1>5, <1>6 DEF FiniteSubsetsOf
<1>8. CASE V = {}
  <2>1. \A y \in U : y = x BY <1>8
  <2> QED BY <1>3, <1>4, <2>1
<1>9. CASE HasLowest(V)
  <2>1. PICK l \in V : \A y \in V : l <= y BY <1>9
  <2>2. \A y \in U : y = x \/ l <= y BY <2>1
  <2>3. CASE l <= x BY <1>3, <2>1, <2>2, <2>3
  <2>4. CASE x <= l
    <3>1. \A y \in U : x <= y BY <1>3, <1>4, <2>1, <2>2, <2>4
    <3> QED BY <1>3, <1>4, <3>1
  <2> QED BY <1>3, <1>4, <2>1, <2>3, <2>4
<1> QED BY <1>7, <1>8, <1>9

LEMMA HighestNumber ==
    ASSUME NEW S \in SUBSET Nat, IsFiniteSet(S), S # {}
    PROVE  \E x \in S : \A y \in S : y <= x
<1> DEFINE HasHighest(U) == \E x \in U : \A y \in U : y <= x
           F == {U \in FiniteSubsetsOf(Nat) : U # {} /\ ~HasHighest(U)}
<1> SUFFICES ASSUME ~HasHighest(S) PROVE FALSE OBVIOUS
<1>1. S \in F /\ F \in SUBSET FiniteSubsetsOf(Nat) BY DEF FiniteSubsetsOf
<1>2. PICK U \in F : \A V \in F : ~(V \subseteq U /\ V # U)
  <2> HIDE DEF F
  <2>1. F # {} BY <1>1
  <2> QED BY <1>1, <2>1, SmallestSet
<1>3. U \in SUBSET Nat /\ IsFiniteSet(U) /\ U # {} /\ ~HasHighest(U)
  BY DEF FiniteSubsetsOf
<1>4. PICK x \in U : TRUE BY <1>3
<1> DEFINE V == U \ {x}
<1>5. IsFiniteSet(V) /\ V \in SUBSET Nat /\ V \subseteq U /\ V # U
  BY <1>3, <1>4, FS_RemoveElement
<1>6. V \notin F BY <1>2, <1>5
<1>7. V = {} \/ HasHighest(V) BY <1>5, <1>6 DEF FiniteSubsetsOf
<1>8. CASE V = {}
  <2>1. \A y \in U : y = x BY <1>8
  <2> QED BY <1>3, <1>4, <2>1
<1>9. CASE HasHighest(V)
  <2>1. PICK h \in V : \A y \in V : y <= h BY <1>9
  <2>2. \A y \in U : y = x \/ y <= h BY <2>1
  <2>3. CASE x <= h BY <1>3, <2>1, <2>2, <2>3
  <2>4. CASE h <= x
    <3>1. \A y \in U : y <= x BY <1>3, <1>4, <2>1, <2>2, <2>4
    <3> QED BY <1>3, <1>4, <3>1
  <2> QED BY <1>3, <1>4, <2>1, <2>3, <2>4
<1> QED BY <1>7, <1>8, <1>9

\* A finite set can be listed by increasing key.
Listed(U, key, ts) ==
    /\ ts \in [1 .. Cardinality(U) -> U]
    /\ \A i, j \in DOMAIN ts : i < j => key[ts[i]] < key[ts[j]]

LEMMA ListExtends ==
    ASSUME NEW U, IsFiniteSet(U), NEW x \in U, NEW key, \A y \in U : key[y] \in Nat,
           \A y \in U \ {x} : key[y] < key[x],
           NEW ts, Listed(U \ {x}, key, ts)
    PROVE  \E us : Listed(U, key, us)
<1> DEFINE V == U \ {x}
           n == Cardinality(U)
           us == [i \in 1 .. n |-> IF i = n THEN x ELSE ts[i]]
<1>1. Cardinality(V) = n - 1 /\ n \in Nat /\ n # 0
  BY FS_RemoveElement, FS_CardinalityType, FS_EmptySet
<1>2. /\ ts \in [1 .. n - 1 -> V]
      /\ \A i, j \in 1 .. n - 1 : i < j => key[ts[i]] < key[ts[j]]
  BY <1>1 DEF Listed
<1>3. us \in [1 .. n -> U] BY <1>1, <1>2
<1>4. ASSUME NEW i \in 1 .. n, NEW j \in 1 .. n, i < j PROVE key[us[i]] < key[us[j]]
  <2>1. i \in 1 .. n - 1 /\ us[i] = ts[i] /\ ts[i] \in V BY <1>1, <1>2, <1>4
  <2>2. CASE j = n
    <3>1. us[j] = x BY <2>2
    <3> QED BY <2>1, <3>1
  <2>3. CASE j # n
    <3>1. j \in 1 .. n - 1 /\ us[j] = ts[j] BY <1>1, <2>3
    <3> QED BY <1>2, <1>4, <2>1, <3>1
  <2> QED BY <2>2, <2>3
<1>5. DOMAIN us = 1 .. n OBVIOUS
<1>6. Listed(U, key, us)
  <2> HIDE DEF us
  <2> QED BY <1>3, <1>4, <1>5 DEF Listed
<1> QED BY <1>6

LEMMA HighestKey ==
    ASSUME NEW U, IsFiniteSet(U), U # {}, NEW key, \A y \in U : key[y] \in Nat
    PROVE  \E x \in U : \A y \in U : key[y] <= key[x]
<1> DEFINE K == {key[y] : y \in U}
           f == [y \in U |-> key[y]]
<1>1. f \in Surjection(U, K) BY DEF Surjection
<1>2. IsFiniteSet(K) BY <1>1, FS_Surjection
<1>3. K \in SUBSET Nat /\ K # {} OBVIOUS
<1>4. PICK h \in K : \A k \in K : k <= h BY <1>2, <1>3, HighestNumber
<1>5. PICK x \in U : h = key[x] OBVIOUS
<1> QED BY <1>4, <1>5

LEMMA ListExists ==
    ASSUME NEW T, IsFiniteSet(T), NEW key, \A y \in T : key[y] \in Nat,
           \A x, y \in T : key[x] = key[y] => x = y
    PROVE  \E ts : Listed(T, key, ts)
<1> DEFINE HasList(U) == \E ts : Listed(U, key, ts)
           F == {U \in FiniteSubsetsOf(T) : ~HasList(U)}
<1> SUFFICES ASSUME ~HasList(T) PROVE FALSE OBVIOUS
<1>1. T \in F /\ F \in SUBSET FiniteSubsetsOf(T) BY DEF FiniteSubsetsOf
<1>2. PICK U \in F : \A V \in F : ~(V \subseteq U /\ V # U)
  <2> HIDE DEF F
  <2>1. F # {} BY <1>1
  <2> QED BY <1>1, <2>1, SmallestSet
<1>3. U \subseteq T /\ IsFiniteSet(U) /\ ~HasList(U) BY DEF FiniteSubsetsOf
<1>4. U # {}
  <2> SUFFICES ASSUME U = {} PROVE FALSE OBVIOUS
  <2>1. Cardinality(U) = 0 BY FS_EmptySet
  <2>2. Listed(U, key, [i \in 1 .. 0 |-> 0]) BY <2>1 DEF Listed
  <2> QED BY <1>3, <2>2
<1>5. \A y \in U : key[y] \in Nat BY <1>3
<1>6. PICK x \in U : \A y \in U : key[y] <= key[x] BY <1>3, <1>4, <1>5, HighestKey
<1>7. \A y \in U \ {x} : key[y] < key[x] BY <1>3, <1>5, <1>6
<1>8. U \ {x} \subseteq U /\ U \ {x} # U /\ U \ {x} \in FiniteSubsetsOf(T)
  BY <1>3, FS_RemoveElement DEF FiniteSubsetsOf
<1>9. HasList(U \ {x}) BY <1>2, <1>8
<1>10. HasList(U) BY <1>3, <1>5, <1>7, <1>9, ListExtends
<1> QED BY <1>3, <1>10

-----------------------------------------------------------------------------
(* The queues *)

LEMMA MarketsFinite == IsFiniteSet(Markets)
<1>1. Len(MarketSeq) \in Nat /\ DOMAIN MarketSeq = 1 .. Len(MarketSeq)
  BY MarketAssumption
<1>2. MarketSeq \in Surjection(1 .. Len(MarketSeq), Markets)
  BY <1>1, MarketAssumption DEF Markets, Surjection
<1> QED BY <1>1, <1>2, FS_Interval, FS_Surjection

LEMMA PlaceOfMarket ==
    ASSUME NEW m \in Markets
    PROVE  Place[m] \in Nat /\ MarketSeq[Place[m]] = m
<1>1. \E i \in DOMAIN MarketSeq : MarketSeq[i] = m BY DEF Markets
<1>2. Place[m] \in DOMAIN MarketSeq /\ MarketSeq[Place[m]] = m BY <1>1 DEF Place
<1>3. DOMAIN MarketSeq \subseteq Nat BY MarketAssumption
<1> QED BY <1>2, <1>3

\* At most one task of T for each market.
OnePerMarket(T) ==
    /\ \A t \in T : t.m \in Markets
    /\ \A t, u \in T : t.m = u.m => t = u

\* InOrder lists every task of T once.
LEMMA InOrderListsTasks ==
    ASSUME NEW T, OnePerMarket(T)
    PROVE  /\ InOrder(T) \in Seq(T)
           /\ \A t \in T : \E i \in DOMAIN InOrder(T) : InOrder(T)[i] = t
           /\ \A i, j \in DOMAIN InOrder(T) : InOrder(T)[i] = InOrder(T)[j] => i = j
<1> DEFINE key == [t \in T |-> Place[t.m]]
           f == [t \in T |-> t.m]
           n == Cardinality(T)
           us == InOrder(T)
<1>1. f \in Injection(T, Markets) BY DEF OnePerMarket, Injection, IsInjective
<1>2. IsFiniteSet(T) BY <1>1, MarketsFinite, FS_Injection
<1>3. \A t \in T : key[t] \in Nat BY PlaceOfMarket DEF OnePerMarket
<1>4. \A t, u \in T : key[t] = key[u] => t = u BY PlaceOfMarket DEF OnePerMarket
<1>5. PICK ts : Listed(T, key, ts)
  <2> HIDE DEF key
  <2> QED BY <1>2, <1>3, <1>4, ListExists
<1>6. /\ ts \in [1 .. n -> T]
      /\ \A i, j \in DOMAIN ts : i < j => Place[ts[i].m] < Place[ts[j].m]
  BY <1>5 DEF Listed
<1>7. /\ us \in [1 .. n -> T]
      /\ \A i, j \in DOMAIN us : i < j => Place[us[i].m] < Place[us[j].m]
  BY <1>6 DEF InOrder
<1>8. n \in Nat BY <1>2, FS_CardinalityType
<1> HIDE DEF n, us
<1>9. ASSUME NEW i \in 1 .. n, NEW j \in 1 .. n, us[i] = us[j] PROVE i = j
  <2>1. us[i] \in T /\ us[i].m \in Markets BY <1>7 DEF OnePerMarket
  <2>2. Place[us[i].m] \in Nat BY <2>1, PlaceOfMarket
  <2> QED BY <1>7, <1>8, <1>9, <2>2
<1>10. us \in Injection(1 .. n, T) BY <1>7, <1>9 DEF Injection, IsInjective
<1>11. Cardinality(1 .. n) = n
  <2>1. 1 \in Int /\ n \in Int BY <1>8
  <2>2. Cardinality(1 .. n) = IF 1 > n THEN 0 ELSE n - 1 + 1 BY <2>1, FS_Interval, Zenon
  <2> QED BY <1>8, <2>2
<1>12. us \in Surjection(1 .. n, T) BY <1>2, <1>10, <1>11, FS_Injection DEF n
<1>13. \A t \in T : \E i \in 1 .. n : us[i] = t BY <1>12 DEF Surjection
<1> QED BY <1>7, <1>8, <1>9, <1>13 DEF us

-----------------------------------------------------------------------------
(* The invariant *)

\* Positions and cutoffs are times that have passed.
Timely(row, n) ==
    /\ row.after <= n /\ row.initial <= n /\ row.cutoff <= n /\ row.proofCutoff <= n
    /\ row.status = "BACKFILLING" => row.proofCutoff <= row.cutoff

\* What an OKX row claims is in the history h: the proof, and the part a walk has behind it.
Stored(row, h) ==
    Exchange = "okx" =>
        /\ 1 .. row.proofCutoff \subseteq h
        /\ row.status = "BACKFILLING" /\ row.after # Null => row.after .. row.cutoff \subseteq h

GoodMarket(row, h, n) == GoodRow(row) /\ Timely(row, n) /\ Stored(row, h) /\ h \subseteq 1 .. n

GoodMarkets(rs, H, n) ==
    rs \in [Markets -> Row] /\ \A m \in Markets : GoodMarket(rs[m], H[m], n)

\* A walk is not above where it started, and has stored what lies between it and its cutoff.
Walked(t, h, n) ==
    /\ t.initial # Null => t.after # Null /\ t.after <= t.initial
    /\ Exchange = "okx" /\ t.after # Null => t.after <= n /\ t.after .. t.cutoff \subseteq h

GoodTask(t, H, n) ==
    /\ t \in Task
    /\ t.job # "discovery" => t.m \in Markets
    /\ t.job = "coverage" => Walked(t, H[t.m], n)

GoodTasks(H, n) == {t \in Task : GoodTask(t, H, n)}

TasksGood ==
    /\ current \in GoodTasks(hist, now) \cup {NoTask}
    /\ queue \in [CategoryNames -> Seq(GoodTasks(hist, now))]

\* Nothing is on the wire before the start and after the stop.
Idle == life \in {"new", "stopped"} => current = NoTask

FundingInv == TypeOK /\ GoodMarkets(rows, hist, now) /\ TasksGood /\ Idle

-----------------------------------------------------------------------------
(* What the repository is asked for *)

\* The kind that is due is one the row may be started for.
LEMMA DueKindMayStart ==
    ASSUME NEW row, GoodRow(row), NEW due \in BOOLEAN, CoverageKindDue(row, due) # "none"
    PROVE  /\ Known(row)
           /\ CoverageKindDue(row, due) \in CoverageKinds
           /\ MayStartCoverage(row, CoverageKindDue(row, due))
<1> DEFINE k == CoverageKindDue(row, due)
<1> SUFFICES Known(row) /\ k \in CoverageKinds /\ MayStartCoverage(row, k) OBVIOUS
<1>1. Known(row) /\ row.status # "BACKFILLING" BY DEF CoverageKindDue, Known
<1>2. row \in Row /\ Readable(row) BY <1>1 DEF GoodRow
<1>3. CASE row.reactivation
  <2>1. k = "REACTIVATION" BY <1>1, <1>3 DEF CoverageKindDue, Known
  <2>2. row.active /\ row.reactivationAfter <= row.gen
    BY <1>2, <1>3 DEF Readable, ReactivationReadable
  <2>3. row.gen + 1 > row.reactivationAfter BY <1>2, <2>2 DEF Row
  <2> HIDE DEF k
  <2> QED BY <1>1, <1>3, <2>1, <2>2, <2>3 DEF MayStartCoverage, AllowsCoverage, CoverageKinds
<1>4. CASE ~row.reactivation /\ ~row.active
  <2>1. k = "INACTIVE_FINAL" /\ ~row.finalDone BY <1>1, <1>4 DEF CoverageKindDue, Known
  <2> HIDE DEF k
  <2> QED BY <1>1, <1>4, <2>1 DEF MayStartCoverage, AllowsCoverage, CoverageKinds
<1>5. CASE ~row.reactivation /\ row.active
  <2>1. k \in {"INITIAL", "PERIODIC"} BY <1>1, <1>5 DEF CoverageKindDue, Known
  <2> HIDE DEF k
  <2> QED BY <1>1, <1>5, <2>1 DEF MayStartCoverage, AllowsCoverage, CoverageKinds
<1> QED BY <1>2, <1>3, <1>4, <1>5 DEF Row

LEMMA DueIncrementalAllowed ==
    ASSUME NEW row, GoodRow(row), NEW due \in BOOLEAN, IncrementalDue(row, due)
    PROVE  Known(row) /\ AllowsIncremental(row)
BY DEF IncrementalDue, AllowsIncremental, GoodRow, NoRow, Known

LEMMA GoodRowNotRefused ==
    ASSUME NEW row, GoodRow(row)
    PROVE  /\ row.status = "BACKFILLING" => AllowsCoverage(row, row.kind, row.gen + 1)
           /\ row.incStatus = "RUNNING" => AllowsIncremental(row)
           /\ \A due \in BOOLEAN :
                /\ CoverageKindDue(row, due) # "none" =>
                    MayStartCoverage(row, CoverageKindDue(row, due))
                /\ IncrementalDue(row, due) => AllowsIncremental(row)
<1>1. row \in Row /\ (Known(row) => Leased(row)) /\ (~Known(row) => row = NoRow)
  BY DEF GoodRow
<1>2. ASSUME row.status = "BACKFILLING" PROVE AllowsCoverage(row, row.kind, row.gen + 1)
  <2>1. AllowsCoverage(row, row.kind, row.gen) BY <1>1, <1>2 DEF Known, Leased
  <2> QED BY <1>1, <2>1 DEF AllowsCoverage, Row
<1>3. ASSUME row.incStatus = "RUNNING" PROVE AllowsIncremental(row)
  BY <1>1, <1>3 DEF Leased, NoRow
<1> QED BY <1>2, <1>3, DueKindMayStart, DueIncrementalAllowed

-----------------------------------------------------------------------------
(* The transactions on a row and the history of its market *)

\* A transaction that leaves the walk and the proof alone, while history and time go on.
LEMMA WalkUntouched ==
    ASSUME NEW row, NEW h, NEW n \in Nat, GoodMarket(row, h, n),
           NEW r, GoodRow(r), r.status = row.status, r.after = row.after,
           r.initial = row.initial, r.cutoff = row.cutoff, r.proofCutoff = row.proofCutoff,
           NEW g, NEW k \in Nat, n <= k, h \subseteq g, g \subseteq 1 .. k
    PROVE  GoodMarket(r, g, k)
<1>1. row \in Row /\ Timely(row, n) /\ Stored(row, h) BY DEF GoodMarket, GoodRow
<1>2. Timely(r, k) BY <1>1 DEF Timely, Row
<1>3. Stored(r, g) BY <1>1 DEF Stored
<1> QED BY <1>2, <1>3 DEF GoodMarket

\* A transaction that ends the walk without a proof, or finds none.
LEMMA WalkEnds ==
    ASSUME NEW row, NEW h, NEW n \in Nat, GoodMarket(row, h, n),
           NEW r, GoodRow(r), r.status # "BACKFILLING", r.after = Null, r.initial = Null,
           r.cutoff = row.cutoff, r.proofCutoff = row.proofCutoff
    PROVE  GoodMarket(r, h, n)
BY DEF GoodMarket, Timely, Stored, Null

LEMMA StartedMarketGood ==
    ASSUME NEW row, NEW h, NEW n \in Nat \ {0}, GoodMarket(row, h, n), Known(row),
           NEW kind \in CoverageKinds, MayStartCoverage(row, kind)
    PROVE  LET r == StartCoverage(row, kind, n) IN GoodMarket(r, h, n) /\ Known(r)
<1> DEFINE r == StartCoverage(row, kind, n)
<1> SUFFICES GoodMarket(r, h, n) /\ Known(r) OBVIOUS
<1>1. row \in Row /\ GoodRow(row) /\ Timely(row, n) /\ Stored(row, h) /\ h \subseteq 1 .. n
  BY DEF GoodMarket, GoodRow
<1>2. GoodRow(r) /\ Known(r) BY <1>1, StartCoverageGood
<1>3. /\ r.initial = Null /\ r.after = Null /\ r.cutoff = n
      /\ r.proofCutoff = row.proofCutoff
  BY <1>1, StartCoverageFields DEF SameProof
<1> HIDE DEF r
<1>4. Timely(r, n) BY <1>1, <1>3 DEF Timely, Row, Null
<1>5. Stored(r, h) BY <1>1, <1>3 DEF Stored
<1> QED BY <1>1, <1>2, <1>4, <1>5 DEF GoodMarket

LEMMA ResumedMarketGood ==
    ASSUME NEW row, NEW h, NEW n \in Nat, GoodMarket(row, h, n), row.status = "BACKFILLING"
    PROVE  LET r == ResumeCoverage(row) IN
           GoodMarket(r, h, n) /\ r.status = "BACKFILLING" /\ SameMarket(r, row)
           /\ SameProof(r, row) /\ r.incStatus = row.incStatus
<1> DEFINE r == ResumeCoverage(row)
<1> SUFFICES GoodMarket(r, h, n) /\ r.status = "BACKFILLING" /\ SameMarket(r, row)
             /\ SameProof(r, row) /\ r.incStatus = row.incStatus
  OBVIOUS
<1>1. row \in Row /\ GoodRow(row) /\ Timely(row, n) /\ Stored(row, h) /\ h \subseteq 1 .. n
  BY DEF GoodMarket, GoodRow
<1>2. GoodRow(r) BY <1>1, ResumeCoverageGood
<1>3. /\ r.initial = (IF Exchange = "okx" THEN row.after ELSE Null) /\ r.after = row.after
      /\ r.cutoff = row.cutoff /\ r.status = row.status
      /\ SameMarket(r, row) /\ SameProof(r, row) /\ r.incStatus = row.incStatus
  BY <1>1, ResumeCoverageFields DEF SameIncremental
<1> HIDE DEF r
<1>4. Timely(r, n) BY <1>1, <1>3 DEF Timely, Row, Null, SameProof
<1>5. Stored(r, h) BY <1>1, <1>3 DEF Stored, SameProof
<1> QED BY <1>1, <1>2, <1>3, <1>4, <1>5 DEF GoodMarket

\* A page of a walk from position top down to lo.
LEMMA CommittedMarketGood ==
    ASSUME NEW row, NEW h, NEW n \in Nat, GoodMarket(row, h, n), row.status = "BACKFILLING",
           NEW page, page \subseteq 1 .. n,
           NEW lo \in page, NEW hi \in page, \A u \in page : lo <= u /\ u <= hi,
           row.initial # Null => hi <= row.initial,
           Exchange = "okx" => hi .. row.cutoff \subseteq h \cup page
    PROVE  LET r == CommitCoverage(row, lo, hi) IN GoodMarket(r, h \cup page, n)
<1> DEFINE r == CommitCoverage(row, lo, hi)
<1> SUFFICES GoodMarket(r, h \cup page, n) OBVIOUS
<1>1. row \in Row /\ GoodRow(row) /\ Timely(row, n) /\ Stored(row, h) /\ h \subseteq 1 .. n
  BY DEF GoodMarket, GoodRow
<1>2. lo \in Nat \ {0} /\ hi \in Nat /\ lo <= hi /\ hi <= n OBVIOUS
<1>3. GoodRow(r) BY <1>1, <1>2, CommitCoverageGood
<1>4. /\ r.initial = row.initial /\ r.after = (IF Exchange = "okx" THEN hi ELSE Null)
      /\ r.cutoff = row.cutoff /\ r.status = row.status
      /\ SameProof(r, Widen(row, lo, hi)) /\ SameProof(Widen(row, lo, hi), row)
  BY <1>1, <1>2, CommitCoverageFields, WidenFields
<1> HIDE DEF r
<1>5. Timely(r, n) BY <1>1, <1>2, <1>4 DEF Timely, Row, Null, SameProof
<1>6. Stored(r, h \cup page) BY <1>1, <1>4 DEF Stored, SameProof
<1> QED BY <1>1, <1>3, <1>5, <1>6 DEF GoodMarket

LEMMA CompletedMarketGood ==
    ASSUME NEW row, NEW h, NEW n \in Nat, GoodMarket(row, h, n), row.status = "BACKFILLING",
           Exchange = "okx" => 1 .. row.cutoff \subseteq h
    PROVE  LET r == CompleteCoverage(row) IN GoodMarket(r, h, n)
<1> DEFINE r == CompleteCoverage(row)
<1> SUFFICES GoodMarket(r, h, n) OBVIOUS
<1>1. row \in Row /\ GoodRow(row) /\ Timely(row, n) /\ Stored(row, h) /\ h \subseteq 1 .. n
  BY DEF GoodMarket, GoodRow
<1>2. GoodRow(r) BY <1>1, CompleteCoverageGood
<1>3. /\ r.initial = Null /\ r.after = Null /\ r.cutoff = row.cutoff
      /\ r.proofCutoff = row.cutoff /\ r.status = "CAUGHT_UP"
  BY <1>1, CompleteCoverageFields
<1> HIDE DEF r
<1>4. Timely(r, n) BY <1>1, <1>3 DEF Timely, Row, Null
<1>5. Stored(r, h) BY <1>3 DEF Stored
<1> QED BY <1>1, <1>2, <1>4, <1>5 DEF GoodMarket

LEMMA FailedMarketGood ==
    ASSUME NEW row, NEW h, NEW n \in Nat, GoodMarket(row, h, n), row.status = "BACKFILLING"
    PROVE  LET r == FailCoverage(row) IN GoodMarket(r, h, n)
<1> DEFINE r == FailCoverage(row)
<1> SUFFICES GoodMarket(r, h, n) OBVIOUS
<1>1. row \in Row /\ GoodRow(row) BY DEF GoodMarket, GoodRow
<1>2. GoodRow(r) BY <1>1, FailCoverageGood
<1>3. /\ r.initial = Null /\ r.after = Null /\ r.cutoff = row.cutoff
      /\ r.proofCutoff = row.proofCutoff /\ r.status = "INCOMPLETE"
  BY <1>1, FailCoverageFields DEF SameProof
<1> HIDE DEF r
<1> QED BY <1>2, <1>3, WalkEnds

LEMMA ObservedMarketGood ==
    ASSUME NEW row, NEW h, NEW n \in Nat, GoodMarket(row, h, n), NEW active \in BOOLEAN
    PROVE  GoodMarket(Observe(row, active), h, n)
<1>1. row \in Row /\ GoodRow(row) BY DEF GoodMarket, GoodRow
<1>2. CASE Known(row) /\ row.active # active
  <2> DEFINE r == Transition(row, active)
  <2>1. GoodRow(r) BY <1>1, <1>2, TransitionGood
  <2>2. /\ r.initial = Null /\ r.after = Null /\ r.cutoff = row.cutoff
        /\ r.proofCutoff = row.proofCutoff /\ r.status # "BACKFILLING"
    BY <1>1, TransitionFields DEF SameProof, StaysPending
  <2>3. Observe(row, active) = r BY <1>2 DEF Observe
  <2> HIDE DEF r
  <2> QED BY <2>1, <2>2, <2>3, WalkEnds
<1>3. CASE ~Known(row) /\ active
  <2>1. row = NoRow BY <1>1, <1>3 DEF GoodRow
  <2>2. Observe(row, active) = NewRow BY <1>3 DEF Observe
  <2>3. /\ NewRow.status # "BACKFILLING" /\ NewRow.after = Null /\ NewRow.initial = Null
        /\ NewRow.cutoff = NoRow.cutoff /\ NewRow.proofCutoff = NoRow.proofCutoff
    BY DEF NewRow, NoRow
  <2> QED BY <2>1, <2>2, <2>3, NewRowGood, WalkEnds
<1> QED BY <1>2, <1>3 DEF Observe

LEMMA WidenedMarketGood ==
    ASSUME NEW row, NEW h, NEW n \in Nat, GoodMarket(row, h, n), Known(row),
           NEW page, page \subseteq 1 .. n, NEW lo \in page, NEW hi \in page, lo <= hi
    PROVE  GoodMarket(Widen(row, lo, hi), h \cup page, n)
<1> DEFINE r == Widen(row, lo, hi)
<1>1. row \in Row /\ GoodRow(row) /\ h \subseteq 1 .. n BY DEF GoodMarket, GoodRow
<1>2. lo \in Nat \ {0} /\ hi \in Nat OBVIOUS
<1>3. GoodRow(r) BY <1>1, <1>2, WidenGood
<1>4. /\ r.status = row.status /\ r.after = row.after /\ r.initial = row.initial
      /\ r.cutoff = row.cutoff /\ r.proofCutoff = row.proofCutoff
  BY <1>1, <1>2, WidenFields DEF SameTask, SameProof
<1> SUFFICES GoodMarket(r, h \cup page, n) OBVIOUS
<1> HIDE DEF r
<1>5. h \subseteq h \cup page /\ h \cup page \subseteq 1 .. n /\ n <= n BY <1>1
<1> QED BY <1>3, <1>4, <1>5, WalkUntouched

LEMMA FetchingMarketGood ==
    ASSUME NEW row, NEW h, NEW n \in Nat, GoodMarket(row, h, n), Known(row),
           AllowsIncremental(row)
    PROVE  GoodMarket(StartIncremental(row), h, n) /\ Known(StartIncremental(row))
<1> DEFINE r == StartIncremental(row)
<1>1. row \in Row /\ GoodRow(row) /\ h \subseteq 1 .. n BY DEF GoodMarket, GoodRow
<1>2. GoodRow(r) /\ Known(r) BY <1>1, StartIncrementalGood
<1>3. /\ r.status = row.status /\ r.after = row.after /\ r.initial = row.initial
      /\ r.cutoff = row.cutoff /\ r.proofCutoff = row.proofCutoff
  BY <1>1, StartIncrementalFields DEF SameTask, SameProof
<1> SUFFICES GoodMarket(r, h, n) /\ Known(r) OBVIOUS
<1> HIDE DEF r
<1>4. h \subseteq h /\ n <= n OBVIOUS
<1> QED BY <1>1, <1>2, <1>3, <1>4, WalkUntouched

LEMMA FetchedMarketGood ==
    ASSUME NEW row, NEW h, NEW n \in Nat, GoodMarket(row, h, n), Known(row),
           NEW status \in {"IDLE", "INCOMPLETE"}
    PROVE  GoodMarket(FinishIncremental(row, status), h, n)
<1> DEFINE r == FinishIncremental(row, status)
<1>1. row \in Row /\ GoodRow(row) /\ h \subseteq 1 .. n BY DEF GoodMarket, GoodRow
<1>2. GoodRow(r) BY <1>1, FinishIncrementalGood
<1>3. /\ r.status = row.status /\ r.after = row.after /\ r.initial = row.initial
      /\ r.cutoff = row.cutoff /\ r.proofCutoff = row.proofCutoff
  BY <1>1, FinishIncrementalFields DEF SameTask, SameProof
<1> SUFFICES GoodMarket(r, h, n) OBVIOUS
<1> HIDE DEF r
<1>4. h \subseteq h /\ n <= n OBVIOUS
<1> QED BY <1>1, <1>2, <1>3, <1>4, WalkUntouched

-----------------------------------------------------------------------------
(* Scheduling *)

Ripe == [Markets -> [coverage : BOOLEAN, incremental : BOOLEAN]]
Scan == [Markets -> [1 .. 3 -> SUBSET (1 .. MaxTime)]]

LEMMA ScheduledMarketGood ==
    ASSUME NEW row, NEW h, NEW n \in Nat \ {0}, GoodMarket(row, h, n),
           NEW due \in BOOLEAN, NEW incDue \in BOOLEAN, NEW kind,
           kind = CoverageKindDue(row, due), NEW w,
           w = IF kind = "none" THEN row ELSE StartCoverage(row, kind, n)
    PROVE  GoodMarket(IF IncrementalDue(row, incDue) THEN StartIncremental(w) ELSE w, h, n)
<1>1. row \in Row /\ GoodRow(row) BY DEF GoodMarket, GoodRow
<1>2. CASE kind = "none"
  <2>1. w = row BY <1>2
  <2> QED BY <1>1, <2>1, DueIncrementalAllowed, FetchingMarketGood
<1>3. CASE kind # "none"
  <2>1. Known(row) /\ kind \in CoverageKinds /\ MayStartCoverage(row, kind)
    BY <1>1, <1>3, DueKindMayStart
  <2>2. w = StartCoverage(row, kind, n) BY <1>3
  <2>3. GoodMarket(w, h, n) /\ Known(w) BY <2>1, <2>2, StartedMarketGood
  <2>4. SameMarket(w, row) /\ SameProof(w, row) BY <1>1, <2>1, <2>2, StartCoverageFields
  <2>5. IncrementalDue(row, incDue) => AllowsIncremental(w)
    BY <1>1, <2>4, DueIncrementalAllowed DEF AllowsIncremental, SameMarket, SameProof
  <2> QED BY <2>3, <2>5, FetchingMarketGood
<1> QED BY <1>2, <1>3

LEMMA RowsScheduledGood ==
    \A rs, H : \A rp \in Ripe :
        now \in Nat \ {0} /\ GoodMarkets(rs, H, now) => GoodMarkets(RowsScheduled(rs, rp), H, now)
<1> SUFFICES ASSUME NEW rs, NEW H, NEW rp \in Ripe, now \in Nat \ {0}, GoodMarkets(rs, H, now)
             PROVE  GoodMarkets(RowsScheduled(rs, rp), H, now)
  OBVIOUS
<1>1. ASSUME NEW m \in Markets PROVE GoodMarket(RowsScheduled(rs, rp)[m], H[m], now)
  <2>1. GoodMarket(rs[m], H[m], now) BY DEF GoodMarkets
  <2>2. rp[m].coverage \in BOOLEAN /\ rp[m].incremental \in BOOLEAN BY DEF Ripe
  <2> DEFINE kind == CoverageKindDue(rs[m], rp[m].coverage)
             w == IF kind = "none" THEN rs[m] ELSE StartCoverage(rs[m], kind, now)
  <2>3. RowsScheduled(rs, rp)[m] =
          IF IncrementalDue(rs[m], rp[m].incremental) THEN StartIncremental(w) ELSE w
    BY DEF RowsScheduled
  <2> QED BY <2>1, <2>2, <2>3, ScheduledMarketGood
<1>2. RowsScheduled(rs, rp) = [m \in Markets |-> RowsScheduled(rs, rp)[m]]
  BY DEF RowsScheduled
<1>3. RowsScheduled(rs, rp) \in [Markets -> Row]
  <2>1. \A m \in Markets : RowsScheduled(rs, rp)[m] \in Row BY <1>1 DEF GoodMarket, GoodRow
  <2> QED BY <1>2, <2>1
<1> QED BY <1>1, <1>3 DEF GoodMarkets

-----------------------------------------------------------------------------
(* Tasks *)

LEMMA DiscoveryTaskFields ==
    /\ DiscoveryTask \in Task /\ DiscoveryTask.job = "discovery"
    /\ CategoryOf(DiscoveryTask) = "discovery"
<1>1. DiscoveryTask \in Task BY DEF DiscoveryTask, Task, Null
<1> QED BY <1>1 DEF DiscoveryTask, CategoryOf

LEMMA CoverageTaskFields ==
    ASSUME NEW m \in Markets, NEW r \in Row
    PROVE  LET t == CoverageTask(m, r) IN
           /\ t \in Task /\ t.job = "coverage" /\ t.m = m
           /\ t.initial = r.initial /\ t.after = r.initial /\ t.cutoff = r.cutoff
           /\ t.gen = r.gen /\ t.kind = r.kind /\ t.required = r.required
<1> DEFINE d == DiscoveryTask
           t == [d EXCEPT !.job = "coverage", !.m = m, !.gen = r.gen, !.kind = r.kind,
                    !.cutoff = r.cutoff, !.required = r.required, !.initial = r.initial,
                    !.after = r.initial]
<1>1. /\ "coverage" \in {"discovery", "coverage", "incremental"} /\ m \in Markets \cup {"all"}
      /\ r.gen \in Nat /\ r.kind \in CoverageKinds \cup {"none"} /\ r.cutoff \in Nat
      /\ r.required \in Nat /\ r.initial \in Nat
  BY DEF Row
<1>2. CoverageTask(m, r) = t BY DEF CoverageTask
<1>3. d \in Task BY DiscoveryTaskFields
<1> HIDE DEF d
<1>4. t \in Task BY <1>1, <1>3, Zenon DEF Task
<1>5. /\ t.job = "coverage" /\ t.m = m /\ t.initial = r.initial /\ t.after = r.initial
      /\ t.cutoff = r.cutoff /\ t.gen = r.gen /\ t.kind = r.kind /\ t.required = r.required
  BY <1>3 DEF Task
<1> QED BY <1>2, <1>4, <1>5

LEMMA IncrementalTaskFields ==
    ASSUME NEW m \in Markets, NEW r \in Row
    PROVE  LET t == IncrementalTask(m, r) IN
           /\ t \in Task /\ t.job = "incremental" /\ t.m = m
           /\ t.gen = r.incGen /\ t.required = r.frozen
<1> DEFINE d == DiscoveryTask
           t == [d EXCEPT !.job = "incremental", !.m = m, !.gen = r.incGen,
                    !.required = r.frozen]
<1>1. /\ "incremental" \in {"discovery", "coverage", "incremental"}
      /\ m \in Markets \cup {"all"} /\ r.incGen \in Nat /\ r.frozen \in Nat
  BY DEF Row
<1>2. IncrementalTask(m, r) = t BY DEF IncrementalTask
<1>3. d \in Task BY DiscoveryTaskFields
<1> HIDE DEF d
<1>4. t \in Task BY <1>1, <1>3, Zenon DEF Task
<1>5. /\ t.job = "incremental" /\ t.m = m
      /\ t.gen = r.incGen /\ t.required = r.frozen
  BY <1>3 DEF Task
<1> QED BY <1>2, <1>4, <1>5

\* A walk starts where the row says, with what lies above already stored.
LEMMA NewTasksGood ==
    ASSUME NEW rs, NEW H, NEW n \in Nat, GoodMarkets(rs, H, n), NEW m \in Markets
    PROVE  /\ CoverageTask(m, rs[m]) \in GoodTasks(H, n)
           /\ IncrementalTask(m, rs[m]) \in GoodTasks(H, n)
<1> DEFINE r == rs[m]
           t == CoverageTask(m, r)
<1>1. GoodMarket(r, H[m], n) /\ r \in Row BY DEF GoodMarkets
<1> HIDE DEF r
<1>2. /\ t \in Task /\ t.job = "coverage" /\ t.m = m
      /\ t.initial = r.initial /\ t.after = r.initial /\ t.cutoff = r.cutoff
  BY <1>1, CoverageTaskFields
<1>3. r.initial # Null =>
        r.status = "BACKFILLING" /\ r.after # Null /\ r.after <= r.initial /\ r.initial <= n
  BY <1>1 DEF GoodMarket, GoodRow, Readable, TaskStartReadable, NoRow, Timely
<1>4. Exchange = "okx" /\ r.initial # Null => r.initial .. r.cutoff \subseteq H[m]
  <2> SUFFICES ASSUME Exchange = "okx", r.initial # Null
               PROVE  r.initial .. r.cutoff \subseteq H[m]
    OBVIOUS
  <2>1. r.after .. r.cutoff \subseteq H[m] BY <1>1, <1>3 DEF GoodMarket, Stored
  <2>2. r.after \in Nat /\ r.initial \in Nat /\ r.cutoff \in Nat BY <1>1 DEF Row
  <2> QED BY <1>3, <2>1, <2>2
<1>5. r.initial \in Nat BY <1>1 DEF Row
<1> HIDE DEF t
<1>6. Walked(t, H[t.m], n) BY <1>2, <1>3, <1>4, <1>5 DEF Walked
<1>7. t \in GoodTasks(H, n) BY <1>2, <1>6 DEF GoodTasks, GoodTask
<1>8. IncrementalTask(m, r) \in GoodTasks(H, n)
  BY <1>1, IncrementalTaskFields DEF GoodTasks, GoodTask
<1> QED BY <1>7, <1>8 DEF r, t

LEMMA Categorised ==
    ASSUME NEW t \in Task
    PROVE  CategoryOf(t) \in CategoryNames
<1>1. CategoryNames = {"discovery", "incremental", "backfill", "reconcile"}
  BY DEF CategoryNames, Categories
<1> QED BY <1>1 DEF CategoryOf, Task

\* The tasks of the leases taken on rows rs.
NewTasks(rs, coverage, incremental) ==
    {CoverageTask(m, rs[m]) : m \in coverage} \cup {IncrementalTask(m, rs[m]) : m \in incremental}

LEMMA NewTaskFields ==
    ASSUME NEW rs, \A m \in Markets : rs[m] \in Row, NEW coverage \in SUBSET Markets,
           NEW incremental \in SUBSET Markets, NEW t \in NewTasks(rs, coverage, incremental)
    PROVE  /\ t \in Task /\ t.m \in Markets
           /\ \/ t.job = "coverage" /\ t.m \in coverage /\ t = CoverageTask(t.m, rs[t.m])
              \/ t.job = "incremental" /\ t.m \in incremental /\ t = IncrementalTask(t.m, rs[t.m])
<1>1. CASE \E m \in coverage : t = CoverageTask(m, rs[m])
  <2>1. PICK m \in coverage : t = CoverageTask(m, rs[m]) BY <1>1
  <2>2. t \in Task /\ t.job = "coverage" /\ t.m = m BY <2>1, CoverageTaskFields
  <2> QED BY <2>1, <2>2
<1>2. CASE \E m \in incremental : t = IncrementalTask(m, rs[m])
  <2>1. PICK m \in incremental : t = IncrementalTask(m, rs[m]) BY <1>2
  <2>2. t \in Task /\ t.job = "incremental" /\ t.m = m BY <2>1, IncrementalTaskFields
  <2> QED BY <2>1, <2>2
<1> QED BY <1>1, <1>2 DEF NewTasks

OfCategory(T, c) == {t \in T : CategoryOf(t) = c}

LEMMA NewTasksOnePerMarket ==
    ASSUME NEW rs, \A m \in Markets : rs[m] \in Row, NEW coverage \in SUBSET Markets,
           NEW incremental \in SUBSET Markets, NEW c
    PROVE  OnePerMarket(OfCategory(NewTasks(rs, coverage, incremental), c))
<1> DEFINE T == OfCategory(NewTasks(rs, coverage, incremental), c)
<1>1. \A t \in T :
        /\ t.m \in Markets
        /\ \/ t.job = "coverage" /\ t = CoverageTask(t.m, rs[t.m])
           \/ t.job = "incremental" /\ t = IncrementalTask(t.m, rs[t.m])
  BY NewTaskFields DEF OfCategory
<1>2. \A t \in T : CategoryOf(t) = c BY DEF OfCategory
<1> HIDE DEF T
<1>3. \A t \in T : t.job = "incremental" <=> c = "incremental" BY <1>1, <1>2 DEF CategoryOf
<1>4. OnePerMarket(T) BY <1>1, <1>3 DEF OnePerMarket
<1> QED BY <1>4 DEF T

\* The queues hold nothing but what was in them and the new tasks.
LEMMA EnqueuedIn ==
    \A G, rs : \A coverage, incremental \in SUBSET Markets : \A q \in [CategoryNames -> Seq(G)] :
        (\A m \in Markets : rs[m] \in Row) /\ NewTasks(rs, coverage, incremental) \subseteq G =>
            Enqueued(q, rs, coverage, incremental) \in [CategoryNames -> Seq(G)]
<1> SUFFICES ASSUME NEW G, NEW rs, NEW coverage \in SUBSET Markets,
                    NEW incremental \in SUBSET Markets, NEW q \in [CategoryNames -> Seq(G)],
                    \A m \in Markets : rs[m] \in Row,
                    NewTasks(rs, coverage, incremental) \subseteq G
             PROVE  Enqueued(q, rs, coverage, incremental) \in [CategoryNames -> Seq(G)]
  OBVIOUS
<1> DEFINE T(c) == OfCategory(NewTasks(rs, coverage, incremental), c)
<1>1. ASSUME NEW c \in CategoryNames PROVE q[c] \o InOrder(T(c)) \in Seq(G)
  <2>1. OnePerMarket(T(c)) BY NewTasksOnePerMarket
  <2>2. InOrder(T(c)) \in Seq(T(c)) BY <2>1, InOrderListsTasks
  <2>3. T(c) \subseteq G BY DEF OfCategory
  <2> HIDE DEF T
  <2>4. InOrder(T(c)) \in Seq(G) BY <2>2, <2>3
  <2>5. q[c] \in Seq(G) OBVIOUS
  <2> QED BY <2>4, <2>5
<1>2. Enqueued(q, rs, coverage, incremental) = [c \in CategoryNames |-> q[c] \o InOrder(T(c))]
  BY DEF Enqueued, NewTasks, OfCategory
<1> HIDE DEF T
<1> QED BY <1>1, <1>2

LEMMA EnqueuedGood ==
    \A rs, H : \A coverage, incremental \in SUBSET Markets :
        \A q \in [CategoryNames -> Seq(GoodTasks(H, now))] :
            now \in Nat /\ GoodMarkets(rs, H, now) =>
                Enqueued(q, rs, coverage, incremental) \in [CategoryNames -> Seq(GoodTasks(H, now))]
<1> SUFFICES ASSUME NEW rs, NEW H, NEW coverage \in SUBSET Markets,
                    NEW incremental \in SUBSET Markets,
                    NEW q \in [CategoryNames -> Seq(GoodTasks(H, now))],
                    now \in Nat, GoodMarkets(rs, H, now)
             PROVE  Enqueued(q, rs, coverage, incremental) \in
                        [CategoryNames -> Seq(GoodTasks(H, now))]
  OBVIOUS
<1> DEFINE G == GoodTasks(H, now)
<1>1. \A m \in Markets : rs[m] \in Row BY DEF GoodMarkets
<1>2. NewTasks(rs, coverage, incremental) \subseteq G
  <2> SUFFICES ASSUME NEW t \in NewTasks(rs, coverage, incremental) PROVE t \in G OBVIOUS
  <2>1. /\ t.m \in Markets
        /\ t = CoverageTask(t.m, rs[t.m]) \/ t = IncrementalTask(t.m, rs[t.m])
    BY <1>1, NewTaskFields
  <2>2. CoverageTask(t.m, rs[t.m]) \in G /\ IncrementalTask(t.m, rs[t.m]) \in G
    BY <2>1, NewTasksGood
  <2> QED BY <2>1, <2>2
<1> QED BY <1>1, <1>2, EnqueuedIn

-----------------------------------------------------------------------------
(* Steps of the root loop *)

Spent == [flips : 0 .. MaxFlips, faults : 0 .. MaxFaults,
          glitches : 0 .. MaxGlitches, restarts : 0 .. MaxRestarts]

HistGrows ==
    /\ hist' \in [Markets -> SUBSET (1 .. MaxTime)]
    /\ \A m \in Markets : hist[m] \subseteq hist'[m]

LEMMA TasksPersist ==
    ASSUME NEW H, NEW K, NEW n \in Nat, NEW k \in Nat, n <= k,
           \A m \in Markets : H[m] \subseteq K[m]
    PROVE  GoodTasks(H, n) \subseteq GoodTasks(K, k)
<1> SUFFICES ASSUME NEW t \in Task, GoodTask(t, H, n) PROVE GoodTask(t, K, k)
  BY DEF GoodTasks
<1>1. t.after \in Nat BY DEF Task
<1>2. ASSUME t.job = "coverage" PROVE Walked(t, K[t.m], k)
  <2>1. Walked(t, H[t.m], n) /\ t.m \in Markets BY <1>2 DEF GoodTask
  <2> QED BY <1>1, <2>1 DEF Walked
<1> QED BY <1>2 DEF GoodTask

LEMMA QueuesPersist ==
    \A G : \A K : G \subseteq K =>
        [CategoryNames -> Seq(G)] \subseteq [CategoryNames -> Seq(K)]
<1> SUFFICES ASSUME NEW G, NEW K, G \subseteq K, NEW q \in [CategoryNames -> Seq(G)]
             PROVE  q \in [CategoryNames -> Seq(K)]
  OBVIOUS
<1>1. ASSUME NEW c \in CategoryNames PROVE q[c] \in Seq(K)
  <2>1. q[c] \in Seq(G) OBVIOUS
  <2> QED BY <2>1
<1> QED BY <1>1

LEMMA EmptyQueues == \A G : NoQueue \in [CategoryNames -> Seq(G)]
BY DEF NoQueue

\* What the root loop leaves behind when it goes on to the next task.
LEMMA ScheduleGood ==
    \A rs : \A rp \in Ripe, sc \in Scan :
        \A q \in [CategoryNames -> Seq(GoodTasks(hist', now))] :
            /\ now \in Nat \ {0}
            /\ GoodMarkets(rs, hist', now)
            /\ SchedulePersistedWork(rs, rp, sc, q)
            => /\ GoodMarkets(rows', hist', now)
               /\ ripe' \in Ripe /\ scan' \in Scan
               /\ queue' \in [CategoryNames -> Seq(GoodTasks(hist', now))]
<1> SUFFICES ASSUME NEW rs, NEW rp \in Ripe, NEW sc \in Scan,
                    NEW q \in [CategoryNames -> Seq(GoodTasks(hist', now))],
                    now \in Nat \ {0}, GoodMarkets(rs, hist', now),
                    SchedulePersistedWork(rs, rp, sc, q)
             PROVE  /\ GoodMarkets(rows', hist', now)
                    /\ ripe' \in Ripe /\ scan' \in Scan
                    /\ queue' \in [CategoryNames -> Seq(GoodTasks(hist', now))]
  OBVIOUS
<1> DEFINE coverage == StartedCoverage(rs, rp)
           incremental == StartedIncremental(rs, rp)
<1>1. coverage \in SUBSET Markets /\ incremental \in SUBSET Markets
  BY DEF StartedCoverage, StartedIncremental
<1>2. /\ rows' = RowsScheduled(rs, rp)
      /\ ripe' = [m \in Markets |-> [coverage |-> rp[m].coverage /\ m \notin coverage,
                                     incremental |-> rp[m].incremental /\ m \notin incremental]]
      /\ scan' = [m \in Markets |-> IF m \in coverage THEN EmptyScan ELSE sc[m]]
      /\ queue' = Enqueued(q, rows', coverage, incremental)
  BY DEF SchedulePersistedWork
<1> HIDE DEF coverage, incremental
<1>3. GoodMarkets(rows', hist', now) BY <1>2, RowsScheduledGood
<1>4. ripe' \in Ripe BY <1>2 DEF Ripe
<1>5. scan' \in Scan BY <1>2 DEF Scan, EmptyScan
<1>6. queue' \in [CategoryNames -> Seq(GoodTasks(hist', now))]
  BY <1>1, <1>2, <1>3, EnqueuedGood
<1> QED BY <1>3, <1>4, <1>5, <1>6

LEMMA RootStep ==
    \A rs : \A rp \in Ripe, sc \in Scan : \A t \in GoodTasks(hist', now) \cup {NoTask} :
        /\ FundingInv /\ now' = now /\ HistGrows /\ GoodMarkets(rs, hist', now)
        /\ ContinueRoot(rs, rp, sc, t) /\ last' \in 1 .. 4 /\ spent' \in Spent
        => FundingInv'
<1> SUFFICES ASSUME NEW rs, NEW rp \in Ripe, NEW sc \in Scan,
                    NEW t \in GoodTasks(hist', now) \cup {NoTask},
                    FundingInv, now' = now, HistGrows, GoodMarkets(rs, hist', now),
                    ContinueRoot(rs, rp, sc, t), last' \in 1 .. 4, spent' \in Spent
             PROVE  FundingInv'
  OBVIOUS
<1> DEFINE G == GoodTasks(hist', now)
<1>1. now \in Nat \ {0} /\ now \in 1 .. MaxTime BY SizeAssumption DEF FundingInv, TypeOK
<1>2. GoodTasks(hist, now) \subseteq G BY <1>1, TasksPersist DEF HistGrows
<1>3. queue \in [CategoryNames -> Seq(G)] BY <1>2, QueuesPersist DEF FundingInv, TasksGood
<1>4. /\ GoodMarkets(rows', hist', now) /\ ripe' \in Ripe /\ scan' \in Scan
      /\ queue' \in [CategoryNames -> Seq(G)] /\ life' \in {"running", "stopped"}
  <2>1. CASE life = "running"
    <3> DEFINE q == IF t = NoTask THEN queue ELSE [queue EXCEPT ![CategoryOf(t)] = Append(@, t)]
    <3>1. SchedulePersistedWork(rs, rp, sc, q) /\ life' = life BY <2>1 DEF ContinueRoot
    <3>2. q \in [CategoryNames -> Seq(G)]
      <4>1. CASE t = NoTask BY <1>3, <4>1
      <4>2. CASE t # NoTask
        <5>1. t \in G /\ CategoryOf(t) \in CategoryNames BY <4>2, Categorised DEF GoodTasks
        <5>2. Append(queue[CategoryOf(t)], t) \in Seq(G)
          <6> HIDE DEF G
          <6> QED BY <1>3, <5>1
        <5> QED BY <1>3, <4>2, <5>1, <5>2
      <4> QED BY <4>1, <4>2
    <3> HIDE DEF q
    <3> QED BY <1>1, <2>1, <3>1, <3>2, ScheduleGood
  <2>2. CASE life # "running"
    <3>1. rows' = rs /\ ripe' = rp /\ scan' = sc /\ life' = "stopped" /\ queue' = queue
      BY <2>2 DEF ContinueRoot
    <3> QED BY <1>3, <3>1
  <2> QED BY <2>1, <2>2
<1>5. current' = NoTask BY DEF ContinueRoot
<1>6. G \subseteq Task BY DEF GoodTasks
<1>7. queue' \in [CategoryNames -> Seq(Task)] BY <1>4, <1>6, QueuesPersist
<1>8. TypeOK'
  BY <1>1, <1>4, <1>5, <1>7 DEF TypeOK, GoodMarkets, HistGrows, Ripe, Scan, Spent
<1>9. TasksGood' BY <1>4, <1>5 DEF TasksGood
<1>10. Idle' BY <1>5 DEF Idle
<1> QED BY <1>4, <1>8, <1>9, <1>10 DEF FundingInv

-----------------------------------------------------------------------------
(* Actions that move no row *)

LEMMA InitEstablishes == Init => FundingInv
<1> SUFFICES ASSUME Init PROVE FundingInv OBVIOUS
<1>1. NoRow \in Row BY NoRowGood DEF GoodRow
<1>2. now \in 1 .. MaxTime /\ now \in Nat BY SizeAssumption DEF Init
<1>3. TypeOK
  <2>1. rows \in [Markets -> Row] BY <1>1 DEF Init
  <2>2. scan \in [Markets -> [1 .. 3 -> SUBSET (1 .. MaxTime)]] BY DEF Init, EmptyScan
  <2>3. queue \in [CategoryNames -> Seq(Task)] BY EmptyQueues DEF Init
  <2>4. spent \in [flips : 0 .. MaxFlips, faults : 0 .. MaxFaults,
                  glitches : 0 .. MaxGlitches, restarts : 0 .. MaxRestarts]
    BY BoundAssumption DEF Init
  <2> QED BY <1>2, <2>1, <2>2, <2>3, <2>4 DEF Init, TypeOK
<1>4. GoodMarkets(rows, hist, now)
  <2>1. GoodMarket(NoRow, {}, now)
    BY <1>2, NoRowGood DEF GoodMarket, Timely, Stored, NoRow, Null
  <2> QED BY <1>1, <2>1 DEF GoodMarkets, Init
<1>5. TasksGood BY EmptyQueues DEF TasksGood, Init
<1> QED BY <1>3, <1>4, <1>5 DEF FundingInv, Idle, Init

\* Time goes on, or nothing but the tasks of the worker changes.
LEMMA QuietStep ==
    ASSUME FundingInv, rows' = rows, hist' = hist, now' \in now .. MaxTime,
           scan' \in Scan, ripe' \in Ripe, last' \in 1 .. 4, spent' \in Spent,
           life' \in {"new", "running", "stopping", "stopped"}, Idle',
           current' \in GoodTasks(hist, now) \cup {NoTask},
           queue' \in [CategoryNames -> Seq(GoodTasks(hist, now))]
    PROVE  FundingInv'
<1>1. now \in 1 .. MaxTime /\ now' \in 1 .. MaxTime /\ now \in Nat /\ now' \in Nat /\ now <= now'
  BY SizeAssumption DEF FundingInv, TypeOK
<1>2. GoodTasks(hist, now) \subseteq GoodTasks(hist', now') BY <1>1, TasksPersist
<1>3. TasksGood' BY <1>2, QueuesPersist DEF TasksGood
<1>4. GoodTasks(hist', now') \subseteq Task BY DEF GoodTasks
<1>5. current' \in Task \cup {NoTask} /\ queue' \in [CategoryNames -> Seq(Task)]
  BY <1>3, <1>4, QueuesPersist DEF TasksGood
<1>6. TypeOK' BY <1>1, <1>5 DEF FundingInv, TypeOK, Scan, Ripe, Spent
<1>7. GoodMarkets(rows', hist', now')
  <2>1. ASSUME NEW m \in Markets PROVE GoodMarket(rows[m], hist[m], now')
    <3>1. GoodMarket(rows[m], hist[m], now) BY DEF FundingInv, GoodMarkets
    <3>2. hist[m] \subseteq 1 .. now' /\ GoodRow(rows[m]) BY <1>1, <3>1 DEF GoodMarket
    <3> QED BY <1>1, <3>1, <3>2, WalkUntouched
  <2> QED BY <2>1 DEF GoodMarkets, FundingInv
<1> QED BY <1>3, <1>6, <1>7 DEF FundingInv

LEMMA QuietActions ==
    ASSUME FundingInv,
           RequestStop \/ Crash \/ Restart \/ Settle \/ DiscoveryTick \/ Fatal
             \/ \E m \in Markets : CoverageElapses(m) \/ IncrementalElapses(m)
    PROVE  FundingInv'
<1>0. /\ now \in 1 .. MaxTime /\ now \in Nat /\ scan \in Scan /\ ripe \in Ripe /\ last \in 1 .. 4
      /\ spent \in Spent /\ life \in {"new", "running", "stopping", "stopped"}
      /\ current \in GoodTasks(hist, now) \cup {NoTask}
      /\ queue \in [CategoryNames -> Seq(GoodTasks(hist, now))] /\ Idle
      /\ MaxTime \in Nat
  BY SizeAssumption DEF FundingInv, TypeOK, TasksGood, Scan, Ripe, Spent
<1>1. NoQueue \in [CategoryNames -> Seq(GoodTasks(hist, now))] BY EmptyQueues
<1>2. CASE RequestStop
  <2>1. spent' \in Spent BY <1>0, <1>2, BoundAssumption DEF RequestStop, Spent
  <2>2. Idle' /\ life' \in {"new", "running", "stopping", "stopped"}
    BY <1>2 DEF RequestStop, Idle
  <2> QED BY <1>0, <1>1, <1>2, <2>1, <2>2, QuietStep DEF RequestStop, stored
<1>3. CASE Crash
  <2>1. spent' \in Spent BY <1>0, <1>3, BoundAssumption DEF Crash, Spent
  <2>2. Idle' BY <1>3 DEF Crash, Idle
  <2> QED BY <1>0, <1>1, <1>3, <2>1, <2>2, QuietStep DEF Crash, stored
<1>4. CASE Restart
  <2>1. Idle' BY <1>0, <1>4 DEF Restart, memory, Idle
  <2> QED BY <1>0, <1>4, <2>1, QuietStep DEF Restart, stored, memory
<1>5. CASE Settle
  <2>1. Idle' /\ now' \in now .. MaxTime BY <1>0, <1>5 DEF Settle, memory, Idle
  <2> QED BY <1>0, <1>5, <2>1, QuietStep DEF Settle, stored, memory
<1>6. CASE DiscoveryTick
  <2>1. DiscoveryTask \in GoodTasks(hist, now) BY DiscoveryTaskFields DEF GoodTasks, GoodTask
  <2>2. "discovery" \in CategoryNames BY DEF CategoryNames, Categories
  <2> DEFINE G == GoodTasks(hist, now)
  <2>3. queue' \in [CategoryNames -> Seq(G)]
    <3>1. queue' = [queue EXCEPT !["discovery"] = Append(@, DiscoveryTask)]
      BY <1>6 DEF DiscoveryTick
    <3> HIDE DEF G
    <3>2. Append(queue["discovery"], DiscoveryTask) \in Seq(G) BY <1>0, <2>1, <2>2 DEF G
    <3> QED BY <1>0, <3>1, <3>2 DEF G
  <2>4. Idle' BY <1>0, <1>6 DEF DiscoveryTick, Idle
  <2> QED BY <1>0, <1>6, <2>3, <2>4, QuietStep DEF DiscoveryTick, stored
<1>7. CASE Fatal
  <2>1. spent' \in Spent BY <1>0, <1>7, BoundAssumption DEF Fatal, Fault, Spent
  <2>2. Idle' BY <1>7 DEF Fatal, Idle
  <2> QED BY <1>0, <1>1, <1>7, <2>1, <2>2, QuietStep DEF Fatal, stored
<1>8. ASSUME NEW m \in Markets, CoverageElapses(m) \/ IncrementalElapses(m) PROVE FundingInv'
  <2>1. ripe' \in Ripe
    <3>1. ripe[m] \in [coverage : BOOLEAN, incremental : BOOLEAN] BY <1>0 DEF Ripe
    <3>2. /\ [ripe[m] EXCEPT !.coverage = TRUE] \in [coverage : BOOLEAN, incremental : BOOLEAN]
          /\ [ripe[m] EXCEPT !.incremental = TRUE] \in [coverage : BOOLEAN, incremental : BOOLEAN]
      BY <3>1
    <3>3. \/ ripe' = [ripe EXCEPT ![m] = [ripe[m] EXCEPT !.coverage = TRUE]]
          \/ ripe' = [ripe EXCEPT ![m] = [ripe[m] EXCEPT !.incremental = TRUE]]
      BY <1>0, <1>8 DEF CoverageElapses, IncrementalElapses, Ripe
    <3> QED BY <1>0, <3>2, <3>3 DEF Ripe
  <2>2. Idle' BY <1>0, <1>8 DEF CoverageElapses, IncrementalElapses, memory, Idle
  <2> QED
    BY <1>0, <1>8, <2>1, <2>2, QuietStep DEF CoverageElapses, IncrementalElapses, memory
<1> QED BY <1>2, <1>3, <1>4, <1>5, <1>6, <1>7, <1>8

-----------------------------------------------------------------------------
(* Steps of the root loop *)

\* The types and goodness that every action starts from.
LEMMA Parts ==
    ASSUME FundingInv
    PROVE  /\ now \in 1 .. MaxTime /\ now \in Nat \ {0} /\ scan \in Scan /\ ripe \in Ripe
           /\ last \in 1 .. 4 /\ spent \in Spent
           /\ life \in {"new", "running", "stopping", "stopped"}
           /\ hist \in [Markets -> SUBSET (1 .. MaxTime)]
           /\ GoodMarkets(rows, hist, now)
           /\ current \in GoodTasks(hist, now) \cup {NoTask}
           /\ queue \in [CategoryNames -> Seq(GoodTasks(hist, now))] /\ Idle
BY SizeAssumption DEF FundingInv, TypeOK, TasksGood, Scan, Ripe, Spent

LEMMA SameHistory ==
    ASSUME FundingInv, hist' = hist
    PROVE  HistGrows
BY DEF FundingInv, TypeOK, HistGrows

\* The category that waited longest is one with work.
LEMMA NextCategoryReady ==
    ASSUME last \in 1 .. 4, Ready # {}
    PROVE  NextCategory \in Ready
<1> DEFINE Wait(c) == (c + 3 - last) % 4
           W == {Wait(c) : c \in Ready}
<1>1. Ready \subseteq 1 .. 4 BY DEF Ready, Categories
<1>2. \A c \in Ready : Wait(c) \in 0 .. 3 BY <1>1
<1>3. W \subseteq 0 .. 3 /\ W # {} BY <1>2
<1>4. W \in SUBSET Nat /\ IsFiniteSet(W)
  <2>1. IsFiniteSet(0 .. 3)
    <3>1. 0 \in Int /\ 3 \in Int OBVIOUS
    <3> QED BY <3>1, FS_Interval, Zenon
  <2>2. 0 .. 3 \subseteq Nat OBVIOUS
  <2> HIDE DEF W
  <2> QED BY <1>3, <2>1, <2>2, FS_Subset
<1>5. PICK w \in W : \A v \in W : w <= v BY <1>3, <1>4, LowestNumber
<1>6. PICK c \in Ready : w = Wait(c) OBVIOUS
<1>7. \A d \in Ready : Wait(c) <= Wait(d) BY <1>5, <1>6
<1> HIDE DEF W
<1> QED BY <1>7 DEF NextCategory

LEMMA TakeTaskStep == FundingInv /\ TakeTask => FundingInv'
<1> SUFFICES ASSUME FundingInv, TakeTask PROVE FundingInv' OBVIOUS
<1> DEFINE c == NextCategory
           n == Categories[c]
           G == GoodTasks(hist, now)
<1>1. c \in Ready BY NextCategoryReady, Parts DEF TakeTask
<1>2. n \in CategoryNames /\ queue[n] # << >> BY <1>1 DEF Ready, CategoryNames
<1>3. /\ life = "running" /\ last' = c /\ queue' = [queue EXCEPT ![n] = Tail(@)]
      /\ current' = Head(queue[n])
      /\ UNCHANGED <<now, stored, life, spent>>
  BY DEF TakeTask
<1>4. c \in 1 .. 4 BY <1>1 DEF Ready, Categories
<1> HIDE DEF c, n, G
<1>5. queue \in [CategoryNames -> Seq(G)] BY Parts DEF G
<1>6. queue[n] \in Seq(G) BY <1>2, <1>5
<1>7. Head(queue[n]) \in G /\ Tail(queue[n]) \in Seq(G) BY <1>2, <1>6
<1>8. queue' \in [CategoryNames -> Seq(G)] BY <1>3, <1>5, <1>7
<1>9. Idle' BY <1>3 DEF Idle
<1>10. now' \in now .. MaxTime BY <1>3, Parts
<1> QED BY <1>3, <1>4, <1>7, <1>8, <1>9, <1>10, Parts, QuietStep DEF stored, G

\* The task ends or waits, and no row changes.
LEMMA EndsQuietly ==
    ASSUME FundingInv, UNCHANGED <<now, hist, last>>, spent' \in Spent,
           ContinueRoot(rows, ripe, scan, NoTask)
    PROVE  FundingInv'
<1>1. GoodMarkets(rows, hist', now) BY Parts
<1>2. HistGrows BY SameHistory
<1> QED BY <1>1, <1>2, Parts, RootStep

LEMMA QuietEnds ==
    ASSUME FundingInv, DropSuperseded \/ DiscoveryFails \/ Canceled
    PROVE  FundingInv'
<1>1. spent' \in Spent
  BY Parts, BoundAssumption DEF DropSuperseded, DiscoveryFails, Canceled, Fault, Spent
<1> QED BY <1>1, EndsQuietly DEF DropSuperseded, DiscoveryFails, Canceled

-----------------------------------------------------------------------------
(* The start *)

\* The row of a market after the recovery of its interrupted tasks.
Recovered(r) ==
    LET w == IF r.status = "BACKFILLING" THEN ResumeCoverage(r) ELSE r
    IN IF r.incStatus = "RUNNING" THEN StartIncremental(w) ELSE w

LEMMA RecoveredMarketGood ==
    ASSUME NEW r, NEW h, NEW n \in Nat \ {0}, GoodMarket(r, h, n)
    PROVE  GoodMarket(Recovered(r), h, n)
<1> DEFINE w == IF r.status = "BACKFILLING" THEN ResumeCoverage(r) ELSE r
<1>1. GoodRow(r) BY DEF GoodMarket
<1>2. /\ GoodMarket(w, h, n)
      /\ r.incStatus = "RUNNING" => Known(w) /\ AllowsIncremental(w)
  <2>1. CASE r.status = "BACKFILLING"
    <3>1. /\ GoodMarket(w, h, n) /\ w.status = "BACKFILLING"
          /\ SameMarket(w, r) /\ SameProof(w, r)
      BY <2>1, ResumedMarketGood
    <3>2. r.incStatus = "RUNNING" => AllowsIncremental(r) BY <1>1, GoodRowNotRefused
    <3> HIDE DEF w
    <3> QED BY <3>1, <3>2 DEF Known, AllowsIncremental, SameMarket, SameProof
  <2>2. CASE r.status # "BACKFILLING"
    <3>1. w = r BY <2>2
    <3>2. r.incStatus = "RUNNING" => Known(r) /\ AllowsIncremental(r)
      BY <1>1, GoodRowNotRefused DEF GoodRow, NoRow
    <3> QED BY <3>1, <3>2
  <2> QED BY <2>1, <2>2
<1>3. Recovered(r) = IF r.incStatus = "RUNNING" THEN StartIncremental(w) ELSE w BY DEF Recovered
<1> HIDE DEF w
<1> QED BY <1>2, <1>3, FetchingMarketGood

\* What start does, with the rows, tasks and queues it starts from named.
RecoveredRows == [m \in Markets |-> Recovered(rows[m])]
BackfillingMarkets == {m \in Markets : rows[m].status = "BACKFILLING"}
FirstQueue == [NoQueue EXCEPT !["discovery"] = <<DiscoveryTask>>]

LEMMA StartFields ==
    ASSUME Start
    PROVE  /\ life = "new" /\ life' = "running" /\ last' = 4
           /\ SchedulePersistedWork(RecoveredRows, ripe, [m \in Markets |-> EmptyScan],
                  Enqueued(FirstQueue, RecoveredRows, BackfillingMarkets, Interrupted))
           /\ UNCHANGED <<now, hist, current, spent>>
<1> DEFINE row(m) == IF m \in BackfillingMarkets THEN ResumeCoverage(rows[m]) ELSE rows[m]
           rs == [m \in Markets |->
                    IF m \in Interrupted THEN StartIncremental(row(m)) ELSE row(m)]
<1>1. rs = RecoveredRows
  BY DEF RecoveredRows, Recovered, BackfillingMarkets, Interrupted
<1>2. /\ life = "new" /\ life' = "running" /\ last' = 4
      /\ SchedulePersistedWork(rs, ripe, [m \in Markets |-> EmptyScan],
             Enqueued(FirstQueue, rs, BackfillingMarkets, Interrupted))
      /\ UNCHANGED <<now, hist, current, spent>>
  BY DEF Start, BackfillingMarkets, FirstQueue
<1> HIDE DEF rs
<1> QED BY <1>1, <1>2

LEMMA StartStep == FundingInv /\ Start => FundingInv'
<1> SUFFICES ASSUME FundingInv, Start PROVE FundingInv' OBVIOUS
<1> DEFINE coverage == BackfillingMarkets
           incremental == Interrupted
           rs == RecoveredRows
           q == FirstQueue
           sc == [m \in Markets |-> EmptyScan]
           G == GoodTasks(hist, now)
<1>1. /\ life = "new" /\ life' = "running" /\ last' = 4
      /\ SchedulePersistedWork(rs, ripe, sc, Enqueued(q, rs, coverage, incremental))
      /\ UNCHANGED <<now, hist, current, spent>>
  BY StartFields
<1>2. current = NoTask BY <1>1, Parts DEF Idle
<1>3. ASSUME NEW m \in Markets PROVE GoodMarket(Recovered(rows[m]), hist[m], now)
  BY Parts, RecoveredMarketGood DEF GoodMarkets
<1>4. GoodMarkets(rs, hist, now)
  <2>1. \A m \in Markets : Recovered(rows[m]) \in Row BY <1>3 DEF GoodMarket, GoodRow
  <2> QED BY <1>3, <2>1 DEF GoodMarkets, RecoveredRows
<1>5. coverage \in SUBSET Markets /\ incremental \in SUBSET Markets
  BY DEF Interrupted, BackfillingMarkets
<1>6. q \in [CategoryNames -> Seq(G)]
  <2>1. DiscoveryTask \in G BY DiscoveryTaskFields DEF GoodTasks, GoodTask
  <2>2. NoQueue \in [CategoryNames -> Seq(G)] BY EmptyQueues
  <2> HIDE DEF G
  <2>3. <<DiscoveryTask>> \in Seq(G) BY <2>1
  <2> QED BY <2>2, <2>3 DEF FirstQueue
<1>7. sc \in Scan BY DEF Scan, EmptyScan
<1> HIDE DEF coverage, incremental, rs, q, sc
<1>8. Enqueued(q, rs, coverage, incremental) \in [CategoryNames -> Seq(G)]
  BY <1>4, <1>5, <1>6, Parts, EnqueuedGood
<1>9. hist' = hist /\ now' = now BY <1>1
<1>10. /\ GoodMarkets(rows', hist', now) /\ ripe' \in Ripe /\ scan' \in Scan
       /\ queue' \in [CategoryNames -> Seq(GoodTasks(hist', now))]
  BY <1>1, <1>4, <1>7, <1>8, <1>9, Parts, ScheduleGood
<1>11. GoodTasks(hist', now') \subseteq Task BY DEF GoodTasks
<1>12. queue' \in [CategoryNames -> Seq(Task)] BY <1>9, <1>10, <1>11, QueuesPersist
<1>13. TypeOK'
  BY <1>1, <1>2, <1>9, <1>10, <1>12, Parts DEF TypeOK, GoodMarkets, Ripe, Scan, Spent
<1>14. TasksGood' /\ Idle' BY <1>1, <1>2, <1>9, <1>10 DEF TasksGood, Idle
<1> QED BY <1>9, <1>10, <1>13, <1>14 DEF FundingInv

-----------------------------------------------------------------------------
(* Pages *)

LEMMA PageBounds ==
    ASSUME NEW n \in Nat, NEW page, page \subseteq 1 .. n, page # {}
    PROVE  /\ Lowest(page) \in page /\ Highest(page) \in page
           /\ \A u \in page : Lowest(page) <= u /\ u <= Highest(page)
<1>1. IsFiniteSet(page) /\ page \in SUBSET Nat
  <2>1. IsFiniteSet(1 .. n) BY FS_Interval
  <2>2. page \in SUBSET (1 .. n) /\ 1 .. n \subseteq Nat OBVIOUS
  <2>3. IsFiniteSet(page) BY <2>1, <2>2, FS_Subset
  <2> QED BY <2>2, <2>3
<1>2. \E x \in page : \A y \in page : x <= y BY <1>1, LowestNumber
<1>3. \E x \in page : \A y \in page : y <= x BY <1>1, HighestNumber
<1> QED BY <1>2, <1>3 DEF Lowest, Highest

LEMMA AnswerFields ==
    ASSUME FundingInv, NEW t, NEW a \in Answers(t)
    PROVE  /\ a.page \subseteq 1 .. now
           /\ a.gap \in BOOLEAN /\ (a.gap => spent.glitches < MaxGlitches)
           /\ Exchange = "okx" => a.page = OkxPage(t.after)
<1>1. PageAt(t) \subseteq 1 .. now BY DEF PageAt, BitgetPage, OkxPage
<1>2. PICK gap \in IF Exchange = "bitget" /\ spent.glitches < MaxGlitches
                   THEN SUBSET PageAt(t) ELSE {{}} :
        a = [page |-> PageAt(t) \ gap, gap |-> gap # {}]
  BY DEF Answers
<1>3. a.page = PageAt(t) \ gap /\ a.gap = (gap # {}) BY <1>2
<1>4. gap # {} => Exchange = "bitget" /\ spent.glitches < MaxGlitches BY <1>2
<1>5. Exchange = "okx" => PageAt(t) = OkxPage(t.after) BY DEF PageAt
<1> QED BY <1>1, <1>3, <1>4, <1>5

LEMMA GlitchSpent ==
    ASSUME FundingInv, NEW t, NEW a \in Answers(t)
    PROVE  Glitch(a) \in Spent
<1>1. a.gap \in BOOLEAN /\ (a.gap => spent.glitches < MaxGlitches) BY AnswerFields
<1>2. spent \in Spent BY Parts
<1> QED BY <1>1, <1>2, BoundAssumption DEF Glitch, Spent

\* An OKX page joins what the walk has stored below its cutoff.
LEMMA OkxPageJoins ==
    ASSUME NEW after \in Nat, after <= now, now \in Nat \ {0}, NEW cutoff \in Nat, cutoff <= now,
           NEW h, after # Null => after .. cutoff \subseteq h,
           NEW page, page = OkxPage(after), page # {}
    PROVE  /\ Lowest(page) .. cutoff \subseteq h \cup page
           /\ Highest(page) .. cutoff \subseteq h \cup page
           /\ after # Null => Highest(page) < after /\ Lowest(page) < after
           /\ Lowest(page) \in Nat \ {0} /\ Highest(page) \in Nat
<1> DEFINE top == IF after = Null THEN now ELSE after - 1
<1>1. page = {u \in 1 .. now : u <= top /\ u > top - PageSize} BY DEF OkxPage
<1>2. /\ Lowest(page) \in page /\ Highest(page) \in page
      /\ \A u \in page : Lowest(page) <= u /\ u <= Highest(page)
  BY <1>1, PageBounds
<1>3. top \in Nat /\ top <= now BY DEF Null
<1>4. PageSize \in Nat \ {0} BY SizeAssumption
<1>5. \A u \in top + 1 .. cutoff : u \in h
  <2>1. CASE after = Null BY <2>1
  <2>2. CASE after # Null BY <2>2
  <2> QED BY <2>1, <2>2
<1>6. after # Null => \A u \in page : u < after BY <1>1
<1> DEFINE lo == Lowest(page)
           hi == Highest(page)
<1>7. /\ lo \in page /\ hi \in page /\ lo <= hi /\ lo \in Nat \ {0} /\ hi \in Nat
      /\ lo > top - PageSize /\ lo <= top
  BY <1>1, <1>2
<1> HIDE DEF lo, hi, top
<1>8. ASSUME NEW u \in lo .. cutoff PROVE u \in h \cup page
  <2>1. CASE u <= top BY <1>1, <1>3, <1>4, <1>7, <2>1
  <2>2. CASE u > top BY <1>3, <1>5, <1>7, <2>2
  <2> QED BY <1>3, <1>7, <2>1, <2>2
<1>9. hi .. cutoff \subseteq lo .. cutoff BY <1>7
<1> QED BY <1>6, <1>7, <1>8, <1>9 DEF lo, hi

\* A page is added to the history of one market, whose row becomes r.
LEMMA PageWritten ==
    ASSUME FundingInv, NEW m \in Markets, NEW page, page \subseteq 1 .. now,
           hist' = Written(m, page), now' = now
    PROVE  /\ HistGrows /\ hist'[m] = hist[m] \cup page
           /\ \A r : GoodMarket(r, hist[m] \cup page, now) =>
                GoodMarkets([rows EXCEPT ![m] = r], hist', now)
<1>1. now \in 1 .. MaxTime /\ hist \in [Markets -> SUBSET (1 .. MaxTime)]
      /\ GoodMarkets(rows, hist, now)
  BY Parts
<1>2. hist' = [hist EXCEPT ![m] = hist[m] \cup page] BY DEF Written
<1>3. page \subseteq 1 .. MaxTime BY <1>1, SizeAssumption
<1>4. hist'[m] = hist[m] \cup page /\ \A x \in Markets : x # m => hist'[x] = hist[x]
  BY <1>1, <1>2
<1>5. hist' \in [Markets -> SUBSET (1 .. MaxTime)] BY <1>1, <1>2, <1>3
<1>6. HistGrows BY <1>4, <1>5 DEF HistGrows
<1>7. ASSUME NEW r, GoodMarket(r, hist[m] \cup page, now)
      PROVE  GoodMarkets([rows EXCEPT ![m] = r], hist', now)
  <2>1. r \in Row BY <1>7 DEF GoodMarket, GoodRow
  <2>2. [rows EXCEPT ![m] = r] \in [Markets -> Row] BY <1>1, <2>1 DEF GoodMarkets
  <2>3. \A x \in Markets : GoodMarket([rows EXCEPT ![m] = r][x], hist'[x], now)
    BY <1>1, <1>4, <1>7 DEF GoodMarkets
  <2> QED BY <2>2, <2>3 DEF GoodMarkets
<1> QED BY <1>4, <1>6, <1>7

\* Nothing is added to the history.
LEMMA RowWritten ==
    ASSUME FundingInv, NEW m \in Markets, hist' = hist, NEW r, GoodMarket(r, hist[m], now)
    PROVE  GoodMarkets([rows EXCEPT ![m] = r], hist', now)
<1>1. GoodMarkets(rows, hist, now) BY Parts
<1>2. r \in Row BY DEF GoodMarket, GoodRow
<1> QED BY <1>1, <1>2 DEF GoodMarkets

LEMMA CoverageHeld ==
    ASSUME FundingInv, Asked("coverage")
    PROVE  LET t == current
               row == rows[t.m] IN
           /\ t \in GoodTasks(hist, now) /\ t \in Task /\ t.m \in Markets
           /\ Walked(t, hist[t.m], now)
           /\ GoodMarket(row, hist[t.m], now) /\ row \in Row /\ row.status = "BACKFILLING"
           /\ row.cutoff = t.cutoff /\ row.initial = t.initial /\ t.cutoff <= now
           /\ Exchange = "bitget" => t.initial = Null
<1> DEFINE t == current
           row == rows[t.m]
<1>1. /\ t \in GoodTasks(hist, now) /\ t.job = "coverage" /\ Holds(t)
  BY Parts DEF Asked, MayRequest
<1>2. t \in Task /\ t.m \in Markets /\ Walked(t, hist[t.m], now)
  BY <1>1 DEF GoodTasks, GoodTask
<1>3. HoldsCoverage(row, t) BY <1>1 DEF Holds
<1>4. row.status = "BACKFILLING" /\ row.cutoff = t.cutoff /\ row.initial = t.initial
  BY <1>3 DEF HoldsCoverage
<1>5. GoodMarket(row, hist[t.m], now) /\ row \in Row BY <1>2, Parts DEF GoodMarkets
<1> HIDE DEF row
<1>6. t.cutoff <= now BY <1>4, <1>5 DEF GoodMarket, Timely
<1>7. Exchange = "bitget" => row.initial = Null
  BY <1>4, <1>5 DEF GoodMarket, GoodRow, Known, Readable, TaskStartReadable
<1> QED BY <1>1, <1>2, <1>4, <1>5, <1>6, <1>7 DEF row

LEMMA IncrementalHeld ==
    ASSUME FundingInv, current # NoTask, current.job = "incremental", MayRequest(current)
    PROVE  /\ current \in Task /\ current.m \in Markets
           /\ rows[current.m] \in Row /\ Known(rows[current.m])
           /\ GoodMarket(rows[current.m], hist[current.m], now)
<1>1. current \in GoodTasks(hist, now) /\ Holds(current) BY Parts DEF MayRequest
<1>2. current \in Task /\ current.m \in Markets BY <1>1 DEF GoodTasks, GoodTask
<1>3. HoldsIncremental(rows[current.m], current) BY <1>1 DEF Holds
<1>4. /\ GoodMarket(rows[current.m], hist[current.m], now) /\ rows[current.m] \in Row
  BY <1>2, Parts DEF GoodMarkets
<1>5. Known(rows[current.m])
  BY <1>3, <1>4 DEF HoldsIncremental, GoodMarket, GoodRow, NoRow
<1> QED BY <1>2, <1>4, <1>5

LEMMA WaitsTyped ==
    ASSUME FundingInv, NEW m \in Markets
    PROVE  /\ CoverageWaits(m) \in Ripe /\ IncrementalWaits(m) \in Ripe
           /\ [scan EXCEPT ![m] = EmptyScan] \in Scan
<1>1. ripe \in Ripe /\ scan \in Scan BY Parts
<1>2. ripe[m] \in [coverage : BOOLEAN, incremental : BOOLEAN] BY <1>1 DEF Ripe
<1>3. /\ [ripe[m] EXCEPT !.coverage = FALSE] \in [coverage : BOOLEAN, incremental : BOOLEAN]
      /\ [ripe[m] EXCEPT !.incremental = FALSE] \in [coverage : BOOLEAN, incremental : BOOLEAN]
  BY <1>2
<1>4. /\ CoverageWaits(m) = [ripe EXCEPT ![m] = [ripe[m] EXCEPT !.coverage = FALSE]]
      /\ IncrementalWaits(m) = [ripe EXCEPT ![m] = [ripe[m] EXCEPT !.incremental = FALSE]]
  BY <1>1 DEF CoverageWaits, IncrementalWaits, Ripe
<1>5. CoverageWaits(m) \in Ripe /\ IncrementalWaits(m) \in Ripe BY <1>1, <1>3, <1>4 DEF Ripe
<1>6. EmptyScan \in [1 .. 3 -> SUBSET (1 .. MaxTime)] BY DEF EmptyScan
<1>7. [scan EXCEPT ![m] = EmptyScan] \in Scan BY <1>1, <1>6 DEF Scan
<1> QED BY <1>5, <1>7

LEMMA ScannedTyped ==
    ASSUME FundingInv, NEW t \in Task, t.m \in Markets, NEW page, page \subseteq 1 .. now
    PROVE  Scanned(t, page) \in Scan
<1>1. scan \in Scan /\ now \in 1 .. MaxTime BY Parts
<1>2. t.round \in 1 .. 3 BY DEF Task
<1> DEFINE seen == {u \in page : u <= t.cutoff}
           s == [scan[t.m] EXCEPT ![t.round] = @ \cup seen]
<1>3. seen \subseteq 1 .. MaxTime
  <2>1. seen \subseteq page OBVIOUS
  <2>2. page \subseteq 1 .. MaxTime BY <1>1, SizeAssumption
  <2> QED BY <2>1, <2>2
<1>4. scan[t.m] \in [1 .. 3 -> SUBSET (1 .. MaxTime)] BY <1>1 DEF Scan
<1> HIDE DEF seen
<1>5. s \in [1 .. 3 -> SUBSET (1 .. MaxTime)] BY <1>2, <1>3, <1>4
<1>6. Scanned(t, page) = IF Exchange = "okx" THEN scan ELSE [scan EXCEPT ![t.m] = s]
  BY <1>1 DEF Scanned, Scan, seen
<1> HIDE DEF s
<1> QED BY <1>1, <1>5, <1>6 DEF Scan

-----------------------------------------------------------------------------
(* Coverage *)

\* The task after a page: its lease is the same.
LEMMA AdvancedFields ==
    ASSUME NEW t \in Task, NEW n \in Nat, NEW page, page \subseteq 1 .. n, page # {}
    PROVE  LET u == Advanced(t, page) IN
           /\ u \in Task
           /\ u.job = t.job /\ u.m = t.m /\ u.gen = t.gen /\ u.kind = t.kind
           /\ u.cutoff = t.cutoff /\ u.required = t.required /\ u.initial = t.initial
           /\ u.after = IF Exchange = "okx" THEN Lowest(page) ELSE t.after
<1> DEFINE p == IF Exchange = "bitget" THEN t.page + 1 ELSE t.page
           f == IF Exchange = "okx" THEN Lowest(page) ELSE t.after
           b == t.seen \/ (t.required # Null /\ t.required \in page)
           u == [t EXCEPT !.page = p, !.after = f, !.seen = b]
<1>1. t.page \in Nat \ {0} /\ t.after \in Nat /\ t.seen \in BOOLEAN BY DEF Task
<1>2. Lowest(page) \in 1 .. n
  <2>1. Lowest(page) \in page BY PageBounds
  <2> QED BY <2>1
<1>3. p \in Nat \ {0} /\ f \in Nat /\ b \in BOOLEAN BY <1>1, <1>2
<1>4. Advanced(t, page) = u BY DEF Advanced, Task
<1> HIDE DEF p, f, b
<1>5. u \in Task BY <1>3, Zenon DEF Task
<1>6. /\ u.job = t.job /\ u.m = t.m /\ u.gen = t.gen /\ u.kind = t.kind
      /\ u.cutoff = t.cutoff /\ u.required = t.required /\ u.initial = t.initial
      /\ u.after = f
  BY DEF Task
<1> HIDE DEF u
<1> QED BY <1>4, <1>5, <1>6 DEF f

\* The task goes on below the page.
LEMMA AdvancedGood ==
    ASSUME FundingInv, Asked("coverage"), NEW page, page \subseteq 1 .. now, page # {},
           Exchange = "okx" => page = OkxPage(current.after),
           hist' = Written(current.m, page), now' = now
    PROVE  Advanced(current, page) \in GoodTasks(hist', now)
<1> DEFINE t == current
           f == IF Exchange = "okx" THEN Lowest(page) ELSE t.after
           u == Advanced(t, page)
<1>1. /\ t \in Task /\ t.m \in Markets /\ Walked(t, hist[t.m], now) /\ t.cutoff <= now
      /\ Exchange = "bitget" => t.initial = Null
  BY CoverageHeld
<1>2. t.after \in Nat /\ t.cutoff \in Nat /\ t.initial \in Nat /\ now \in Nat \ {0}
  BY <1>1, Parts DEF Task
<1>3. /\ u \in Task /\ u.after = f /\ u.initial = t.initial /\ u.cutoff = t.cutoff
      /\ u.m = t.m /\ u.job = t.job
  <2> HIDE DEF t
  <2>1. now \in Nat BY <1>2
  <2> QED BY <1>1, <2>1, AdvancedFields
<1> HIDE DEF f, t, u
<1>4. hist'[t.m] = hist[t.m] \cup page BY <1>1, PageWritten DEF t
<1>5. Walked(u, hist'[t.m], now)
  <2>1. CASE Exchange = "okx"
    <3>1. f = Lowest(page) /\ page = OkxPage(t.after) BY <2>1 DEF f, t
    <3>2. t.after # Null => t.after <= now /\ t.after .. t.cutoff \subseteq hist[t.m]
      BY <1>1, <2>1 DEF Walked
    <3>3. t.after <= now BY <1>2, <3>2 DEF Null
    <3>4. /\ f .. t.cutoff \subseteq hist[t.m] \cup page
          /\ t.after # Null => f < t.after
          /\ f \in Nat \ {0} /\ f <= now
      BY <1>1, <1>2, <3>1, <3>2, <3>3, OkxPageJoins, PageBounds
    <3>5. t.initial # Null => f # Null /\ f <= t.initial
      BY <1>1, <1>2, <3>4 DEF Walked, Null
    <3> QED BY <1>3, <1>4, <3>4, <3>5 DEF Walked
  <2>2. CASE Exchange = "bitget" BY <1>1, <1>3, <2>2 DEF Walked
  <2> QED BY <2>1, <2>2, ExchangeAssumption
<1>6. u \in GoodTasks(hist', now) BY <1>1, <1>3, <1>5 DEF GoodTasks, GoodTask
<1> QED BY <1>6 DEF t, u

\* The row after a page of its walk.
LEMMA PageCommitted ==
    ASSUME FundingInv, Asked("coverage"), NEW page, page \subseteq 1 .. now, page # {},
           Exchange = "okx" => page = OkxPage(current.after)
    PROVE  /\ GoodMarket(CommitCoverage(rows[current.m], Lowest(page), Highest(page)),
                         hist[current.m] \cup page, now)
           /\ Lowest(page) \in Nat /\ Highest(page) \in Nat
<1> DEFINE t == current
           row == rows[t.m]
           lo == Lowest(page)
           hi == Highest(page)
<1>1. /\ t \in Task /\ t.m \in Markets /\ Walked(t, hist[t.m], now)
      /\ GoodMarket(row, hist[t.m], now) /\ row.status = "BACKFILLING"
      /\ row.cutoff = t.cutoff /\ row.initial = t.initial /\ t.cutoff <= now
      /\ Exchange = "bitget" => t.initial = Null
  BY CoverageHeld
<1>2. now \in Nat \ {0} BY Parts
<1>3. lo \in page /\ hi \in page /\ \A u \in page : lo <= u /\ u <= hi BY <1>2, PageBounds
<1>4. t.after \in Nat /\ t.initial \in Nat /\ t.cutoff \in Nat BY <1>1 DEF Task
<1>5. page = OkxPage(t.after) \/ Exchange # "okx" OBVIOUS
<1> HIDE DEF t, row
<1>6. /\ Exchange = "okx" => hi .. row.cutoff \subseteq hist[t.m] \cup page
      /\ row.initial # Null => hi <= row.initial
  <2>1. CASE Exchange = "okx"
    <3>1. page = OkxPage(t.after) /\ page # {} BY <1>5, <2>1
    <3>2. t.after # Null => t.after <= now /\ t.after .. t.cutoff \subseteq hist[t.m]
      BY <1>1, <2>1 DEF Walked
    <3>3. t.after <= now BY <1>2, <1>4, <3>2 DEF Null
    <3>4. /\ hi .. t.cutoff \subseteq hist[t.m] \cup page
          /\ t.after # Null => hi < t.after
          /\ hi \in Nat
      BY <1>1, <1>2, <1>4, <3>1, <3>2, <3>3, OkxPageJoins
    <3>5. t.initial # Null => t.after # Null /\ t.after <= t.initial BY <1>1 DEF Walked
    <3> HIDE DEF hi
    <3> QED BY <1>1, <1>4, <3>4, <3>5
  <2>2. CASE Exchange = "bitget"
    <3>1. row.initial = Null BY <1>1, <2>2
    <3>2. Exchange # "okx" BY <2>2
    <3> QED BY <3>1, <3>2
  <2> QED BY <2>1, <2>2, ExchangeAssumption
<1>7. GoodMarket(CommitCoverage(row, lo, hi), hist[t.m] \cup page, now)
  BY <1>1, <1>2, <1>3, <1>6, CommittedMarketGood
<1>8. lo \in 1 .. now /\ hi \in 1 .. now BY <1>3
<1> QED BY <1>2, <1>7, <1>8 DEF t, row

LEMMA CoveragePageStep == FundingInv /\ CoveragePage => FundingInv'
<1> SUFFICES ASSUME FundingInv, CoveragePage PROVE FundingInv' OBVIOUS
<1> DEFINE t == current
           row == rows[t.m]
<1>1. Asked("coverage") BY DEF CoveragePage
<1>2. PICK a \in Answers(t) :
        /\ a.page # {} /\ hist' = Written(t.m, a.page)
        /\ ContinueRoot([rows EXCEPT ![t.m] = CommitCoverage(row, Lowest(a.page), Highest(a.page))],
                        ripe, Scanned(t, a.page), Advanced(t, a.page))
        /\ spent' = Glitch(a) /\ UNCHANGED <<now, last>>
  BY <1>1 DEF CoveragePage
<1> DEFINE page == a.page
           lo == Lowest(page)
           hi == Highest(page)
           r == CommitCoverage(row, lo, hi)
<1>3. page \subseteq 1 .. now /\ (Exchange = "okx" => page = OkxPage(t.after))
  BY AnswerFields
<1>4. t \in Task /\ t.m \in Markets BY <1>1, CoverageHeld
<1>5. now' = now BY <1>2
<1>6. GoodMarket(r, hist[t.m] \cup page, now) BY <1>1, <1>2, <1>3, PageCommitted
<1> HIDE DEF t, r
<1>7. HistGrows /\ GoodMarkets([rows EXCEPT ![t.m] = r], hist', now)
  BY <1>2, <1>3, <1>4, <1>5, <1>6, PageWritten
<1>8. Advanced(t, page) \in GoodTasks(hist', now)
  BY <1>1, <1>2, <1>3, <1>5, AdvancedGood DEF t
<1>9. Scanned(t, page) \in Scan BY <1>3, <1>4, ScannedTyped
<1>10. spent' \in Spent BY <1>2, GlitchSpent
<1>11. ContinueRoot([rows EXCEPT ![t.m] = r], ripe, Scanned(t, page), Advanced(t, page))
  BY <1>2 DEF r
<1> HIDE DEF page
<1> QED BY <1>2, <1>5, <1>7, <1>8, <1>9, <1>10, <1>11, Parts, RootStep

LEMMA NextRoundGood ==
    ASSUME FundingInv, Asked("coverage"), current.round < 3, hist' = hist
    PROVE  NextRound(current) \in GoodTasks(hist', now)
<1> DEFINE t == current
           k == t.round + 1
           u == [t EXCEPT !.round = k, !.page = 1, !.prevEmpty = t.page, !.seen = FALSE]
<1>1. t \in Task /\ t.m \in Markets /\ Walked(t, hist[t.m], now) BY CoverageHeld
<1>2. /\ k \in 1 .. 3 /\ 1 \in Nat \ {0} /\ t.page \in Nat /\ FALSE \in BOOLEAN
  BY <1>1 DEF Task
<1>3. NextRound(t) = u BY <1>1 DEF NextRound, Task
<1> HIDE DEF k, t
<1>4. u \in Task BY <1>1, <1>2, Zenon DEF Task
<1>5. /\ u.after = t.after /\ u.initial = t.initial /\ u.cutoff = t.cutoff /\ u.m = t.m
      /\ u.job = t.job
  BY <1>1 DEF Task
<1> HIDE DEF u
<1>6. u \in GoodTasks(hist', now)
  BY <1>1, <1>4, <1>5 DEF GoodTasks, GoodTask, Walked
<1> QED BY <1>3, <1>6 DEF t

\* An OKX walk that meets an empty page has read everything up to its cutoff.
LEMMA OkxWalkEnded ==
    ASSUME FundingInv, Asked("coverage"), Exchange = "okx", OkxPage(current.after) = {}
    PROVE  1 .. current.cutoff \subseteq hist[current.m]
<1> DEFINE t == current
           top == IF t.after = Null THEN now ELSE t.after - 1
<1>1. t \in Task /\ Walked(t, hist[t.m], now) BY CoverageHeld
<1>2. now \in Nat \ {0} /\ PageSize \in Nat \ {0} BY Parts, SizeAssumption
<1>3. t.after \in Nat /\ t.cutoff \in Nat BY <1>1 DEF Task
<1>4. t.after # Null => t.after <= now /\ t.after .. t.cutoff \subseteq hist[t.m]
  BY <1>1 DEF Walked
<1>5. top \in 0 .. now BY <1>2, <1>3, <1>4 DEF Null
<1>6. top \notin {u \in 1 .. now : u <= top /\ u > top - PageSize} BY DEF OkxPage
<1>7. top = 0
  <2> HIDE DEF top
  <2> QED BY <1>2, <1>5, <1>6
<1>8. t.after = 1 BY <1>2, <1>3, <1>7 DEF Null
<1> QED BY <1>4, <1>8 DEF Null

LEMMA CoverageEmptyPageStep == FundingInv /\ CoverageEmptyPage => FundingInv'
<1> SUFFICES ASSUME FundingInv, CoverageEmptyPage PROVE FundingInv' OBVIOUS
<1> DEFINE t == current
           row == rows[t.m]
           over(r) == ContinueRoot([rows EXCEPT ![t.m] = r], CoverageWaits(t.m),
                                   [scan EXCEPT ![t.m] = EmptyScan], NoTask)
<1>1. Asked("coverage") BY DEF CoverageEmptyPage
<1>2. PICK a \in Answers(t) :
        /\ a.page = {}
        /\ \/ CompletesCoverage(t) /\ over(CompleteCoverage(row))
           \/ RepeatsRound(t) /\ ContinueRoot(rows, ripe, scan, NextRound(t))
           \/ ~CompletesCoverage(t) /\ ~RepeatsRound(t) /\ over(FailCoverage(row))
        /\ spent' = Glitch(a) /\ UNCHANGED <<now, hist, last>>
  BY <1>1 DEF CoverageEmptyPage
<1>3. Exchange = "okx" => OkxPage(t.after) = {} BY <1>2, AnswerFields
<1>4. /\ t \in Task /\ t.m \in Markets /\ GoodMarket(row, hist[t.m], now)
      /\ row.status = "BACKFILLING" /\ row.cutoff = t.cutoff
  BY <1>1, CoverageHeld
<1>5. spent' \in Spent /\ HistGrows /\ now \in Nat /\ hist' = hist /\ now' = now
      /\ last' \in 1 .. 4
  BY <1>2, GlitchSpent, SameHistory, Parts
<1>6. ASSUME NEW r, GoodMarket(r, hist[t.m], now), over(r) PROVE FundingInv'
  <2>1. GoodMarkets([rows EXCEPT ![t.m] = r], hist', now) BY <1>4, <1>5, <1>6, RowWritten
  <2>2. CoverageWaits(t.m) \in Ripe /\ [scan EXCEPT ![t.m] = EmptyScan] \in Scan
    BY <1>4, WaitsTyped
  <2> QED BY <1>5, <1>6, <2>1, <2>2, RootStep
<1>7. CASE CompletesCoverage(t) /\ over(CompleteCoverage(row))
  <2>1. Exchange = "okx" => 1 .. row.cutoff \subseteq hist[t.m]
    BY <1>1, <1>3, <1>4, OkxWalkEnded
  <2>2. GoodMarket(CompleteCoverage(row), hist[t.m], now)
    BY <1>4, <1>5, <2>1, CompletedMarketGood
  <2> HIDE DEF over
  <2> QED BY <1>6, <1>7, <2>2
<1>8. CASE RepeatsRound(t) /\ ContinueRoot(rows, ripe, scan, NextRound(t))
  <2>1. t.round < 3 BY <1>4, <1>8 DEF RepeatsRound, Task
  <2>2. NextRound(t) \in GoodTasks(hist', now) BY <1>1, <1>5, <2>1, NextRoundGood
  <2>3. GoodMarkets(rows, hist', now) BY <1>5, Parts
  <2> QED BY <1>5, <1>8, <2>2, <2>3, Parts, RootStep
<1>9. CASE ~CompletesCoverage(t) /\ ~RepeatsRound(t) /\ over(FailCoverage(row))
  <2>1. GoodMarket(FailCoverage(row), hist[t.m], now) BY <1>4, <1>5, FailedMarketGood
  <2> HIDE DEF over
  <2> QED BY <1>6, <1>9, <2>1
<1> QED BY <1>2, <1>7, <1>8, <1>9

LEMMA CoverageFailsStep == FundingInv /\ CoverageFails => FundingInv'
<1> SUFFICES ASSUME FundingInv, CoverageFails PROVE FundingInv' OBVIOUS
<1> DEFINE t == current
           r == FailCoverage(rows[t.m])
<1>1. /\ Asked("coverage") /\ spent.faults < MaxFaults /\ spent' = Fault
      /\ ContinueRoot([rows EXCEPT ![t.m] = FailCoverage(@)], CoverageWaits(t.m),
                      [scan EXCEPT ![t.m] = EmptyScan], NoTask)
      /\ UNCHANGED <<now, hist, last>>
  BY DEF CoverageFails
<1>2. t.m \in Markets /\ GoodMarket(rows[t.m], hist[t.m], now) /\ rows[t.m].status = "BACKFILLING"
  BY <1>1, CoverageHeld
<1>3. GoodMarket(r, hist[t.m], now) BY <1>2, Parts, FailedMarketGood
<1>4. [rows EXCEPT ![t.m] = FailCoverage(@)] = [rows EXCEPT ![t.m] = r] OBVIOUS
<1> HIDE DEF r
<1>5. GoodMarkets([rows EXCEPT ![t.m] = r], hist', now) BY <1>1, <1>2, <1>3, RowWritten
<1>6. CoverageWaits(t.m) \in Ripe /\ [scan EXCEPT ![t.m] = EmptyScan] \in Scan
  BY <1>2, WaitsTyped
<1>7. spent' \in Spent BY <1>1, Parts, BoundAssumption DEF Fault, Spent
<1>8. HistGrows BY <1>1, SameHistory
<1>9. ContinueRoot([rows EXCEPT ![t.m] = r], CoverageWaits(t.m),
                   [scan EXCEPT ![t.m] = EmptyScan], NoTask)
  BY <1>1, <1>4
<1> QED BY <1>1, <1>5, <1>6, <1>7, <1>8, <1>9, Parts, RootStep

-----------------------------------------------------------------------------
(* Incremental tasks and discovery *)

LEMMA IncrementalPageStep == FundingInv /\ IncrementalPage => FundingInv'
<1> SUFFICES ASSUME FundingInv, IncrementalPage PROVE FundingInv' OBVIOUS
<1> DEFINE t == current
           page == PageAt(t)
           lo == Lowest(page)
           hi == Highest(page)
           r == Widen(rows[t.m], lo, hi)
<1>1. /\ Asked("incremental") /\ page # {} /\ hist' = Written(t.m, page)
      /\ UNCHANGED <<now, last, spent>>
  BY DEF IncrementalPage
<1>2. IF t.seen
      THEN /\ current' = [t EXCEPT !.post = TRUE]
           /\ rows' = [rows EXCEPT ![t.m] = Widen(@, lo, hi)]
           /\ UNCHANGED <<scan, ripe, queue, life>>
      ELSE ContinueRoot([rows EXCEPT ![t.m] = Widen(@, lo, hi)], ripe, scan, Advanced(t, page))
  BY DEF IncrementalPage
<1>3. /\ t # NoTask /\ t.job = "incremental" /\ t \in Task /\ t.m \in Markets
      /\ Known(rows[t.m]) /\ GoodMarket(rows[t.m], hist[t.m], now)
  BY <1>1, IncrementalHeld DEF Asked
<1>4. page \subseteq 1 .. now BY DEF PageAt, BitgetPage, OkxPage
<1>5. now \in Nat \ {0} BY Parts
<1>6. lo \in page /\ hi \in page /\ lo <= hi BY <1>1, <1>4, <1>5, PageBounds
<1>7. GoodMarket(r, hist[t.m] \cup page, now)
  <2> HIDE DEF lo, hi, page
  <2> QED BY <1>3, <1>4, <1>5, <1>6, WidenedMarketGood
<1>8. [rows EXCEPT ![t.m] = Widen(@, lo, hi)] = [rows EXCEPT ![t.m] = r] OBVIOUS
<1> HIDE DEF r, page, lo, hi
<1>9. HistGrows /\ GoodMarkets([rows EXCEPT ![t.m] = r], hist', now)
  BY <1>1, <1>3, <1>4, <1>7, PageWritten
<1>10. CASE t.seen
  <2> DEFINE u == [t EXCEPT !.post = TRUE]
  <2>1. u \in Task /\ u.job = "incremental" /\ u.m = t.m BY <1>3 DEF Task
  <2>2. current' = u /\ rows' = [rows EXCEPT ![t.m] = r] /\ UNCHANGED <<scan, ripe, queue, life>>
    BY <1>2, <1>8, <1>10
  <2>3. u \in GoodTasks(hist', now) BY <1>3, <2>1 DEF GoodTasks, GoodTask
  <2>4. GoodTasks(hist, now) \subseteq GoodTasks(hist', now)
    BY <1>5, <1>9, TasksPersist DEF HistGrows
  <2> HIDE DEF u
  <2>5. queue' \in [CategoryNames -> Seq(GoodTasks(hist', now))]
    BY <2>2, <2>4, Parts, QueuesPersist
  <2>6. TasksGood' BY <1>1, <2>2, <2>3, <2>5 DEF TasksGood
  <2>7. Idle' BY <1>3, <2>2, Parts DEF Idle
  <2>8. GoodTasks(hist', now) \subseteq Task BY DEF GoodTasks
  <2>9. current' \in Task /\ queue' \in [CategoryNames -> Seq(Task)]
    BY <2>1, <2>2, <2>5, <2>8, QueuesPersist
  <2>10. TypeOK'
    BY <1>1, <1>9, <2>2, <2>9, Parts DEF TypeOK, GoodMarkets, HistGrows, Scan, Ripe, Spent
  <2> QED BY <1>1, <1>9, <2>2, <2>6, <2>7, <2>10 DEF FundingInv
<1>11. CASE ~t.seen
  <2> DEFINE u == Advanced(t, page)
  <2>1. u \in Task /\ u.job = "incremental" /\ u.m = t.m
    BY <1>1, <1>3, <1>4, <1>5, AdvancedFields
  <2>2. u \in GoodTasks(hist', now)
    <3> HIDE DEF u
    <3> QED BY <1>3, <2>1 DEF GoodTasks, GoodTask
  <2>3. ContinueRoot([rows EXCEPT ![t.m] = r], ripe, scan, u) BY <1>2, <1>8, <1>11
  <2> HIDE DEF u
  <2> QED BY <1>1, <1>9, <2>2, <2>3, Parts, RootStep
<1> QED BY <1>10, <1>11

LEMMA IncrementalLeaves ==
    ASSUME FundingInv, current # NoTask, current.job = "incremental", MayRequest(current),
           NEW status \in {"IDLE", "INCOMPLETE"},
           ContinueRoot([rows EXCEPT ![current.m] = FinishIncremental(@, status)],
                        IncrementalWaits(current.m), scan, NoTask),
           UNCHANGED <<now, hist, last>>, spent' \in Spent
    PROVE  FundingInv'
<1> DEFINE m == current.m
           r == FinishIncremental(rows[m], status)
<1>1. m \in Markets /\ Known(rows[m]) /\ GoodMarket(rows[m], hist[m], now)
  BY IncrementalHeld
<1>2. GoodMarket(r, hist[m], now) BY <1>1, Parts, FetchedMarketGood
<1>3. [rows EXCEPT ![m] = FinishIncremental(@, status)] = [rows EXCEPT ![m] = r] OBVIOUS
<1> HIDE DEF r
<1>4. GoodMarkets([rows EXCEPT ![m] = r], hist', now) BY <1>1, <1>2, RowWritten
<1>5. IncrementalWaits(m) \in Ripe BY <1>1, WaitsTyped
<1>6. ContinueRoot([rows EXCEPT ![m] = r], IncrementalWaits(m), scan, NoTask) BY <1>3
<1> QED BY <1>4, <1>5, <1>6, SameHistory, Parts, RootStep

LEMMA IncrementalEndsStep == FundingInv /\ (IncrementalEnds \/ IncrementalFails) => FundingInv'
<1> SUFFICES ASSUME FundingInv, IncrementalEnds \/ IncrementalFails PROVE FundingInv' OBVIOUS
<1>1. CASE IncrementalEnds
  <2>1. spent' \in Spent BY <1>1, Parts DEF IncrementalEnds
  <2>2. "IDLE" \in {"IDLE", "INCOMPLETE"} OBVIOUS
  <2> QED BY <1>1, <2>1, <2>2, IncrementalLeaves DEF IncrementalEnds
<1>2. CASE IncrementalFails
  <2>1. spent' \in Spent
    BY <1>2, Parts, BoundAssumption DEF IncrementalFails, Fault, Spent
  <2>2. "INCOMPLETE" \in {"IDLE", "INCOMPLETE"} OBVIOUS
  <2> QED BY <1>2, <2>1, <2>2, IncrementalLeaves DEF IncrementalFails
<1> QED BY <1>1, <1>2

LEMMA DiscoveryAppliedStep == FundingInv /\ DiscoveryApplied => FundingInv'
<1> SUFFICES ASSUME FundingInv, DiscoveryApplied PROVE FundingInv' OBVIOUS
<1>1. PICK active \in [Markets -> BOOLEAN] :
        LET flipped == {m \in Markets : Known(rows[m]) /\ rows[m].active # active[m]}
            canceled(m) == m \in flipped /\ rows[m].incStatus = "RUNNING"
            waits(m) == m \in flipped /\ ~StaysPending(rows[m])
        IN /\ spent.flips + Cardinality(flipped) <= MaxFlips
           /\ spent' = [spent EXCEPT !.flips = @ + Cardinality(flipped)]
           /\ ContinueRoot(
                [m \in Markets |-> Observe(rows[m], active[m])],
                [m \in Markets |-> [coverage |-> ripe[m].coverage /\ ~waits(m),
                                    incremental |-> ripe[m].incremental /\ ~canceled(m)]],
                [m \in Markets |-> IF m \in flipped THEN EmptyScan ELSE scan[m]],
                NoTask)
           /\ UNCHANGED <<now, hist, last>>
  BY DEF DiscoveryApplied
<1> DEFINE flipped == {m \in Markets : Known(rows[m]) /\ rows[m].active # active[m]}
           canceled(m) == m \in flipped /\ rows[m].incStatus = "RUNNING"
           waits(m) == m \in flipped /\ ~StaysPending(rows[m])
           rs == [m \in Markets |-> Observe(rows[m], active[m])]
           rp == [m \in Markets |-> [coverage |-> ripe[m].coverage /\ ~waits(m),
                                     incremental |-> ripe[m].incremental /\ ~canceled(m)]]
           sc == [m \in Markets |-> IF m \in flipped THEN EmptyScan ELSE scan[m]]
<1>2. /\ spent.flips + Cardinality(flipped) <= MaxFlips
      /\ spent' = [spent EXCEPT !.flips = @ + Cardinality(flipped)]
      /\ ContinueRoot(rs, rp, sc, NoTask) /\ UNCHANGED <<now, hist, last>>
  BY <1>1
<1>3. Cardinality(flipped) \in Nat
  <2>1. flipped \in SUBSET Markets OBVIOUS
  <2> HIDE DEF flipped
  <2> QED BY <2>1, MarketsFinite, FS_Subset, FS_CardinalityType
<1> HIDE DEF flipped, canceled, waits
<1>4. spent' \in Spent
  <2> DEFINE k == spent.flips + Cardinality(flipped)
  <2>1. spent \in Spent BY Parts
  <2>2. MaxFlips \in Nat BY BoundAssumption
  <2>3. spent.flips \in 0 .. MaxFlips BY <2>1 DEF Spent
  <2>4. k \in 0 .. MaxFlips BY <1>2, <1>3, <2>2, <2>3
  <2>5. spent' = [spent EXCEPT !.flips = k] BY <1>2
  <2> HIDE DEF k
  <2> QED BY <2>1, <2>4, <2>5, Zenon DEF Spent
<1>5. rp \in Ripe BY Parts DEF Ripe
<1>6. sc \in Scan BY Parts DEF Scan, EmptyScan
<1>7. GoodMarkets(rs, hist', now)
  <2>1. ASSUME NEW m \in Markets PROVE GoodMarket(Observe(rows[m], active[m]), hist[m], now)
    BY Parts, ObservedMarketGood DEF GoodMarkets
  <2>2. \A m \in Markets : Observe(rows[m], active[m]) \in Row
    BY <2>1 DEF GoodMarket, GoodRow
  <2> QED BY <1>2, <2>1, <2>2 DEF GoodMarkets
<1> HIDE DEF rs, rp, sc
<1> QED BY <1>2, <1>4, <1>5, <1>6, <1>7, SameHistory, Parts, RootStep

-----------------------------------------------------------------------------
(* The invariant and what follows from it *)

LEMMA NextKeeps == FundingInv /\ [Next]_vars => FundingInv'
<1> SUFFICES ASSUME FundingInv, [Next]_vars PROVE FundingInv' OBVIOUS
<1>1. CASE UNCHANGED vars
  <2>1. /\ rows' = rows /\ hist' = hist /\ now' = now /\ scan' = scan /\ ripe' = ripe
        /\ last' = last /\ spent' = spent /\ life' = life /\ current' = current
        /\ queue' = queue
    BY <1>1 DEF vars
  <2>2. Idle' BY <2>1, Parts DEF Idle
  <2>3. now' \in now .. MaxTime BY <2>1, Parts
  <2> QED BY <2>1, <2>2, <2>3, Parts, QuietStep
<1>2. CASE Start BY <1>2, StartStep
<1>3. CASE RequestStop \/ Crash \/ Restart \/ Settle \/ DiscoveryTick \/ Fatal
             \/ \E m \in Markets : CoverageElapses(m) \/ IncrementalElapses(m)
  BY <1>3, QuietActions
<1>4. CASE TakeTask BY <1>4, TakeTaskStep
<1>5. CASE DropSuperseded \/ DiscoveryFails \/ Canceled BY <1>5, QuietEnds
<1>6. CASE CoveragePage BY <1>6, CoveragePageStep
<1>7. CASE CoverageEmptyPage BY <1>7, CoverageEmptyPageStep
<1>8. CASE CoverageFails BY <1>8, CoverageFailsStep
<1>9. CASE IncrementalPage BY <1>9, IncrementalPageStep
<1>10. CASE IncrementalEnds \/ IncrementalFails BY <1>10, IncrementalEndsStep
<1>11. CASE DiscoveryApplied BY <1>11, DiscoveryAppliedStep
<1> QED
  BY <1>1, <1>2, <1>3, <1>4, <1>5, <1>6, <1>7, <1>8, <1>9, <1>10, <1>11 DEF Next, Work

LEMMA FundingInvariant == Spec => []FundingInv
BY InitEstablishes, NextKeeps, PTL DEF Spec

\* Every variable of the worker and every stored row keeps its type.
THEOREM FundingTypeCorrect == Spec => []TypeOK
<1>1. FundingInv => TypeOK BY DEF FundingInv
<1> QED BY <1>1, FundingInvariant, PTL

\* validateStateRow accepts every row that any sequence of transactions leaves behind.
THEOREM RowsAreAlwaysReadable == Spec => []RowsReadable
<1>1. FundingInv => RowsReadable BY DEF FundingInv, GoodMarkets, GoodMarket, GoodRow, RowsReadable
<1> QED BY <1>1, FundingInvariant, PTL

\* The repository never refuses a lease that the recovery or the scheduler asks for.
THEOREM WorkerIsNeverRefusedHolds == Spec => []WorkerIsNeverRefused
<1>1. FundingInv => WorkerIsNeverRefused
  <2> SUFFICES ASSUME FundingInv PROVE WorkerIsNeverRefused OBVIOUS
  <2>1. \A m \in Markets : GoodRow(rows[m]) BY DEF FundingInv, GoodMarkets, GoodMarket
  <2> QED BY <2>1, GoodRowNotRefused DEF WorkerIsNeverRefused
<1> QED BY <1>1, FundingInvariant, PTL

\* A page that was requested under a valid lease is answered under a valid lease.
THEOREM AnswerIsNeverStaleHolds == Spec => AnswerIsNeverStale
<1> DEFINE Fresh == current # NoTask /\ MayRequest(current) /\ current' = current
                      => MayRequest(current)'
<1>1. FundingInv /\ [Next]_vars => [Fresh]_vars
  <2> SUFFICES ASSUME FundingInv, [Next]_vars, current # NoTask, MayRequest(current),
                      current' = current
               PROVE  MayRequest(current)'
    OBVIOUS
  <2>1. rows' = rows
    <3>1. ASSUME NEW rs, NEW rp, NEW sc, NEW t, ContinueRoot(rs, rp, sc, t) PROVE FALSE
      BY <3>1 DEF ContinueRoot
    <3>2. ~Start BY Parts DEF Start, Idle
    <3>3. CASE IncrementalPage
      <4>1. current.post = FALSE /\ current \in Task
        BY <3>3, Parts DEF IncrementalPage, Asked, GoodTasks, Task
      <4>2. [current EXCEPT !.post = TRUE] # current
        BY <4>1 DEF Task
      <4> QED BY <3>1, <3>3, <4>2 DEF IncrementalPage
    <3> QED
      BY <3>1, <3>2, <3>3 DEF Next, Work, vars, stored, RequestStop, Crash, Restart, Settle,
         CoverageElapses, IncrementalElapses, DiscoveryTick, TakeTask, DropSuperseded,
         CoveragePage, CoverageEmptyPage, CoverageFails, IncrementalEnds, IncrementalFails,
         DiscoveryApplied, DiscoveryFails, Canceled, Fatal
  <2> QED BY <2>1 DEF MayRequest, Holds
<1> QED BY <1>1, FundingInvariant, PTL DEF Spec, AnswerIsNeverStale
=============================================================================
