-------------------------- MODULE FundingPromiseProofs --------------------------
(***************************************************************************)
(* The worker of FundingWorker implements FundingPromise: every step of it *)
(* is a step of the promise, or one that no reader of the rows and the     *)
(* history sees.  On OKX a walk is proved to be complete by where it got   *)
(* to; on Bitget by two rounds that saw the same, which is a proof as long *)
(* as one page at most lacks something.                                    *)
(***************************************************************************)
EXTENDS FundingLeaseProofs

-----------------------------------------------------------------------------
(* What a reader of a row can see of a transaction *)

\* The proof of r is a later one.
Newer(r, row) == r.proofGen > row.proofGen /\ r.proofCutoff >= row.proofCutoff

\* From row to r no proof is taken back, and a proof is owed from a return to the next proof.
Kept(row, r) ==
    /\ SameProof(r, row) \/ Newer(r, row)
    /\ r.reactivation /\ ~row.reactivation => r.active /\ ~row.active
    /\ row.reactivation /\ ~r.reactivation => ~r.active \/ Newer(r, row)

Alike(r, row) == SameMarket(r, row) /\ SameProof(r, row)

LEMMA AlikeIsKept ==
    ASSUME NEW row, NEW r, Alike(r, row)
    PROVE  Kept(row, r)
BY DEF Alike, SameMarket, SameProof, Kept

LEMMA KeptThenAlike ==
    ASSUME NEW row, NEW r, NEW s, Kept(row, r), Alike(s, r)
    PROVE  Kept(row, s)
BY DEF Alike, SameMarket, SameProof, Kept, Newer

LEMMA CompletedKept ==
    ASSUME NEW row, NEW h, NEW n \in Nat, GoodMarket(row, h, n), row.status = "BACKFILLING"
    PROVE  Kept(row, CompleteCoverage(row))
<1> DEFINE r == CompleteCoverage(row)
<1> SUFFICES Kept(row, r) OBVIOUS
<1>1. row \in Row /\ GoodRow(row) /\ Timely(row, n) BY DEF GoodMarket, GoodRow
<1>2. Readable(row) /\ Leased(row) BY <1>1 DEF GoodRow, Known
<1>3. row.proofGen = Null \/ row.proofGen < row.gen BY <1>2 DEF Readable, ProofReadable
<1>4. row.gen > 0 BY <1>2 DEF Leased
<1>5. row.proofCutoff <= row.cutoff BY <1>1 DEF Timely
<1>6. /\ r.proofGen = row.gen /\ r.proofCutoff = row.cutoff
      /\ r.reactivation <=> row.reactivation /\ row.kind # "REACTIVATION"
  BY <1>1, CompleteCoverageFields
<1> HIDE DEF r
<1>7. row.gen \in Nat /\ row.proofGen \in Nat /\ row.cutoff \in Nat /\ row.proofCutoff \in Nat
  BY <1>1 DEF Row
<1>8. row.proofGen < row.gen BY <1>3, <1>4, <1>7 DEF Null
<1>9. Newer(r, row) BY <1>5, <1>6, <1>7, <1>8 DEF Newer
<1> QED BY <1>6, <1>9 DEF Kept

LEMMA ObservedKept ==
    ASSUME NEW row, GoodRow(row), NEW active \in BOOLEAN
    PROVE  Kept(row, Observe(row, active))
<1>1. row \in Row BY DEF GoodRow
<1>2. CASE Known(row) /\ row.active # active
  <2> DEFINE r == Transition(row, active)
  <2>1. r.active = active /\ r.reactivation = active /\ SameProof(r, row)
    BY <1>1, TransitionFields
  <2>2. Observe(row, active) = r BY <1>2 DEF Observe
  <2>3. row.active \in BOOLEAN BY <1>1 DEF Row
  <2> HIDE DEF r
  <2> QED BY <1>2, <2>1, <2>2, <2>3 DEF Kept
<1>3. CASE ~Known(row) /\ active
  <2>1. row = NoRow BY <1>3 DEF GoodRow
  <2>2. Observe(row, active) = NewRow BY <1>3 DEF Observe
  <2>3. Kept(NoRow, NewRow) BY DEF Kept, SameProof, NewRow, NoRow
  <2> QED BY <2>1, <2>2, <2>3
<1>4. CASE Observe(row, active) = row
  BY <1>4, AlikeIsKept DEF Alike, SameMarket, SameProof
<1> QED BY <1>2, <1>3, <1>4 DEF Observe

-----------------------------------------------------------------------------
(* Scheduling shows nothing new to a reader *)

LEMMA DueKinds ==
    ASSUME NEW row \in Row, NEW due \in BOOLEAN
    PROVE  CoverageKindDue(row, due) \in CoverageKinds \cup {"none"}
BY DEF CoverageKindDue, CoverageKinds, Row

LEMMA ScheduledAlike ==
    \A rs \in [Markets -> Row], rp \in Ripe :
        now \in Nat => \A m \in Markets : Alike(RowsScheduled(rs, rp)[m], rs[m])
<1> SUFFICES ASSUME NEW rs \in [Markets -> Row], NEW rp \in Ripe, now \in Nat, NEW m \in Markets
             PROVE  Alike(RowsScheduled(rs, rp)[m], rs[m])
  OBVIOUS
<1> DEFINE kind == CoverageKindDue(rs[m], rp[m].coverage)
           w == IF kind = "none" THEN rs[m] ELSE StartCoverage(rs[m], kind, now)
           z == StartIncremental(w)
<1>1. RowsScheduled(rs, rp)[m] = IF IncrementalDue(rs[m], rp[m].incremental) THEN z ELSE w
  BY DEF RowsScheduled
<1>2. w \in Row /\ Alike(w, rs[m])
  <2>1. CASE kind = "none" BY <2>1 DEF Alike, SameMarket, SameProof
  <2>2. CASE kind # "none"
    <3>1. kind \in CoverageKinds
      <4>1. rp[m].coverage \in BOOLEAN BY DEF Ripe
      <4> QED BY <2>2, <4>1, DueKinds
    <3>2. w = StartCoverage(rs[m], kind, now) BY <2>2
    <3> HIDE DEF kind
    <3> QED BY <3>1, <3>2, StartCoverageFields DEF Alike
  <2> QED BY <2>1, <2>2
<1> HIDE DEF w
<1>3. Alike(z, w) BY <1>2, StartIncrementalFields DEF Alike
<1> HIDE DEF z
<1> QED BY <1>1, <1>2, <1>3 DEF Alike, SameMarket, SameProof

LEMMA RootKeeps ==
    \A rs \in [Markets -> Row], rp \in Ripe : \A sc, t :
        /\ now \in Nat /\ \A m \in Markets : Kept(rows[m], rs[m])
        /\ ContinueRoot(rs, rp, sc, t)
        => \A m \in Markets : Kept(rows[m], rows'[m])
<1> SUFFICES ASSUME NEW rs \in [Markets -> Row], NEW rp \in Ripe, NEW sc, NEW t, now \in Nat,
                    \A m \in Markets : Kept(rows[m], rs[m]),
                    ContinueRoot(rs, rp, sc, t), NEW m \in Markets
             PROVE  Kept(rows[m], rows'[m])
  OBVIOUS
<1>1. CASE life = "running"
  <2>1. rows' = RowsScheduled(rs, rp) BY <1>1 DEF ContinueRoot, SchedulePersistedWork
  <2>2. Alike(RowsScheduled(rs, rp)[m], rs[m]) BY ScheduledAlike
  <2> QED BY <2>1, <2>2, KeptThenAlike
<1>2. CASE life # "running"
  BY <1>2 DEF ContinueRoot
<1> QED BY <1>1, <1>2

-----------------------------------------------------------------------------
(* What a Bitget walk has seen.  Pages shift while they are read and one of  *)
(* them may lack records; a walk is believed when two rounds saw the same.   *)

\* The settlements up to the cutoff of t that its round i has gone past.
Behind(t, n, i) == {u \in 1 .. t.cutoff : i < t.round \/ u > n - (t.page - 1) * PageSize}

Sound(t, s, n, i) == Behind(t, n, i) \subseteq s[i]

\* With g glitches behind it: at most one round lacks something, and none before the first glitch.
Compared(t, s, n, g) ==
    /\ g = 0 => \A i \in 1 .. t.round : Sound(t, s, n, i)
    /\ \A i, j \in 1 .. t.round : i = j \/ Sound(t, s, n, i) \/ Sound(t, s, n, j)

\* Only the task that holds the lease of a row has to answer for the scan of its market.
Comparing(t, rs, sc, n, g) ==
    t.job = "coverage" =>
        /\ t.m \in Markets /\ t.gen <= rs[t.m].gen
        /\ HoldsCoverage(rs[t.m], t) => Compared(t, sc[t.m], n, g)

CompareTasks(rs, sc, n, g) == {t \in Task : Comparing(t, rs, sc, n, g)}

\* What a row claims and what its scan has seen is in the history h.
Seen(row, s, h) == 1 .. row.proofCutoff \subseteq h /\ \A i \in 1 .. 3 : s[i] \subseteq h

BitgetInv ==
    /\ \A m \in Markets : Seen(rows[m], scan[m], hist[m])
    /\ current \in CompareTasks(rows, scan, now, spent.glitches) \cup {NoTask}
    /\ queue \in [CategoryNames -> Seq(CompareTasks(rows, scan, now, spent.glitches))]

\* From row r with scan x to row s with scan z a lease is taken, ended, or kept with what it saw.
Follows(r, x, s, z) ==
    \/ Takes(r, s, "coverage")
    \/ /\ Keeps(r, s, "coverage")
       /\ Running(s, "coverage") => \A i \in 1 .. 3 : x[i] \subseteq z[i]

LEMMA ComparedLater ==
    \A t \in Task : \A s, z : \A n, k, g, f \in Nat :
        Compared(t, s, n, g) /\ n <= k /\ g <= f /\ (\A i \in 1 .. 3 : s[i] \subseteq z[i]) =>
            Compared(t, z, k, f)
<1> SUFFICES ASSUME NEW t \in Task, NEW s, NEW z, NEW n \in Nat, NEW k \in Nat, NEW g \in Nat,
                    NEW f \in Nat, Compared(t, s, n, g), n <= k, g <= f,
                    \A i \in 1 .. 3 : s[i] \subseteq z[i]
             PROVE  Compared(t, z, k, f)
  OBVIOUS
<1>1. t.round \in 1 .. 3 /\ t.page \in Nat \ {0} /\ t.cutoff \in Nat BY DEF Task
<1>2. (t.page - 1) * PageSize \in Nat
  <2>1. t.page - 1 \in Nat /\ PageSize \in Nat BY <1>1, SizeAssumption
  <2> QED BY <2>1
<1>3. ASSUME NEW i \in 1 .. t.round, Sound(t, s, n, i) PROVE Sound(t, z, k, i)
  <2> SUFFICES ASSUME NEW u \in Behind(t, k, i) PROVE u \in z[i] BY DEF Sound
  <2> DEFINE d == (t.page - 1) * PageSize
  <2>1. u \in 1 .. t.cutoff /\ (i < t.round \/ u > k - d) BY DEF Behind
  <2>2. d \in Nat BY <1>2
  <2>3. u \in 1 .. t.cutoff /\ (i < t.round \/ u > n - d)
    <3> HIDE DEF d
    <3> QED BY <2>1, <2>2
  <2>4. u \in Behind(t, n, i) BY <2>3 DEF Behind
  <2>5. i \in 1 .. 3 BY <1>1
  <2> QED BY <1>3, <2>4, <2>5 DEF Sound
<1>4. f = 0 => g = 0 OBVIOUS
<1> QED BY <1>3, <1>4 DEF Compared

LEMMA ComparingFollows ==
    \A t \in Task : \A rs, ss \in [Markets -> Row] : \A sc, zc : \A n, k, g, f \in Nat :
        /\ Comparing(t, rs, sc, n, g) /\ n <= k /\ g <= f
        /\ \A m \in Markets : Follows(rs[m], sc[m], ss[m], zc[m])
        => Comparing(t, ss, zc, k, f)
<1> SUFFICES ASSUME NEW t \in Task, NEW rs \in [Markets -> Row], NEW ss \in [Markets -> Row],
                    NEW sc, NEW zc, NEW n \in Nat, NEW k \in Nat, NEW g \in Nat, NEW f \in Nat,
                    Comparing(t, rs, sc, n, g), n <= k, g <= f,
                    \A m \in Markets : Follows(rs[m], sc[m], ss[m], zc[m]), t.job = "coverage"
             PROVE  /\ t.m \in Markets /\ t.gen <= ss[t.m].gen
                    /\ HoldsCoverage(ss[t.m], t) => Compared(t, zc[t.m], k, f)
  BY DEF Comparing
<1> DEFINE r == rs[t.m]
           s == ss[t.m]
<1>1. /\ t.m \in Markets /\ t.gen <= r.gen
      /\ HoldsCoverage(r, t) => Compared(t, sc[t.m], n, g)
  BY DEF Comparing
<1>2. t.gen \in Nat /\ r.gen \in Nat /\ s.gen \in Nat BY <1>1 DEF Task, Row
<1>3. Follows(r, sc[t.m], s, zc[t.m]) BY <1>1
<1> HIDE DEF r, s
<1>4. CASE Takes(r, s, "coverage")
  <2>1. s.gen > r.gen BY <1>4 DEF Takes, GenOf
  <2>2. t.gen <= s.gen /\ s.gen # t.gen BY <1>1, <1>2, <2>1
  <2> QED BY <1>1, <2>2 DEF HoldsCoverage, s
<1>5. CASE /\ Keeps(r, s, "coverage")
           /\ Running(s, "coverage") => \A i \in 1 .. 3 : sc[t.m][i] \subseteq zc[t.m][i]
  <2>1. t.gen <= s.gen BY <1>1, <1>2, <1>5 DEF Keeps, GenOf
  <2>2. ASSUME HoldsCoverage(s, t) PROVE Compared(t, zc[t.m], k, f)
    <3>1. Running(s, "coverage") BY <2>2 DEF HoldsCoverage, Running
    <3>2. HoldsCoverage(r, t) BY <1>5, <2>2, <3>1 DEF Keeps, Serves
    <3> QED BY <1>1, <1>5, <3>1, <3>2, ComparedLater
  <2> QED BY <1>1, <2>1, <2>2 DEF s
<1> QED BY <1>3, <1>4, <1>5 DEF Follows

LEMMA FollowingTasks ==
    \A rs, ss \in [Markets -> Row] : \A sc, zc : \A n, k, g, f \in Nat :
        /\ n <= k /\ g <= f
        /\ \A m \in Markets : Follows(rs[m], sc[m], ss[m], zc[m])
        => CompareTasks(rs, sc, n, g) \subseteq CompareTasks(ss, zc, k, f)
BY ComparingFollows DEF CompareTasks

\* A walk that has not begun has nothing to answer for.
LEMMA NewTasksCompared ==
    \A rs, sc : \A coverage, incremental \in SUBSET Markets : \A n, g \in Nat :
        (\A m \in Markets : rs[m] \in Row /\ Timely(rs[m], n)) =>
            NewTasks(rs, coverage, incremental) \subseteq CompareTasks(rs, sc, n, g)
<1> SUFFICES ASSUME NEW rs, NEW sc, NEW coverage \in SUBSET Markets,
                    NEW incremental \in SUBSET Markets, NEW n \in Nat, NEW g \in Nat,
                    \A m \in Markets : rs[m] \in Row /\ Timely(rs[m], n),
                    NEW t \in NewTasks(rs, coverage, incremental)
             PROVE  t \in Task /\ Comparing(t, rs, sc, n, g)
  BY DEF CompareTasks
<1>1. /\ t \in Task /\ t.m \in Markets
      /\ (t.job = "coverage" /\ t = CoverageTask(t.m, rs[t.m])) \/ t.job = "incremental"
  BY NewTaskFields
<1>2. CASE t.job = "coverage"
  <2> DEFINE r == rs[t.m]
  <2>1. t = CoverageTask(t.m, r) /\ r \in Row /\ Timely(r, n) BY <1>1, <1>2
  <2>2. t.gen = r.gen /\ t.cutoff = r.cutoff BY <1>1, <2>1, CoverageTaskFields
  <2>3. t.round = 1 /\ t.page = 1 BY <2>1 DEF CoverageTask, DiscoveryTask
  <2>4. r.gen \in Nat /\ r.cutoff \in Nat /\ r.cutoff <= n BY <2>1 DEF Row, Timely
  <2> HIDE DEF r
  <2>5. (t.page - 1) * PageSize = 0 BY <2>3, SizeAssumption
  <2>6. Behind(t, n, 1) = {} BY <2>2, <2>3, <2>4, <2>5 DEF Behind
  <2>7. \A i \in 1 .. t.round : i = 1 BY <2>3
  <2>8. Compared(t, sc[t.m], n, g) BY <2>6, <2>7 DEF Compared, Sound
  <2> QED BY <1>1, <2>2, <2>4, <2>8 DEF Comparing, r
<1>3. CASE t.job = "incremental" BY <1>1, <1>3 DEF Comparing
<1> QED BY <1>1, <1>2, <1>3

LEMMA ScheduleCompares ==
    \A rs, sc : \A rp \in Ripe : \A g \in Nat :
        \A q \in [CategoryNames -> Seq(CompareTasks(rs, sc, now, g))] :
            /\ now \in Nat \ {0} /\ GoodRows(rs) /\ GoodMarkets(rows', hist', now)
            /\ \A m \in Markets : Seen(rs[m], sc[m], hist'[m])
            /\ SchedulePersistedWork(rs, rp, sc, q)
            => /\ \A m \in Markets : Seen(rows'[m], scan'[m], hist'[m])
               /\ queue' \in [CategoryNames -> Seq(CompareTasks(rows', scan', now, g))]
<1> SUFFICES ASSUME NEW rs, NEW sc, NEW rp \in Ripe, NEW g \in Nat,
                    NEW q \in [CategoryNames -> Seq(CompareTasks(rs, sc, now, g))],
                    now \in Nat \ {0}, GoodRows(rs), GoodMarkets(rows', hist', now),
                    \A m \in Markets : Seen(rs[m], sc[m], hist'[m]),
                    SchedulePersistedWork(rs, rp, sc, q)
             PROVE  /\ \A m \in Markets : Seen(rows'[m], scan'[m], hist'[m])
                    /\ queue' \in [CategoryNames -> Seq(CompareTasks(rows', scan', now, g))]
  OBVIOUS
<1> DEFINE C == StartedCoverage(rs, rp)
           I == StartedIncremental(rs, rp)
           ss == RowsScheduled(rs, rp)
           G == CompareTasks(ss, scan', now, g)
<1>1. /\ rows' = ss /\ queue' = Enqueued(q, rows', C, I)
      /\ scan' = [m \in Markets |-> IF m \in C THEN EmptyScan ELSE sc[m]]
  BY DEF SchedulePersistedWork
<1>2. C \in SUBSET Markets /\ I \in SUBSET Markets BY DEF StartedCoverage, StartedIncremental
<1>3. GoodRows(ss) BY <1>1 DEF GoodMarkets, GoodMarket, GoodRows
<1>4. Leases(rs, ss, C, I) BY <1>3, ScheduledLeases
<1>5. \A m \in Markets : Alike(ss[m], rs[m]) BY ScheduledAlike DEF GoodRows
<1>6. \A m \in Markets : ss[m] \in Row /\ Timely(ss[m], now)
  BY <1>1 DEF GoodMarkets, GoodMarket
<1> HIDE DEF C, I, ss
<1>7. ASSUME NEW m \in Markets
      PROVE  Seen(ss[m], scan'[m], hist'[m]) /\ Follows(rs[m], sc[m], ss[m], scan'[m])
  <2>1. Seen(rs[m], sc[m], hist'[m]) /\ ss[m].proofCutoff = rs[m].proofCutoff
    BY <1>5 DEF Alike, SameProof
  <2>2. CASE m \in C
    <3>1. scan'[m] = EmptyScan BY <1>1, <2>2
    <3>2. Takes(rs[m], ss[m], "coverage") BY <1>4, <2>2 DEF Leases, Taken, Jobs
    <3> QED BY <2>1, <3>1, <3>2 DEF Seen, Follows, EmptyScan
  <2>3. CASE m \notin C
    <3>1. scan'[m] = sc[m] BY <1>1, <2>3
    <3>2. Keeps(rs[m], ss[m], "coverage") BY <1>4, <2>3 DEF Leases, Taken, Jobs
    <3> QED BY <2>1, <3>1, <3>2 DEF Seen, Follows
  <2> QED BY <2>2, <2>3
<1>8. CompareTasks(rs, sc, now, g) \subseteq G
  <2>1. rs \in [Markets -> Row] /\ ss \in [Markets -> Row] BY <1>3 DEF GoodRows
  <2>2. now \in Nat /\ now <= now /\ g <= g OBVIOUS
  <2>3. \A m \in Markets : Follows(rs[m], sc[m], ss[m], scan'[m]) BY <1>7
  <2> QED BY <2>1, <2>2, <2>3, FollowingTasks
<1>9. NewTasks(ss, C, I) \subseteq G BY <1>2, <1>6, NewTasksCompared
<1> HIDE DEF G
<1>10. q \in [CategoryNames -> Seq(G)] BY <1>8, QueuesPersist
<1>11. Enqueued(q, ss, C, I) \in [CategoryNames -> Seq(G)]
  BY <1>2, <1>6, <1>9, <1>10, EnqueuedIn
<1> QED BY <1>1, <1>7, <1>11 DEF G

\* The root loop goes on with rows and scans that follow from those before.
LEMMA RootCompares ==
    \A rs, sc, t : \A rp \in Ripe :
        /\ FundingInv /\ FundingInv' /\ BitgetInv /\ now' = now /\ GoodRows(rs)
        /\ \A m \in Markets :
                Follows(rows[m], scan[m], rs[m], sc[m]) /\ Seen(rs[m], sc[m], hist'[m])
        /\ spent.glitches <= spent'.glitches
        /\ t # NoTask => t \in CompareTasks(rs, sc, now, spent'.glitches)
        /\ ContinueRoot(rs, rp, sc, t)
        => BitgetInv'
<1> SUFFICES ASSUME NEW rs, NEW sc, NEW t, NEW rp \in Ripe, FundingInv, FundingInv', BitgetInv,
                    now' = now, GoodRows(rs),
                    \A m \in Markets :
                        Follows(rows[m], scan[m], rs[m], sc[m]) /\ Seen(rs[m], sc[m], hist'[m]),
                    spent.glitches <= spent'.glitches,
                    t # NoTask => t \in CompareTasks(rs, sc, now, spent'.glitches),
                    ContinueRoot(rs, rp, sc, t)
             PROVE  BitgetInv'
  OBVIOUS
<1> DEFINE g == spent.glitches
           f == spent'.glitches
           G == CompareTasks(rs, sc, now, f)
<1>1. now \in Nat \ {0} /\ g \in Nat /\ f \in Nat
  <2>1. spent \in Spent /\ now \in Nat \ {0} BY Parts
  <2>2. spent' \in Spent BY DEF FundingInv, TypeOK, Spent
  <2> QED BY <2>1, <2>2, BoundAssumption DEF Spent
<1>2. rows \in [Markets -> Row] /\ rs \in [Markets -> Row] BY LeaseParts DEF GoodRows
<1>3. GoodMarkets(rows', hist', now) BY DEF FundingInv
<1>4. CompareTasks(rows, scan, now, g) \subseteq G
  <2>1. now <= now /\ g <= f BY <1>1
  <2>2. \A m \in Markets : Follows(rows[m], scan[m], rs[m], sc[m]) OBVIOUS
  <2> HIDE DEF g, f
  <2> QED BY <1>1, <1>2, <2>1, <2>2, FollowingTasks
<1> HIDE DEF g, f
<1>5. queue \in [CategoryNames -> Seq(G)] BY <1>4, QueuesPersist DEF BitgetInv, g
<1>6. current' = NoTask BY DEF ContinueRoot
<1>7. CASE life = "running"
  <2> DEFINE q == IF t = NoTask THEN queue ELSE [queue EXCEPT ![CategoryOf(t)] = Append(@, t)]
  <2>1. SchedulePersistedWork(rs, rp, sc, q) BY <1>7 DEF ContinueRoot
  <2>2. q \in [CategoryNames -> Seq(G)]
    <3>1. CASE t = NoTask BY <1>5, <3>1
    <3>2. CASE t # NoTask
      <4>1. t \in G BY <3>2 DEF f
      <4>2. CategoryOf(t) \in CategoryNames BY <4>1, Categorised DEF CompareTasks
      <4> HIDE DEF G
      <4>3. Append(queue[CategoryOf(t)], t) \in Seq(G) BY <1>5, <4>1, <4>2
      <4> QED BY <1>5, <3>2, <4>2, <4>3
    <3> QED BY <3>1, <3>2
  <2> HIDE DEF q
  <2>3. /\ \A m \in Markets : Seen(rows'[m], scan'[m], hist'[m])
        /\ queue' \in [CategoryNames -> Seq(CompareTasks(rows', scan', now, f))]
    BY <1>1, <1>3, <2>1, <2>2, ScheduleCompares
  <2> QED BY <1>6, <2>3 DEF BitgetInv, f
<1>8. CASE life # "running"
  <2>1. rows' = rs /\ scan' = sc /\ queue' = queue BY <1>8 DEF ContinueRoot
  <2> QED BY <1>5, <1>6, <2>1 DEF BitgetInv, f
<1> QED BY <1>7, <1>8

-----------------------------------------------------------------------------
(* A page of a Bitget walk and the end of a round *)

Glitches(a) == Glitch(a).glitches

\* With one glitch at most, a page that lacks something is the first.
LEMMA BitgetAnswer ==
    ASSUME FundingInv, Exchange = "bitget", MaxGlitches <= 1, NEW t, NEW a \in Answers(t)
    PROVE  /\ spent.glitches \in Nat /\ Glitches(a) \in Nat /\ spent.glitches <= Glitches(a)
           /\ \/ spent.glitches = 0 /\ Glitches(a) # 0
              \/ Glitches(a) = spent.glitches /\ a.page = BitgetPage(t.page)
<1>1. PICK gap \in IF Exchange = "bitget" /\ spent.glitches < MaxGlitches
                   THEN SUBSET PageAt(t) ELSE {{}} :
        a = [page |-> PageAt(t) \ gap, gap |-> gap # {}]
  BY DEF Answers
<1>2. a.page = PageAt(t) \ gap /\ a.gap = (gap # {}) BY <1>1
<1>3. gap # {} => spent.glitches < MaxGlitches BY <1>1
<1>4. PageAt(t) = BitgetPage(t.page) BY DEF PageAt
<1>5. spent \in Spent BY Parts
<1>6. spent.glitches \in 0 .. MaxGlitches /\ MaxGlitches \in Nat BY <1>5, BoundAssumption DEF Spent
<1>7. Glitches(a) = IF a.gap THEN spent.glitches + 1 ELSE spent.glitches
  BY <1>5 DEF Glitches, Glitch, Spent
<1>8. CASE gap = {}
  <2>1. a.page = BitgetPage(t.page) BY <1>2, <1>4, <1>8
  <2>2. Glitches(a) = spent.glitches BY <1>2, <1>7, <1>8
  <2> QED BY <1>6, <2>1, <2>2
<1>9. CASE gap # {}
  <2>1. Glitches(a) = spent.glitches + 1 BY <1>2, <1>7, <1>9
  <2> QED BY <1>3, <1>6, <1>9, <2>1
<1> QED BY <1>8, <1>9

LEMMA PageStarts ==
    ASSUME NEW p \in Nat \ {0}
    PROVE  (p - 1) * PageSize \in Nat /\ p * PageSize = (p - 1) * PageSize + PageSize
<1>1. p - 1 \in Nat /\ PageSize \in Nat BY SizeAssumption
<1> QED BY <1>1

\* The scan s of the market of t with a page added.
WithPage(t, s, page) == [s EXCEPT ![t.round] = @ \cup {u \in page : u <= t.cutoff}]

LEMMA PageCompared ==
    ASSUME FundingInv, Exchange = "bitget", MaxGlitches <= 1, NEW t \in Task,
           NEW a \in Answers(t), NEW s \in [1 .. 3 -> SUBSET (1 .. MaxTime)], t.cutoff <= now,
           Compared(t, s, now, spent.glitches),
           NEW u, u.page = t.page + 1, u.round = t.round, u.cutoff = t.cutoff
    PROVE  Compared(u, WithPage(t, s, a.page), now, Glitches(a))
<1> DEFINE z == WithPage(t, s, a.page)
           r == t.round
           top == now - (t.page - 1) * PageSize
           bottom == now - t.page * PageSize
<1>1. r \in 1 .. 3 /\ t.page \in Nat \ {0} /\ t.cutoff \in Nat /\ now \in Nat
  BY Parts DEF Task
<1>2. z[r] = s[r] \cup {x \in a.page : x <= t.cutoff} /\ \A i \in 1 .. 3 : i # r => z[i] = s[i]
  BY <1>1 DEF WithPage
<1>3. ASSUME NEW i \in 1 .. r, i # r, Sound(t, s, now, i) PROVE Sound(u, z, now, i)
  <2>1. i < r /\ i \in 1 .. 3 BY <1>1, <1>3
  <2>2. Behind(u, now, i) = Behind(t, now, i) BY <2>1 DEF Behind
  <2> QED BY <1>2, <1>3, <2>1, <2>2 DEF Sound
<1>4. ASSUME a.page = BitgetPage(t.page), Sound(t, s, now, r) PROVE Sound(u, z, now, r)
  <2> SUFFICES ASSUME NEW x \in Behind(u, now, r) PROVE x \in z[r] BY DEF Sound
  <2>1. (u.page - 1) * PageSize = t.page * PageSize
    <3>1. u.page - 1 = t.page BY <1>1
    <3> QED BY <3>1
  <2>2. x \in 1 .. t.cutoff /\ x > bottom BY <1>1, <2>1 DEF Behind
  <2>3. CASE x > top
    <3>1. x \in Behind(t, now, r) BY <2>2, <2>3 DEF Behind
    <3> QED BY <1>2, <1>4, <3>1 DEF Sound
  <2>4. CASE ~(x > top)
    <3>1. top \in Int BY <1>1, PageStarts
    <3>2. x \in 1 .. now /\ x <= t.cutoff /\ x <= top
      <4> HIDE DEF top
      <4> QED BY <1>1, <2>2, <2>4, <3>1
    <3>3. x \in BitgetPage(t.page) BY <2>2, <3>2 DEF BitgetPage
    <3> QED BY <1>2, <1>4, <3>2, <3>3
  <2> QED BY <2>3, <2>4
<1> HIDE DEF z, top, bottom
<1>5. CASE spent.glitches = 0 /\ Glitches(a) # 0
  <2>1. \A i \in 1 .. r : i # r => Sound(u, z, now, i) BY <1>3, <1>5 DEF Compared
  <2>2. r \in 1 .. r BY <1>1
  <2> QED BY <1>5, <2>1, <2>2 DEF Compared, z
<1>6. CASE Glitches(a) = spent.glitches /\ a.page = BitgetPage(t.page)
  <2>1. \A i \in 1 .. r : Sound(t, s, now, i) => Sound(u, z, now, i) BY <1>3, <1>4, <1>6
  <2> QED BY <1>6, <2>1 DEF Compared, z
<1> QED BY <1>5, <1>6, BitgetAnswer

\* An explicit empty page that is not a glitch lies beyond the first settlement.
LEMMA RoundEnds ==
    ASSUME NEW t \in Task, BitgetPage(t.page) = {}, now \in Nat
    PROVE  \A u \in 1 .. t.cutoff : u > now - (t.page - 1) * PageSize
<1> DEFINE d == (t.page - 1) * PageSize
           e == t.page * PageSize
<1>1. t.page \in Nat \ {0} /\ t.cutoff \in Nat /\ PageSize \in Nat \ {0}
  BY SizeAssumption DEF Task
<1>2. d \in Nat /\ e = d + PageSize BY <1>1, PageStarts
<1>3. now - d \notin {u \in 1 .. now : u <= now - d /\ u > now - e} BY DEF BitgetPage
<1> HIDE DEF d, e
<1>4. now - d <= 0 BY <1>1, <1>2, <1>3
<1>5. \A u \in 1 .. t.cutoff : u > now - d BY <1>1, <1>2, <1>4
<1> QED BY <1>5 DEF d

LEMMA RoundCompared ==
    ASSUME FundingInv, Exchange = "bitget", MaxGlitches <= 1, NEW t \in Task,
           NEW a \in Answers(t), a.page = {}, NEW s, t.cutoff <= now,
           Compared(t, s, now, spent.glitches),
           NEW u, u.page = 1, u.round = t.round + 1, u.cutoff = t.cutoff
    PROVE  Compared(u, s, now, Glitches(a))
<1> DEFINE r == t.round
<1>1. r \in 1 .. 3 /\ t.cutoff \in Nat /\ now \in Nat BY Parts DEF Task
<1>2. Sound(u, s, now, r + 1)
  <2>1. (u.page - 1) * PageSize = 0 BY SizeAssumption
  <2>2. Behind(u, now, r + 1) = {} BY <1>1, <2>1 DEF Behind
  <2> QED BY <2>2 DEF Sound
<1>3. ASSUME NEW i \in 1 .. r, Sound(t, s, now, i), i # r \/ BitgetPage(t.page) = {}
      PROVE  Sound(u, s, now, i)
  <2>1. Behind(u, now, i) = 1 .. t.cutoff BY <1>1 DEF Behind
  <2>2. Behind(t, now, i) = 1 .. t.cutoff
    <3>1. CASE i # r
      <4>1. i < r BY <1>1, <3>1
      <4> QED BY <4>1 DEF Behind
    <3>2. CASE BitgetPage(t.page) = {} BY <1>1, <3>2, RoundEnds DEF Behind
    <3> QED BY <1>3, <3>1, <3>2
  <2> QED BY <1>3, <2>1, <2>2 DEF Sound
<1>4. \A i \in 1 .. u.round : i \in 1 .. r \/ i = r + 1 BY <1>1
<1>5. CASE spent.glitches = 0 /\ Glitches(a) # 0
  <2>1. \A i \in 1 .. r : i # r => Sound(u, s, now, i) BY <1>3, <1>5 DEF Compared
  <2> QED BY <1>2, <1>4, <1>5, <2>1 DEF Compared
<1>6. CASE Glitches(a) = spent.glitches /\ a.page = BitgetPage(t.page)
  <2>1. \A i \in 1 .. r : Sound(t, s, now, i) => Sound(u, s, now, i) BY <1>3, <1>6
  <2>2. CASE spent.glitches = 0
    <3>1. \A i \in 1 .. r : Sound(u, s, now, i) BY <2>1, <2>2 DEF Compared
    <3> QED BY <1>2, <1>4, <3>1 DEF Compared
  <2>3. CASE spent.glitches # 0
    <3>1. \A i, j \in 1 .. r : i = j \/ Sound(u, s, now, i) \/ Sound(u, s, now, j)
      BY <2>1 DEF Compared
    <3> QED BY <1>2, <1>4, <1>6, <2>3, <3>1 DEF Compared
  <2> QED BY <2>2, <2>3
<1> QED BY <1>5, <1>6, BitgetAnswer

\* Two rounds in a row that saw the same saw everything.
LEMMA ConvergedIsComplete ==
    ASSUME FundingInv, Exchange = "bitget", MaxGlitches <= 1, NEW t \in Task,
           NEW a \in Answers(t), a.page = {}, Compared(t, scan[t.m], now, spent.glitches),
           Converged(t)
    PROVE  1 .. t.cutoff \subseteq scan[t.m][t.round]
<1> DEFINE s == scan[t.m]
           r == t.round
<1>1. r \in 1 .. 3 /\ r > 1 /\ s[r - 1] = s[r] /\ now \in Nat BY Parts DEF Converged, Task
<1> HIDE DEF s
<1>2. r - 1 \in 1 .. r /\ r \in 1 .. r /\ r - 1 < r /\ r - 1 # r BY <1>1
<1>3. Sound(t, s, now, r - 1) => 1 .. t.cutoff \subseteq s[r]
  BY <1>1, <1>2 DEF Sound, Behind
<1>4. CASE spent.glitches = 0 /\ Glitches(a) # 0
  BY <1>2, <1>3, <1>4 DEF Compared, s
<1>5. CASE Glitches(a) = spent.glitches /\ a.page = BitgetPage(t.page)
  <2>1. \A u \in 1 .. t.cutoff : u > now - (t.page - 1) * PageSize BY <1>1, <1>5, RoundEnds
  <2>2. Sound(t, s, now, r) => 1 .. t.cutoff \subseteq s[r] BY <2>1 DEF Sound, Behind
  <2>3. Sound(t, s, now, r - 1) \/ Sound(t, s, now, r) BY <1>2 DEF Compared, s
  <2> QED BY <1>3, <2>2, <2>3 DEF s
<1> QED BY <1>4, <1>5, BitgetAnswer

-----------------------------------------------------------------------------
(* The comparison of rounds, action by action *)

LEMMA CompareParts ==
    ASSUME FundingInv
    PROVE  /\ now \in Nat /\ spent.glitches \in Nat
           /\ rows \in [Markets -> Row] /\ GoodRows(rows) /\ scan \in Scan
           /\ \A m \in Markets : Follows(rows[m], scan[m], rows[m], scan[m])
<1>1. spent \in Spent /\ now \in Nat \ {0} /\ scan \in Scan BY Parts
<1>2. spent.glitches \in Nat BY <1>1, BoundAssumption DEF Spent
<1>3. rows \in [Markets -> Row] /\ GoodRows(rows) BY LeaseParts
<1>4. \A m \in Markets : Keeps(rows[m], rows[m], "coverage") BY <1>3, KeepsSelf DEF GoodRows, Jobs
<1> QED BY <1>1, <1>2, <1>3, <1>4 DEF Follows

\* The task of a market whose lease it does not hold, or that reads incrementally.
LEMMA OtherTask ==
    ASSUME NEW t \in Task, t.job # "coverage"
    PROVE  \A rs, sc, n, g : t \in CompareTasks(rs, sc, n, g)
BY DEF CompareTasks, Comparing

\* The row and the scan of one market change.
LEMMA OneRowCompares ==
    \A m \in Markets : \A r, s, t : \A rp \in Ripe :
        /\ FundingInv /\ FundingInv' /\ BitgetInv /\ now' = now /\ GoodRow(r)
        /\ Follows(rows[m], scan[m], r, s) /\ Seen(r, s, hist'[m])
        /\ \A k \in Markets : hist[k] \subseteq hist'[k]
        /\ spent.glitches <= spent'.glitches
        /\ t # NoTask => t \in CompareTasks([rows EXCEPT ![m] = r], [scan EXCEPT ![m] = s],
                                            now, spent'.glitches)
        /\ ContinueRoot([rows EXCEPT ![m] = r], rp, [scan EXCEPT ![m] = s], t)
        => BitgetInv'
<1> SUFFICES ASSUME NEW m \in Markets, NEW r, NEW s, NEW t, NEW rp \in Ripe,
                    FundingInv, FundingInv', BitgetInv, now' = now, GoodRow(r),
                    Follows(rows[m], scan[m], r, s), Seen(r, s, hist'[m]),
                    \A k \in Markets : hist[k] \subseteq hist'[k],
                    spent.glitches <= spent'.glitches,
                    t # NoTask => t \in CompareTasks([rows EXCEPT ![m] = r],
                                        [scan EXCEPT ![m] = s], now, spent'.glitches),
                    ContinueRoot([rows EXCEPT ![m] = r], rp, [scan EXCEPT ![m] = s], t)
             PROVE  BitgetInv'
  OBVIOUS
<1> DEFINE rs == [rows EXCEPT ![m] = r]
           sc == [scan EXCEPT ![m] = s]
<1>1. r \in Row BY DEF GoodRow
<1>2. /\ \A k \in Markets : rs[k] = IF k = m THEN r ELSE rows[k]
      /\ \A k \in Markets : sc[k] = IF k = m THEN s ELSE scan[k]
  BY CompareParts DEF Scan
<1>3. rs \in [Markets -> Row] BY <1>1, CompareParts
<1>4. t # NoTask => t \in CompareTasks(rs, sc, now, spent'.glitches) OBVIOUS
<1>5. ContinueRoot(rs, rp, sc, t) OBVIOUS
<1> HIDE DEF rs, sc
<1>6. GoodRows(rs) BY <1>2, <1>3, CompareParts DEF GoodRows
<1>7. ASSUME NEW k \in Markets
      PROVE  Follows(rows[k], scan[k], rs[k], sc[k]) /\ Seen(rs[k], sc[k], hist'[k])
  <2>1. CASE k = m BY <1>2, <2>1
  <2>2. CASE k # m
    <3>1. rs[k] = rows[k] /\ sc[k] = scan[k] BY <1>2, <2>2
    <3>2. Seen(rows[k], scan[k], hist[k]) /\ hist[k] \subseteq hist'[k] BY DEF BitgetInv
    <3>3. Seen(rows[k], scan[k], hist'[k]) BY <3>2 DEF Seen
    <3> QED BY <3>1, <3>3, CompareParts
  <2> QED BY <2>1, <2>2
<1> QED BY <1>4, <1>5, <1>6, <1>7, RootCompares

\* A step that changes no row and no scan.
LEMMA QuietCompares ==
    ASSUME FundingInv, FundingInv', BitgetInv, rows' = rows, scan' = scan, hist' = hist,
           now <= now', spent.glitches <= spent'.glitches,
           current' \in CompareTasks(rows, scan, now, spent.glitches) \cup {NoTask},
           queue' \in [CategoryNames -> Seq(CompareTasks(rows, scan, now, spent.glitches))]
    PROVE  BitgetInv'
<1> DEFINE G == CompareTasks(rows, scan, now, spent.glitches)
           K == CompareTasks(rows, scan, now', spent'.glitches)
<1>1. now' \in Nat /\ spent'.glitches \in Nat
  <2>1. now' \in 1 .. MaxTime /\ spent' \in Spent BY DEF FundingInv, TypeOK, Spent
  <2> QED BY <2>1, BoundAssumption, SizeAssumption DEF Spent
<1>2. G \subseteq K BY <1>1, CompareParts, FollowingTasks
<1> HIDE DEF G, K
<1>3. queue' \in [CategoryNames -> Seq(K)] BY <1>2, QueuesPersist DEF G
<1>4. current' \in K \cup {NoTask} BY <1>2 DEF G
<1> QED BY <1>3, <1>4 DEF BitgetInv, K

LEMMA InitCompares == Init => BitgetInv
<1> SUFFICES ASSUME Init PROVE BitgetInv OBVIOUS
<1>1. \A m \in Markets : Seen(NoRow, EmptyScan, {}) BY DEF Seen, NoRow, Null, EmptyScan
<1>2. queue \in [CategoryNames -> Seq(CompareTasks(rows, scan, now, spent.glitches))]
  BY EmptyQueues DEF Init
<1> QED BY <1>1, <1>2 DEF BitgetInv, Init

LEMMA StopCompares ==
    ASSUME FundingInv, FundingInv', BitgetInv,
           UNCHANGED vars \/ RequestStop \/ Crash \/ Restart \/ Settle \/ DiscoveryTick \/ Fatal
             \/ \E m \in Markets : CoverageElapses(m) \/ IncrementalElapses(m)
    PROVE  BitgetInv'
<1> DEFINE G == CompareTasks(rows, scan, now, spent.glitches)
<1>1. queue \in [CategoryNames -> Seq(G)] /\ current \in G \cup {NoTask} BY DEF BitgetInv
<1>2. NoQueue \in [CategoryNames -> Seq(G)] BY EmptyQueues
<1>3. now \in Nat /\ spent.glitches \in Nat /\ spent \in Spent BY CompareParts, Parts
<1>4. rows' = rows /\ scan' = scan /\ hist' = hist
  BY DEF vars, RequestStop, Crash, Restart, Settle, DiscoveryTick, Fatal, CoverageElapses,
     IncrementalElapses, stored
<1>5. now <= now'
  BY <1>3 DEF vars, RequestStop, Crash, Restart, Settle, DiscoveryTick, Fatal, CoverageElapses,
     IncrementalElapses
<1>6. spent'.glitches = spent.glitches
  BY <1>3 DEF vars, RequestStop, Crash, Restart, Settle, DiscoveryTick, Fatal, CoverageElapses,
     IncrementalElapses, Fault, Spent
<1>7. current' = current \/ current' = NoTask
  BY DEF vars, RequestStop, Crash, Restart, Settle, DiscoveryTick, Fatal, CoverageElapses,
     IncrementalElapses, memory
<1>8. queue' \in [CategoryNames -> Seq(G)]
  <2>1. CASE DiscoveryTick
    <3>1. DiscoveryTask \in G BY DiscoveryTaskFields, OtherTask
    <3>2. "discovery" \in CategoryNames BY DEF CategoryNames, Categories
    <3>3. queue' = [queue EXCEPT !["discovery"] = Append(@, DiscoveryTask)]
      BY <2>1 DEF DiscoveryTick
    <3> HIDE DEF G
    <3>4. Append(queue["discovery"], DiscoveryTask) \in Seq(G) BY <1>1, <3>1, <3>2
    <3> QED BY <1>1, <3>3, <3>4
  <2>2. CASE ~DiscoveryTick
    <3>1. queue' = queue \/ queue' = NoQueue
      BY <2>2 DEF vars, RequestStop, Crash, Restart, Settle, Fatal, CoverageElapses,
         IncrementalElapses, memory
    <3> QED BY <1>1, <1>2, <3>1
  <2> QED BY <2>1, <2>2
<1>9. spent.glitches <= spent'.glitches BY <1>3, <1>6
<1> QED BY <1>1, <1>4, <1>5, <1>7, <1>8, <1>9, QuietCompares

LEMMA TakeTaskCompares == FundingInv /\ FundingInv' /\ BitgetInv /\ TakeTask => BitgetInv'
<1> SUFFICES ASSUME FundingInv, FundingInv', BitgetInv, TakeTask PROVE BitgetInv' OBVIOUS
<1> DEFINE n == Categories[NextCategory]
           G == CompareTasks(rows, scan, now, spent.glitches)
<1>1. NextCategory \in Ready BY NextCategoryReady, Parts DEF TakeTask
<1>2. n \in CategoryNames /\ queue[n] # << >> BY <1>1 DEF Ready, CategoryNames
<1>3. /\ queue' = [queue EXCEPT ![n] = Tail(@)] /\ current' = Head(queue[n])
      /\ rows' = rows /\ scan' = scan /\ hist' = hist /\ now' = now /\ spent' = spent
  BY DEF TakeTask, stored
<1> HIDE DEF n, G
<1>4. queue \in [CategoryNames -> Seq(G)] BY DEF BitgetInv, G
<1>5. queue[n] \in Seq(G) BY <1>2, <1>4
<1>6. Head(queue[n]) \in G /\ Tail(queue[n]) \in Seq(G) BY <1>2, <1>5
<1>7. queue' \in [CategoryNames -> Seq(G)] BY <1>3, <1>4, <1>6
<1>8. now <= now' /\ spent.glitches <= spent'.glitches BY <1>3, CompareParts
<1> QED BY <1>3, <1>6, <1>7, <1>8, QuietCompares DEF G

LEMMA RecoveredAlike ==
    ASSUME NEW r \in Row
    PROVE  Alike(Recovered(r), r)
<1> DEFINE w == IF r.status = "BACKFILLING" THEN ResumeCoverage(r) ELSE r
<1>1. w \in Row /\ Alike(w, r) BY ResumeCoverageFields DEF Alike, SameMarket, SameProof
<1>2. Recovered(r) = IF r.incStatus = "RUNNING" THEN StartIncremental(w) ELSE w BY DEF Recovered
<1> HIDE DEF w
<1>3. Alike(StartIncremental(w), w) BY <1>1, StartIncrementalFields DEF Alike
<1> QED BY <1>1, <1>2, <1>3 DEF Alike, SameMarket, SameProof

LEMMA StartCompares == FundingInv /\ FundingInv' /\ BitgetInv /\ Start => BitgetInv'
<1> SUFFICES ASSUME FundingInv, FundingInv', BitgetInv, Start PROVE BitgetInv' OBVIOUS
<1> DEFINE rs == RecoveredRows
           sc == [m \in Markets |-> EmptyScan]
           G == CompareTasks(rs, sc, now, spent.glitches)
           k == Enqueued(FirstQueue, rs, BackfillingMarkets, Interrupted)
<1>1. /\ life = "new" /\ SchedulePersistedWork(rs, ripe, sc, k)
      /\ UNCHANGED <<now, hist, current, spent>>
  BY StartFields
<1>2. current' = NoTask BY <1>1, Parts DEF Idle
<1>3. GoodMarkets(rows, hist, now) /\ now \in Nat \ {0} /\ ripe \in Ripe BY Parts
<1>4. ASSUME NEW m \in Markets
      PROVE  GoodRow(rs[m]) /\ Timely(rs[m], now) /\ Alike(rs[m], rows[m])
  <2>1. GoodMarket(rows[m], hist[m], now) /\ rows[m] \in Row BY <1>3 DEF GoodMarkets
  <2>2. GoodMarket(Recovered(rows[m]), hist[m], now) BY <1>3, <2>1, RecoveredMarketGood
  <2>3. rs[m] = Recovered(rows[m]) BY DEF RecoveredRows
  <2> HIDE DEF rs
  <2> QED BY <2>1, <2>2, <2>3, RecoveredAlike DEF GoodMarket
<1>5. GoodRows(rs)
  <2>1. \A m \in Markets : Recovered(rows[m]) \in Row BY <1>4 DEF GoodRow, RecoveredRows
  <2> QED BY <1>4, <2>1 DEF GoodRows, RecoveredRows
<1>6. ASSUME NEW m \in Markets PROVE Seen(rs[m], sc[m], hist'[m])
  <2>1. Seen(rows[m], scan[m], hist[m]) /\ hist' = hist BY <1>1 DEF BitgetInv
  <2>2. rs[m].proofCutoff = rows[m].proofCutoff BY <1>4 DEF Alike, SameProof
  <2>3. sc[m] = EmptyScan OBVIOUS
  <2> HIDE DEF rs, sc
  <2> QED BY <2>1, <2>2, <2>3 DEF Seen, EmptyScan
<1>7. k \in [CategoryNames -> Seq(G)]
  <2>1. FirstQueue \in [CategoryNames -> Seq(G)]
    <3>1. DiscoveryTask \in G BY DiscoveryTaskFields, OtherTask
    <3>2. NoQueue \in [CategoryNames -> Seq(G)] BY EmptyQueues
    <3> HIDE DEF G
    <3>3. <<DiscoveryTask>> \in Seq(G) BY <3>1
    <3> QED BY <3>2, <3>3 DEF FirstQueue
  <2>2. BackfillingMarkets \in SUBSET Markets /\ Interrupted \in SUBSET Markets
    BY DEF BackfillingMarkets, Interrupted
  <2>3. \A m \in Markets : rs[m] \in Row /\ Timely(rs[m], now) BY <1>4 DEF GoodRow
  <2> HIDE DEF rs, sc
  <2>4. NewTasks(rs, BackfillingMarkets, Interrupted) \subseteq G
    BY <1>3, <2>2, <2>3, CompareParts, NewTasksCompared
  <2> HIDE DEF G
  <2> QED BY <2>1, <2>2, <2>3, <2>4, EnqueuedIn
<1>8. GoodMarkets(rows', hist', now) BY <1>1 DEF FundingInv
<1> HIDE DEF rs, sc, k
<1>9. /\ \A m \in Markets : Seen(rows'[m], scan'[m], hist'[m])
      /\ queue' \in [CategoryNames -> Seq(CompareTasks(rows', scan', now, spent.glitches))]
  BY <1>1, <1>3, <1>5, <1>6, <1>7, <1>8, CompareParts, ScheduleCompares
<1> QED BY <1>1, <1>2, <1>9 DEF BitgetInv

LEMMA GlitchesKept ==
    ASSUME FundingInv, spent' = spent \/ spent' = Fault
    PROVE  spent.glitches <= spent'.glitches
<1>1. spent \in Spent /\ spent.glitches \in Nat BY CompareParts, Parts
<1>2. spent'.glitches = spent.glitches BY <1>1 DEF Fault, Spent
<1> QED BY <1>1, <1>2

LEMMA SameRowsCompare ==
    \A t :
        /\ FundingInv /\ FundingInv' /\ BitgetInv /\ now' = now /\ hist' = hist
        /\ spent.glitches <= spent'.glitches
        /\ t # NoTask => t \in CompareTasks(rows, scan, now, spent'.glitches)
        /\ ContinueRoot(rows, ripe, scan, t)
        => BitgetInv'
<1> SUFFICES ASSUME NEW t, FundingInv, FundingInv', BitgetInv, now' = now, hist' = hist,
                    spent.glitches <= spent'.glitches,
                    t # NoTask => t \in CompareTasks(rows, scan, now, spent'.glitches),
                    ContinueRoot(rows, ripe, scan, t)
             PROVE  BitgetInv'
  OBVIOUS
<1>1. GoodRows(rows) /\ ripe \in Ripe BY CompareParts, Parts
<1>2. \A m \in Markets :
        Follows(rows[m], scan[m], rows[m], scan[m]) /\ Seen(rows[m], scan[m], hist'[m])
  BY CompareParts DEF BitgetInv
<1> QED BY <1>1, <1>2, RootCompares

LEMMA QuietEndsCompare ==
    ASSUME FundingInv, FundingInv', BitgetInv, DropSuperseded \/ DiscoveryFails \/ Canceled
    PROVE  BitgetInv'
<1>1. /\ ContinueRoot(rows, ripe, scan, NoTask) /\ now' = now /\ hist' = hist
      /\ spent' = spent \/ spent' = Fault
  BY DEF DropSuperseded, DiscoveryFails, Canceled
<1> QED BY <1>1, GlitchesKept, SameRowsCompare

\* A walk ends and its scan is forgotten.
LEMMA WalkOver ==
    \A r :
        /\ FundingInv /\ FundingInv' /\ BitgetInv /\ now' = now /\ hist' = hist
        /\ Asked("coverage") /\ GoodRow(r) /\ r.status # "BACKFILLING"
        /\ r.gen = rows[current.m].gen /\ SameIncremental(r, rows[current.m])
        /\ 1 .. r.proofCutoff \subseteq hist[current.m]
        /\ spent.glitches <= spent'.glitches
        /\ ContinueRoot([rows EXCEPT ![current.m] = r], CoverageWaits(current.m),
                        [scan EXCEPT ![current.m] = EmptyScan], NoTask)
        => BitgetInv'
<1> SUFFICES ASSUME NEW r, FundingInv, FundingInv', BitgetInv, now' = now, hist' = hist,
                    Asked("coverage"), GoodRow(r), r.status # "BACKFILLING",
                    r.gen = rows[current.m].gen, SameIncremental(r, rows[current.m]),
                    1 .. r.proofCutoff \subseteq hist[current.m],
                    spent.glitches <= spent'.glitches,
                    ContinueRoot([rows EXCEPT ![current.m] = r], CoverageWaits(current.m),
                                 [scan EXCEPT ![current.m] = EmptyScan], NoTask)
             PROVE  BitgetInv'
  OBVIOUS
<1> DEFINE m == current.m
<1>1. m \in Markets /\ CoverageWaits(m) \in Ripe BY CoverageHeld, WaitsTyped
<1>2. GoodRow(rows[m]) BY <1>1, CompareParts DEF GoodRows
<1>3. Keeps(rows[m], r, "coverage") BY <1>2, KeepsEnded DEF Jobs
<1>4. Follows(rows[m], scan[m], r, EmptyScan) BY <1>3 DEF Follows, Running
<1>5. Seen(r, EmptyScan, hist'[m]) BY DEF Seen, EmptyScan
<1>6. ContinueRoot([rows EXCEPT ![m] = r], CoverageWaits(m), [scan EXCEPT ![m] = EmptyScan], NoTask)
  OBVIOUS
<1>7. \A k \in Markets : hist[k] \subseteq hist'[k] OBVIOUS
<1> HIDE DEF m
<1> QED BY <1>1, <1>4, <1>5, <1>6, <1>7, OneRowCompares

LEMMA FailedCompares ==
    ASSUME FundingInv, FundingInv', BitgetInv, now' = now, hist' = hist, Asked("coverage"),
           spent.glitches <= spent'.glitches,
           ContinueRoot([rows EXCEPT ![current.m] = FailCoverage(rows[current.m])],
                        CoverageWaits(current.m), [scan EXCEPT ![current.m] = EmptyScan], NoTask)
    PROVE  BitgetInv'
<1> DEFINE m == current.m
           r == FailCoverage(rows[m])
<1>1. /\ m \in Markets /\ rows[m] \in Row /\ GoodMarket(rows[m], hist[m], now)
      /\ rows[m].status = "BACKFILLING"
  BY CoverageHeld
<1>2. GoodRow(r) BY <1>1, Parts, FailedMarketGood DEF GoodMarket
<1>3. /\ r.status # "BACKFILLING" /\ r.gen = rows[m].gen /\ SameIncremental(r, rows[m])
      /\ SameProof(r, rows[m])
  BY <1>1, FailCoverageFields
<1>4. ContinueRoot([rows EXCEPT ![m] = r], CoverageWaits(m), [scan EXCEPT ![m] = EmptyScan], NoTask)
  OBVIOUS
<1> HIDE DEF r
<1>5. 1 .. r.proofCutoff \subseteq hist[m] BY <1>1, <1>3 DEF BitgetInv, Seen, SameProof
<1> QED BY <1>2, <1>3, <1>4, <1>5, WalkOver

LEMMA CoverageFailsCompares == FundingInv /\ FundingInv' /\ BitgetInv /\ CoverageFails => BitgetInv'
<1> SUFFICES ASSUME FundingInv, FundingInv', BitgetInv, CoverageFails PROVE BitgetInv' OBVIOUS
<1>1. /\ Asked("coverage") /\ now' = now /\ hist' = hist /\ spent' = Fault
      /\ ContinueRoot([rows EXCEPT ![current.m] = FailCoverage(@)], CoverageWaits(current.m),
                      [scan EXCEPT ![current.m] = EmptyScan], NoTask)
  BY DEF CoverageFails
<1>2. [rows EXCEPT ![current.m] = FailCoverage(@)]
        = [rows EXCEPT ![current.m] = FailCoverage(rows[current.m])]
  OBVIOUS
<1> QED BY <1>1, <1>2, GlitchesKept, FailedCompares

\* On Bitget the task that holds its lease has compared what it has seen.
LEMMA WireCompared ==
    ASSUME FundingInv, BitgetInv, Asked("coverage")
    PROVE  /\ Compared(current, scan[current.m], now, spent.glitches)
           /\ current.gen <= rows[current.m].gen
<1>1. /\ current \in CompareTasks(rows, scan, now, spent.glitches)
      /\ current.job = "coverage" /\ Holds(current)
  BY DEF Asked, BitgetInv, MayRequest
<1> QED BY <1>1 DEF CompareTasks, Comparing, Holds

LEMMA CoverageEmptyPageCompares ==
    ASSUME Exchange = "bitget", MaxGlitches <= 1
    PROVE  FundingInv /\ FundingInv' /\ BitgetInv /\ CoverageEmptyPage => BitgetInv'
<1> SUFFICES ASSUME FundingInv, FundingInv', BitgetInv, CoverageEmptyPage PROVE BitgetInv'
  OBVIOUS
<1> DEFINE t == current
           row == rows[t.m]
           over(r) == ContinueRoot([rows EXCEPT ![t.m] = r], CoverageWaits(t.m),
                                   [scan EXCEPT ![t.m] = EmptyScan], NoTask)
<1>1. Asked("coverage") BY DEF CoverageEmptyPage
<1>2. PICK a \in Answers(t) :
        /\ a.page = {}
        /\ \/ CompletesCoverage(t) /\ over(CompleteCoverage(row))
           \/ RepeatsRound(t) /\ ContinueRoot(rows, ripe, scan, NextRound(t))
           \/ ~CompletesCoverage(t) /\ ~RepeatsRound(t) /\ over(FailCoverage(row))
        /\ spent' = Glitch(a) /\ UNCHANGED <<now, hist, last>>
  BY <1>1 DEF CoverageEmptyPage
<1>3. /\ t \in Task /\ t.m \in Markets /\ row \in Row /\ GoodMarket(row, hist[t.m], now)
      /\ row.status = "BACKFILLING" /\ row.cutoff = t.cutoff /\ t.cutoff <= now
  BY <1>1, CoverageHeld
<1>4. now' = now /\ hist' = hist BY <1>2
<1>5. spent'.glitches = Glitches(a) /\ spent.glitches <= Glitches(a)
  BY <1>2, BitgetAnswer DEF Glitches
<1>6. /\ Compared(t, scan[t.m], now, spent.glitches) /\ t.gen <= row.gen
  BY <1>1, WireCompared
<1>7. CASE CompletesCoverage(t) /\ over(CompleteCoverage(row))
  <2> DEFINE r == CompleteCoverage(row)
  <2>1. GoodRow(r) BY <1>3, CompleteCoverageGood DEF GoodMarket
  <2>2. /\ r.status # "BACKFILLING" /\ r.gen = row.gen /\ SameIncremental(r, row)
        /\ r.proofCutoff = t.cutoff
    BY <1>3, CompleteCoverageFields
  <2>3. over(r) BY <1>7
  <2> HIDE DEF r
  <2>4. Converged(t) BY <1>7 DEF CompletesCoverage
  <2>5. 1 .. t.cutoff \subseteq scan[t.m][t.round]
    BY <1>2, <1>3, <1>6, <2>4, ConvergedIsComplete
  <2>6. scan[t.m][t.round] \subseteq hist[t.m] BY <1>3 DEF BitgetInv, Seen, Task
  <2>7. 1 .. r.proofCutoff \subseteq hist[t.m] BY <2>2, <2>5, <2>6
  <2> QED BY <1>1, <1>4, <1>5, <2>1, <2>2, <2>3, <2>7, WalkOver
<1>8. CASE RepeatsRound(t) /\ ContinueRoot(rows, ripe, scan, NextRound(t))
  <2> DEFINE u == NextRound(t)
  <2>1. t.round < 3 BY <1>8 DEF RepeatsRound
  <2>2. u \in Task BY <1>1, <1>4, <2>1, NextRoundGood DEF GoodTasks
  <2>3. /\ u.round = t.round + 1 /\ u.page = 1 /\ u.cutoff = t.cutoff /\ u.m = t.m
        /\ u.gen = t.gen
    BY <1>3 DEF NextRound, Task
  <2>4. ContinueRoot(rows, ripe, scan, u) BY <1>8
  <2> HIDE DEF u
  <2>5. Compared(u, scan[u.m], now, spent'.glitches)
    BY <1>2, <1>3, <1>5, <1>6, <2>3, RoundCompared
  <2>6. u \in CompareTasks(rows, scan, now, spent'.glitches)
    BY <1>3, <1>6, <2>2, <2>3, <2>5 DEF CompareTasks, Comparing
  <2> QED BY <1>4, <1>5, <2>4, <2>6, SameRowsCompare
<1>9. CASE over(FailCoverage(row)) BY <1>1, <1>4, <1>5, <1>9, FailedCompares
<1> QED BY <1>2, <1>7, <1>8, <1>9

LEMMA CoveragePageCompares ==
    ASSUME Exchange = "bitget", MaxGlitches <= 1
    PROVE  FundingInv /\ FundingInv' /\ BitgetInv /\ CoveragePage => BitgetInv'
<1> SUFFICES ASSUME FundingInv, FundingInv', BitgetInv, CoveragePage PROVE BitgetInv' OBVIOUS
<1> DEFINE t == current
           m == t.m
<1>1. Asked("coverage") BY DEF CoveragePage
<1>2. PICK a \in Answers(t) :
        /\ a.page # {} /\ hist' = Written(m, a.page)
        /\ ContinueRoot(
                [rows EXCEPT ![m] = CommitCoverage(rows[m], Lowest(a.page), Highest(a.page))],
                ripe, Scanned(t, a.page), Advanced(t, a.page))
        /\ spent' = Glitch(a) /\ UNCHANGED <<now, last>>
  BY <1>1 DEF CoveragePage
<1> DEFINE page == a.page
           lo == Lowest(page)
           hi == Highest(page)
           r == CommitCoverage(rows[m], lo, hi)
           w == Widen(rows[m], lo, hi)
           s == WithPage(t, scan[m], page)
           u == Advanced(t, page)
           rs == [rows EXCEPT ![m] = r]
           sc == [scan EXCEPT ![m] = s]
<1>3. /\ t \in Task /\ m \in Markets /\ rows[m] \in Row /\ t.cutoff <= now /\ t.job = "coverage"
      /\ t # NoTask
  BY <1>1, CoverageHeld DEF Asked
<1>4. page \subseteq 1 .. now /\ (Exchange = "okx" => page = OkxPage(t.after)) BY AnswerFields
<1>5. GoodRow(r) /\ lo \in Nat /\ hi \in Nat
  BY <1>1, <1>2, <1>4, PageCommitted DEF GoodMarket
<1>6. now \in Nat /\ now' = now /\ ripe \in Ripe /\ scan \in Scan /\ rows \in [Markets -> Row]
  BY <1>2, CompareParts, Parts
<1>7. spent'.glitches = Glitches(a) /\ spent.glitches <= Glitches(a)
  BY <1>2, BitgetAnswer DEF Glitches
<1>8. Compared(t, scan[m], now, spent.glitches) /\ t.gen <= rows[m].gen
  BY <1>1, WireCompared
<1>9. hist'[m] = hist[m] \cup page /\ \A k \in Markets : hist[k] \subseteq hist'[k]
  BY <1>2, <1>3, Parts DEF Written
<1>10. /\ r.gen = rows[m].gen /\ r.proofCutoff = rows[m].proofCutoff
  <2>1. r.gen = rows[m].gen /\ SameProof(r, w) BY <1>3, <1>5, CommitCoverageFields
  <2>2. SameProof(w, rows[m]) BY <1>3, <1>5, WidenFields
  <2> HIDE DEF r, w
  <2> QED BY <2>1, <2>2 DEF SameProof
<1>11. Keeps(rows[m], r, "coverage")
  <2>1. GoodRow(rows[m]) BY <1>3, CompareParts DEF GoodRows
  <2> HIDE DEF lo, hi, m
  <2> QED BY <1>5, <2>1, KeepsCommitted DEF Jobs
<1>12. u \in Task /\ u.page = t.page + 1 /\ u.round = t.round /\ u.cutoff = t.cutoff
       /\ u.m = m /\ u.gen = t.gen /\ u.job = t.job
  <2>1. u \in Task /\ u.m = m /\ u.gen = t.gen /\ u.cutoff = t.cutoff /\ u.job = t.job
    BY <1>2, <1>3, <1>4, <1>6, AdvancedFields
  <2>2. u.page = t.page + 1 /\ u.round = t.round BY <1>3 DEF Advanced, Task
  <2> QED BY <2>1, <2>2
<1>13. Scanned(t, page) = sc
  <2>1. "bitget" # "okx" OBVIOUS
  <2> QED BY <1>3, <1>6, <2>1 DEF Scanned, WithPage, Scan
<1>14. scan[m] \in [1 .. 3 -> SUBSET (1 .. MaxTime)] /\ t.round \in 1 .. 3
  BY <1>3, <1>6 DEF Scan, Task
<1>15. ContinueRoot(rs, ripe, sc, u) BY <1>2, <1>13
<1> HIDE DEF u, r, w, lo, hi
<1>16. /\ \A i \in 1 .. 3 : scan[m][i] \subseteq s[i]
       /\ \A i \in 1 .. 3 : s[i] \subseteq scan[m][i] \cup page
  <2> HIDE DEF m, page
  <2> QED BY <1>14 DEF WithPage
<1>17. Compared(u, s, now, spent'.glitches)
  <2> HIDE DEF m
  <2> QED BY <1>3, <1>7, <1>8, <1>12, <1>14, PageCompared
<1>18. Follows(rows[m], scan[m], r, s) BY <1>11, <1>16 DEF Follows
<1>19. Seen(r, s, hist'[m])
  <2>1. Seen(rows[m], scan[m], hist[m]) BY <1>3 DEF BitgetInv
  <2> HIDE DEF s, page
  <2> QED BY <1>9, <1>10, <1>16, <2>1 DEF Seen
<1>20. rs[m] = r /\ sc[m] = s BY <1>3, <1>6 DEF Scan
<1> HIDE DEF rs, sc, s
<1>21. u \in CompareTasks(rs, sc, now, spent'.glitches)
  BY <1>3, <1>8, <1>10, <1>12, <1>17, <1>20 DEF CompareTasks, Comparing
<1> QED
  BY <1>3, <1>5, <1>6, <1>7, <1>9, <1>15, <1>18, <1>19, <1>21, OneRowCompares DEF rs, sc

\* Incremental tasks leave the proofs and the walks alone.
LEMMA BesidesCompares ==
    \A m \in Markets : \A r, t : \A rp \in Ripe :
        /\ FundingInv /\ FundingInv' /\ BitgetInv /\ now' = now /\ GoodRow(r)
        /\ SameProof(r, rows[m]) /\ Keeps(rows[m], r, "coverage")
        /\ \A k \in Markets : hist[k] \subseteq hist'[k]
        /\ spent.glitches <= spent'.glitches
        /\ t # NoTask => t \in Task /\ t.job # "coverage"
        /\ ContinueRoot([rows EXCEPT ![m] = r], rp, scan, t)
        => BitgetInv'
<1> SUFFICES ASSUME NEW m \in Markets, NEW r, NEW t, NEW rp \in Ripe,
                    FundingInv, FundingInv', BitgetInv, now' = now, GoodRow(r),
                    SameProof(r, rows[m]), Keeps(rows[m], r, "coverage"),
                    \A k \in Markets : hist[k] \subseteq hist'[k],
                    spent.glitches <= spent'.glitches,
                    t # NoTask => t \in Task /\ t.job # "coverage",
                    ContinueRoot([rows EXCEPT ![m] = r], rp, scan, t)
             PROVE  BitgetInv'
  OBVIOUS
<1> DEFINE sc == [scan EXCEPT ![m] = scan[m]]
           rs == [rows EXCEPT ![m] = r]
<1>1. sc = scan BY CompareParts DEF Scan
<1>2. Follows(rows[m], scan[m], r, scan[m]) BY DEF Follows
<1>3. Seen(r, scan[m], hist'[m])
  <2>1. Seen(rows[m], scan[m], hist[m]) /\ hist[m] \subseteq hist'[m] BY DEF BitgetInv
  <2> QED BY <2>1 DEF Seen, SameProof
<1>4. ContinueRoot(rs, rp, sc, t) BY <1>1
<1>5. t # NoTask => t \in CompareTasks(rs, sc, now, spent'.glitches) BY OtherTask
<1> QED BY <1>2, <1>3, <1>4, <1>5, OneRowCompares

LEMMA IncrementalPageCompares ==
    FundingInv /\ FundingInv' /\ BitgetInv /\ IncrementalPage => BitgetInv'
<1> SUFFICES ASSUME FundingInv, FundingInv', BitgetInv, IncrementalPage PROVE BitgetInv' OBVIOUS
<1> DEFINE t == current
           m == t.m
           page == PageAt(t)
           lo == Lowest(page)
           hi == Highest(page)
           r == Widen(rows[m], lo, hi)
           rs == [rows EXCEPT ![m] = r]
<1>1. /\ Asked("incremental") /\ page # {} /\ now' = now /\ spent' = spent
      /\ hist' = Written(m, page)
      /\ IF t.seen
         THEN /\ current' = [t EXCEPT !.post = TRUE]
              /\ rows' = [rows EXCEPT ![m] = Widen(@, lo, hi)]
              /\ UNCHANGED <<scan, ripe, queue, life>>
         ELSE ContinueRoot([rows EXCEPT ![m] = Widen(@, lo, hi)], ripe, scan, Advanced(t, page))
  BY DEF IncrementalPage
<1>2. /\ t # NoTask /\ t \in Task /\ m \in Markets /\ t.job = "incremental"
      /\ Known(rows[m]) /\ rows[m] \in Row /\ GoodRow(rows[m])
  BY <1>1, IncrementalHeld DEF Asked, GoodMarket
<1>3. page \subseteq 1 .. now BY DEF PageAt, BitgetPage, OkxPage
<1>4. now \in Nat /\ ripe \in Ripe /\ rows \in [Markets -> Row] BY LeaseParts
<1>5. lo \in Nat \ {0} /\ hi \in Nat /\ lo <= hi
  <2>1. lo \in page /\ hi \in page /\ lo <= hi BY <1>1, <1>3, <1>4, PageBounds
  <2>2. lo \in 1 .. now /\ hi \in 1 .. now BY <1>3, <2>1
  <2> QED BY <1>4, <2>1, <2>2
<1>6. [rows EXCEPT ![m] = Widen(@, lo, hi)] = rs OBVIOUS
<1>7. \A k \in Markets : hist[k] \subseteq hist'[k] BY <1>1, <1>2, Parts DEF Written
<1>8. spent.glitches <= spent'.glitches BY <1>1, GlitchesKept
<1>9. Advanced(t, page) \in Task /\ Advanced(t, page).job = t.job
  BY <1>1, <1>2, <1>3, <1>4, AdvancedFields
<1> HIDE DEF page, lo, hi
<1>10. GoodRow(r) BY <1>2, <1>5, WidenGood
<1>11. SameTask(r, rows[m]) /\ SameIncremental(r, rows[m]) /\ SameProof(r, rows[m])
  BY <1>2, <1>5, WidenFields
<1> HIDE DEF r
<1>12. Keeps(rows[m], r, "coverage") BY <1>2, <1>10, <1>11, KeepsTask DEF Jobs
<1>13. CASE t.seen
  <2> DEFINE u == [t EXCEPT !.post = TRUE]
             f == spent.glitches
  <2>1. u \in Task /\ u.job = t.job BY <1>2 DEF Task
  <2>2. current' = u /\ rows' = rs /\ queue' = queue /\ scan' = scan BY <1>1, <1>6, <1>13
  <2>3. rs \in [Markets -> Row] /\ \A k \in Markets : rs[k] = IF k = m THEN r ELSE rows[k]
    BY <1>4, <1>10 DEF GoodRow
  <2> HIDE DEF u, rs
  <2>4. \A k \in Markets : Follows(rows[k], scan[k], rs[k], scan[k])
    BY <1>12, <2>3, CompareParts DEF Follows
  <2>5. CompareTasks(rows, scan, now, f) \subseteq CompareTasks(rs, scan, now, f)
    <3>1. now <= now /\ f <= f /\ f \in Nat BY <1>4, CompareParts
    <3> HIDE DEF f
    <3> QED BY <1>4, <2>3, <2>4, <3>1, FollowingTasks
  <2>6. queue \in [CategoryNames -> Seq(CompareTasks(rs, scan, now, f))]
    BY <2>5, QueuesPersist DEF BitgetInv
  <2>7. u \in CompareTasks(rs, scan, now, f) BY <1>2, <2>1, OtherTask
  <2>8. ASSUME NEW k \in Markets PROVE Seen(rs[k], scan[k], hist'[k])
    <3>1. Seen(rows[k], scan[k], hist[k]) /\ hist[k] \subseteq hist'[k] BY <1>7 DEF BitgetInv
    <3>2. rs[k].proofCutoff = rows[k].proofCutoff BY <1>11, <2>3 DEF SameProof
    <3> QED BY <3>1, <3>2 DEF Seen
  <2> QED BY <1>1, <2>2, <2>6, <2>7, <2>8 DEF BitgetInv
<1>14. CASE ~t.seen
  <2>1. ContinueRoot(rs, ripe, scan, Advanced(t, page)) BY <1>1, <1>6, <1>14
  <2>2. Advanced(t, page).job # "coverage" BY <1>2, <1>9
  <2> QED BY <1>1, <1>2, <1>4, <1>7, <1>8, <1>9, <1>10, <1>11, <1>12, <2>1, <2>2, BesidesCompares
<1> QED BY <1>13, <1>14

LEMMA IncrementalLeavesCompare ==
    ASSUME FundingInv, FundingInv', BitgetInv, IncrementalEnds \/ IncrementalFails
    PROVE  BitgetInv'
<1> DEFINE m == current.m
<1>1. PICK status \in {"IDLE", "INCOMPLETE"} :
        /\ current # NoTask /\ current.job = "incremental" /\ MayRequest(current)
        /\ ContinueRoot([rows EXCEPT ![m] = FinishIncremental(@, status)],
                        IncrementalWaits(m), scan, NoTask)
        /\ now' = now /\ hist' = hist
        /\ spent' = spent \/ spent' = Fault
  BY DEF IncrementalEnds, IncrementalFails
<1> DEFINE r == FinishIncremental(rows[m], status)
<1>2. m \in Markets /\ Known(rows[m]) /\ rows[m] \in Row /\ GoodRow(rows[m])
  BY <1>1, IncrementalHeld DEF GoodMarket
<1>3. GoodRow(r) BY <1>2, FinishIncrementalGood
<1>4. SameProof(r, rows[m]) BY <1>2, FinishIncrementalFields
<1>5. Keeps(rows[m], r, "coverage") BY <1>2, KeepsFinished DEF Jobs
<1>6. ContinueRoot([rows EXCEPT ![m] = r], IncrementalWaits(m), scan, NoTask) BY <1>1
<1>7. IncrementalWaits(m) \in Ripe BY <1>2, WaitsTyped
<1>8. spent.glitches <= spent'.glitches /\ \A k \in Markets : hist[k] \subseteq hist'[k]
  BY <1>1, GlitchesKept
<1> HIDE DEF r, m
<1> QED BY <1>1, <1>2, <1>3, <1>4, <1>5, <1>6, <1>7, <1>8, BesidesCompares

LEMMA ObservedFollows ==
    ASSUME NEW r, GoodRow(r), NEW active \in BOOLEAN, NEW x
    PROVE  LET s == Observe(r, active)
               z == IF Known(r) /\ r.active # active THEN EmptyScan ELSE x
           IN /\ Follows(r, x, s, z) /\ SameProof(s, r)
<1> DEFINE s == Observe(r, active)
           z == IF Known(r) /\ r.active # active THEN EmptyScan ELSE x
<1>1. r \in Row BY DEF GoodRow
<1>2. Keeps(r, s, "coverage") BY KeepsObserved DEF Jobs
<1>3. CASE Known(r) /\ r.active # active
  <2>1. s = Transition(r, active) BY <1>3 DEF Observe
  <2>2. /\ Transition(r, active).status = (IF StaysPending(r) THEN r.status ELSE "INCOMPLETE")
        /\ SameProof(Transition(r, active), r)
    BY <1>1, TransitionFields
  <2> HIDE DEF s
  <2>3. ~Running(s, "coverage") BY <2>1, <2>2 DEF Running, StaysPending
  <2>4. SameProof(s, r) BY <2>1, <2>2
  <2> QED BY <1>2, <2>3, <2>4 DEF Follows, s
<1>4. CASE ~(Known(r) /\ r.active # active)
  <2>1. z = x BY <1>4
  <2>2. SameProof(s, r)
    <3>1. CASE s = r BY <3>1 DEF SameProof
    <3>2. CASE s # r
      <4>1. r = NoRow /\ s = NewRow BY <1>4, <3>2 DEF Observe, GoodRow
      <4>2. SameProof(NewRow, NoRow) BY DEF SameProof, NewRow, NoRow
      <4> QED BY <4>1, <4>2
    <3> QED BY <3>1, <3>2
  <2> HIDE DEF s, z
  <2>3. Follows(r, x, s, z) BY <1>2, <2>1 DEF Follows
  <2> QED BY <2>2, <2>3 DEF s, z
<1> QED BY <1>3, <1>4

LEMMA DiscoveryAppliedCompares ==
    FundingInv /\ FundingInv' /\ BitgetInv /\ DiscoveryApplied => BitgetInv'
<1> SUFFICES ASSUME FundingInv, FundingInv', BitgetInv, DiscoveryApplied PROVE BitgetInv' OBVIOUS
<1>1. PICK active \in [Markets -> BOOLEAN] :
        LET flipped == {m \in Markets : Known(rows[m]) /\ rows[m].active # active[m]}
            canceled(m) == m \in flipped /\ rows[m].incStatus = "RUNNING"
            waits(m) == m \in flipped /\ ~StaysPending(rows[m])
        IN /\ now' = now /\ hist' = hist
           /\ spent' = [spent EXCEPT !.flips = @ + Cardinality(flipped)]
           /\ ContinueRoot(
                [m \in Markets |-> Observe(rows[m], active[m])],
                [m \in Markets |-> [coverage |-> ripe[m].coverage /\ ~waits(m),
                                    incremental |-> ripe[m].incremental /\ ~canceled(m)]],
                [m \in Markets |-> IF m \in flipped THEN EmptyScan ELSE scan[m]],
                NoTask)
  BY DEF DiscoveryApplied
<1> DEFINE flipped == {m \in Markets : Known(rows[m]) /\ rows[m].active # active[m]}
           canceled(m) == m \in flipped /\ rows[m].incStatus = "RUNNING"
           waits(m) == m \in flipped /\ ~StaysPending(rows[m])
           rs == [m \in Markets |-> Observe(rows[m], active[m])]
           rp == [m \in Markets |-> [coverage |-> ripe[m].coverage /\ ~waits(m),
                                     incremental |-> ripe[m].incremental /\ ~canceled(m)]]
           sc == [m \in Markets |-> IF m \in flipped THEN EmptyScan ELSE scan[m]]
<1>2. /\ now' = now /\ hist' = hist /\ ContinueRoot(rs, rp, sc, NoTask)
      /\ spent' = [spent EXCEPT !.flips = @ + Cardinality(flipped)]
  BY <1>1
<1>3. spent.glitches <= spent'.glitches
  <2>1. spent'.glitches = spent.glitches BY <1>2, Parts DEF Spent
  <2> QED BY <2>1, CompareParts
<1> HIDE DEF canceled, waits
<1>4. rp \in Ripe
  <2> HIDE DEF flipped
  <2> QED BY Parts DEF Ripe
<1>5. ASSUME NEW m \in Markets
      PROVE  /\ GoodRow(rows[m]) /\ GoodRow(Observe(rows[m], active[m])) /\ active[m] \in BOOLEAN
  BY Parts, ObservedMarketGood DEF GoodMarkets, GoodMarket
<1>6. GoodRows(rs)
  <2>1. \A m \in Markets : Observe(rows[m], active[m]) \in Row BY <1>5 DEF GoodRow
  <2> QED BY <1>5, <2>1 DEF GoodRows
<1>7. ASSUME NEW m \in Markets
      PROVE  Follows(rows[m], scan[m], rs[m], sc[m]) /\ Seen(rs[m], sc[m], hist'[m])
  <2>1. /\ Follows(rows[m], scan[m], rs[m], sc[m]) /\ SameProof(rs[m], rows[m])
    BY <1>5, ObservedFollows
  <2>2. Seen(rows[m], scan[m], hist[m]) BY DEF BitgetInv
  <2>3. sc[m] = EmptyScan \/ sc[m] = scan[m] OBVIOUS
  <2> HIDE DEF rs, sc
  <2> QED BY <1>2, <2>1, <2>2, <2>3 DEF Seen, SameProof, EmptyScan
<1> HIDE DEF rs, rp, sc, flipped
<1> QED BY <1>2, <1>3, <1>4, <1>6, <1>7, RootCompares

LEMMA NextCompares ==
    ASSUME Exchange = "bitget", MaxGlitches <= 1
    PROVE  FundingInv /\ FundingInv' /\ BitgetInv /\ [Next]_vars => BitgetInv'
<1> SUFFICES ASSUME FundingInv, FundingInv', BitgetInv, [Next]_vars PROVE BitgetInv' OBVIOUS
<1>1. CASE UNCHANGED vars \/ RequestStop \/ Crash \/ Restart \/ Settle \/ DiscoveryTick \/ Fatal
             \/ \E m \in Markets : CoverageElapses(m) \/ IncrementalElapses(m)
  BY <1>1, StopCompares
<1>2. CASE Start BY <1>2, StartCompares
<1>3. CASE TakeTask BY <1>3, TakeTaskCompares
<1>4. CASE DropSuperseded \/ DiscoveryFails \/ Canceled BY <1>4, QuietEndsCompare
<1>5. CASE CoveragePage BY <1>5, CoveragePageCompares
<1>6. CASE CoverageEmptyPage BY <1>6, CoverageEmptyPageCompares
<1>7. CASE CoverageFails BY <1>7, CoverageFailsCompares
<1>8. CASE IncrementalPage BY <1>8, IncrementalPageCompares
<1>9. CASE IncrementalEnds \/ IncrementalFails BY <1>9, IncrementalLeavesCompare
<1>10. CASE DiscoveryApplied BY <1>10, DiscoveryAppliedCompares
<1> QED
  BY <1>1, <1>2, <1>3, <1>4, <1>5, <1>6, <1>7, <1>8, <1>9, <1>10 DEF Next, Work

LEMMA BitgetInvariant ==
    ASSUME Exchange = "bitget", MaxGlitches <= 1
    PROVE  Spec => []BitgetInv
<1>1. Init => BitgetInv BY InitCompares
<1>2. FundingInv /\ FundingInv' /\ BitgetInv /\ [Next]_vars => BitgetInv' BY NextCompares
<1> QED BY <1>1, <1>2, FundingInvariant, PTL DEF Spec

\* A coverage the worker claims is in the history, whatever was interrupted on the way: on OKX
\* because the pages of a walk join, on Bitget, where a page may lack records, because the walk is
\* repeated until two rounds in a row agree.
THEOREM ProofIsTrueHolds ==
    ASSUME Exchange = "okx" \/ MaxGlitches <= 1
    PROVE  Spec => []ProofIsTrue
<1>1. CASE Exchange = "okx"
  <2>1. FundingInv => ProofIsTrue
    BY <1>1 DEF FundingInv, GoodMarkets, GoodMarket, Stored, ProofIsTrue
  <2> QED BY <2>1, FundingInvariant, PTL
<1>2. CASE Exchange # "okx"
  <2>1. Exchange = "bitget" /\ MaxGlitches <= 1 BY <1>2, ExchangeAssumption
  <2>2. Spec => []BitgetInv BY <2>1, BitgetInvariant
  <2>3. BitgetInv => ProofIsTrue BY DEF BitgetInv, Seen, ProofIsTrue
  <2> QED BY <2>2, <2>3, PTL
<1> QED BY <1>1, <1>2

-----------------------------------------------------------------------------
(* The steps of the worker *)

RowsKept ==
    /\ now' = now
    /\ \A m \in Markets : hist[m] \subseteq hist'[m] /\ Kept(rows[m], rows'[m])

\* Nothing that a reader sees changes.
Unseen == now' = now /\ rows' = rows /\ hist' = hist

\* A transaction on the row of one market.
LEMMA OneRowKept ==
    ASSUME FundingInv, NEW m \in Markets, NEW r, r \in Row, Kept(rows[m], r)
    PROVE  /\ [rows EXCEPT ![m] = r] \in [Markets -> Row]
           /\ \A k \in Markets : Kept(rows[k], [rows EXCEPT ![m] = r][k])
<1>1. rows \in [Markets -> Row] BY Parts DEF GoodMarkets
<1>2. \A k \in Markets : Kept(rows[k], rows[k])
  BY AlikeIsKept DEF Alike, SameMarket, SameProof
<1> QED BY <1>1, <1>2

LEMMA RowTransactionKeeps ==
    \A rp \in Ripe : \A m \in Markets : \A r \in Row : \A sc, t :
        /\ FundingInv /\ Kept(rows[m], r) /\ now' = now
        /\ \A k \in Markets : hist[k] \subseteq hist'[k]
        /\ ContinueRoot([rows EXCEPT ![m] = r], rp, sc, t)
        => RowsKept
<1> SUFFICES ASSUME NEW rp \in Ripe, NEW m \in Markets, NEW r \in Row, NEW sc, NEW t,
                    FundingInv, Kept(rows[m], r), now' = now,
                    \A k \in Markets : hist[k] \subseteq hist'[k],
                    ContinueRoot([rows EXCEPT ![m] = r], rp, sc, t)
             PROVE  RowsKept
  OBVIOUS
<1> DEFINE rs == [rows EXCEPT ![m] = r]
<1>1. rs \in [Markets -> Row] /\ \A k \in Markets : Kept(rows[k], rs[k]) BY OneRowKept
<1>2. ContinueRoot(rs, rp, sc, t) OBVIOUS
<1> HIDE DEF rs
<1> QED BY <1>1, <1>2, Parts, RootKeeps DEF RowsKept

LEMMA SameRowsKept ==
    \A sc, t : FundingInv /\ UNCHANGED <<now, hist>> /\ ContinueRoot(rows, ripe, sc, t) => RowsKept
<1> SUFFICES ASSUME NEW sc, NEW t, FundingInv, UNCHANGED <<now, hist>>,
                    ContinueRoot(rows, ripe, sc, t)
             PROVE  RowsKept
  OBVIOUS
<1>1. rows \in [Markets -> Row] /\ ripe \in Ripe /\ now \in Nat BY Parts DEF GoodMarkets
<1>2. \A m \in Markets : Kept(rows[m], rows[m])
  BY AlikeIsKept DEF Alike, SameMarket, SameProof
<1> QED BY <1>1, <1>2, RootKeeps DEF RowsKept

LEMMA CoveragePageKeeps == FundingInv /\ CoveragePage => RowsKept
<1> SUFFICES ASSUME FundingInv, CoveragePage PROVE RowsKept OBVIOUS
<1> DEFINE t == current
           row == rows[t.m]
<1>1. Asked("coverage") BY DEF CoveragePage
<1>2. PICK a \in Answers(t) :
        /\ a.page # {} /\ hist' = Written(t.m, a.page)
        /\ ContinueRoot([rows EXCEPT ![t.m] = CommitCoverage(row, Lowest(a.page), Highest(a.page))],
                        ripe, Scanned(t, a.page), Advanced(t, a.page))
        /\ UNCHANGED <<now, last>>
  BY <1>1 DEF CoveragePage
<1> DEFINE lo == Lowest(a.page)
           hi == Highest(a.page)
           w == Widen(row, lo, hi)
           r == CommitCoverage(row, lo, hi)
<1>3. t.m \in Markets /\ GoodMarket(row, hist[t.m], now) /\ row \in Row BY <1>1, CoverageHeld
<1>4. a.page \subseteq 1 .. now BY AnswerFields
<1>5. now \in Nat /\ now' = now BY <1>2, Parts
<1>6. lo \in Nat /\ hi \in Nat
  <2>1. lo \in a.page /\ hi \in a.page BY <1>2, <1>4, <1>5, PageBounds
  <2> HIDE DEF lo, hi
  <2> QED BY <1>4, <2>1
<1> HIDE DEF lo, hi, row
<1>7. Alike(r, row) /\ r \in Row
  <2>1. Alike(w, row) BY <1>3, <1>6, WidenFields DEF Alike
  <2>2. Alike(r, w) /\ r \in Row BY <1>3, <1>6, CommitCoverageFields DEF Alike
  <2> HIDE DEF w, r
  <2> QED BY <2>1, <2>2 DEF Alike, SameMarket, SameProof
<1>8. \A k \in Markets : hist[k] \subseteq hist'[k]
  BY <1>2, <1>3, Parts DEF Written
<1> HIDE DEF r
<1>9. Kept(rows[t.m], r) BY <1>7, AlikeIsKept DEF row
<1>10. ContinueRoot([rows EXCEPT ![t.m] = r], ripe, Scanned(t, a.page), Advanced(t, a.page))
  BY <1>2 DEF r, row, lo, hi
<1> QED BY <1>3, <1>5, <1>7, <1>8, <1>9, <1>10, Parts, RowTransactionKeeps

LEMMA CoverageEmptyPageKeeps == FundingInv /\ CoverageEmptyPage => RowsKept
<1> SUFFICES ASSUME FundingInv, CoverageEmptyPage PROVE RowsKept OBVIOUS
<1> DEFINE t == current
           row == rows[t.m]
           over(r) == ContinueRoot([rows EXCEPT ![t.m] = r], CoverageWaits(t.m),
                                   [scan EXCEPT ![t.m] = EmptyScan], NoTask)
<1>1. Asked("coverage") BY DEF CoverageEmptyPage
<1>2. PICK a \in Answers(t) :
        /\ \/ CompletesCoverage(t) /\ over(CompleteCoverage(row))
           \/ RepeatsRound(t) /\ ContinueRoot(rows, ripe, scan, NextRound(t))
           \/ ~CompletesCoverage(t) /\ ~RepeatsRound(t) /\ over(FailCoverage(row))
        /\ UNCHANGED <<now, hist, last>>
  BY <1>1 DEF CoverageEmptyPage
<1>3. /\ t.m \in Markets /\ GoodMarket(row, hist[t.m], now) /\ row \in Row
      /\ row.status = "BACKFILLING"
  BY <1>1, CoverageHeld
<1>4. now' = now /\ hist' = hist /\ now \in Nat BY <1>2, Parts
<1>5. CoverageWaits(t.m) \in Ripe BY <1>3, WaitsTyped
<1>6. ASSUME NEW r \in Row, Kept(row, r), over(r) PROVE RowsKept
  BY <1>3, <1>4, <1>5, <1>6, RowTransactionKeeps
<1>7. CASE over(CompleteCoverage(row))
  <2>1. CompleteCoverage(row) \in Row /\ Kept(row, CompleteCoverage(row))
    BY <1>3, <1>4, CompletedKept, CompleteCoverageFields
  <2> HIDE DEF over
  <2> QED BY <1>6, <1>7, <2>1
<1>8. CASE ContinueRoot(rows, ripe, scan, NextRound(t))
  BY <1>4, <1>8, SameRowsKept
<1>9. CASE over(FailCoverage(row))
  <2>1. FailCoverage(row) \in Row /\ Kept(row, FailCoverage(row))
    BY <1>3, FailCoverageFields, AlikeIsKept DEF Alike
  <2> HIDE DEF over
  <2> QED BY <1>6, <1>9, <2>1
<1> QED BY <1>2, <1>7, <1>8, <1>9

LEMMA CoverageFailsKeeps == FundingInv /\ CoverageFails => RowsKept
<1> SUFFICES ASSUME FundingInv, CoverageFails PROVE RowsKept OBVIOUS
<1> DEFINE m == current.m
           r == FailCoverage(rows[m])
<1>1. /\ Asked("coverage")
      /\ ContinueRoot([rows EXCEPT ![m] = r], CoverageWaits(m),
                      [scan EXCEPT ![m] = EmptyScan], NoTask)
      /\ UNCHANGED <<now, hist, last>>
  BY DEF CoverageFails
<1>2. m \in Markets /\ rows[m] \in Row BY <1>1, CoverageHeld
<1>3. r \in Row /\ Kept(rows[m], r) BY <1>2, FailCoverageFields, AlikeIsKept DEF Alike
<1> HIDE DEF r
<1>4. CoverageWaits(m) \in Ripe BY <1>2, WaitsTyped
<1>5. now' = now /\ \A k \in Markets : hist[k] \subseteq hist'[k] BY <1>1
<1> HIDE DEF m
<1> QED BY <1>1, <1>2, <1>3, <1>4, <1>5, RowTransactionKeeps

LEMMA IncrementalPageKeeps == FundingInv /\ IncrementalPage => RowsKept
<1> SUFFICES ASSUME FundingInv, IncrementalPage PROVE RowsKept OBVIOUS
<1> DEFINE t == current
           page == PageAt(t)
           lo == Lowest(page)
           hi == Highest(page)
           r == Widen(rows[t.m], lo, hi)
<1>1. /\ Asked("incremental") /\ page # {} /\ hist' = Written(t.m, page)
      /\ UNCHANGED <<now, last, spent>>
      /\ \/ rows' = [rows EXCEPT ![t.m] = r]
         \/ ContinueRoot([rows EXCEPT ![t.m] = r], ripe, scan, Advanced(t, page))
  BY DEF IncrementalPage
<1>2. t.m \in Markets /\ rows[t.m] \in Row BY <1>1, IncrementalHeld DEF Asked
<1>3. page \subseteq 1 .. now BY DEF PageAt, BitgetPage, OkxPage
<1>4. lo \in Nat /\ hi \in Nat
  <2>1. lo \in page /\ hi \in page BY <1>1, <1>3, Parts, PageBounds
  <2> HIDE DEF page, lo, hi
  <2> QED BY <1>3, <2>1, Parts
<1> HIDE DEF lo, hi
<1>5. r \in Row /\ Kept(rows[t.m], r)
  BY <1>2, <1>4, WidenFields, AlikeIsKept DEF Alike
<1>6. now' = now /\ \A k \in Markets : hist[k] \subseteq hist'[k]
  BY <1>1, <1>2, Parts DEF Written
<1> HIDE DEF r, page, t
<1>7. CASE rows' = [rows EXCEPT ![t.m] = r]
  BY <1>2, <1>5, <1>6, <1>7, OneRowKept DEF RowsKept
<1>8. CASE ContinueRoot([rows EXCEPT ![t.m] = r], ripe, scan, Advanced(t, page))
  BY <1>2, <1>5, <1>6, <1>8, Parts, RowTransactionKeeps
<1> QED BY <1>1, <1>7, <1>8

LEMMA IncrementalLeavesKept ==
    ASSUME FundingInv, IncrementalEnds \/ IncrementalFails
    PROVE  RowsKept
<1> DEFINE m == current.m
<1>1. PICK status \in {"IDLE", "INCOMPLETE"} :
        /\ current # NoTask /\ current.job = "incremental" /\ MayRequest(current)
        /\ ContinueRoot([rows EXCEPT ![m] = FinishIncremental(@, status)],
                        IncrementalWaits(m), scan, NoTask)
        /\ UNCHANGED <<now, hist, last>>
  BY DEF IncrementalEnds, IncrementalFails
<1> DEFINE r == FinishIncremental(rows[m], status)
<1>2. m \in Markets /\ rows[m] \in Row BY <1>1, IncrementalHeld
<1>3. r \in Row /\ Kept(rows[m], r) BY <1>2, FinishIncrementalFields, AlikeIsKept DEF Alike
<1>4. ContinueRoot([rows EXCEPT ![m] = r], IncrementalWaits(m), scan, NoTask) BY <1>1
<1> HIDE DEF r
<1>5. IncrementalWaits(m) \in Ripe BY <1>2, WaitsTyped
<1>6. now' = now /\ \A k \in Markets : hist[k] \subseteq hist'[k] BY <1>1
<1> HIDE DEF m
<1> QED BY <1>2, <1>3, <1>4, <1>5, <1>6, RowTransactionKeeps

LEMMA DiscoveryKeeps == FundingInv /\ DiscoveryApplied => RowsKept
<1> SUFFICES ASSUME FundingInv, DiscoveryApplied PROVE RowsKept OBVIOUS
<1>1. PICK active \in [Markets -> BOOLEAN], rp \in Ripe : \E sc :
        /\ ContinueRoot([m \in Markets |-> Observe(rows[m], active[m])], rp, sc, NoTask)
        /\ UNCHANGED <<now, hist, last>>
  <2>1. PICK active \in [Markets -> BOOLEAN] :
          LET flipped == {m \in Markets : Known(rows[m]) /\ rows[m].active # active[m]}
              canceled(m) == m \in flipped /\ rows[m].incStatus = "RUNNING"
              waits(m) == m \in flipped /\ ~StaysPending(rows[m])
          IN /\ ContinueRoot(
                  [m \in Markets |-> Observe(rows[m], active[m])],
                  [m \in Markets |-> [coverage |-> ripe[m].coverage /\ ~waits(m),
                                      incremental |-> ripe[m].incremental /\ ~canceled(m)]],
                  [m \in Markets |-> IF m \in flipped THEN EmptyScan ELSE scan[m]],
                  NoTask)
             /\ UNCHANGED <<now, hist, last>>
    BY DEF DiscoveryApplied
  <2> DEFINE flipped == {m \in Markets : Known(rows[m]) /\ rows[m].active # active[m]}
             canceled(m) == m \in flipped /\ rows[m].incStatus = "RUNNING"
             waits(m) == m \in flipped /\ ~StaysPending(rows[m])
             rp == [m \in Markets |-> [coverage |-> ripe[m].coverage /\ ~waits(m),
                                       incremental |-> ripe[m].incremental /\ ~canceled(m)]]
             sc == [m \in Markets |-> IF m \in flipped THEN EmptyScan ELSE scan[m]]
             rs == [m \in Markets |-> Observe(rows[m], active[m])]
  <2>2. ContinueRoot(rs, rp, sc, NoTask) /\ UNCHANGED <<now, hist, last>> BY <2>1
  <2> HIDE DEF canceled, waits, sc, rs, flipped
  <2>3. rp \in Ripe BY Parts DEF Ripe
  <2> HIDE DEF rp
  <2> QED BY <2>2, <2>3 DEF rs
<1> DEFINE rs == [m \in Markets |-> Observe(rows[m], active[m])]
<1>2. ASSUME NEW m \in Markets PROVE rs[m] \in Row /\ Kept(rows[m], rs[m])
  <2>1. GoodMarket(rows[m], hist[m], now) /\ GoodRow(rows[m]) /\ now \in Nat
    BY Parts DEF GoodMarkets, GoodMarket
  <2>2. GoodMarket(Observe(rows[m], active[m]), hist[m], now) BY <2>1, ObservedMarketGood
  <2>3. Observe(rows[m], active[m]) \in Row BY <2>2 DEF GoodMarket, GoodRow
  <2> QED BY <2>1, <2>3, ObservedKept
<1>3. rs \in [Markets -> Row] BY <1>2
<1>4. \E sc : ContinueRoot(rs, rp, sc, NoTask) BY <1>1
<1>5. now' = now /\ \A k \in Markets : hist[k] \subseteq hist'[k] BY <1>1
<1> HIDE DEF rs
<1> QED BY <1>2, <1>3, <1>4, <1>5, Parts, RootKeeps DEF RowsKept

LEMMA StartKeeps == FundingInv /\ Start => RowsKept
<1> SUFFICES ASSUME FundingInv, Start PROVE RowsKept OBVIOUS
<1> DEFINE coverage == {m \in Markets : rows[m].status = "BACKFILLING"}
           incremental == Interrupted
           row(m) == IF m \in coverage THEN ResumeCoverage(rows[m]) ELSE rows[m]
           Restored(m) == IF m \in incremental THEN StartIncremental(row(m)) ELSE row(m)
           rs == [m \in Markets |-> Restored(m)]
<1>1. rows' = RowsScheduled(rs, ripe) /\ now' = now /\ hist' = hist
  BY DEF Start, SchedulePersistedWork
<1>2. ASSUME NEW m \in Markets PROVE rs[m] \in Row /\ Alike(rs[m], rows[m])
  <2>1. rows[m] \in Row BY Parts DEF GoodMarkets
  <2>2. row(m) \in Row /\ Alike(row(m), rows[m])
    BY <2>1, ResumeCoverageFields DEF Alike, SameMarket, SameProof
  <2> HIDE DEF row
  <2>3. StartIncremental(row(m)) \in Row /\ Alike(StartIncremental(row(m)), row(m))
    BY <2>2, StartIncrementalFields DEF Alike
  <2> QED BY <2>2, <2>3 DEF Alike, SameMarket, SameProof
<1>3. rs \in [Markets -> Row] BY <1>2
<1> HIDE DEF rs
<1>4. \A m \in Markets : Alike(rows'[m], rs[m]) BY <1>1, <1>3, Parts, ScheduledAlike
<1>5. \A m \in Markets : Kept(rows[m], rows'[m]) BY <1>2, <1>4, AlikeIsKept, KeptThenAlike
<1> QED BY <1>1, <1>5 DEF RowsKept

LEMMA EveryStepSeen == FundingInv /\ [Next]_vars => Unseen \/ RowsKept \/ Promise!Settle
<1> SUFFICES ASSUME FundingInv, [Next]_vars PROVE Unseen \/ RowsKept \/ Promise!Settle OBVIOUS
<1>1. CASE UNCHANGED vars BY <1>1 DEF vars, Unseen
<1>2. CASE Start BY <1>2, StartKeeps
<1>3. CASE \/ RequestStop \/ Crash \/ Restart \/ DiscoveryTick \/ Fatal \/ TakeTask
           \/ \E m \in Markets : CoverageElapses(m) \/ IncrementalElapses(m)
  BY <1>3 DEF RequestStop, Crash, Restart, DiscoveryTick, Fatal, TakeTask, CoverageElapses,
     IncrementalElapses, stored, Unseen
<1>4. CASE Settle BY <1>4 DEF Settle, stored, Promise!Settle
<1>5. CASE DropSuperseded \/ DiscoveryFails \/ Canceled
  BY <1>5, SameRowsKept DEF DropSuperseded, DiscoveryFails, Canceled
<1>6. CASE CoveragePage BY <1>6, CoveragePageKeeps
<1>7. CASE CoverageEmptyPage BY <1>7, CoverageEmptyPageKeeps
<1>8. CASE CoverageFails BY <1>8, CoverageFailsKeeps
<1>9. CASE IncrementalPage BY <1>9, IncrementalPageKeeps
<1>10. CASE IncrementalEnds \/ IncrementalFails BY <1>10, IncrementalLeavesKept
<1>11. CASE DiscoveryApplied BY <1>11, DiscoveryKeeps
<1> QED
  BY <1>1, <1>2, <1>3, <1>4, <1>5, <1>6, <1>7, <1>8, <1>9, <1>10, <1>11 DEF Next, Work

-----------------------------------------------------------------------------
(* The refinement *)

View(row, h) ==
    [active |-> row.active, owed |-> row.reactivation, proof |-> row.proofGen,
     cutoff |-> row.proofCutoff, hist |-> h, fetching |-> row.incStatus = "RUNNING"]

Views == [m \in Markets |-> View(rows[m], hist[m])]

\* What a reader may see of a market is a change the promise allows.
LEMMA KeptIsAChange ==
    ASSUME NEW row, NEW r, NEW h, NEW g, GoodMarket(r, g, now), h \subseteq g, Kept(row, r),
           1 .. r.proofCutoff \subseteq g
    PROVE  Promise!Changes(View(row, h), View(r, g))
<1> DEFINE p == View(row, h)
           q == View(r, g)
<1>1. /\ p.active = row.active /\ p.owed = row.reactivation /\ p.proof = row.proofGen
      /\ p.cutoff = row.proofCutoff /\ p.hist = h
      /\ q.active = r.active /\ q.owed = r.reactivation /\ q.proof = r.proofGen
      /\ q.cutoff = r.proofCutoff /\ q.hist = g /\ q.fetching = (r.incStatus = "RUNNING")
  BY DEF View
<1> HIDE DEF p, q
<1>2. 1 .. r.proofCutoff \subseteq g /\ g \subseteq 1 .. now BY DEF GoodMarket
<1>3. r.incStatus = "RUNNING" => AllowsIncremental(r)
  BY DEF GoodMarket, GoodRow, Leased, NoRow, Known
<1>4. Newer(r, row) => Promise!Proved(p, q) BY <1>1, <1>2 DEF Newer, Promise!Proved
<1>5. SameProof(r, row) => q.proof = p.proof /\ q.cutoff = p.cutoff BY <1>1 DEF SameProof
<1>6. q.fetching => q.active /\ ~q.owed /\ q.proof # 0
  BY <1>1, <1>3 DEF AllowsIncremental, Null
<1>7. q.owed /\ ~p.owed => q.active /\ ~p.active BY <1>1 DEF Kept
<1>8. ~q.owed /\ p.owed => ~q.active \/ Promise!Proved(p, q) BY <1>1, <1>4 DEF Kept
<1>9. Promise!Proved(p, q) \/ (q.proof = p.proof /\ q.cutoff = p.cutoff) BY <1>4, <1>5 DEF Kept
<1>10. Promise!Changes(p, q) BY <1>1, <1>2, <1>6, <1>7, <1>8, <1>9 DEF Promise!Changes
<1> QED BY <1>10 DEF p, q

\* Readers of a market see nothing but what FundingPromise allows: history only grows, a proof is
\* true, new and never taken back, and incremental reading waits for the proof that is owed.
THEOREM PromiseIsKept ==
    ASSUME Exchange = "okx" \/ MaxGlitches <= 1
    PROVE  Spec => PromiseKept
<1>1. Init => Promise!Init
  <2> SUFFICES ASSUME Init PROVE Promise!Init OBVIOUS
  <2>1. now = 1 /\ \A m \in Markets : rows[m] = NoRow /\ hist[m] = {} BY DEF Init
  <2>2. ~(NoRow.incStatus = "RUNNING") BY DEF NoRow
  <2>3. View(NoRow, {}) = Promise!NewMarket
    BY <2>2 DEF View, NoRow, Promise!NewMarket, Null
  <2>4. Views = [m \in Markets |-> Promise!NewMarket] BY <2>1, <2>3 DEF Views
  <2> QED BY <2>1, <2>4 DEF Promise!Init, Views, View
<1>2. FundingInv /\ FundingInv' /\ ProofIsTrue' /\ [Next]_vars => [Promise!Next]_(Promise!vars)
  <2> SUFFICES ASSUME FundingInv, FundingInv', ProofIsTrue', [Next]_vars
               PROVE  Promise!Next \/ UNCHANGED Promise!vars
    OBVIOUS
  <2>1. CASE Unseen BY <2>1 DEF Unseen, Promise!vars
  <2>2. CASE Promise!Settle BY <2>2 DEF Promise!Next
  <2>3. CASE RowsKept
    <3>1. ASSUME NEW m \in Markets
          PROVE  Promise!Changes(View(rows[m], hist[m]), View(rows'[m], hist'[m]))
      <4>1. GoodMarket(rows'[m], hist'[m], now) BY <2>3 DEF RowsKept, FundingInv, GoodMarkets
      <4>2. 1 .. rows'[m].proofCutoff \subseteq hist'[m] BY DEF ProofIsTrue
      <4> QED BY <2>3, <4>1, <4>2, KeptIsAChange DEF RowsKept
    <3>2. \A m \in Markets : Promise!Changes(Views[m], Views'[m]) BY <3>1 DEF Views
    <3>3. Views' \in [Markets -> {Views'[m] : m \in Markets}] BY DEF Views
    <3>4. now' = now BY <2>3 DEF RowsKept
    <3>5. Promise!Synchronise BY <3>2, <3>3, <3>4 DEF Promise!Synchronise, Views, View
    <3> QED BY <3>5 DEF Promise!Next
  <2> QED BY <2>1, <2>2, <2>3, EveryStepSeen
<1>3. Spec => []FundingInv /\ []ProofIsTrue BY FundingInvariant, ProofIsTrueHolds, PTL
<1> QED BY <1>1, <1>2, <1>3, PTL DEF Spec, PromiseKept, Promise!Spec
=============================================================================
