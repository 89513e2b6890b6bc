------------------------------ MODULE FundingRows ------------------------------
(***************************************************************************)
(* One row of funding_rate_sync_state and the repository transactions that *)
(* change it, as operators from a row to a row.  A timestamp and a         *)
(* generation are positive numbers, Null is SQL's NULL.  A text field that *)
(* is only ever present or absent is a Boolean; the start time of a task   *)
(* comes and goes with its kind, and the five fields of a coverage proof   *)
(* with proofGen.                                                          *)
(***************************************************************************)
EXTENDS Naturals

CONSTANT Exchange       \* the exchange whose markets the rows describe

ASSUME ExchangeAssumption == Exchange \in {"bitget", "okx"}

Null == 0

CoverageKinds == {"INITIAL", "PERIODIC", "INACTIVE_FINAL", "REACTIVATION"}
CoverageStatuses == {"PENDING", "BACKFILLING", "CAUGHT_UP", "INCOMPLETE"}
IncrementalStatuses == {"IDLE", "RUNNING", "INCOMPLETE"}

\* "UNKNOWN" is the status of a market that has no row.
Row ==
    [active : BOOLEAN, reactivation : BOOLEAN, reactivationAfter : Nat, finalDone : BOOLEAN,
     status : CoverageStatuses \cup {"UNKNOWN"}, gen : Nat, kind : CoverageKinds \cup {"none"},
     cutoff : Nat, required : Nat, initial : Nat, after : Nat, afterGen : Nat,
     proofGen : Nat, proofCutoff : Nat, ended : BOOLEAN, failed : BOOLEAN,
     oldest : Nat, latest : Nat,
     incStatus : IncrementalStatuses, incGen : Nat, frozen : Nat,
     incEnded : BOOLEAN, incFailed : BOOLEAN]

NoRow ==
    [active |-> FALSE, reactivation |-> FALSE, reactivationAfter |-> Null, finalDone |-> FALSE,
     status |-> "UNKNOWN", gen |-> 0, kind |-> "none",
     cutoff |-> Null, required |-> Null, initial |-> Null, after |-> Null, afterGen |-> Null,
     proofGen |-> Null, proofCutoff |-> Null, ended |-> FALSE, failed |-> FALSE,
     oldest |-> Null, latest |-> Null,
     incStatus |-> "IDLE", incGen |-> 0, frozen |-> Null, incEnded |-> FALSE, incFailed |-> FALSE]

Known(row) == row.status # "UNKNOWN"

\* The row of a market that a discovery finds active for the first time.
NewRow == [NoRow EXCEPT !.active = TRUE, !.status = "PENDING"]

-----------------------------------------------------------------------------
(* What validateStateRow accepts; every transaction reads its row through it *)

BoundsReadable(row) ==
    /\ (row.oldest = Null) = (row.latest = Null)
    /\ row.oldest <= row.latest

ProofReadable(row) ==
    /\ (row.proofGen = Null) = (row.proofCutoff = Null)
    /\ row.status \in {"BACKFILLING", "INCOMPLETE"} => row.proofGen = Null \/ row.proofGen < row.gen

AnchorReadable(row) ==
    /\ (row.after = Null) = (row.afterGen = Null)
    /\ row.after # Null =>
        Exchange = "okx" /\ row.status = "BACKFILLING" /\ row.afterGen = row.gen

TaskStartReadable(row) ==
    IF row.status = "BACKFILLING"
    THEN /\ Exchange = "bitget" => row.initial = Null
         /\ Exchange = "okx" => row.required = Null
         /\ row.initial # Null => row.after # Null /\ row.after <= row.initial
    ELSE row.required = Null /\ row.initial = Null

ReactivationReadable(row) ==
    /\ row.reactivation = (row.reactivationAfter # Null)
    /\ row.reactivation =>
        row.active /\ ~row.finalDone /\ row.reactivationAfter <= row.gen /\ row.status # "CAUGHT_UP"

FinalReadable(row) ==
    row.finalDone =>
        ~row.active /\ row.status = "CAUGHT_UP" /\ row.kind = "INACTIVE_FINAL"

CoverageReadable(row) ==
    \/ /\ row.status = "PENDING"
       /\ row.kind = "none" /\ row.cutoff = Null /\ ~row.ended /\ ~row.failed
       /\ row.proofGen = Null
    \/ /\ row.status = "BACKFILLING"
       /\ row.kind # "none" /\ row.cutoff # Null /\ ~row.ended /\ ~row.failed
    \/ /\ row.status = "INCOMPLETE"
       /\ row.kind # "none" /\ row.cutoff # Null /\ row.ended /\ row.failed
    \/ /\ row.status = "CAUGHT_UP"
       /\ row.kind # "none" /\ row.cutoff # Null /\ row.ended /\ ~row.failed
       /\ row.proofGen = row.gen /\ row.proofGen # Null /\ row.proofCutoff = row.cutoff
       /\ row.active = (row.kind # "INACTIVE_FINAL")
       /\ ~row.active => row.finalDone

IncrementalReadable(row) ==
    /\ row.frozen # Null =>
        row.incStatus = "RUNNING" /\ row.latest # Null /\ row.frozen <= row.latest
    /\ row.incStatus = "IDLE" => ~row.incFailed
    /\ row.incStatus = "RUNNING" => ~row.incEnded /\ ~row.incFailed
    /\ row.incStatus = "INCOMPLETE" => row.incEnded /\ row.incFailed

Readable(row) ==
    /\ BoundsReadable(row)
    /\ ProofReadable(row)
    /\ AnchorReadable(row)
    /\ TaskStartReadable(row)
    /\ ReactivationReadable(row)
    /\ FinalReadable(row)
    /\ CoverageReadable(row)
    /\ IncrementalReadable(row)

-----------------------------------------------------------------------------
(* Eligibility and leases *)

\* coverageStateAllowsLease for a task of this kind and generation.
AllowsCoverage(row, kind, gen) ==
    CASE kind = "INACTIVE_FINAL" -> ~row.active
      [] kind = "REACTIVATION" -> row.active /\ row.reactivation /\ gen > row.reactivationAfter
      [] OTHER -> row.active /\ ~row.reactivation

\* What startCoverage demands of the row.
MayStartCoverage(row, kind) ==
    AllowsCoverage(row, kind, row.gen + 1) /\ (kind = "INACTIVE_FINAL" => ~row.finalDone)

AllowsIncremental(row) == row.active /\ ~row.reactivation /\ row.proofGen # Null

\* coverageStateMatchesLease and coverageStateAllowsLease for a task t.
HoldsCoverage(row, t) ==
    /\ row.status = "BACKFILLING"
    /\ row.gen = t.gen /\ row.kind = t.kind /\ row.cutoff = t.cutoff
    /\ row.required = t.required /\ row.initial = t.initial
    /\ AllowsCoverage(row, t.kind, t.gen)

HoldsIncremental(row, t) ==
    /\ row.incStatus = "RUNNING"
    /\ row.incGen = t.gen /\ row.frozen = t.required
    /\ AllowsIncremental(row)

-----------------------------------------------------------------------------
(* Coverage *)

StartCoverage(row, kind, now) ==
    [row EXCEPT !.status = "BACKFILLING", !.gen = @ + 1, !.kind = kind, !.cutoff = now,
        !.required = IF Exchange = "bitget" THEN row.oldest ELSE Null,
        !.initial = Null, !.after = Null, !.afterGen = Null,
        !.ended = FALSE, !.failed = FALSE]

ResumeCoverage(row) ==
    [row EXCEPT !.gen = @ + 1,
        !.required = IF Exchange = "bitget" THEN row.oldest ELSE Null,
        !.initial = IF Exchange = "okx" THEN row.after ELSE Null,
        !.afterGen = IF Exchange = "okx" /\ row.after # Null THEN row.gen + 1 ELSE Null]

\* oldest and latest after a page from lo to hi.
Widen(row, lo, hi) ==
    [row EXCEPT !.oldest = IF @ = Null \/ lo < @ THEN lo ELSE @,
                !.latest = IF @ = Null \/ hi > @ THEN hi ELSE @]

CommitCoverage(row, lo, hi) ==
    [Widen(row, lo, hi) EXCEPT !.after = IF Exchange = "okx" THEN hi ELSE Null,
                               !.afterGen = IF Exchange = "okx" THEN row.gen ELSE Null]

\* The check completeCoverage makes on the evidence of an OKX task.
AcceptsEvidence(row, finalAfter) ==
    Exchange = "okx" =>
        IF row.after = Null THEN finalAfter = Null ELSE finalAfter # Null /\ finalAfter <= row.after

CompleteCoverage(row) ==
    [row EXCEPT !.status = "CAUGHT_UP", !.proofGen = row.gen, !.proofCutoff = row.cutoff,
        !.required = Null, !.initial = Null, !.after = Null, !.afterGen = Null,
        !.ended = TRUE, !.failed = FALSE,
        !.finalDone = @ \/ row.kind = "INACTIVE_FINAL",
        !.reactivation = @ /\ row.kind # "REACTIVATION",
        !.reactivationAfter = IF row.kind = "REACTIVATION" THEN Null ELSE @]

FailCoverage(row) ==
    [row EXCEPT !.status = "INCOMPLETE", !.required = Null, !.initial = Null,
        !.after = Null, !.afterGen = Null, !.ended = TRUE, !.failed = TRUE]

-----------------------------------------------------------------------------
(* Incremental tasks *)

\* startIncremental and restartInterruptedIncremental freeze the newest known record.
StartIncremental(row) ==
    [row EXCEPT !.incStatus = "RUNNING", !.incGen = @ + 1, !.frozen = row.latest,
        !.incEnded = FALSE, !.incFailed = FALSE]

FinishIncremental(row, status) ==
    [row EXCEPT !.incStatus = status, !.frozen = Null, !.incEnded = TRUE,
        !.incFailed = status = "INCOMPLETE"]

-----------------------------------------------------------------------------
(* Discovery *)

StaysPending(row) == row.status = "PENDING" /\ row.proofGen = Null

\* Mutant: the recovery position outlives the task the transition cancels.
TransitionKeepsAnchor(row, active) ==
    [row EXCEPT !.active = active,
        !.reactivation = active,
        !.reactivationAfter = IF active THEN row.gen + 1 ELSE Null,
        !.finalDone = FALSE,
        !.status = IF StaysPending(row) THEN @ ELSE "INCOMPLETE",
        !.gen = @ + 1,
        !.required = Null, !.initial = Null,
        !.ended = ~StaysPending(row), !.failed = ~StaysPending(row),
        !.incStatus = IF @ = "RUNNING" THEN "IDLE" ELSE @,
        !.incGen = IF row.incStatus = "RUNNING" THEN @ + 1 ELSE @,
        !.frozen = Null,
        !.incEnded = @ \/ row.incStatus = "RUNNING"]

\* Mutant: the running incremental task survives the transition.
TransitionKeepsIncremental(row, active) ==
    [row EXCEPT !.active = active,
        !.reactivation = active,
        !.reactivationAfter = IF active THEN row.gen + 1 ELSE Null,
        !.finalDone = FALSE,
        !.status = IF StaysPending(row) THEN @ ELSE "INCOMPLETE",
        !.gen = @ + 1,
        !.required = Null, !.initial = Null, !.after = Null, !.afterGen = Null,
        !.ended = ~StaysPending(row), !.failed = ~StaysPending(row)]

\* A known market whose active flag changed.
Transition(row, active) ==
    [row EXCEPT !.active = active,
        !.reactivation = active,
        !.reactivationAfter = IF active THEN row.gen + 1 ELSE Null,
        !.finalDone = FALSE,
        !.status = IF StaysPending(row) THEN @ ELSE "INCOMPLETE",
        !.gen = @ + 1,
        !.required = Null, !.initial = Null, !.after = Null, !.afterGen = Null,
        !.ended = ~StaysPending(row), !.failed = ~StaysPending(row),
        !.incStatus = IF @ = "RUNNING" THEN "IDLE" ELSE @,
        !.incGen = IF row.incStatus = "RUNNING" THEN @ + 1 ELSE @,
        !.frozen = Null,
        !.incEnded = @ \/ row.incStatus = "RUNNING"]

\* What a complete discovery makes of a row.
Observe(row, active) ==
    IF Known(row) THEN IF row.active = active THEN row ELSE Transition(row, active)
    ELSE IF active THEN NewRow ELSE row
=============================================================================
