----------------------------- MODULE FundingWorker -----------------------------
(***************************************************************************)
(* The worker of one exchange that keeps funding history complete: market  *)
(* discovery, coverage tasks that walk the whole visible history page by   *)
(* page, and incremental tasks that walk back to a boundary frozen at      *)
(* their start.  One request is on the wire at a time; a step is the code  *)
(* between two awaits of the worker's root loop.                           *)
(*                                                                         *)
(* Settlements of every market happen together and are numbered from 1;    *)
(* now is the last one, and a number is also the time of its settlement.   *)
(* The exchange shows each settlement from its time on.                    *)
(***************************************************************************)
EXTENDS FundingRows, Sequences, FiniteSets

CONSTANTS
    MarketSeq,      \* the markets in the order of their ids
    PageSize,       \* records the exchange returns per page
    MaxTime,        \* bound on the settlements
    MaxFlips,       \* bound on market state changes that discoveries report
    MaxFaults,      \* bound on failed requests, rejected pages and failed writes
    MaxGlitches,    \* bound on Bitget pages that lack a record
    MaxRestarts,    \* bound on crashes and stops of the process
    NoTask          \* no task

Markets == {MarketSeq[i] : i \in DOMAIN MarketSeq}

ASSUME MarketAssumption ==
    /\ MarketSeq \in Seq(Markets)
    /\ \A i, j \in DOMAIN MarketSeq : MarketSeq[i] = MarketSeq[j] => i = j
ASSUME SizeAssumption == PageSize \in Nat \ {0} /\ MaxTime \in Nat \ {0}
ASSUME BoundAssumption == {MaxFlips, MaxFaults, MaxGlitches, MaxRestarts} \subseteq Nat

VARIABLES
    now,        \* the last settlement
    rows,       \* funding_rate_sync_state, by market
    hist,       \* funding_rate_history: the settlements stored for each market
    scan,       \* the temporary scan table: settlements seen in each round
    ripe,       \* which retry or repeat intervals have passed since the last attempt
    queue,      \* the queues of the worker, by category
    last,       \* the category served last
    current,    \* the task whose request is on the wire
    life,       \* lifecycle of the worker
    spent       \* how much of each bound is used

stored == <<rows, hist, scan, ripe>>
memory == <<queue, last, current>>
vars == <<now, rows, hist, scan, ripe, queue, last, current, life, spent>>

Categories == <<"discovery", "incremental", "backfill", "reconcile">>
CategoryNames == {Categories[i] : i \in DOMAIN Categories}

\* A lease, with the position of the page task that holds it.
Task ==
    [job : {"discovery", "coverage", "incremental"}, m : Markets \cup {"all"},
     gen : Nat, kind : CoverageKinds \cup {"none"}, cutoff : Nat, required : Nat, initial : Nat,
     round : 1 .. 3, page : Nat \ {0}, prevEmpty : Nat, seen : BOOLEAN, post : BOOLEAN,
     after : Nat]

ASSUME NoTaskAssumption == NoTask \notin Task /\ "all" \notin Markets

TypeOK ==
    /\ now \in 1 .. MaxTime
    /\ rows \in [Markets -> Row]
    /\ hist \in [Markets -> SUBSET (1 .. MaxTime)]
    /\ scan \in [Markets -> [1 .. 3 -> SUBSET (1 .. MaxTime)]]
    /\ ripe \in [Markets -> [coverage : BOOLEAN, incremental : BOOLEAN]]
    /\ queue \in [CategoryNames -> Seq(Task)]
    /\ last \in 1 .. 4
    /\ current \in Task \cup {NoTask}
    /\ life \in {"new", "running", "stopping", "stopped"}
    /\ spent \in [flips : 0 .. MaxFlips, faults : 0 .. MaxFaults,
                  glitches : 0 .. MaxGlitches, restarts : 0 .. MaxRestarts]

EmptyScan == [i \in 1 .. 3 |-> {}]
NoQueue == [c \in CategoryNames |-> << >>]

Init ==
    /\ now = 1
    /\ rows = [m \in Markets |-> NoRow]
    /\ hist = [m \in Markets |-> {}]
    /\ scan = [m \in Markets |-> EmptyScan]
    /\ ripe = [m \in Markets |-> [coverage |-> FALSE, incremental |-> FALSE]]
    /\ queue = NoQueue
    /\ last = 4
    /\ current = NoTask
    /\ life = "new"
    /\ spent = [flips |-> 0, faults |-> 0, glitches |-> 0, restarts |-> 0]

-----------------------------------------------------------------------------
(* Tasks *)

DiscoveryTask ==
    [job |-> "discovery", m |-> "all", gen |-> 0, kind |-> "none", cutoff |-> Null,
     required |-> Null, initial |-> Null, round |-> 1, page |-> 1, prevEmpty |-> Null,
     seen |-> FALSE, post |-> FALSE, after |-> Null]

\* The task a lease on row r is handed to.
CoverageTask(m, r) ==
    [DiscoveryTask EXCEPT !.job = "coverage", !.m = m, !.gen = r.gen, !.kind = r.kind,
        !.cutoff = r.cutoff, !.required = r.required, !.initial = r.initial, !.after = r.initial]

IncrementalTask(m, r) ==
    [DiscoveryTask EXCEPT !.job = "incremental", !.m = m, !.gen = r.incGen, !.required = r.frozen]

CategoryOf(t) ==
    IF t.job # "coverage" THEN t.job ELSE IF t.kind = "INITIAL" THEN "backfill" ELSE "reconcile"

Live == {current} \cup UNION {{queue[c][i] : i \in DOMAIN queue[c]} : c \in CategoryNames}

\* The lease of t is still the one in the row.
Holds(t) ==
    CASE t.job = "coverage" -> HoldsCoverage(rows[t.m], t)
      [] t.job = "incremental" -> HoldsIncremental(rows[t.m], t)
      [] OTHER -> TRUE

-----------------------------------------------------------------------------
(* Scheduling from the stored rows *)

\* coverageRetryDue; due is whether the interval since the last attempt has passed.
CoverageRetryDue(row, kind, due) == row.status # "INCOMPLETE" \/ row.kind # kind \/ due

\* Mutant: a proof of an active market is never renewed.
CoverageKindDueOnce(row, due) ==
    CASE row.status \in {"UNKNOWN", "BACKFILLING"} \/ row.finalDone -> "none"
      [] row.reactivation -> "REACTIVATION"
      [] ~row.active -> "INACTIVE_FINAL"
      [] OTHER -> IF row.proofGen = Null THEN "INITIAL" ELSE "none"

\* coverageKindDue, "none" where it returns null or coverage is running.
CoverageKindDue(row, due) ==
    LET retry(kind) == IF CoverageRetryDue(row, kind, due) THEN kind ELSE "none"
    IN IF row.status \in {"UNKNOWN", "BACKFILLING"} THEN "none"
       ELSE IF row.reactivation THEN retry("REACTIVATION")
       ELSE IF ~row.active THEN IF row.finalDone THEN "none" ELSE retry("INACTIVE_FINAL")
       ELSE IF row.proofGen = Null THEN retry("INITIAL")
       ELSE IF row.status = "INCOMPLETE" THEN retry("PERIODIC")
       ELSE IF due THEN "PERIODIC" ELSE "none"

\* Mutant: an old proof is enough for a market that came back.
IncrementalDueOldProof(row, due) ==
    row.active /\ row.incStatus # "RUNNING" /\ row.proofGen # Null /\ (~row.incEnded \/ due)

IncrementalDue(row, due) ==
    /\ row.active /\ ~row.reactivation
    /\ row.incStatus # "RUNNING"
    /\ row.proofGen # Null
    /\ ~row.incEnded \/ due

StartedCoverage(rs, rp) ==
    {m \in Markets : CoverageKindDue(rs[m], rp[m].coverage) # "none"}
StartedIncremental(rs, rp) ==
    {m \in Markets : IncrementalDue(rs[m], rp[m].incremental)}

\* The rows after schedulePersistedWork.
RowsScheduled(rs, rp) ==
    [m \in Markets |->
        LET kind == CoverageKindDue(rs[m], rp[m].coverage)
            row == IF kind = "none" THEN rs[m] ELSE StartCoverage(rs[m], kind, now)
        IN IF IncrementalDue(rs[m], rp[m].incremental) THEN StartIncremental(row) ELSE row]

Place == [m \in Markets |-> CHOOSE i \in DOMAIN MarketSeq : MarketSeq[i] = m]

\* The tasks of T, one per market, in the order of the market ids.
InOrder(T) ==
    CHOOSE ts \in [1 .. Cardinality(T) -> T] :
        \A i, j \in DOMAIN ts : i < j => Place[ts[i].m] < Place[ts[j].m]

\* Queues q with the tasks for these markets' rows rs appended, market by market.
Enqueued(q, rs, coverage, incremental) ==
    LET tasks == {CoverageTask(m, rs[m]) : m \in coverage}
                 \cup {IncrementalTask(m, rs[m]) : m \in incremental}
    IN [c \in CategoryNames |-> q[c] \o InOrder({t \in tasks : CategoryOf(t) = c})]

\* schedulePersistedWork on rows rs, intervals rp, scans sc and queues q.
SchedulePersistedWork(rs, rp, sc, q) ==
    LET coverage == StartedCoverage(rs, rp)
        incremental == StartedIncremental(rs, rp)
    IN /\ rows' = RowsScheduled(rs, rp)
       /\ ripe' = [m \in Markets |-> [coverage |-> rp[m].coverage /\ m \notin coverage,
                                      incremental |-> rp[m].incremental /\ m \notin incremental]]
       /\ scan' = [m \in Markets |-> IF m \in coverage THEN EmptyScan ELSE sc[m]]
       /\ queue' = Enqueued(q, rows', coverage, incremental)

\* The root loop after a task ends (t = NoTask) or goes to the back of its queue.
ContinueRoot(rs, rp, sc, t) ==
    /\ current' = NoTask
    /\ IF life = "running"
       THEN /\ SchedulePersistedWork(rs, rp, sc,
                   IF t = NoTask THEN queue ELSE [queue EXCEPT ![CategoryOf(t)] = Append(@, t)])
            /\ life' = life
       ELSE /\ rows' = rs /\ ripe' = rp /\ scan' = sc
            /\ life' = "stopped"
            /\ UNCHANGED queue

-----------------------------------------------------------------------------
(* Lifecycle *)

\* Mutant: recovery leaves the interrupted incremental task to the scheduler.
InterruptedNoIncremental == {}

Interrupted == {m \in Markets : rows[m].incStatus = "RUNNING"}

\* start: recovery of interrupted tasks, then scheduling, both before the first await.
Start ==
    LET coverage == {m \in Markets : rows[m].status = "BACKFILLING"}
        incremental == Interrupted
        Recovered(m) ==
            LET row == IF m \in coverage THEN ResumeCoverage(rows[m]) ELSE rows[m]
            IN IF m \in incremental THEN StartIncremental(row) ELSE row
        rs == [m \in Markets |-> Recovered(m)]
        q == [NoQueue EXCEPT !["discovery"] = <<DiscoveryTask>>]
    IN /\ life = "new"
       /\ life' = "running"
       /\ last' = 4
       /\ SchedulePersistedWork(rs, ripe, [m \in Markets |-> EmptyScan],
                                Enqueued(q, rs, coverage, incremental))
       /\ UNCHANGED <<now, hist, current, spent>>

\* requestStop, whoever calls it: the request on the wire may still come back.
RequestStop ==
    /\ life = "running"
    /\ spent.restarts < MaxRestarts
    /\ life' = IF current = NoTask THEN "stopped" ELSE "stopping"
    /\ queue' = NoQueue
    /\ spent' = [spent EXCEPT !.restarts = @ + 1]
    /\ UNCHANGED <<now, stored, last, current>>

Crash ==
    /\ life \in {"running", "stopping"}
    /\ spent.restarts < MaxRestarts
    /\ life' = "new"
    /\ queue' = NoQueue
    /\ current' = NoTask
    /\ spent' = [spent EXCEPT !.restarts = @ + 1]
    /\ UNCHANGED <<now, stored, last>>

\* A new process after a stop.
Restart ==
    /\ life = "stopped"
    /\ life' = "new"
    /\ UNCHANGED <<now, stored, memory, spent>>

-----------------------------------------------------------------------------
(* The environment *)

Settle ==
    /\ now < MaxTime
    /\ now' = now + 1
    /\ UNCHANGED <<stored, memory, life, spent>>

\* The interval after an attempt has passed.  Intervals that pass with nothing new to find
\* are left out: they repeat the previous attempt.
CoverageElapses(m) ==
    /\ ~ripe[m].coverage
    /\ \/ rows[m].status = "INCOMPLETE"
       \/ rows[m].status = "CAUGHT_UP" /\ rows[m].active /\ rows[m].proofCutoff < now
    /\ ripe' = [ripe EXCEPT ![m].coverage = TRUE]
    /\ UNCHANGED <<now, rows, hist, scan, memory, life, spent>>

IncrementalElapses(m) ==
    /\ ~ripe[m].incremental
    /\ rows[m].incStatus # "RUNNING" /\ rows[m].incEnded /\ rows[m].active
    /\ rows[m].latest < now \/ rows[m].incFailed
    /\ ripe' = [ripe EXCEPT ![m].incremental = TRUE]
    /\ UNCHANGED <<now, rows, hist, scan, memory, life, spent>>

-----------------------------------------------------------------------------
(* The root loop *)

\* Mutant: the timer reads the markets itself.
DiscoveryTickInTimer ==
    /\ life = "running" /\ spent.flips < MaxFlips
    /\ \E m \in Markets :
        /\ Known(rows[m])
        /\ rows' = [rows EXCEPT ![m] = Observe(@, ~@.active)]
        /\ scan' = [scan EXCEPT ![m] = EmptyScan]
    /\ spent' = [spent EXCEPT !.flips = @ + 1]
    /\ UNCHANGED <<now, hist, ripe, memory, life>>

\* scheduleDiscovery on the timer; a discovery that is queued or running is not repeated.
DiscoveryTick ==
    /\ life = "running"
    /\ DiscoveryTask \notin Live
    /\ queue' = [queue EXCEPT !["discovery"] = Append(@, DiscoveryTask)]
    /\ UNCHANGED <<now, stored, last, current, life, spent>>

Ready == {c \in DOMAIN Categories : queue[Categories[c]] # << >>}

\* Mutant: the categories are served in a fixed order of priority.
NextCategoryByPriority == CHOOSE c \in Ready : \A d \in Ready : c <= d

\* dequeue: the first category with work after the one served last.
NextCategory ==
    LET Wait(c) == (c + 3 - last) % 4
    IN CHOOSE c \in Ready : \A d \in Ready : Wait(c) <= Wait(d)

\* The check before every request.
MayRequest(t) == Holds(t)

TakeTask ==
    LET c == NextCategory
        t == Head(queue[Categories[c]])
    IN /\ life = "running" /\ current = NoTask
       /\ Ready # {}
       /\ last' = c
       /\ queue' = [queue EXCEPT ![Categories[c]] = Tail(@)]
       /\ current' = t
       /\ UNCHANGED <<now, stored, life, spent>>

\* runNextPage finds its lease superseded, sends nothing and ends the task.
DropSuperseded ==
    /\ current # NoTask
    /\ ~MayRequest(current)
    /\ ContinueRoot(rows, ripe, scan, NoTask)
    /\ UNCHANGED <<now, hist, last, spent>>

-----------------------------------------------------------------------------
(* Pages *)

\* Settlement numbers of page p, newest first and PageSize at a time.
BitgetPage(p) == {t \in 1 .. now : t <= now - (p - 1) * PageSize /\ t > now - p * PageSize}

OkxPage(after) ==
    LET top == IF after = Null THEN now ELSE after - 1
    IN {t \in 1 .. now : t <= top /\ t > top - PageSize}

PageAt(t) == IF Exchange = "bitget" THEN BitgetPage(t.page) ELSE OkxPage(t.after)

\* A page the exchange may return for t, with the records it leaves out.
Answers(t) ==
    {[page |-> PageAt(t) \ gap, gap |-> gap # {}] :
        gap \in IF Exchange = "bitget" /\ spent.glitches < MaxGlitches
                THEN SUBSET PageAt(t) ELSE {{}}}

Lowest(S) == CHOOSE t \in S : \A u \in S : t <= u
Highest(S) == CHOOSE t \in S : \A u \in S : u <= t

\* The task after a non-empty page.
Advanced(t, page) ==
    [t EXCEPT !.page = IF Exchange = "bitget" THEN @ + 1 ELSE @,
              !.after = IF Exchange = "okx" THEN Lowest(page) ELSE @,
              !.seen = @ \/ (t.required # Null /\ t.required \in page)]

NextRound(t) == [t EXCEPT !.round = @ + 1, !.page = 1, !.prevEmpty = t.page, !.seen = FALSE]

BoundaryMissed(t) == t.required # Null /\ ~t.seen

\* Mutant: one complete walk is taken as proof.
ConvergedAtOnce(t) == TRUE

\* Two rounds in a row ended on the same page and saw the same records.
Converged(t) ==
    t.round > 1 /\ t.prevEmpty = t.page /\ scan[t.m][t.round - 1] = scan[t.m][t.round]

-----------------------------------------------------------------------------
(* Answers *)

Glitch(a) == [spent EXCEPT !.glitches = IF a.gap THEN @ + 1 ELSE @]
Fault == [spent EXCEPT !.faults = @ + 1]

CoverageWaits(m) == [ripe EXCEPT ![m].coverage = FALSE]
IncrementalWaits(m) == [ripe EXCEPT ![m].incremental = FALSE]

\* The request of a task of this kind is on the wire.
Asked(job) == current # NoTask /\ current.job = job /\ ~current.post /\ MayRequest(current)

\* writeRecordsInCurrentTransaction: what the page adds to the history of a market.
Written(m, page) == [hist EXCEPT ![m] = @ \cup page]

\* The records of a round up to the cutoff are remembered to be compared with the next round.
Scanned(t, page) ==
    IF Exchange = "okx" THEN scan
    ELSE [scan EXCEPT ![t.m][t.round] = @ \cup {u \in page : u <= t.cutoff}]

\* commitCoveragePage.
CoveragePage ==
    \E a \in IF Asked("coverage") THEN Answers(current) ELSE {} :
        LET t == current
            row == rows[t.m]
        IN /\ a.page # {}
           /\ hist' = Written(t.m, a.page)
           /\ ContinueRoot(
                [rows EXCEPT ![t.m] = CommitCoverage(row, Lowest(a.page), Highest(a.page))],
                ripe, Scanned(t, a.page), Advanced(t, a.page))
           /\ spent' = Glitch(a)
           /\ UNCHANGED <<now, last>>

CompletesCoverage(t) ==
    IF Exchange = "okx" THEN AcceptsEvidence(rows[t.m], t.after)
    ELSE ~BoundaryMissed(t) /\ Converged(t)

\* Mutant: the number of rounds is not limited.
RepeatsRoundForever(t) == Exchange = "bitget" /\ ~BoundaryMissed(t) /\ ~Converged(t)

RepeatsRound(t) ==
    Exchange = "bitget" /\ ~BoundaryMissed(t) /\ ~Converged(t) /\ t.round < 3

\* An explicit empty page: the end of the walk, of a Bitget round, or a failure to converge.
CoverageEmptyPage ==
    \E a \in IF Asked("coverage") THEN Answers(current) ELSE {} :
        LET t == current
            row == rows[t.m]
            over(r) == ContinueRoot([rows EXCEPT ![t.m] = r], CoverageWaits(t.m),
                                    [scan EXCEPT ![t.m] = EmptyScan], NoTask)
        IN /\ a.page = {}
           /\ \/ CompletesCoverage(t) /\ over(CompleteCoverage(row))
              \/ RepeatsRound(t) /\ ContinueRoot(rows, ripe, scan, NextRound(t))
              \/ ~CompletesCoverage(t) /\ ~RepeatsRound(t) /\ over(FailCoverage(row))
           /\ spent' = Glitch(a)
           /\ UNCHANGED <<now, hist, last>>

\* Retries exhausted, a page that is rejected, or a write that is rolled back.
CoverageFails ==
    LET t == current
    IN /\ Asked("coverage")
       /\ spent.faults < MaxFaults
       /\ spent' = Fault
       /\ ContinueRoot([rows EXCEPT ![t.m] = FailCoverage(@)], CoverageWaits(t.m),
                       [scan EXCEPT ![t.m] = EmptyScan], NoTask)
       /\ UNCHANGED <<now, hist, last>>

\* commitIncrementalPage; the page after the one with the frozen boundary is the last.
IncrementalPage ==
    LET t == current
        page == PageAt(t)
    IN /\ Asked("incremental")
       /\ page # {}
       /\ hist' = Written(t.m, page)
       /\ IF t.seen
          THEN /\ current' = [t EXCEPT !.post = TRUE]
               /\ rows' = [rows EXCEPT ![t.m] = Widen(@, Lowest(page), Highest(page))]
               /\ UNCHANGED <<scan, ripe, queue, life>>
          ELSE ContinueRoot([rows EXCEPT ![t.m] = Widen(@, Lowest(page), Highest(page))],
                            ripe, scan, Advanced(t, page))
       /\ UNCHANGED <<now, last, spent>>

\* completeIncremental, after the last page or on an explicit empty one.
IncrementalEnds ==
    LET t == current
    IN /\ current # NoTask /\ t.job = "incremental" /\ MayRequest(t)
       /\ t.post \/ PageAt(t) = {}
       /\ ContinueRoot([rows EXCEPT ![t.m] = FinishIncremental(@, "IDLE")],
                       IncrementalWaits(t.m), scan, NoTask)
       /\ UNCHANGED <<now, hist, last, spent>>

IncrementalFails ==
    LET t == current
    IN /\ current # NoTask /\ t.job = "incremental" /\ MayRequest(t)
       /\ spent.faults < MaxFaults
       /\ spent' = Fault
       /\ ContinueRoot([rows EXCEPT ![t.m] = FinishIncremental(@, "INCOMPLETE")],
                       IncrementalWaits(t.m), scan, NoTask)
       /\ UNCHANGED <<now, hist, last>>

\* applyCompleteDiscovery with these active flags.
DiscoveryApplied ==
    \E active \in [Markets -> BOOLEAN] :
        LET flipped == {m \in Markets : Known(rows[m]) /\ rows[m].active # active[m]}
            canceled(m) == m \in flipped /\ rows[m].incStatus = "RUNNING"
            waits(m) == m \in flipped /\ ~StaysPending(rows[m])
        IN /\ Asked("discovery")
           /\ spent.flips + Cardinality(flipped) <= MaxFlips
           /\ spent' = [spent EXCEPT !.flips = @ + Cardinality(flipped)]
           /\ ContinueRoot(
                [m \in Markets |-> Observe(rows[m], active[m])],
                [m \in Markets |-> [coverage |-> ripe[m].coverage /\ ~waits(m),
                                    incremental |-> ripe[m].incremental /\ ~canceled(m)]],
                [m \in Markets |-> IF m \in flipped THEN EmptyScan ELSE scan[m]],
                NoTask)
           /\ UNCHANGED <<now, hist, last>>

\* A failed or incomplete discovery writes nothing.
DiscoveryFails ==
    /\ Asked("discovery")
    /\ spent.faults < MaxFaults
    /\ spent' = Fault
    /\ ContinueRoot(rows, ripe, scan, NoTask)
    /\ UNCHANGED <<now, hist, last>>

\* The request is canceled by the stop and the task ends without a write.
Canceled ==
    /\ life = "stopping"
    /\ current # NoTask
    /\ ~current.post
    /\ ContinueRoot(rows, ripe, scan, NoTask)
    /\ UNCHANGED <<now, hist, last, spent>>

\* A complete discovery, or a page and then its failure, cannot be written: the root ends with a
\* fatal error.
Fatal ==
    /\ current # NoTask /\ MayRequest(current)
    /\ spent.faults < MaxFaults
    /\ spent' = Fault
    /\ life' = "stopped"
    /\ queue' = NoQueue
    /\ current' = NoTask
    /\ UNCHANGED <<now, stored, last>>

Work ==
    \/ TakeTask \/ DropSuperseded
    \/ CoveragePage \/ CoverageEmptyPage \/ CoverageFails
    \/ IncrementalPage \/ IncrementalEnds \/ IncrementalFails
    \/ DiscoveryApplied \/ DiscoveryFails
    \/ Canceled \/ Fatal

Next ==
    \/ Start \/ RequestStop \/ Crash \/ Restart
    \/ Settle \/ \E m \in Markets : CoverageElapses(m) \/ IncrementalElapses(m)
    \/ DiscoveryTick
    \/ Work

Spec == Init /\ [][Next]_vars

-----------------------------------------------------------------------------
(* Fairness *)

\* The root loop goes on while it has work, the timers fire, intervals pass, and the service is
\* started again.  Failures are bounded, so requests succeed in the end.
Fairness ==
    /\ WF_vars(Work)
    /\ WF_vars(DiscoveryTick)
    /\ WF_vars(Start) /\ WF_vars(Restart)
    /\ \A m \in Markets : WF_vars(CoverageElapses(m)) /\ WF_vars(IncrementalElapses(m))

FairSpec == Spec /\ Fairness

-----------------------------------------------------------------------------
(* Properties *)

\* Every row the worker leaves behind passes validateStateRow, which every later read of it goes
\* through: a row it rejects would stop both workers at every start.
RowsReadable == \A m \in Markets : Known(rows[m]) => Readable(rows[m])

\* What recoverInterruptedTasks and schedulePersistedWork ask of the repository is never refused:
\* a refusal is a fatal error of the worker.
WorkerIsNeverRefused ==
    \A m \in Markets :
        LET row == rows[m]
        IN /\ row.status = "BACKFILLING" => AllowsCoverage(row, row.kind, row.gen + 1)
           /\ row.incStatus = "RUNNING" => AllowsIncremental(row)
           /\ \A due \in BOOLEAN :
                /\ CoverageKindDue(row, due) # "none" =>
                    MayStartCoverage(row, CoverageKindDue(row, due))
                /\ IncrementalDue(row, due) => AllowsIncremental(row)

\* A market said to be complete up to a cutoff has every settlement up to it, through restarts in
\* the middle of a walk, market state changes and pages that shift while they are read.
ProofIsTrue == \A m \in Markets : 1 .. rows[m].proofCutoff \subseteq hist[m]

\* Where the tasks of a worker that hold the lease of m are: in a queue or on the wire.
Holders(job, m) ==
    LET holds(t) == t.job = job /\ t.m = m /\ Holds(t)
    IN {w \in UNION {{c} \X DOMAIN queue[c] : c \in CategoryNames} : holds(queue[w[1]][w[2]])}
       \cup {w \in {<<"wire", 0>>} : current # NoTask /\ holds(current)}

\* A market marked as being synchronised has exactly one task that does it: it is neither
\* forgotten, which would leave it marked until the next restart, nor synchronised twice.
OneTaskPerLease ==
    life = "running" =>
        \A m \in Markets :
            /\ rows[m].status = "BACKFILLING" => Cardinality(Holders("coverage", m)) = 1
            /\ rows[m].incStatus = "RUNNING" => Cardinality(Holders("incremental", m)) = 1

\* While a page is on the wire its lease stays valid: an answer that was fetched is never thrown
\* away as stale, because only the same worker's discovery supersedes a lease.
AnswerIsNeverStale ==
    [][current # NoTask /\ MayRequest(current) /\ current' = current => MayRequest(current)']_vars

\* The promise the rows and the history keep to their readers.
Promise ==
    INSTANCE FundingPromise WITH
        market <- [m \in Markets |->
            [active |-> rows[m].active, owed |-> rows[m].reactivation, proof |-> rows[m].proofGen,
             cutoff |-> rows[m].proofCutoff, hist |-> hist[m],
             fetching |-> rows[m].incStatus = "RUNNING"]]

PromiseKept == Promise!Spec

\* The history of a known market catches up with the settlements again and again, unless the market
\* closed and its final walk is done: every settlement is stored in the end, also one that an
\* interrupted incremental task jumped over.
EverySettlementIsStored ==
    \A m \in Markets : []<>(Known(rows[m]) => 1 .. now \subseteq hist[m] \/ rows[m].finalDone)

\* No category of work is starved by the others: one that has work is served again and again.
EveryCategoryIsServed ==
    \A c \in DOMAIN Categories : []<>(c \notin Ready \/ last = c \/ life # "running")
=============================================================================
