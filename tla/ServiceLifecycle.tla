--------------------------- MODULE ServiceLifecycle ---------------------------
(***************************************************************************)
(* The life of the service process: composition under the exclusive        *)
(* database lock, start, the monitor's rounds, confirmations and their     *)
(* background executions, the two funding workers, and the shutdown that   *)
(* must wait for all of them before it closes the database.  Several       *)
(* processes may be launched on the same database file.                    *)
(*                                                                         *)
(* A strategy is "pending", "open" (the monitor recovers it) or "done";    *)
(* what one visit does to it is the business of HedgeExecution.            *)
(***************************************************************************)
EXTENDS Naturals, FiniteSets

CONSTANTS
    Processes,      \* processes launched on one database file
    Strategies,     \* strategies stored in it
    NoProcess,      \* no process holds the lock
    MaxStops,       \* signals received
    MaxCrashes,     \* processes killed
    MaxFaults       \* constructions and cleanup steps that fail

ASSUMPTION ProcessAssumption == NoProcess \notin Processes
ASSUMPTION BudgetAssumption == {MaxStops, MaxCrashes, MaxFaults} \subseteq Nat

VARIABLES
    proc,       \* [process -> its volatile state]
    lock,       \* the process that holds the file lock, kept by the operating system
    stored,     \* [strategy -> its stored state]
    spent       \* [stops, crashes, faults]: the bounded events so far

vars == <<proc, lock, stored, spent>>

Exchanges == {"bitget", "okx"}

\* boot: progress of composeService and startService.  stop: what closeResources waits for, and
\* "ended" once it is through.  awaited: background executions the onClose hook waits for.
\* failed: a cleanup step threw.
Process ==
    [boot : {"off", "opened", "claimed", "starting", "up"},
     db : BOOLEAN,
     stop : {"no", "funding", "monitor", "requests", "background", "ended"},
     http : {"closed", "binding", "listening", "draining"},
     sync : {"new", "running", "stopping", "stopped"},
     worker : [Exchanges -> {"new", "idle", "asking", "ended", "failed"}],
     timer : BOOLEAN,
     round : SUBSET Strategies,
     requests : SUBSET Strategies,
     background : SUBSET Strategies,
     awaited : SUBSET Strategies,
     phase : {"STARTING", "RUNNING", "STOPPING", "STOPPED"},
     funding : {"NOT_STARTED", "RUNNING", "STOPPED", "FAILED"},
     failed : BOOLEAN]

Off ==
    [boot |-> "off", db |-> FALSE, stop |-> "no", http |-> "closed", sync |-> "new",
     worker |-> [x \in Exchanges |-> "new"], timer |-> FALSE, round |-> {}, requests |-> {},
     background |-> {}, awaited |-> {}, phase |-> "STARTING", funding |-> "NOT_STARTED",
     failed |-> FALSE]

TypeOK ==
    /\ proc \in [Processes -> Process]
    /\ lock \in Processes \cup {NoProcess}
    /\ stored \in [Strategies -> {"pending", "open", "done"}]
    /\ spent \in [stops : 0 .. MaxStops, crashes : 0 .. MaxCrashes, faults : 0 .. MaxFaults]

Init ==
    /\ proc = [p \in Processes |-> Off]
    /\ lock = NoProcess
    /\ stored = [s \in Strategies |-> "pending"]
    /\ spent = [stops |-> 0, crashes |-> 0, faults |-> 0]

Becomes(p, r) == proc' = [proc EXCEPT ![p] = r]
Open == {s \in Strategies : stored[s] = "open"}

-----------------------------------------------------------------------------
(* Composition *)

\* databaseFactory: opening takes no lock.
Launch(p) ==
    /\ proc[p].boot = "off"
    /\ Becomes(p, [Off EXCEPT !.boot = "opened", !.db = TRUE])
    /\ UNCHANGED <<lock, stored, spent>>

\* Mutant: the failed claim is reported and the process goes on.
ClaimAnyway(p) ==
    /\ proc[p].boot = "opened"
    /\ lock' = IF lock = NoProcess THEN p ELSE lock
    /\ Becomes(p, [proc[p] EXCEPT !.boot = "claimed"])
    /\ UNCHANGED <<stored, spent>>

\* claimSqliteProcessOwnership: a second process fails at once (timeout 0) and exits.
Claim(p) ==
    /\ proc[p].boot = "opened"
    /\ \/ /\ lock = NoProcess
          /\ lock' = p
          /\ Becomes(p, [proc[p] EXCEPT !.boot = "claimed"])
       \/ /\ lock # NoProcess
          /\ Becomes(p, Off)
          /\ UNCHANGED lock
    /\ UNCHANGED <<stored, spent>>

\* A round of the monitor on r: every recoverable strategy, unless one is still under way.
Recover(r) == [r EXCEPT !.round = IF @ = {} THEN Open ELSE @]

\* The rest of composeService and startService up to the listen call, or a failed construction.
Compose(p) ==
    /\ proc[p].boot = "claimed"
    /\ \/ /\ Becomes(p, Recover([proc[p] EXCEPT !.boot = "starting", !.timer = TRUE,
                                                !.http = "binding"]))
          /\ UNCHANGED <<lock, spent>>
       \/ /\ spent.faults < MaxFaults
          /\ Becomes(p, Off)
          /\ lock' = IF lock = p THEN NoProcess ELSE lock
          /\ spent' = [spent EXCEPT !.faults = @ + 1]
    /\ UNCHANGED stored

-----------------------------------------------------------------------------
(* Funding workers and their service *)

\* RuntimeStatus.record: once the synchronisation has failed its status stays.
Recorded(r, status) == [r EXCEPT !.funding = IF @ = "FAILED" THEN @ ELSE status]

\* Mutant: a worker told to stop is not woken.
EndedUnwoken(w) == IF w = "new" THEN "ended" ELSE w

\* Mutant: a worker told to stop is only marked.
EndedMarked(w) == IF w \in {"new", "idle"} THEN "stopping" ELSE w

\* requestStop of one worker: an idle one is woken and ends, one in a request sees its result.
Ended(w) == IF w \in {"new", "idle"} THEN "ended" ELSE w

\* FundingRateSyncService.stop, the same promise whoever calls it.
SyncStop(r) ==
    IF r.sync \in {"stopping", "stopped"} THEN r
    ELSE [r EXCEPT !.sync = "stopping", !.worker = [x \in Exchanges |-> Ended(@[x])]]

\* start: both workers, each with its first discovery queued.
SyncStart(r) ==
    IF r.sync # "new" THEN r
    ELSE Recorded([r EXCEPT !.sync = "running", !.worker = [x \in Exchanges |-> "idle"]], "RUNNING")

WorkerAsks(p, x) ==
    /\ proc[p].worker[x] = "idle"
    /\ Becomes(p, [proc[p] EXCEPT !.worker[x] = "asking"])
    /\ UNCHANGED <<lock, stored, spent>>

\* The page is stored, also when the stop came while it was asked for.
WorkerStores(p, x) ==
    /\ proc[p].worker[x] = "asking"
    /\ Becomes(p, [proc[p] EXCEPT !.worker[x] =
                      IF proc[p].sync = "running" THEN "idle" ELSE "ended"])
    /\ UNCHANGED <<lock, stored, spent>>

\* Mutant: a failing worker reports and leaves the other one and the service running.
WorkerFailsAlone(p, x) ==
    /\ proc[p].worker[x] \in {"idle", "asking"}
    /\ Becomes(p, [proc[p] EXCEPT !.worker[x] = "failed", !.funding = "FAILED"])
    /\ UNCHANGED <<lock, stored, spent>>

\* runRoot rejects: the worker stops, handleFatal records it and stops the service.
WorkerFails(p, x) ==
    /\ proc[p].worker[x] \in {"idle", "asking"}
    /\ Becomes(p, SyncStop(Recorded([proc[p] EXCEPT !.worker[x] = "failed"], "FAILED")))
    /\ UNCHANGED <<lock, stored, spent>>

\* A request of a worker is answered.
WorkerSettles(p, x) ==
    /\ proc[p].worker[x] = "asking"
    /\ WorkerStores(p, x) \/ WorkerFails(p, x)

\* Both workers have settled.
SyncStopped(p) ==
    /\ proc[p].sync = "stopping"
    /\ \A x \in Exchanges : proc[p].worker[x] \in {"ended", "failed"}
    /\ Becomes(p, Recorded([proc[p] EXCEPT !.sync = "stopped"], "STOPPED"))
    /\ UNCHANGED <<lock, stored, spent>>

-----------------------------------------------------------------------------
(* Shutdown *)

\* shutdown: the first call begins closeResources, later ones share its promise.
Shutdown(r) ==
    IF r.stop # "no" THEN r
    ELSE SyncStop([r EXCEPT !.stop = "funding", !.phase = "STOPPING"])

Signal(p) ==
    /\ proc[p].boot \in {"starting", "up"}
    /\ spent.stops < MaxStops
    /\ Becomes(p, Shutdown(proc[p]))
    /\ spent' = [spent EXCEPT !.stops = @ + 1]
    /\ UNCHANGED <<lock, stored>>

\* Mutant: the listen callback does not look whether the service is being shut down.
ListeningAnyway(p) ==
    /\ proc[p].boot = "starting"
    /\ proc[p].http = "binding"
    /\ Becomes(p, SyncStart([proc[p] EXCEPT !.boot = "up", !.http = "listening",
                                            !.phase = "RUNNING"]))
    /\ UNCHANGED <<lock, stored, spent>>

\* The listen promise is fulfilled; nothing is started once a signal has come.
Listening(p) ==
    /\ proc[p].boot = "starting"
    /\ proc[p].http = "binding"
    /\ LET r == [proc[p] EXCEPT !.boot = "up", !.http = "listening"]
       IN Becomes(p, IF r.stop = "no" THEN SyncStart([r EXCEPT !.phase = "RUNNING"]) ELSE r)
    /\ UNCHANGED <<lock, stored, spent>>

ListenFails(p) ==
    /\ proc[p].boot = "starting"
    /\ proc[p].http = "binding"
    /\ Becomes(p, Shutdown([proc[p] EXCEPT !.boot = "up", !.http = "closed"]))
    /\ UNCHANGED <<lock, stored, spent>>

\* fundingRateSync.stop has settled; a worker that failed makes it a failed cleanup step.
\* monitor.stop clears the timer.
StopMonitor(p) ==
    /\ proc[p].stop = "funding"
    /\ proc[p].sync = "stopped"
    /\ Becomes(p, [proc[p] EXCEPT !.stop = "monitor", !.timer = FALSE,
                       !.failed = \E x \in Exchanges : proc[p].worker[x] = "failed"])
    /\ UNCHANGED <<lock, stored, spent>>

\* A cleanup step may throw: that is remembered and the next one is taken (rememberFailure).
MayFail(fails) ==
    /\ fails => spent.faults < MaxFaults
    /\ spent' = IF fails THEN [spent EXCEPT !.faults = @ + 1] ELSE spent

\* Mutant: monitor.stop only clears the timer.
StopServerAtOnce(p) ==
    /\ proc[p].stop = "monitor"
    /\ \E fails \in BOOLEAN :
        /\ MayFail(fails)
        /\ Becomes(p, [proc[p] EXCEPT !.stop = "requests", !.failed = @ \/ fails,
                           !.http = IF @ = "listening" THEN "draining" ELSE "closed"])
    /\ UNCHANGED <<lock, stored>>

\* monitor.stop has waited for the active round, and rejects if that did; server.close refuses
\* new requests.
StopServer(p) ==
    /\ proc[p].stop = "monitor"
    /\ proc[p].round = {}
    /\ \E fails \in BOOLEAN :
        /\ MayFail(fails)
        /\ Becomes(p, [proc[p] EXCEPT !.stop = "requests", !.failed = @ \/ fails,
                           !.http = IF @ = "listening" THEN "draining" ELSE "closed"])
    /\ UNCHANGED <<lock, stored>>

\* The requests in flight are answered; the onClose hook takes the background executions.
Drained(p) ==
    /\ proc[p].stop = "requests"
    /\ proc[p].requests = {}
    /\ Becomes(p, [proc[p] EXCEPT !.stop = "background", !.http = "closed",
                                  !.awaited = proc[p].background])
    /\ UNCHANGED <<lock, stored, spent>>

\* Promise.allSettled has settled; database.close gives the lock back.  server.close or
\* database.close may throw, the latter with the database still open; STOPPED is reported only
\* when no cleanup step has.
CloseDatabase(p) ==
    /\ proc[p].stop = "background"
    /\ proc[p].awaited \cap proc[p].background = {}
    /\ \E fails, open \in BOOLEAN :
        /\ open => fails
        /\ MayFail(fails)
        /\ lock' = IF lock = p /\ ~open THEN NoProcess ELSE lock
        /\ Becomes(p, [proc[p] EXCEPT !.stop = "ended", !.db = open, !.failed = @ \/ fails,
                           !.phase = IF proc[p].failed \/ fails THEN @ ELSE "STOPPED"])
    /\ UNCHANGED stored

\* Nothing is left on the event loop: the process ends, and with it a database still open.
Exit(p) ==
    /\ proc[p].boot = "up"
    /\ proc[p].stop = "ended"
    /\ Becomes(p, Off)
    /\ lock' = IF lock = p THEN NoProcess ELSE lock
    /\ UNCHANGED <<stored, spent>>

\* startService returns or throws after a shutdown that closed the server while it was binding.
BindingRefused(p) ==
    /\ proc[p].boot = "starting"
    /\ proc[p].http = "closed"
    /\ Becomes(p, [proc[p] EXCEPT !.boot = "up"])
    /\ UNCHANGED <<lock, stored, spent>>

\* The process dies; the operating system gives the lock back.
Crash(p) ==
    /\ proc[p].boot # "off"
    /\ spent.crashes < MaxCrashes
    /\ Becomes(p, Off)
    /\ lock' = IF lock = p THEN NoProcess ELSE lock
    /\ spent' = [spent EXCEPT !.crashes = @ + 1]
    /\ UNCHANGED stored

-----------------------------------------------------------------------------
(* Requests, background executions and the monitor *)

\* A confirmation; the same strategy twice is refused by the operation owner.
Confirm(p, s) ==
    /\ proc[p].http = "listening"
    /\ s \notin proc[p].requests
    /\ Becomes(p, [proc[p] EXCEPT !.requests = @ \cup {s}])
    /\ UNCHANGED <<lock, stored, spent>>

\* The handler is answered by the preflight: refused, or stored and queued in the background.
Confirmed(p, s) ==
    /\ s \in proc[p].requests
    /\ LET r == [proc[p] EXCEPT !.requests = @ \ {s}]
       IN \/ /\ stored[s] = "pending"
             /\ stored' = [stored EXCEPT ![s] = "open"]
             /\ Becomes(p, [r EXCEPT !.background = @ \cup {s}])
          \/ /\ Becomes(p, r)
             /\ UNCHANGED stored
    /\ UNCHANGED <<lock, spent>>

\* A visit of s by the background execution or by the round ends, with or without a conclusion.
Visited(p, s, concludes) ==
    /\ s \in proc[p].background \cup proc[p].round
    /\ concludes => stored[s] = "open"
    /\ stored' = IF concludes THEN [stored EXCEPT ![s] = "done"] ELSE stored
    /\ \/ s \in proc[p].background /\ Becomes(p, [proc[p] EXCEPT !.background = @ \ {s}])
       \/ s \in proc[p].round /\ Becomes(p, [proc[p] EXCEPT !.round = @ \ {s}])
    /\ UNCHANGED <<lock, spent>>

\* Mutant: a strategy whose visit failed once is left out of later rounds.
MonitorTicksForNew(p) ==
    /\ proc[p].timer
    /\ proc[p].round = {}
    /\ proc[p].background \cap Open # {}
    /\ Becomes(p, [proc[p] EXCEPT !.round = proc[p].background \cap Open])
    /\ UNCHANGED <<lock, stored, spent>>

\* The interval fires: recover merges with a round under way.
MonitorTicks(p) ==
    /\ proc[p].timer
    /\ Becomes(p, Recover(proc[p]))
    /\ UNCHANGED <<lock, stored, spent>>

-----------------------------------------------------------------------------

\* Steps of a process itself, which it takes without anybody's help.
Runs(p) ==
    \/ Claim(p) \/ Compose(p) \/ Listening(p) \/ ListenFails(p) \/ BindingRefused(p)
    \/ SyncStopped(p) \/ StopMonitor(p) \/ StopServer(p) \/ Drained(p) \/ CloseDatabase(p) \/ Exit(p)

Next ==
    \E p \in Processes :
        \/ Launch(p) \/ Runs(p) \/ Signal(p) \/ Crash(p) \/ MonitorTicks(p)
        \/ \E x \in Exchanges : WorkerAsks(p, x) \/ WorkerStores(p, x) \/ WorkerFails(p, x)
        \/ \E s \in Strategies :
               \/ Confirm(p, s) \/ Confirmed(p, s)
               \/ \E c \in BOOLEAN : Visited(p, s, c)

Spec == Init /\ [][Next]_vars

\* Promises settle, exchange calls are answered or time out, the timer fires, and the service
\* is launched again.  A strategy visited for ever is concluded once: HedgeExecution shows that
\* much under its own fairness.
Fairness ==
    /\ WF_vars(\E p \in Processes : Launch(p))
    /\ \A p \in Processes :
        /\ WF_vars(Runs(p))
        /\ WF_vars(MonitorTicks(p))
        /\ \A x \in Exchanges : WF_vars(WorkerSettles(p, x))
        /\ \A s \in Strategies :
            /\ WF_vars(Confirmed(p, s))
            /\ WF_vars(\E c \in BOOLEAN : Visited(p, s, c))
            /\ SF_vars(Visited(p, s, TRUE))

FairSpec == Spec /\ Fairness

-----------------------------------------------------------------------------
(* Properties *)

\* Whoever may touch the tables of the database next.
Busy(p) ==
    \/ proc[p].boot = "claimed"
    \/ \E x \in Exchanges : proc[p].worker[x] \in {"idle", "asking"}
    \/ proc[p].round \cup proc[p].requests \cup proc[p].background # {}

\* No worker, request, background execution or monitor round is left to use the database when
\* shutdown closes it, in whatever order they end (closeResources, the onClose hook).
NobodyUsesAClosedDatabase == \A p \in Processes : Busy(p) => proc[p].db

\* Two processes never work on one database: only the owner has anything under way, so the
\* per-process ownership of strategies is enough (claimSqliteProcessOwnership).
OneProcessWorks == \A p \in Processes : Busy(p) => lock = p

\* What /health and /status report is true: RUNNING is a service that listens on an open
\* database with its synchronisation started, STOPPED one that has nothing left to do.
PhaseIsTrue ==
    \A p \in Processes :
        /\ proc[p].phase = "RUNNING" =>
               /\ proc[p].db /\ proc[p].timer
               /\ proc[p].http = "listening" /\ proc[p].sync # "new"
        /\ proc[p].phase = "STOPPED" => ~Busy(p) /\ ~proc[p].db /\ ~proc[p].timer

\* The reported state of the synchronisation: RUNNING only while both workers are alive or a
\* shutdown is ending them, STOPPED only when both have ended, and once one has failed the other
\* is stopped and FAILED is reported to the end.
FundingStatusIsTrue ==
    \A p \in Processes :
        LET failed == \E x \in Exchanges : proc[p].worker[x] = "failed" IN
        /\ proc[p].funding = "FAILED" <=> failed
        /\ failed => \A x \in Exchanges : proc[p].worker[x] # "idle"
        /\ proc[p].funding = "STOPPED" => \A x \in Exchanges : proc[p].worker[x] = "ended"
        /\ proc[p].funding = "RUNNING" =>
               proc[p].stop # "no" \/ \A x \in Exchanges : proc[p].worker[x] \in {"idle", "asking"}

\* A shutdown that began ends: each thing it waits for ends by itself.
ShutdownEnds == \A p \in Processes : proc[p].stop # "no" ~> proc[p].boot = "off"

\* A confirmed strategy is concluded in spite of shutdowns and crashes: the background
\* execution, a later round or the first round of a later process gets to it.
ConfirmedIsConcluded == \A s \in Strategies : stored[s] = "open" ~> stored[s] = "done"
=============================================================================
