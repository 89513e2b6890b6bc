----------------------- MODULE ServiceLifecycleProofs -----------------------
(***************************************************************************)
(* The safety of start and shutdown, for any number of processes and       *)
(* strategies and any bounds: one process works on the database, nothing   *)
(* works on a closed one, and what is reported is true.  Everything        *)
(* follows from one invariant that mostly speaks of a single process.      *)
(***************************************************************************)
EXTENDS ServiceLifecycle, TLAPS

\* A process that has not composed its service yet.
Inert(r) ==
    /\ r.sync = "new" /\ r.http = "closed" /\ r.stop = "no" /\ ~r.timer
    /\ r.round = {} /\ r.requests = {} /\ r.background = {}
    /\ r.phase = "STARTING"

\* What the state of the synchronisation says about its workers and its report.
SyncOrderly(r) ==
    /\ r.sync = "new" => r.funding = "NOT_STARTED" /\ \A x \in Exchanges : r.worker[x] = "new"
    /\ r.sync = "running" =>
           r.funding # "STOPPED" /\ \A x \in Exchanges : r.worker[x] \in {"idle", "asking"}
    /\ r.sync = "stopping" =>
           r.funding # "STOPPED" /\ \A x \in Exchanges : r.worker[x] \in {"asking", "ended", "failed"}
    /\ r.sync = "stopped" => \A x \in Exchanges : r.worker[x] \in {"ended", "failed"}
    /\ r.funding = "FAILED" <=> \E x \in Exchanges : r.worker[x] = "failed"

\* What each stage of closeResources has left behind.
StopOrderly(r) ==
    /\ r.boot \in {"starting", "up"} /\ r.stop \in {"no", "funding"} => r.timer
    /\ r.stop = "no" /\ r.sync \in {"stopping", "stopped"} => r.funding = "FAILED"
    /\ r.stop \in {"monitor", "requests", "background", "ended"} => r.sync = "stopped" /\ ~r.timer
    /\ r.stop \in {"requests", "background", "ended"} =>
           r.round = {} /\ r.http \in {"draining", "closed"}
    /\ r.stop \in {"background", "ended"} =>
           r.requests = {} /\ r.http = "closed" /\ r.background \subseteq r.awaited
    /\ r.stop = "ended" => r.background = {}
    /\ r.boot # "off" /\ ~r.db => r.stop = "ended"

PhaseOrderly(r) ==
    /\ r.stop # "no" => r.phase \in {"STOPPING", "STOPPED"}
    /\ r.phase = "RUNNING" => r.boot = "up" /\ r.timer /\ r.http = "listening" /\ r.sync # "new"
    /\ r.phase = "STOPPED" => r.boot # "off" /\ ~r.db

Orderly(r) ==
    /\ r \in Process
    /\ r.boot \in {"off", "opened", "claimed"} => Inert(r)
    /\ SyncOrderly(r)
    /\ StopOrderly(r)
    /\ PhaseOrderly(r)

\* A process past its claim holds the lock until it closes its database.
Owns(r, p, l) == r.boot \notin {"off", "opened"} /\ r.db => l = p

ServiceInv ==
    /\ TypeOK
    /\ \A p \in Processes : Orderly(proc[p]) /\ Owns(proc[p], p, lock)

-----------------------------------------------------------------------------
(* Single processes *)

LEMMA OffOrderly == Orderly(Off) /\ Off.boot = "off"
<1>1. Off \in Process BY DEF Off, Process, Exchanges
<1>2. Inert(Off) BY DEF Inert, Off
<1>3. SyncOrderly(Off) BY DEF SyncOrderly, Off
<1>4. StopOrderly(Off) /\ PhaseOrderly(Off) BY DEF StopOrderly, PhaseOrderly, Off
<1> QED BY <1>1, <1>2, <1>3, <1>4 DEF Orderly, Off

LEMMA EndedType ==
    ASSUME NEW w \in {"new", "idle", "asking", "ended", "failed"}
    PROVE  Ended(w) \in {"asking", "ended", "failed"} /\ (Ended(w) = "failed" <=> w = "failed")
BY DEF Ended

\* Stopping the synchronisation keeps everything else in order; STOPPED is not reported by it.
LEMMA SyncStopOrderly ==
    ASSUME NEW r \in Process, SyncOrderly(r) \/ r.sync \in {"new", "running"},
           r.funding # "STOPPED" \/ r.sync = "stopped",
           r.funding = "FAILED" <=> \E x \in Exchanges : r.worker[x] = "failed"
    PROVE  /\ SyncStop(r) \in Process /\ SyncOrderly(SyncStop(r))
           /\ SyncStop(r).sync \in {"stopping", "stopped"}
           /\ r.sync = "stopped" => SyncStop(r).sync = "stopped"
           /\ SyncStop(r) = [r EXCEPT !.sync = SyncStop(r).sync, !.worker = SyncStop(r).worker]
<1>1. CASE r.sync \in {"stopping", "stopped"}
  <2>1. SyncStop(r) = r BY <1>1 DEF SyncStop
  <2>2. SyncOrderly(r) BY <1>1
  <2> QED BY <1>1, <2>1, <2>2 DEF Process
<1>2. CASE r.sync \in {"new", "running"}
  <2> DEFINE w == [x \in Exchanges |-> Ended(r.worker[x])]
             q == [r EXCEPT !.sync = "stopping", !.worker = w]
  <2>1. SyncStop(r) = q BY <1>2 DEF SyncStop
  <2>2. \A x \in Exchanges : /\ w[x] \in {"asking", "ended", "failed"}
                             /\ w[x] = "failed" <=> r.worker[x] = "failed"
    BY EndedType DEF Process
  <2>3. w \in [Exchanges -> {"new", "idle", "asking", "ended", "failed"}]
    BY <2>2
  <2>4. q \in Process BY <2>3 DEF Process
  <2>5. q.sync = "stopping" /\ q.worker = w /\ q.funding = r.funding BY DEF Process
  <2>6. r.funding # "STOPPED" BY <1>2
  <2>7. SyncOrderly(q) BY <2>2, <2>5, <2>6 DEF SyncOrderly
  <2>8. q = [r EXCEPT !.sync = q.sync, !.worker = q.worker] BY <2>5
  <2> QED BY <1>2, <2>1, <2>4, <2>5, <2>7, <2>8
<1> QED BY <1>1, <1>2 DEF Process

-----------------------------------------------------------------------------
(* Steps of one process *)

\* What a step must show to preserve the invariant.
LEMMA StepOfOne ==
    ASSUME ServiceInv, NEW p \in Processes, NEW r, Becomes(p, r), Orderly(r), Owns(r, p, lock'),
           lock' = lock \/ lock' = p \/ (lock = p /\ lock' = NoProcess),
           lock' = p => lock \in {p, NoProcess},
           stored' \in [Strategies -> {"pending", "open", "done"}],
           spent' \in [stops : 0 .. MaxStops, crashes : 0 .. MaxCrashes, faults : 0 .. MaxFaults]
    PROVE  ServiceInv'
<1>1. proc' = [proc EXCEPT ![p] = r] /\ proc \in [Processes -> Process]
  BY DEF Becomes, ServiceInv, TypeOK
<1>2. TypeOK'
  <2>1. proc' \in [Processes -> Process] BY <1>1 DEF Orderly
  <2>2. lock' \in Processes \cup {NoProcess} BY DEF ServiceInv, TypeOK
  <2> QED BY <2>1, <2>2 DEF TypeOK
<1>3. ASSUME NEW q \in Processes PROVE Orderly(proc'[q]) /\ Owns(proc'[q], q, lock')
  <2>1. CASE q = p BY <1>1, <2>1
  <2>2. CASE q # p
    <3>1. proc'[q] = proc[q] /\ Orderly(proc[q]) /\ Owns(proc[q], q, lock)
      BY <1>1, <2>2 DEF ServiceInv
    <3>2. Owns(proc[q], q, lock')
      BY <3>1, <2>2, ProcessAssumption DEF Owns
    <3> QED BY <3>1, <3>2
  <2> QED BY <2>1, <2>2
<1> QED BY <1>2, <1>3 DEF ServiceInv

\* The usual step: lock and strategies stay.
LEMMA StepOfOneAlone ==
    ASSUME ServiceInv, NEW p \in Processes, NEW r, Becomes(p, r), Orderly(r),
           Owns(proc[p], p, lock) => Owns(r, p, lock), lock' = lock, stored' = stored,
           spent' \in [stops : 0 .. MaxStops, crashes : 0 .. MaxCrashes, faults : 0 .. MaxFaults]
    PROVE  ServiceInv'
<1>1. Owns(r, p, lock') BY DEF ServiceInv
<1>2. stored' \in [Strategies -> {"pending", "open", "done"}]
  BY DEF ServiceInv, TypeOK
<1>3. lock = p => lock' = p OBVIOUS
<1> QED BY <1>1, <1>2, StepOfOne

LEMMA SpentStays ==
    ASSUME ServiceInv, spent' = spent
    PROVE  spent' \in [stops : 0 .. MaxStops, crashes : 0 .. MaxCrashes, faults : 0 .. MaxFaults]
BY DEF ServiceInv, TypeOK

LEMMA LaunchKeeps == ASSUME ServiceInv, NEW p \in Processes, Launch(p) PROVE ServiceInv'
<1> DEFINE r == [Off EXCEPT !.boot = "opened", !.db = TRUE]
<1>1. Becomes(p, r) /\ lock' = lock /\ stored' = stored /\ spent' = spent BY DEF Launch
<1>2. Orderly(r)
  BY OffOrderly DEF Orderly, Process, Off, Inert, SyncOrderly, StopOrderly, PhaseOrderly
<1>3. Owns(r, p, lock) BY DEF Owns, Off
<1> QED BY <1>1, <1>2, <1>3, SpentStays, StepOfOneAlone

LEMMA ClaimKeeps == ASSUME ServiceInv, NEW p \in Processes, Claim(p) PROVE ServiceInv'
<1> DEFINE r == [proc[p] EXCEPT !.boot = "claimed"]
<1>1. /\ stored' = stored /\ spent' = spent
      /\ proc[p].boot = "opened" /\ Orderly(proc[p])
  BY DEF Claim, ServiceInv
<1>2. CASE lock = NoProcess
  <2>1. lock' = p /\ Becomes(p, r) BY <1>2 DEF Claim
  <2>2. Orderly(r) BY <1>1 DEF Orderly, Process, Inert, SyncOrderly, StopOrderly, PhaseOrderly
  <2>3. Owns(r, p, lock') BY <2>1 DEF Owns
  <2>4. stored' \in [Strategies -> {"pending", "open", "done"}]
    BY <1>1 DEF ServiceInv, TypeOK
  <2> QED BY <1>1, <1>2, <2>1, <2>2, <2>3, <2>4, SpentStays, StepOfOne
<1>3. CASE lock # NoProcess
  <2>1. lock' = lock /\ Becomes(p, Off) BY <1>3 DEF Claim
  <2>2. Owns(Off, p, lock) BY OffOrderly DEF Owns
  <2> QED BY <1>1, <2>1, <2>2, OffOrderly, SpentStays, StepOfOneAlone
<1> QED BY <1>2, <1>3

\* A process that ends gives back the lock it holds.
LEMMA ProcessEnds ==
    ASSUME ServiceInv, NEW p \in Processes, Becomes(p, Off), stored' = stored,
           lock' = lock \/ lock' = IF lock = p THEN NoProcess ELSE lock,
           spent' \in [stops : 0 .. MaxStops, crashes : 0 .. MaxCrashes, faults : 0 .. MaxFaults]
    PROVE  ServiceInv'
<1>1. Owns(Off, p, lock') BY OffOrderly DEF Owns
<1>2. stored' \in [Strategies -> {"pending", "open", "done"}] BY DEF ServiceInv, TypeOK
<1>3. lock' = lock \/ (lock = p /\ lock' = NoProcess) OBVIOUS
<1>4. lock' = p => lock = p BY <1>3, ProcessAssumption
<1> QED BY <1>1, <1>2, <1>3, <1>4, OffOrderly, StepOfOne

LEMMA RecoverOrderly ==
    ASSUME TypeOK, NEW r, Orderly(r), r.timer
    PROVE  Orderly(Recover(r)) /\ Recover(r).boot = r.boot /\ Recover(r).db = r.db
<1>1. Open \subseteq Strategies BY DEF Open
<1> DEFINE n == IF r.round = {} THEN Open ELSE r.round
<1>2. Recover(r) = [r EXCEPT !.round = n] BY DEF Recover, Orderly, Process
<1>3. n \subseteq Strategies /\ Recover(r) \in Process BY <1>1, <1>2 DEF Orderly, Process
<1> QED BY <1>2, <1>3 DEF Orderly, Process, Inert, SyncOrderly, StopOrderly, PhaseOrderly

LEMMA ComposeKeeps == ASSUME ServiceInv, NEW p \in Processes, Compose(p) PROVE ServiceInv'
<1> DEFINE r == [proc[p] EXCEPT !.boot = "starting", !.timer = TRUE, !.http = "binding"]
<1>1. stored' = stored /\ proc[p].boot = "claimed" /\ Orderly(proc[p]) /\ TypeOK
  BY DEF Compose, ServiceInv
<1>2. CASE Becomes(p, Recover(r)) /\ UNCHANGED <<lock, spent>>
  <2>1. Orderly(r) /\ r.timer
    BY <1>1 DEF Orderly, Process, Inert, SyncOrderly, StopOrderly, PhaseOrderly
  <2>2. r.db = proc[p].db /\ r.boot = "starting" BY <1>1 DEF Orderly, Process
  <2>3. Owns(proc[p], p, lock) => Owns(Recover(r), p, lock)
    BY <1>1, <2>1, <2>2, RecoverOrderly DEF Owns
  <2> QED BY <1>1, <1>2, <2>1, <2>3, RecoverOrderly, SpentStays, StepOfOneAlone
<1>3. CASE /\ spent.faults < MaxFaults
           /\ Becomes(p, Off)
           /\ lock' = IF lock = p THEN NoProcess ELSE lock
           /\ spent' = [spent EXCEPT !.faults = @ + 1]
  <2>1. spent' \in [stops : 0 .. MaxStops, crashes : 0 .. MaxCrashes, faults : 0 .. MaxFaults]
    BY <1>1, <1>3, BudgetAssumption DEF TypeOK
  <2> QED BY <1>1, <1>3, <2>1, ProcessEnds
<1> QED BY <1>1, <1>2, <1>3 DEF Compose

-----------------------------------------------------------------------------
(* Workers *)

\* A step that leaves lock, strategies and budgets alone, and boot and db of its process.
LEMMA StepInside ==
    ASSUME ServiceInv, NEW p \in Processes, NEW r, Becomes(p, r), Orderly(r),
           r.boot = proc[p].boot, r.db = proc[p].db, UNCHANGED <<lock, stored, spent>>
    PROVE  ServiceInv'
<1>1. Owns(proc[p], p, lock) => Owns(r, p, lock) BY DEF Owns
<1> QED BY <1>1, SpentStays, StepOfOneAlone

\* Fields outside the synchronisation are the same.
SameService(r, q) ==
    /\ r.boot = q.boot /\ r.db = q.db /\ r.stop = q.stop /\ r.http = q.http /\ r.timer = q.timer
    /\ r.round = q.round /\ r.requests = q.requests /\ r.background = q.background
    /\ r.awaited = q.awaited /\ r.phase = q.phase

LEMMA SyncStep ==
    ASSUME NEW q, Orderly(q), NEW r \in Process, SameService(r, q), SyncOrderly(r),
           q.sync # "new", r.sync # "new", q.sync = "stopped" => r.sync = "stopped",
           r.stop = "no" /\ r.sync \in {"stopping", "stopped"} => r.funding = "FAILED"
    PROVE  Orderly(r)
BY DEF Orderly, SameService, Inert, StopOrderly, PhaseOrderly

\* A step of the workers or of their service.
LEMMA SyncStepKeeps ==
    ASSUME ServiceInv, NEW p \in Processes, NEW r \in Process, Becomes(p, r),
           UNCHANGED <<lock, stored, spent>>, SameService(r, proc[p]), SyncOrderly(r),
           proc[p].sync # "new", r.sync # "new", proc[p].sync = "stopped" => r.sync = "stopped",
           r.stop = "no" /\ r.sync \in {"stopping", "stopped"} => r.funding = "FAILED"
    PROVE  ServiceInv'
<1>1. Orderly(r) BY SyncStep DEF ServiceInv
<1> QED BY <1>1, StepInside DEF SameService

LEMMA WorkerAsksKeeps ==
    ASSUME ServiceInv, NEW p \in Processes, NEW x \in Exchanges, WorkerAsks(p, x)
    PROVE  ServiceInv'
<1> DEFINE r == [proc[p] EXCEPT !.worker[x] = "asking"]
<1>1. /\ Orderly(proc[p]) /\ Becomes(p, r) /\ proc[p].worker[x] = "idle"
      /\ UNCHANGED <<lock, stored, spent>>
  BY DEF WorkerAsks, ServiceInv
<1>2. proc[p].sync = "running"
  BY <1>1 DEF Orderly, Process, SyncOrderly
<1>3. r \in Process /\ r.sync = "running" /\ SameService(r, proc[p])
  BY <1>1, <1>2 DEF Orderly, Process, SameService
<1>4. SyncOrderly(r) BY <1>1, <1>2 DEF Orderly, Process, SyncOrderly
<1> QED BY <1>1, <1>2, <1>3, <1>4, SyncStepKeeps

LEMMA WorkerStoresKeeps ==
    ASSUME ServiceInv, NEW p \in Processes, NEW x \in Exchanges, WorkerStores(p, x)
    PROVE  ServiceInv'
<1> DEFINE w == IF proc[p].sync = "running" THEN "idle" ELSE "ended"
           r == [proc[p] EXCEPT !.worker[x] = w]
<1>1. /\ Orderly(proc[p]) /\ Becomes(p, r) /\ proc[p].worker[x] = "asking"
      /\ UNCHANGED <<lock, stored, spent>>
  BY DEF WorkerStores, ServiceInv
<1>2. proc[p].sync \in {"running", "stopping"}
  BY <1>1 DEF Orderly, Process, SyncOrderly
<1>3. /\ r \in Process /\ r.sync = proc[p].sync /\ r.funding = proc[p].funding
      /\ SameService(r, proc[p])
  BY <1>1, <1>2 DEF Orderly, Process, SameService
<1>4. SyncOrderly(r) BY <1>1, <1>2 DEF Orderly, Process, SyncOrderly
<1>5. r.stop = "no" /\ r.sync \in {"stopping", "stopped"} => r.funding = "FAILED"
  BY <1>1, <1>3 DEF Orderly, StopOrderly, SameService
<1> HIDE DEF r
<1> QED BY <1>1, <1>2, <1>3, <1>4, <1>5, SyncStepKeeps

LEMMA WorkerFailsKeeps ==
    ASSUME ServiceInv, NEW p \in Processes, NEW x \in Exchanges, WorkerFails(p, x)
    PROVE  ServiceInv'
<1> DEFINE q == [proc[p] EXCEPT !.worker[x] = "failed"]
           f == Recorded(q, "FAILED")
           r == SyncStop(f)
<1>1. /\ Orderly(proc[p]) /\ Becomes(p, r) /\ proc[p].worker[x] \in {"idle", "asking"}
      /\ UNCHANGED <<lock, stored, spent>>
  BY DEF WorkerFails, ServiceInv
<1>2. proc[p].sync \in {"running", "stopping"}
  BY <1>1 DEF Orderly, Process, SyncOrderly
<1>3. q \in Process BY <1>1 DEF Orderly, Process
<1>4. /\ SameService(q, proc[p]) /\ q.sync = proc[p].sync
      /\ q.worker = [proc[p].worker EXCEPT ![x] = "failed"]
  BY <1>1 DEF Orderly, Process, SameService
<1> HIDE DEF q
<1>5. f \in Process /\ SameService(f, q) /\ f.funding = "FAILED" /\ f.sync = q.sync /\ f.worker = q.worker
  BY <1>3 DEF Recorded, Process, SameService
<1> HIDE DEF f
<1>6. f.worker[x] = "failed" /\ \A y \in Exchanges : y # x => f.worker[y] = proc[p].worker[y]
  BY <1>1, <1>4, <1>5 DEF Orderly, Process
<1>7. SyncOrderly(f) \/ f.sync = "running"
  BY <1>1, <1>2, <1>4, <1>5, <1>6 DEF Orderly, SyncOrderly
<1>8. /\ r \in Process /\ SyncOrderly(r) /\ r.sync \in {"stopping", "stopped"}
      /\ r = [f EXCEPT !.sync = r.sync, !.worker = r.worker]
  BY <1>5, <1>6, <1>7, SyncStopOrderly
<1> HIDE DEF r
<1>9. SameService(r, f) BY <1>5, <1>8 DEF Process, SameService
<1>10. SameService(r, proc[p]) BY <1>4, <1>5, <1>9 DEF SameService
<1>11. r.funding = "FAILED" BY <1>5, <1>8 DEF Process
<1> QED BY <1>1, <1>2, <1>8, <1>10, <1>11, SyncStepKeeps

LEMMA SyncStoppedKeeps == ASSUME ServiceInv, NEW p \in Processes, SyncStopped(p) PROVE ServiceInv'
<1> DEFINE q == [proc[p] EXCEPT !.sync = "stopped"]
           r == Recorded(q, "STOPPED")
<1>1. /\ Orderly(proc[p]) /\ Becomes(p, r) /\ proc[p].sync = "stopping"
      /\ \A x \in Exchanges : proc[p].worker[x] \in {"ended", "failed"}
      /\ UNCHANGED <<lock, stored, spent>>
  BY DEF SyncStopped, ServiceInv
<1>2. /\ q \in Process /\ SameService(q, proc[p]) /\ q.sync = "stopped"
      /\ q.worker = proc[p].worker /\ q.funding = proc[p].funding
  BY <1>1 DEF Orderly, Process, SameService
<1> HIDE DEF q
<1>3. /\ r \in Process /\ SameService(r, q) /\ r.sync = q.sync /\ r.worker = q.worker
      /\ r.funding = IF q.funding = "FAILED" THEN "FAILED" ELSE "STOPPED"
  BY <1>2 DEF Process, Recorded, SameService
<1> HIDE DEF r
<1>4. SyncOrderly(r) BY <1>1, <1>2, <1>3 DEF Orderly, SyncOrderly
<1>5. SameService(r, proc[p]) BY <1>2, <1>3 DEF SameService
<1>6. r.stop = "no" => r.funding = "FAILED"
  BY <1>1, <1>2, <1>3, <1>5 DEF Orderly, StopOrderly, SameService
<1> QED BY <1>1, <1>2, <1>3, <1>4, <1>5, <1>6, SyncStepKeeps

-----------------------------------------------------------------------------
(* Shutdown *)

LEMMA ShutdownOrderly ==
    ASSUME NEW r, Orderly(r), r.boot \in {"starting", "up"}
    PROVE  Orderly(Shutdown(r)) /\ Shutdown(r).boot = r.boot /\ Shutdown(r).db = r.db
<1>1. CASE r.stop # "no" BY <1>1 DEF Shutdown
<1>2. CASE r.stop = "no"
  <2> DEFINE q == [r EXCEPT !.stop = "funding", !.phase = "STOPPING"]
             n == SyncStop(q)
  <2>1. Shutdown(r) = n BY <1>2 DEF Shutdown
  <2>2. /\ q \in Process /\ q.stop = "funding" /\ q.phase = "STOPPING" /\ q.boot = r.boot
        /\ q.timer = r.timer /\ q.db = r.db /\ q.sync = r.sync /\ q.worker = r.worker /\ q.funding = r.funding
    BY DEF Orderly, Process
  <2> HIDE DEF q
  <2>3. SyncOrderly(q) BY <2>2 DEF Orderly, SyncOrderly
  <2>4. q.funding # "STOPPED" \/ q.sync = "stopped" BY <2>2, <2>3 DEF SyncOrderly, Process
  <2>5. q.funding = "FAILED" <=> \E x \in Exchanges : q.worker[x] = "failed"
    BY <2>3 DEF SyncOrderly
  <2>6. /\ n \in Process /\ SyncOrderly(n) /\ n = [q EXCEPT !.sync = n.sync, !.worker = n.worker]
    BY <2>2, <2>3, <2>4, <2>5, SyncStopOrderly
  <2> HIDE DEF n
  <2>7. /\ n.stop = "funding" /\ n.phase = "STOPPING" /\ n.boot = r.boot /\ n.db = r.db
        /\ n.timer = r.timer
    BY <2>2, <2>6 DEF Process
  <2>8. StopOrderly(n) BY <1>2, <2>7 DEF Orderly, StopOrderly
  <2>9. PhaseOrderly(n) BY <2>7 DEF PhaseOrderly
  <2> QED BY <2>1, <2>6, <2>7, <2>8, <2>9 DEF Orderly
<1> QED BY <1>1, <1>2

LEMMA SignalKeeps == ASSUME ServiceInv, NEW p \in Processes, Signal(p) PROVE ServiceInv'
<1> DEFINE r == Shutdown(proc[p])
<1>1. /\ Orderly(proc[p]) /\ Becomes(p, r) /\ proc[p].boot \in {"starting", "up"}
      /\ lock' = lock /\ stored' = stored
  BY DEF Signal, ServiceInv
<1>2. spent' \in [stops : 0 .. MaxStops, crashes : 0 .. MaxCrashes, faults : 0 .. MaxFaults]
  BY BudgetAssumption DEF Signal, ServiceInv, TypeOK
<1>3. Owns(proc[p], p, lock) => Owns(r, p, lock) BY <1>1, ShutdownOrderly DEF Owns
<1> QED BY <1>1, <1>2, <1>3, ShutdownOrderly, StepOfOneAlone

LEMMA ListeningKeeps == ASSUME ServiceInv, NEW p \in Processes, Listening(p) PROVE ServiceInv'
<1> DEFINE q == [proc[p] EXCEPT !.boot = "up", !.http = "listening"]
           u == [q EXCEPT !.phase = "RUNNING"]
           v == [u EXCEPT !.sync = "running", !.worker = [x \in Exchanges |-> "idle"]]
           w == Recorded(v, "RUNNING")
           r == IF q.stop = "no" THEN SyncStart(u) ELSE q
<1>1. /\ Orderly(proc[p]) /\ Becomes(p, r) /\ proc[p].boot = "starting"
      /\ proc[p].http = "binding" /\ UNCHANGED <<lock, stored, spent>>
  BY DEF Listening, ServiceInv
<1>2. /\ proc[p].db /\ proc[p].stop \notin {"requests", "background", "ended"}
      /\ proc[p].phase # "RUNNING"
  BY <1>1 DEF Orderly, Process, StopOrderly, PhaseOrderly
<1>3. /\ q \in Process /\ q.boot = "up" /\ q.http = "listening" /\ q.stop = proc[p].stop
      /\ q.timer = proc[p].timer /\ q.sync = proc[p].sync /\ q.worker = proc[p].worker
      /\ q.funding = proc[p].funding /\ q.phase = proc[p].phase /\ q.db
  BY <1>1, <1>2 DEF Orderly, Process
<1>4. Orderly(q)
  <2> HIDE DEF q
  <2>1. SyncOrderly(q) BY <1>1, <1>3 DEF Orderly, SyncOrderly
  <2>2. StopOrderly(q) BY <1>1, <1>2, <1>3 DEF Orderly, StopOrderly
  <2>3. PhaseOrderly(q) BY <1>1, <1>2, <1>3 DEF Orderly, PhaseOrderly
  <2> QED BY <1>3, <2>1, <2>2, <2>3 DEF Orderly
<1>5. CASE q.stop # "no"
  <2>1. r = q BY <1>5
  <2>2. Owns(proc[p], p, lock) => Owns(q, p, lock) BY <1>1, <1>2 DEF Owns
  <2> HIDE DEF q
  <2> QED BY <1>1, <1>4, <2>1, <2>2, SpentStays, StepOfOneAlone
<1>6. CASE q.stop = "no"
  <2> HIDE DEF q
  <2>1. r = SyncStart(u) BY <1>6
  <2>2. /\ u \in Process /\ u.boot = "up" /\ u.http = "listening" /\ u.stop = "no"
        /\ u.timer = proc[p].timer /\ u.sync = q.sync /\ u.worker = q.worker
        /\ u.funding = q.funding /\ u.phase = "RUNNING" /\ u.db
    BY <1>3, <1>6 DEF Process
  <2> HIDE DEF u
  <2>3. /\ r \in Process /\ r.sync # "new" /\ SameService(r, u) /\ SyncOrderly(r)
        /\ r.sync \in {"stopping", "stopped"} => r.funding = "FAILED"
    <3>1. CASE u.sync # "new"
      <4>1. r = u BY <2>1, <3>1 DEF SyncStart
      <4>2. u.sync \in {"stopping", "stopped"} => u.funding = "FAILED"
        BY <1>4, <1>6, <2>2 DEF Orderly, StopOrderly
      <4>3. SyncOrderly(u) BY <1>4, <2>2 DEF Orderly, SyncOrderly
      <4> QED BY <2>2, <3>1, <4>1, <4>2, <4>3 DEF SameService
    <3>2. CASE u.sync = "new"
      <4>1. r = w BY <2>1, <3>2 DEF SyncStart
      <4>2. /\ v \in Process /\ SameService(v, u) /\ v.sync = "running"
            /\ v.funding = u.funding /\ \A x \in Exchanges : v.worker[x] = "idle"
        BY <2>2 DEF Process, SameService
      <4> HIDE DEF v
      <4>3. u.funding = "NOT_STARTED" BY <1>4, <2>2, <3>2 DEF Orderly, SyncOrderly
      <4>4. w \in Process /\ SameService(w, v) /\ w.sync = "running" /\ w.worker = v.worker
            /\ w.funding = "RUNNING"
        BY <4>2, <4>3 DEF Process, SameService, Recorded
      <4> HIDE DEF w
      <4>5. SyncOrderly(w) BY <4>2, <4>4 DEF SyncOrderly
      <4> QED BY <4>1, <4>2, <4>4, <4>5 DEF SameService
    <3> QED BY <3>1, <3>2
  <2> HIDE DEF r
  <2>4. proc[p].timer BY <1>1, <1>3, <1>6 DEF Orderly, StopOrderly
  <2>5. Orderly(r) BY <2>2, <2>3, <2>4 DEF Orderly, SameService, StopOrderly, PhaseOrderly
  <2>6. Owns(proc[p], p, lock) => Owns(r, p, lock) BY <1>1, <1>2, <2>2 DEF Owns
  <2> QED BY <1>1, <2>5, <2>6, SpentStays, StepOfOneAlone
<1> QED BY <1>5, <1>6

LEMMA ListenFailsKeeps == ASSUME ServiceInv, NEW p \in Processes, ListenFails(p) PROVE ServiceInv'
<1> DEFINE q == [proc[p] EXCEPT !.boot = "up", !.http = "closed"]
           r == Shutdown(q)
<1>1. /\ Orderly(proc[p]) /\ Becomes(p, r) /\ proc[p].boot = "starting"
      /\ proc[p].http = "binding" /\ UNCHANGED <<lock, stored, spent>>
  BY DEF ListenFails, ServiceInv
<1>2. Orderly(q) /\ q.boot = "up" /\ q.db = proc[p].db
  BY <1>1 DEF Orderly, Process, SyncOrderly, StopOrderly, PhaseOrderly
<1> HIDE DEF q
<1>3. Owns(proc[p], p, lock) => Owns(r, p, lock) BY <1>1, <1>2, ShutdownOrderly DEF Owns
<1> QED BY <1>1, <1>2, <1>3, ShutdownOrderly, SpentStays, StepOfOneAlone

\* The stages of closeResources that leave boot and db alone.
LEMMA StopMonitorKeeps == ASSUME ServiceInv, NEW p \in Processes, StopMonitor(p) PROVE ServiceInv'
<1> DEFINE r == [proc[p] EXCEPT !.stop = "monitor", !.timer = FALSE,
                                !.failed = \E x \in Exchanges : proc[p].worker[x] = "failed"]
<1>1. /\ Orderly(proc[p]) /\ Becomes(p, r) /\ proc[p].stop = "funding"
      /\ proc[p].sync = "stopped" /\ UNCHANGED <<lock, stored, spent>>
  BY DEF StopMonitor, ServiceInv
<1>2. (\E x \in Exchanges : proc[p].worker[x] = "failed") \in BOOLEAN OBVIOUS
<1>3. /\ r \in Process /\ r.stop = "monitor" /\ ~r.timer /\ r.boot = proc[p].boot /\ r.db = proc[p].db
      /\ r.http = proc[p].http /\ r.sync = proc[p].sync /\ r.worker = proc[p].worker
      /\ r.funding = proc[p].funding /\ r.phase = proc[p].phase
  BY <1>1, <1>2 DEF Orderly, Process
<1> HIDE DEF r
<1>4. SyncOrderly(r) BY <1>1, <1>3 DEF Orderly, SyncOrderly
<1>5. StopOrderly(r) BY <1>1, <1>3 DEF Orderly, StopOrderly
<1>6. PhaseOrderly(r) BY <1>1, <1>3 DEF Orderly, PhaseOrderly
<1>7. Orderly(r) BY <1>1, <1>3, <1>4, <1>5, <1>6 DEF Orderly, Inert
<1> QED BY <1>1, <1>3, <1>7, StepInside

LEMMA SpentByFailure ==
    ASSUME ServiceInv, NEW fails \in BOOLEAN, MayFail(fails)
    PROVE  spent' \in [stops : 0 .. MaxStops, crashes : 0 .. MaxCrashes, faults : 0 .. MaxFaults]
BY BudgetAssumption DEF MayFail, ServiceInv, TypeOK

LEMMA StopServerKeeps == ASSUME ServiceInv, NEW p \in Processes, StopServer(p) PROVE ServiceInv'
<1> DEFINE h == IF proc[p].http = "listening" THEN "draining" ELSE "closed"
<1>0. PICK fails \in BOOLEAN :
          /\ MayFail(fails)
          /\ Becomes(p, [proc[p] EXCEPT !.stop = "requests", !.failed = @ \/ fails, !.http = h])
  BY DEF StopServer
<1> DEFINE r == [proc[p] EXCEPT !.stop = "requests", !.failed = @ \/ fails, !.http = h]
<1>1. /\ Orderly(proc[p]) /\ Becomes(p, r) /\ proc[p].stop = "monitor"
      /\ proc[p].round = {} /\ UNCHANGED <<lock, stored>>
  BY <1>0 DEF StopServer, ServiceInv
<1>2. /\ r \in Process /\ r.stop = "requests" /\ r.http \in {"draining", "closed"}
      /\ r.boot = proc[p].boot /\ r.db = proc[p].db /\ r.timer = proc[p].timer
      /\ r.round = proc[p].round /\ r.sync = proc[p].sync /\ r.worker = proc[p].worker
      /\ r.funding = proc[p].funding /\ r.phase = proc[p].phase
  BY <1>1 DEF Orderly, Process
<1> HIDE DEF r
<1>3. SyncOrderly(r) BY <1>1, <1>2 DEF Orderly, SyncOrderly
<1>4. StopOrderly(r) BY <1>1, <1>2 DEF Orderly, StopOrderly
<1>5. PhaseOrderly(r) BY <1>1, <1>2 DEF Orderly, PhaseOrderly
<1>6. Orderly(r) BY <1>1, <1>2, <1>3, <1>4, <1>5 DEF Orderly, Inert
<1>7. Owns(proc[p], p, lock) => Owns(r, p, lock) BY <1>2 DEF Owns
<1> QED BY <1>0, <1>1, <1>6, <1>7, SpentByFailure, StepOfOneAlone

LEMMA DrainedKeeps == ASSUME ServiceInv, NEW p \in Processes, Drained(p) PROVE ServiceInv'
<1> DEFINE r == [proc[p] EXCEPT !.stop = "background", !.http = "closed",
                                !.awaited = proc[p].background]
<1>1. /\ Orderly(proc[p]) /\ Becomes(p, r) /\ proc[p].stop = "requests"
      /\ proc[p].requests = {} /\ UNCHANGED <<lock, stored, spent>>
  BY DEF Drained, ServiceInv
<1>2. /\ r \in Process /\ r.stop = "background" /\ r.http = "closed" /\ r.awaited = r.background
      /\ r.boot = proc[p].boot /\ r.db = proc[p].db /\ r.timer = proc[p].timer
      /\ r.round = proc[p].round /\ r.requests = proc[p].requests /\ r.sync = proc[p].sync
      /\ r.worker = proc[p].worker /\ r.funding = proc[p].funding /\ r.phase = proc[p].phase
  BY <1>1 DEF Orderly, Process
<1> HIDE DEF r
<1>3. SyncOrderly(r) BY <1>1, <1>2 DEF Orderly, SyncOrderly
<1>4. StopOrderly(r) BY <1>1, <1>2 DEF Orderly, StopOrderly
<1>5. PhaseOrderly(r) BY <1>1, <1>2 DEF Orderly, PhaseOrderly
<1>6. Orderly(r) BY <1>1, <1>2, <1>3, <1>4, <1>5 DEF Orderly, Inert
<1> QED BY <1>1, <1>2, <1>6, StepInside

LEMMA CloseDatabaseKeeps ==
    ASSUME ServiceInv, NEW p \in Processes, CloseDatabase(p) PROVE ServiceInv'
<1>0. PICK fails \in BOOLEAN, open \in BOOLEAN :
          /\ open => fails
          /\ MayFail(fails)
          /\ lock' = IF lock = p /\ ~open THEN NoProcess ELSE lock
          /\ Becomes(p, [proc[p] EXCEPT !.stop = "ended", !.db = open, !.failed = @ \/ fails,
                             !.phase = IF proc[p].failed \/ fails THEN @ ELSE "STOPPED"])
  BY DEF CloseDatabase
<1> DEFINE r == [proc[p] EXCEPT !.stop = "ended", !.db = open, !.failed = @ \/ fails,
                                !.phase = IF proc[p].failed \/ fails THEN @ ELSE "STOPPED"]
<1>1. /\ Orderly(proc[p]) /\ Becomes(p, r) /\ proc[p].stop = "background" /\ proc[p].db
      /\ proc[p].awaited \cap proc[p].background = {} /\ stored' = stored
  BY <1>0 DEF CloseDatabase, ServiceInv, Orderly, Process, StopOrderly, Inert
<1>2. proc[p].background = {} /\ proc[p].boot \notin {"off", "opened", "claimed"}
  BY <1>1 DEF Orderly, StopOrderly, Inert
<1>3. /\ r \in Process /\ r.db = open /\ r.phase \in {"STOPPING", "STOPPED"} /\ r.stop = "ended"
      /\ r.phase = "STOPPED" => ~open
      /\ r.boot = proc[p].boot /\ r.http = proc[p].http /\ r.timer = proc[p].timer
      /\ r.round = proc[p].round /\ r.requests = proc[p].requests /\ r.sync = proc[p].sync
      /\ r.background = {} /\ r.worker = proc[p].worker /\ r.funding = proc[p].funding
  BY <1>0, <1>1, <1>2 DEF Orderly, Process, PhaseOrderly
<1> HIDE DEF r
<1>4. SyncOrderly(r) BY <1>1, <1>3 DEF Orderly, SyncOrderly
<1>5. StopOrderly(r) BY <1>1, <1>3 DEF Orderly, StopOrderly
<1>6. PhaseOrderly(r) BY <1>2, <1>3 DEF PhaseOrderly
<1>7. Orderly(r) BY <1>2, <1>3, <1>4, <1>5, <1>6 DEF Orderly
<1>8. Owns(r, p, lock') BY <1>0, <1>1, <1>2, <1>3 DEF Owns, ServiceInv
<1>9. stored' \in [Strategies -> {"pending", "open", "done"}] BY <1>1 DEF ServiceInv, TypeOK
<1>10. (lock' = lock \/ (lock = p /\ lock' = NoProcess)) /\ (lock' = p => lock = p)
  BY <1>0, ProcessAssumption
<1> QED BY <1>0, <1>1, <1>7, <1>8, <1>9, <1>10, SpentByFailure, StepOfOne

LEMMA ExitKeeps == ASSUME ServiceInv, NEW p \in Processes, Exit(p) PROVE ServiceInv'
BY ProcessEnds, SpentStays DEF Exit

LEMMA BindingRefusedKeeps ==
    ASSUME ServiceInv, NEW p \in Processes, BindingRefused(p) PROVE ServiceInv'
<1> DEFINE r == [proc[p] EXCEPT !.boot = "up"]
<1>1. /\ Orderly(proc[p]) /\ Becomes(p, r) /\ proc[p].boot = "starting"
      /\ UNCHANGED <<lock, stored, spent>>
  BY DEF BindingRefused, ServiceInv
<1>2. Orderly(r)
  BY <1>1 DEF Orderly, Process, SyncOrderly, StopOrderly, PhaseOrderly
<1>3. Owns(proc[p], p, lock) => Owns(r, p, lock) BY <1>1 DEF Owns, Orderly, Process
<1> QED BY <1>1, <1>2, <1>3, SpentStays, StepOfOneAlone

LEMMA CrashKeeps == ASSUME ServiceInv, NEW p \in Processes, Crash(p) PROVE ServiceInv'
<1>1. spent' \in [stops : 0 .. MaxStops, crashes : 0 .. MaxCrashes, faults : 0 .. MaxFaults]
  BY BudgetAssumption DEF Crash, ServiceInv, TypeOK
<1> QED BY <1>1, ProcessEnds DEF Crash

-----------------------------------------------------------------------------
(* Requests, background executions and the monitor *)

LEMMA ConfirmKeeps ==
    ASSUME ServiceInv, NEW p \in Processes, NEW s \in Strategies, Confirm(p, s) PROVE ServiceInv'
<1> DEFINE r == [proc[p] EXCEPT !.requests = @ \cup {s}]
<1>1. /\ Orderly(proc[p]) /\ Becomes(p, r) /\ proc[p].http = "listening"
      /\ UNCHANGED <<lock, stored, spent>>
  BY DEF Confirm, ServiceInv
<1>2. proc[p].boot \notin {"off", "opened", "claimed"} /\ proc[p].stop \notin {"background", "ended"}
  BY <1>1 DEF Orderly, Inert, StopOrderly
<1>3. Orderly(r) /\ r.boot = proc[p].boot /\ r.db = proc[p].db
  BY <1>1, <1>2 DEF Orderly, Process, SyncOrderly, StopOrderly, PhaseOrderly
<1> QED BY <1>1, <1>3, StepInside

LEMMA ConfirmedKeeps ==
    ASSUME ServiceInv, NEW p \in Processes, NEW s \in Strategies, Confirmed(p, s) PROVE ServiceInv'
<1> DEFINE q == [proc[p] EXCEPT !.requests = @ \ {s}]
           r == [q EXCEPT !.background = @ \cup {s}]
<1>1. /\ Orderly(proc[p]) /\ s \in proc[p].requests /\ lock' = lock /\ spent' = spent
      /\ \/ stored' = [stored EXCEPT ![s] = "open"] /\ Becomes(p, r)
         \/ stored' = stored /\ Becomes(p, q)
  BY DEF Confirmed, ServiceInv
<1>2. proc[p].boot \notin {"off", "opened", "claimed"} /\ proc[p].stop \notin {"background", "ended"}
  BY <1>1 DEF Orderly, Inert, StopOrderly
<1>3. Orderly(q) /\ q.boot = proc[p].boot /\ q.db = proc[p].db
  BY <1>1, <1>2 DEF Orderly, Process, SyncOrderly, StopOrderly, PhaseOrderly
<1>4. q.stop = proc[p].stop BY <1>1 DEF Orderly, Process
<1>5. Orderly(r) /\ r.boot = q.boot /\ r.db = q.db
  <2> HIDE DEF q
  <2> QED BY <1>2, <1>3, <1>4 DEF Orderly, Process, SyncOrderly, StopOrderly, PhaseOrderly
<1>6. stored' \in [Strategies -> {"pending", "open", "done"}]
  BY <1>1 DEF ServiceInv, TypeOK
<1>7. PICK n \in {q, r} : Becomes(p, n) BY <1>1
<1>8. Orderly(n) /\ n.boot = proc[p].boot /\ n.db = proc[p].db BY <1>3, <1>5, <1>7
<1> HIDE DEF q, r
<1>9. Owns(n, p, lock') BY <1>1, <1>8 DEF Owns, ServiceInv
<1> QED BY <1>1, <1>6, <1>7, <1>8, <1>9, SpentStays, StepOfOne

LEMMA VisitedKeeps ==
    ASSUME ServiceInv, NEW p \in Processes, NEW s \in Strategies, NEW c \in BOOLEAN,
           Visited(p, s, c)
    PROVE  ServiceInv'
<1> DEFINE q == [proc[p] EXCEPT !.background = @ \ {s}]
           r == [proc[p] EXCEPT !.round = @ \ {s}]
<1>1. Orderly(proc[p]) /\ lock' = lock /\ spent' = spent BY DEF Visited, ServiceInv
<1>2. stored' \in [Strategies -> {"pending", "open", "done"}]
  BY DEF Visited, ServiceInv, TypeOK
<1>3. Orderly(q) /\ q.boot = proc[p].boot /\ q.db = proc[p].db
  BY <1>1 DEF Orderly, Process, Inert, SyncOrderly, StopOrderly, PhaseOrderly
<1>4. Orderly(r) /\ r.boot = proc[p].boot /\ r.db = proc[p].db
  BY <1>1 DEF Orderly, Process, Inert, SyncOrderly, StopOrderly, PhaseOrderly
<1>5. PICK n \in {q, r} : Becomes(p, n) BY DEF Visited
<1>6. Orderly(n) /\ n.boot = proc[p].boot /\ n.db = proc[p].db BY <1>3, <1>4, <1>5
<1> HIDE DEF q, r
<1>7. Owns(n, p, lock') BY <1>1, <1>6 DEF Owns, ServiceInv
<1> QED BY <1>1, <1>2, <1>5, <1>6, <1>7, SpentStays, StepOfOne

LEMMA MonitorTicksKeeps ==
    ASSUME ServiceInv, NEW p \in Processes, MonitorTicks(p) PROVE ServiceInv'
<1>1. Orderly(proc[p]) /\ proc[p].timer /\ Becomes(p, Recover(proc[p])) /\ TypeOK
  BY DEF MonitorTicks, ServiceInv
<1>2. /\ Orderly(Recover(proc[p])) /\ Recover(proc[p]).boot = proc[p].boot
      /\ Recover(proc[p]).db = proc[p].db
  BY <1>1, RecoverOrderly
<1> QED BY <1>1, <1>2, StepInside DEF MonitorTicks

-----------------------------------------------------------------------------
(* The invariant and what follows from it *)

LEMMA ServiceInit == Init => ServiceInv
<1> SUFFICES ASSUME Init PROVE ServiceInv OBVIOUS
<1>1. \A p \in Processes : proc[p] = Off BY DEF Init
<1>2. TypeOK BY OffOrderly, BudgetAssumption DEF Init, TypeOK, Orderly
<1>3. \A p \in Processes : Owns(Off, p, lock) BY OffOrderly DEF Owns
<1> QED BY <1>1, <1>2, <1>3, OffOrderly DEF ServiceInv

LEMMA ServiceNext == ServiceInv /\ [Next]_vars => ServiceInv'
<1> SUFFICES ASSUME ServiceInv, [Next]_vars PROVE ServiceInv' OBVIOUS
<1>1. CASE Next
  <2>1. PICK p \in Processes :
            \/ Launch(p) \/ Runs(p) \/ Signal(p) \/ Crash(p) \/ MonitorTicks(p)
            \/ \E x \in Exchanges : WorkerAsks(p, x) \/ WorkerStores(p, x) \/ WorkerFails(p, x)
            \/ \E s \in Strategies :
                   Confirm(p, s) \/ Confirmed(p, s) \/ \E c \in BOOLEAN : Visited(p, s, c)
    BY <1>1 DEF Next
  <2>2. CASE Launch(p) BY <2>2, LaunchKeeps
  <2>3. CASE Runs(p)
    <3>1. CASE Claim(p) BY <3>1, ClaimKeeps
    <3>2. CASE Compose(p) BY <3>2, ComposeKeeps
    <3>3. CASE Listening(p) BY <3>3, ListeningKeeps
    <3>4. CASE ListenFails(p) BY <3>4, ListenFailsKeeps
    <3>5. CASE BindingRefused(p) BY <3>5, BindingRefusedKeeps
    <3>6. CASE SyncStopped(p) BY <3>6, SyncStoppedKeeps
    <3>7. CASE StopMonitor(p) BY <3>7, StopMonitorKeeps
    <3>8. CASE StopServer(p) BY <3>8, StopServerKeeps
    <3>9. CASE Drained(p) BY <3>9, DrainedKeeps
    <3>10. CASE CloseDatabase(p) BY <3>10, CloseDatabaseKeeps
    <3>11. CASE Exit(p) BY <3>11, ExitKeeps
    <3> QED BY <2>3, <3>1, <3>2, <3>3, <3>4, <3>5, <3>6, <3>7, <3>8, <3>9, <3>10, <3>11 DEF Runs
  <2>4. CASE Signal(p) BY <2>4, SignalKeeps
  <2>5. CASE Crash(p) BY <2>5, CrashKeeps
  <2>6. CASE MonitorTicks(p) BY <2>6, MonitorTicksKeeps
  <2>7. ASSUME NEW x \in Exchanges, WorkerAsks(p, x) \/ WorkerStores(p, x) \/ WorkerFails(p, x)
        PROVE  ServiceInv'
    BY <2>7, WorkerAsksKeeps, WorkerStoresKeeps, WorkerFailsKeeps
  <2>8. ASSUME NEW s \in Strategies,
               Confirm(p, s) \/ Confirmed(p, s) \/ \E c \in BOOLEAN : Visited(p, s, c)
        PROVE  ServiceInv'
    BY <2>8, ConfirmKeeps, ConfirmedKeeps, VisitedKeeps
  <2> QED BY <2>1, <2>2, <2>3, <2>4, <2>5, <2>6, <2>7, <2>8
<1>2. CASE UNCHANGED vars BY <1>2 DEF vars, ServiceInv, TypeOK, Orderly, Owns
<1> QED BY <1>1, <1>2

\* Without its database a process has nothing under way.
LEMMA IdleWithoutDatabase ==
    ASSUME ServiceInv, NEW p \in Processes, Busy(p)
    PROVE  proc[p].db /\ proc[p].boot \notin {"off", "opened"}
<1>1. Orderly(proc[p]) BY DEF ServiceInv
<1>2. ASSUME proc[p].boot \in {"off", "opened"} PROVE FALSE
  BY <1>1, <1>2 DEF Orderly, Inert, SyncOrderly, Busy
<1>3. ASSUME ~proc[p].db PROVE FALSE
  BY <1>1, <1>2, <1>3 DEF Orderly, Inert, SyncOrderly, StopOrderly, Busy
<1> QED BY <1>1, <1>2, <1>3 DEF Orderly, Process

LEMMA ServiceInvariant == Spec => []ServiceInv
BY ServiceInit, ServiceNext, PTL DEF Spec

\* Whatever the bounds, every process record, the lock and the strategies keep their types
\* (composeService, startService and closeResources).
THEOREM ServiceTypeCorrect == Spec => []TypeOK
<1>1. ServiceInv => TypeOK BY DEF ServiceInv
<1> QED BY <1>1, ServiceInvariant, PTL

\* For any number of processes launched on one file, only the owner of the lock has anything
\* under way (claimSqliteProcessOwnership).
THEOREM OneProcessWorksHolds == Spec => []OneProcessWorks
<1>1. ServiceInv => OneProcessWorks
  BY IdleWithoutDatabase DEF ServiceInv, OneProcessWorks, Owns
<1> QED BY <1>1, ServiceInvariant, PTL

\* The shutdown closes the database only when no worker, request, execution or round is left.
THEOREM NobodyUsesAClosedDatabaseHolds == Spec => []NobodyUsesAClosedDatabase
<1>1. ServiceInv => NobodyUsesAClosedDatabase
  BY IdleWithoutDatabase DEF NobodyUsesAClosedDatabase
<1> QED BY <1>1, ServiceInvariant, PTL

\* RUNNING and STOPPED are reported only when they are true (RuntimeStatus.setPhase).
THEOREM PhaseIsTrueHolds == Spec => []PhaseIsTrue
<1>1. ASSUME ServiceInv, NEW p \in Processes
      PROVE  /\ proc[p].phase = "RUNNING" =>
                    /\ proc[p].db /\ proc[p].timer
                    /\ proc[p].http = "listening" /\ proc[p].sync # "new"
             /\ proc[p].phase = "STOPPED" => ~Busy(p) /\ ~proc[p].db /\ ~proc[p].timer
  <2>1. Orderly(proc[p]) BY <1>1 DEF ServiceInv
  <2>2. proc[p].phase = "RUNNING" => proc[p].db
    BY <2>1 DEF Orderly, Process, PhaseOrderly, StopOrderly
  <2>3. proc[p].phase = "STOPPED" => ~Busy(p) BY <1>1, <2>1, IdleWithoutDatabase DEF Orderly, PhaseOrderly
  <2> QED BY <2>1, <2>2, <2>3 DEF Orderly, Process, PhaseOrderly, StopOrderly
<1>2. ServiceInv => PhaseIsTrue BY <1>1 DEF PhaseIsTrue
<1> QED BY <1>2, ServiceInvariant, PTL

\* The reported state of the synchronisation follows its workers (RuntimeStatus.record).
THEOREM FundingStatusIsTrueHolds == Spec => []FundingStatusIsTrue
<1>1. ASSUME ServiceInv, NEW p \in Processes
      PROVE  LET failed == \E x \in Exchanges : proc[p].worker[x] = "failed" IN
             /\ proc[p].funding = "FAILED" <=> failed
             /\ failed => \A x \in Exchanges : proc[p].worker[x] # "idle"
             /\ proc[p].funding = "STOPPED" => \A x \in Exchanges : proc[p].worker[x] = "ended"
             /\ proc[p].funding = "RUNNING" =>
                    proc[p].stop # "no" \/ \A x \in Exchanges : proc[p].worker[x] \in {"idle", "asking"}
  <2>1. SyncOrderly(proc[p]) /\ StopOrderly(proc[p]) /\ proc[p] \in Process
    BY <1>1 DEF ServiceInv, Orderly
  <2>2. proc[p].funding = "RUNNING" /\ proc[p].stop = "no" => proc[p].sync = "running"
    BY <2>1 DEF SyncOrderly, StopOrderly, Process
  <2> QED BY <2>1, <2>2 DEF SyncOrderly, Process
<1>2. ServiceInv => FundingStatusIsTrue BY <1>1 DEF FundingStatusIsTrue
<1> QED BY <1>2, ServiceInvariant, PTL
=============================================================================
