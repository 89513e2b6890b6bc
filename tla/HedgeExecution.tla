---------------------------- MODULE HedgeExecution ----------------------------
(***************************************************************************)
(* One hedge strategy from its preflight to its conclusion: the database   *)
(* rows, the two exchanges, and the processes of one service instance that *)
(* act on them - HTTP confirmation requests, the queued execution that     *)
(* follows a confirmation, and the periodic monitor.                       *)
(*                                                                         *)
(* A step is the code between two awaits: Node runs one continuation at a  *)
(* time, so everything a handler does before its next await is one action. *)
(* A crash takes the memory of the process and leaves the database and the *)
(* exchanges, with whatever is still on the wire, as they are.             *)
(***************************************************************************)
EXTENDS HedgeDecision

CONSTANTS
    Modes,          \* execution modes a strategy may have
    Requests,       \* concurrent HTTP confirmation requests
    PriceReports,   \* whether snapshots with a fill carry an average price
    MaxCrashes,     \* bound on process restarts
    Heals,          \* whether the faults of the environment end at some point
    NoOwner         \* nobody owns the strategy operation

ASSUME ModesAssumption == Modes \subseteq ExecutionModes /\ Modes # {}
ASSUME CrashAssumption == MaxCrashes \in Nat
ASSUME SwitchAssumption == Heals \in BOOLEAN /\ PriceReports \subseteq BOOLEAN
ASSUME NoOrderAssumption == NoOrder \notin OrderRow

\* The two places that call confirmAndExecute.
Runners == {"queued", "monitor"}

ASSUME OwnerAssumption ==
    NoOwner \notin Runners \cup Requests /\ Runners \cap Requests = {}

VARIABLES
    mode,       \* execution mode of the strategy
    state,      \* strategies.state
    failure,    \* strategies.failure_code
    orders,     \* strategy_orders, by role
    ex,         \* what the exchanges hold for each role
    sends,      \* number of remote createOrder calls ever made for each role
    lock,       \* ACTIVE_STRATEGY_OPERATIONS for this strategy
    poisoned,   \* the repository refuses every call until a restart
    job,        \* [runner -> progress of its confirmAndExecute]
    req,        \* [request -> "idle" or waiting for the confirmation preflight]
    crashes,    \* restarts so far
    calm        \* the environment has stopped failing

db == <<mode, state, failure, orders>>
market == <<ex, sends>>
vars == <<mode, state, failure, orders, ex, sends, lock, poisoned, job, req, crashes, calm>>

-----------------------------------------------------------------------------
(* Types *)

ExchangeStates == {"absent", "inflight", "open"} \cup TerminalStatuses
Pcs == {"idle", "ready", "lookup", "decide", "authorize", "guard_market", "guard_gtc",
        "price_gtc", "submitting"}
Submissions == {"none", "preparing", "sent"}

Job ==
    [pc : Pcs, phase : 1 .. 3, entered : ActiveStates, todo : SUBSET Roles,
     pending : BOOLEAN, seen : OrderTable, role : Roles, qty : 0 .. Qty,
     sub : [Roles -> Submissions]]

NoOrders == [r \in Roles |-> NoOrder]
NoSubmission == [r \in Roles |-> "none"]

\* Locals of a confirmAndExecute that is not running.
IdleJob ==
    [pc |-> "idle", phase |-> 1, entered |-> "EXECUTING", todo |-> {}, pending |-> FALSE,
     seen |-> NoOrders, role |-> "SPOT_MARKET", qty |-> 0, sub |-> NoSubmission]

TypeOK ==
    /\ mode \in Modes
    /\ state \in StrategyStates
    /\ failure \in FailureCodes \cup {"none"}
    /\ orders \in OrderTable
    /\ ex \in [Roles -> [st : ExchangeStates, qty : 0 .. Qty, filled : 0 .. Qty]]
    /\ sends \in [Roles -> Nat]
    /\ lock \in Runners \cup Requests \cup {NoOwner}
    /\ poisoned \in BOOLEAN
    /\ job \in [Runners -> Job]
    /\ req \in [Requests -> {"idle", "preflight"}]
    /\ crashes \in 0 .. MaxCrashes
    /\ calm \in BOOLEAN

Init ==
    /\ mode \in Modes
    /\ state = "PENDING_CONFIRMATION"
    /\ failure = "none"
    /\ orders = NoOrders
    /\ ex = [r \in Roles |-> [st |-> "absent", qty |-> 0, filled |-> 0]]
    /\ sends = [r \in Roles |-> 0]
    /\ lock = NoOwner
    /\ poisoned = FALSE
    /\ job = [r \in Runners |-> IdleJob]
    /\ req = [c \in Requests |-> "idle"]
    /\ crashes = 0
    /\ calm = FALSE

-----------------------------------------------------------------------------
(* Strategy operation ownership *)

\* Mutant: only confirmation requests are refused while the operation is owned.
TryAcquireUnlessRequested == lock \notin Requests

TryAcquire == lock = NoOwner

\* Mutant: a run that ends while it collects evidence keeps the operation.
ContinueWithoutFinally(r, j) ==
    /\ job' = [job EXCEPT ![r] = j]
    /\ lock' = IF j.pc = "idle" /\ job[r].pc # "lookup" THEN NoOwner ELSE r

\* A runner goes on with job j, or returns and releases the operation.
Continue(r, j) ==
    /\ job' = [job EXCEPT ![r] = j]
    /\ lock' = IF j.pc = "idle" THEN NoOwner ELSE r

Return(r) == Continue(r, IdleJob)

\* The repository answers and the next write goes through.
Usable == ~poisoned

-----------------------------------------------------------------------------
(* Confirmation over HTTP *)

\* The conditional write shared by confirmPreflight and invalidatePreflight.
MayWriteConfirmation == state = "PENDING_CONFIRMATION" /\ Planned(orders) = {}

ReleaseRequest(c) == req' = [req EXCEPT ![c] = "idle"] /\ lock' = NoOwner

ConfirmAcquires(c) ==
    /\ req[c] = "idle"
    /\ TryAcquire
    /\ Usable
    /\ MayWriteConfirmation
    /\ req' = [req EXCEPT ![c] = "preflight"]
    /\ lock' = c
    /\ UNCHANGED <<db, market, poisoned, job, crashes, calm>>

\* queueConfirmation: at most one queued execution per strategy.
Enqueued ==
    IF job["queued"].pc = "idle"
    THEN [job EXCEPT !["queued"] = [IdleJob EXCEPT !.pc = "ready"]] ELSE job

ConfirmCommits(c) ==
    /\ req[c] = "preflight"
    /\ Usable
    /\ MayWriteConfirmation
    /\ state' = "EXECUTING"
    /\ job' = Enqueued
    /\ ReleaseRequest(c)
    /\ UNCHANGED <<mode, failure, orders, market, poisoned, crashes, calm>>

ConfirmInvalidates(c) ==
    /\ req[c] = "preflight"
    /\ Usable
    /\ MayWriteConfirmation
    /\ state' = "PREFLIGHT_INVALIDATED"
    /\ ReleaseRequest(c)
    /\ UNCHANGED <<mode, failure, orders, market, poisoned, job, crashes, calm>>

\* Mutant: the handler queues the execution before it looks at the outcome.
ConfirmFailsQueued(c) ==
    /\ req[c] = "preflight"
    /\ ~Usable \/ ~MayWriteConfirmation \/ ~calm
    /\ job' = Enqueued
    /\ ReleaseRequest(c)
    /\ UNCHANGED <<db, market, poisoned, crashes, calm>>

\* The write is refused, or fails and the rollback is verified.
ConfirmFails(c) ==
    /\ req[c] = "preflight"
    /\ ~Usable \/ ~MayWriteConfirmation \/ ~calm
    /\ ReleaseRequest(c)
    /\ UNCHANGED <<db, market, poisoned, job, crashes, calm>>

\* The write fails and the row cannot be shown to be unchanged: it may be either way.
ConfirmPoisons(c) ==
    /\ req[c] = "preflight"
    /\ Usable
    /\ ~calm
    /\ poisoned' = TRUE
    /\ state' \in IF MayWriteConfirmation
                  THEN {state, "EXECUTING", "PREFLIGHT_INVALIDATED"} ELSE {state}
    /\ ReleaseRequest(c)
    /\ UNCHANGED <<mode, failure, orders, market, job, crashes, calm>>

\* The confirmation of another strategy poisons the shared repository.
PoisonedElsewhere ==
    /\ Usable
    /\ ~calm
    /\ poisoned' = TRUE
    /\ UNCHANGED <<db, market, lock, job, req, crashes, calm>>

-----------------------------------------------------------------------------
(* Starting and resuming an execution *)

\* A monitor round finds the strategy recoverable.
MonitorTick ==
    /\ job["monitor"].pc = "idle"
    /\ Usable
    /\ state \in ActiveStates
    /\ job' = [job EXCEPT !["monitor"].pc = "ready"]
    /\ UNCHANGED <<db, market, lock, poisoned, req, crashes, calm>>

\* Mutant: a run does not look whether the strategy has concluded already.
BeginRunAnyState(j, st) ==
    IF EmptyTopology(st, orders)
    THEN IF j.phase = 1 THEN [j EXCEPT !.pc = "guard_market"] ELSE IdleJob
    ELSE IF ~ValidTopology(mode, st, orders) THEN IdleJob
    ELSE [j EXCEPT !.pc = "lookup", !.entered = IF st \in ActiveStates THEN st ELSE "EXECUTING",
                   !.todo = Planned(orders), !.pending = FALSE]

\* reconciliation.run up to its first await: the job it leaves behind when the
\* strategy row says st.
BeginRun(j, st) ==
    IF st \notin ActiveStates THEN IdleJob
    ELSE IF EmptyTopology(st, orders)
         THEN IF j.phase = 1 THEN [j EXCEPT !.pc = "guard_market"] ELSE IdleJob
    ELSE IF ~ValidTopology(mode, st, orders) THEN IdleJob
    ELSE [j EXCEPT !.pc = "lookup", !.entered = st, !.todo = Planned(orders), !.pending = FALSE]

\* The operation is owned by somebody else, or the repository is unusable.
StartRefused(r) ==
    /\ job[r].pc = "ready"
    /\ ~TryAcquire \/ ~Usable
    /\ job' = [job EXCEPT ![r] = IdleJob]
    /\ UNCHANGED <<db, market, lock, poisoned, req, crashes, calm>>

\* confirmAndExecuteOwned up to its first await; a pending strategy would be claimed.
StartOwned(r) ==
    LET claimed == IF state = "PENDING_CONFIRMATION" THEN "EXECUTING" ELSE state
    IN  /\ job[r].pc = "ready"
        /\ TryAcquire
        /\ Usable
        /\ state' = claimed
        /\ Continue(r, BeginRun(job[r], claimed))
        /\ UNCHANGED <<mode, failure, orders, market, poisoned, req, crashes, calm>>

\* An await is rejected, an answer is unusable, or the repository throws after
\* it: the run ends and a later monitor round starts over.
RunAborts(r) ==
    /\ job[r].pc \in Pcs \ {"idle", "ready"}
    /\ job[r].sub = NoSubmission
    /\ ~calm \/ ~Usable
    /\ Return(r)
    /\ UNCHANGED <<db, market, poisoned, req, crashes, calm>>

-----------------------------------------------------------------------------
(* Collecting evidence *)

Visible(role) == ex[role].st \in {"open"} \cup TerminalStatuses

\* What a lookup of an order the exchange holds can return: its present state,
\* or, while the environment misbehaves, an older or unrecognised one.
PresentSnapshots(role) ==
    [status : {ex[role].st}, filled : {ex[role].filled},
     priced : IF ex[role].filled = 0 THEN {FALSE} ELSE PriceReports]

\* Nothing reads the price of an order that has not ended.
LaggingSnapshots(role) ==
    [status : {"open", "unknown"}, filled : 0 .. ex[role].filled, priced : {FALSE}]

Snapshots(role) ==
    PresentSnapshots(role) \cup IF calm THEN {} ELSE LaggingSnapshots(role)

\* The job after the answer about `role`, given the rows it left behind.
AfterLookup(j, role, blocked, table) ==
    LET rest == j.todo \ {role}
        pending == j.pending \/ blocked
    IN  IF rest # {} THEN [j EXCEPT !.todo = rest, !.pending = pending]
        ELSE IF pending THEN IdleJob
        ELSE [j EXCEPT !.pc = "decide", !.todo = {}, !.seen = table]

\* The lookup fails, or its answer is about another order.
LookupUnavailable(r) ==
    LET role == FirstRow(job[r].todo, orders)
    IN  /\ job[r].pc = "lookup"
        /\ Usable
        /\ ~calm
        /\ Continue(r, AfterLookup(job[r], role, TRUE, orders))
        /\ UNCHANGED <<db, market, poisoned, req, crashes, calm>>

\* The exchange does not know the client order id (yet).
LookupMissing(r) ==
    LET role == FirstRow(job[r].todo, orders)
    IN  /\ job[r].pc = "lookup"
        /\ Usable
        /\ ~Visible(role) \/ ~calm
        /\ Continue(r, AfterLookup(job[r], role, MissingOrderBlocks(orders[role]), orders))
        /\ UNCHANGED <<db, market, poisoned, req, crashes, calm>>

\* A snapshot is validated against the row and attached, or refused.
LookupAnswers(r) ==
    LET role == FirstRow(job[r].todo, orders)
        row == orders[role]
    IN  /\ job[r].pc = "lookup"
        /\ Usable
        /\ Visible(role)
        /\ \E snap \in Snapshots(role) :
            LET accepted == AcceptsSnapshot(row, snap)
                table == IF accepted THEN [orders EXCEPT ![role] = Attached(row, snap)]
                         ELSE orders
            IN  /\ orders' = table
                /\ Continue(r, AfterLookup(job[r], role,
                        ~accepted \/ NotSubmitted(orders, role), table))
        /\ UNCHANGED <<mode, state, failure, market, poisoned, req, crashes, calm>>

-----------------------------------------------------------------------------
(* Deciding *)

\* What run concludes once every order has answered: rows or a state that moved
\* since then are never decided on.
Conclusion(r) ==
    IF state # job[r].entered \/ orders # job[r].seen THEN Pending
    ELSE Decision(state, orders)

\* repository.transition, from the state the reconciliation entered in.
WriteTransition(r, to, code) ==
    IF state = job[r].entered /\ failure = "none" /\ to \in AllowedTransitions(job[r].entered)
    THEN state' = to /\ failure' = code
    ELSE UNCHANGED <<state, failure>>

DecideNothing(r) ==
    /\ job[r].pc = "decide"
    /\ Usable
    /\ Conclusion(r).kind \in {"pending", "waiting_gtc"}
    /\ Return(r)
    /\ UNCHANGED <<db, market, poisoned, req, crashes, calm>>

DecideTransition(r) ==
    /\ job[r].pc = "decide"
    /\ Usable
    /\ Conclusion(r).kind = "transition"
    /\ WriteTransition(r, Conclusion(r).state, Conclusion(r).code)
    /\ Return(r)
    /\ UNCHANGED <<mode, orders, market, poisoned, req, crashes, calm>>

\* A residual remains: the market rules and a price are fetched for it.
DecideResidual(r) ==
    /\ job[r].pc = "decide"
    /\ Usable
    /\ Conclusion(r).kind = "authorize"
    /\ Continue(r, [job[r] EXCEPT !.pc = "authorize", !.role = Conclusion(r).role,
                                  !.qty = Residual(orders), !.seen = NoOrders])
    /\ UNCHANGED <<db, market, poisoned, req, crashes, calm>>

\* The residual is below a minimum or off a step of the market it would trade in.
ResidualNotTradable(r) ==
    /\ job[r].pc = "authorize"
    /\ Usable
    /\ WriteTransition(r, "HEDGE_INCOMPLETE", "HEDGE_RESIDUAL_NOT_TRADABLE")
    /\ Return(r)
    /\ UNCHANGED <<mode, orders, market, poisoned, req, crashes, calm>>

\* need_gtc; the third reconciliation of a run is never acted upon.
ResidualTradable(r) ==
    /\ job[r].pc = "authorize"
    /\ Continue(r, IF job[r].phase = 3 THEN IdleJob ELSE [job[r] EXCEPT !.pc = "guard_gtc"])
    /\ UNCHANGED <<db, market, poisoned, req, crashes, calm>>

-----------------------------------------------------------------------------
(* Planning and submitting *)

NextRow == Cardinality(Planned(orders)) + 1

\* The market orders an execution starts with: none if anything is planned already.
InitialRoles == IF Planned(orders) = {} THEN RequiredMarkets(mode) ELSE {}

\* Their rows, inserted in one transaction, the spot order first.
InitialPlan ==
    [x \in Roles |->
        IF x \notin InitialRoles THEN orders[x]
        ELSE IF x = "CONTRACT_MARKET" /\ "SPOT_MARKET" \in InitialRoles
             THEN NewOrder(NextRow + 1, Qty) ELSE NewOrder(NextRow, Qty)]

\* The runner's job once the given roles are handed over for submission.
Submitting(j, roles, phase) ==
    [j EXCEPT !.pc = "submitting", !.phase = phase,
              !.sub = [x \in Roles |-> IF x \in roles THEN "preparing" ELSE "none"]]

\* The account settings still match those confirmed: plan and hand over for submission.
PlanMarkets(r) ==
    /\ job[r].pc = "guard_market"
    /\ Usable
    /\ IF state \in ActiveStates \/ InitialRoles = {}
       THEN /\ orders' = InitialPlan
            /\ Continue(r, Submitting(job[r], InitialRoles, 2))
       ELSE UNCHANGED orders /\ Return(r)
    /\ UNCHANGED <<mode, state, failure, market, poisoned, req, crashes, calm>>

\* The settings still match: unless a hedging order exists, its price is quantized.
GuardGtcPasses(r) ==
    /\ job[r].pc = "guard_gtc"
    /\ Usable
    /\ Continue(r, IF PlannedGtcs(orders) = {} THEN [job[r] EXCEPT !.pc = "price_gtc"]
                   ELSE IdleJob)
    /\ UNCHANGED <<db, market, poisoned, req, crashes, calm>>

\* planOrder throws in a concluded strategy and for a role that has a row
\* already (UNIQUE(strategy_id, role)).
PlanGtc(r) ==
    LET role == job[r].role
    IN  /\ job[r].pc = "price_gtc"
        /\ Usable
        /\ IF state \in ActiveStates /\ orders[role] = NoOrder
           THEN /\ orders' = [orders EXCEPT ![role] = NewOrder(NextRow, job[r].qty)]
                /\ Continue(r, Submitting(job[r], {role}, 3))
           ELSE UNCHANGED orders /\ Return(r)
        /\ UNCHANGED <<mode, state, failure, market, poisoned, req, crashes, calm>>

\* createOrder fails before its remote call; the row is marked unless that write
\* fails too, which is only logged.
PrepareFails(r, role) ==
    /\ job[r].sub[role] = "preparing"
    /\ job' = [job EXCEPT ![r].sub[role] = "none"]
    /\ \E code \in IF role \in GtcRoles THEN SubmissionCodes ELSE {"ORDER_SUBMISSION_FAILED"} :
        \E written \in IF ~Usable THEN {FALSE} ELSE IF calm THEN {TRUE} ELSE BOOLEAN :
            orders' = IF written /\ MayMarkNotSubmitted(orders[role])
                      THEN [orders EXCEPT ![role] = MarkedNotSubmitted(orders[role], code)]
                      ELSE orders
    /\ UNCHANGED <<mode, state, failure, market, lock, poisoned, req, crashes, calm>>

\* The remote call leaves the process.  A client order id the exchange holds
\* already is not accepted again.
SendOrder(r, role) ==
    /\ job[r].sub[role] = "preparing"
    /\ job' = [job EXCEPT ![r].sub[role] = "sent"]
    /\ sends' = [sends EXCEPT ![role] = @ + 1]
    /\ ex' = IF ex[role].st = "absent"
             THEN [ex EXCEPT ![role].st = "inflight", ![role].qty = orders[role].qty] ELSE ex
    /\ UNCHANGED <<db, lock, poisoned, req, crashes, calm>>

\* Mutant: a submission whose outcome is unknown is tried once more.
SubmissionRetried(r, role) ==
    /\ job[r].sub[role] = "sent"
    /\ job' = [job EXCEPT ![r].sub[role] = "preparing"]
    /\ UNCHANGED <<db, market, lock, poisoned, req, crashes, calm>>

\* Mutant: a failed remote call is taken for one that never left the process.
SubmissionTakenForUnsent(r, role) ==
    /\ job[r].sub[role] = "sent"
    /\ job' = [job EXCEPT ![r].sub[role] = "none"]
    /\ orders' = IF MayMarkNotSubmitted(orders[role])
                 THEN [orders EXCEPT ![role] =
                           MarkedNotSubmitted(orders[role], "ORDER_SUBMISSION_FAILED")]
                 ELSE orders
    /\ UNCHANGED <<mode, state, failure, market, lock, poisoned, req, crashes, calm>>

\* The call returns, fails or times out, before or after the exchange acts on
\* it; nothing is persisted in either case.
SubmissionSettles(r, role) ==
    /\ job[r].sub[role] = "sent"
    /\ job' = [job EXCEPT ![r].sub[role] = "none"]
    /\ UNCHANGED <<db, market, lock, poisoned, req, crashes, calm>>

\* All submissions of the batch have settled: reconcile again.
Resume(r) ==
    /\ job[r].pc = "submitting"
    /\ job[r].sub = NoSubmission
    /\ Usable
    /\ Continue(r, BeginRun([job[r] EXCEPT !.role = "SPOT_MARKET", !.qty = 0], state))
    /\ UNCHANGED <<db, market, poisoned, req, crashes, calm>>

-----------------------------------------------------------------------------
(* The exchanges *)

Accept(role) ==
    /\ ex[role].st = "inflight"
    /\ ex' = [ex EXCEPT ![role].st = "open"]
    /\ UNCHANGED <<db, sends, lock, poisoned, job, req, crashes, calm>>

\* The request is lost or refused without leaving an order.
Lose(role) ==
    /\ ex[role].st = "inflight"
    /\ ex' = [ex EXCEPT ![role].st = "absent"]
    /\ UNCHANGED <<db, sends, lock, poisoned, job, req, crashes, calm>>

Fill(role) ==
    /\ ex[role].st = "open"
    /\ ex[role].filled < ex[role].qty
    /\ ex' = [ex EXCEPT ![role].filled = @ + 1]
    /\ UNCHANGED <<db, sends, lock, poisoned, job, req, crashes, calm>>

\* An order ends for good: its status and its fill are final.
Finish(role) ==
    /\ ex[role].st = "open"
    /\ \E st \in TerminalStatuses : ex' = [ex EXCEPT ![role].st = st]
    /\ UNCHANGED <<db, sends, lock, poisoned, job, req, crashes, calm>>

-----------------------------------------------------------------------------
(* Environment *)

\* The process dies or is restarted: its memory is lost.
Crash ==
    /\ crashes < MaxCrashes
    /\ ~calm
    /\ crashes' = crashes + 1
    /\ lock' = NoOwner
    /\ poisoned' = FALSE
    /\ job' = [r \in Runners |-> IdleJob]
    /\ req' = [c \in Requests |-> "idle"]
    /\ UNCHANGED <<db, market, calm>>

Heal ==
    /\ Heals
    /\ ~calm
    /\ calm' = TRUE
    /\ UNCHANGED <<db, market, lock, poisoned, job, req, crashes>>

RequestStep(c) ==
    \/ ConfirmAcquires(c)
    \/ ConfirmCommits(c)
    \/ ConfirmInvalidates(c)
    \/ ConfirmFails(c)
    \/ ConfirmPoisons(c)

RunnerStep(r) ==
    \/ StartRefused(r)
    \/ StartOwned(r)
    \/ RunAborts(r)
    \/ LookupUnavailable(r)
    \/ LookupMissing(r)
    \/ LookupAnswers(r)
    \/ DecideNothing(r)
    \/ DecideTransition(r)
    \/ DecideResidual(r)
    \/ ResidualNotTradable(r)
    \/ ResidualTradable(r)
    \/ PlanMarkets(r)
    \/ GuardGtcPasses(r)
    \/ PlanGtc(r)
    \/ Resume(r)
    \/ \E role \in Roles :
        PrepareFails(r, role) \/ SendOrder(r, role) \/ SubmissionSettles(r, role)

ExchangeStep(role) == Accept(role) \/ Lose(role) \/ Fill(role) \/ Finish(role)

Next ==
    \/ \E c \in Requests : RequestStep(c)
    \/ \E r \in Runners : RunnerStep(r)
    \/ \E role \in Roles : ExchangeStep(role)
    \/ MonitorTick
    \/ PoisonedElsewhere
    \/ Crash
    \/ Heal

Spec == Init /\ [][Next]_vars
-----------------------------------------------------------------------------
(* Properties *)

\* The order may still trade, or come to exist.
Live(role) ==
    \/ ex[role].st = "inflight"
    \/ ex[role].st = "open" /\ ex[role].filled < ex[role].qty

SpotPosition == ex["SPOT_MARKET"].filled + ex["SPOT_HEDGE_GTC"].filled
ContractPosition == ex["CONTRACT_MARKET"].filled + ex["CONTRACT_HEDGE_GTC"].filled
Exposure == Distance(SpotPosition, ContractPosition)

\* A runner or a request is between taking the operation and giving it back.
Busy(a) ==
    IF a \in Runners THEN job[a].pc \notin {"idle", "ready"} ELSE req[a] = "preflight"

\* At most one confirmation or execution works on the strategy at any time, also
\* across their error paths and restarts (strategy-operation-owner.ts).
OneOperation ==
    \A a, b \in Runners \cup Requests : Busy(a) /\ Busy(b) => a = b

\* The remote createOrder of a role is called at most once in the life of the
\* strategy, whatever fails, is retried or is restarted (hedge-coordinator.ts).
AtMostOneSubmission == \A role \in Roles : sends[role] <= 1

\* A row that says an order definitely never left the process tells the truth:
\* no request for it was sent before, and none will be (markDefinitelyNotSubmitted).
NotSubmittedIsTrue ==
    \A role \in Planned(orders) : NotSubmitted(orders, role) =>
        /\ sends[role] = 0
        /\ \A r \in Runners : job[r].sub[role] = "none"

\* Persisted evidence is never ahead of the exchange, and a terminal row shows
\* exactly what the exchange ended with (attachOrderSnapshot).
EvidenceIsTrue ==
    \A role \in Planned(orders) : Observed(orders, role) =>
        /\ orders[role].filled <= ex[role].filled
        /\ orders[role].status \in TerminalStatuses =>
               ex[role].st = orders[role].status /\ ex[role].filled = orders[role].filled

\* A strategy reported as FAILED holds no position on either exchange, and no
\* request or order of it can still create one (code-rules.md rule 4).
FailedMeansFlat ==
    state = "FAILED" => \A role \in Roles : ex[role].filled = 0 /\ ~Live(role)

\* A strategy reported as HEDGED holds equal positive positions on both exchanges,
\* and nothing can move them any more.
HedgedMeansBalanced ==
    state = "HEDGED" => /\ SpotPosition > 0
                        /\ SpotPosition = ContractPosition
                        /\ \A role \in Roles : ~Live(role)

\* The confirmation preflight cannot be bypassed: no execution ever starts on a
\* strategy that still waits for confirmation, so the claim in
\* confirmAndExecuteOwned is never exercised.
ExecutionIsConfirmed ==
    \A r \in Runners : job[r].pc # "idle" =>
        state \notin {"PENDING_CONFIRMATION", "PREFLIGHT_INVALIDATED"}

\* Once a hedging order has been submitted, no trade on either exchange makes the
\* difference between the two positions larger.
HedgingNeverAddsExposure ==
    [][(\E g \in GtcRoles : sends[g] > 0) => Exposure' <= Exposure]_vars

\* A concluded or invalidated strategy is never touched again, nor traded for.
ConclusionIsFinal ==
    [][(state \in TerminalStates \cup {"PREFLIGHT_INVALIDATED"}) =>
        UNCHANGED <<state, failure, orders, sends>>]_vars

\* The engine keeps its promise in terms of the exchanges.
Promise == INSTANCE HedgePromise WITH
    Markets <- MarketRoles,
    Gtcs <- GtcRoles,
    SpotRoles <- {"SPOT_MARKET", "SPOT_HEDGE_GTC"},
    Size <- Qty,
    required <- RequiredMarkets(mode),
    sent <- {role \in Roles : sends[role] > 0},
    live <- {role \in Roles : Live(role)},
    limit <- [role \in Roles |-> ex[role].qty],
    filled <- [role \in Roles |-> ex[role].filled]

PromiseKept == Promise!Spec

-----------------------------------------------------------------------------
(* Liveness *)

\* Node runs every continuation that is due, the monitor's timer fires again and
\* again, requests on the wire arrive or are lost, market orders end.  A hedging
\* order may rest for ever, a client need not confirm, and the faults end.
Fairness ==
    /\ \A r \in Runners : WF_vars(RunnerStep(r))
    /\ WF_vars(MonitorTick)
    /\ \A role \in Roles : WF_vars(Accept(role) \/ Lose(role))
    /\ \A m \in MarketRoles : WF_vars(Finish(m))
    /\ WF_vars(Heal)

FairSpec == Spec /\ Fairness

\* A plan that is known to no exchange although it may have been submitted: the
\* engine waits for an operator.
Unresolvable ==
    \E role \in Planned(orders) :
        /\ orders[role].disposition = "SUBMISSION_UNCERTAIN"
        /\ ex[role].st = "absent"
        /\ \A r \in Runners : job[r].sub[role] = "none"

RestingGtc == state = "WAITING_HEDGE" /\ \E g \in GtcRoles : ex[g].st = "open"

\* A confirmed strategy is eventually concluded, unless a submission remains
\* unaccounted for, a hedging order rests, or the repository needs a restart.
EventuallyConcluded ==
    state \in ActiveStates ~>
        (state \in TerminalStates \/ RestingGtc \/ Unresolvable \/ poisoned)

\* No operation is owned for ever.
OwnershipIsReleased == []<>(lock \notin Runners)
=============================================================================
