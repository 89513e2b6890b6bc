------------------------- MODULE HedgeExecutionProofs -------------------------
(***************************************************************************)
(* Facts about HedgeExecution that hold for every execution mode, every    *)
(* quantity, every number of concurrent confirmations and restarts.        *)
(***************************************************************************)
EXTENDS HedgeExecution, TLAPS, FiniteSetTheorems

-----------------------------------------------------------------------------
(* The rows of an order table *)

LEMMA PlannedRow ==
    ASSUME NEW table \in OrderTable, NEW role \in Planned(table)
    PROVE  role \in Roles /\ table[role] \in OrderRow
BY DEF Planned, OrderTable

LEMMA PlannedCardinality ==
    ASSUME NEW table
    PROVE  Cardinality(Planned(table)) \in Nat
<1>1. IsFiniteSet(Roles)
  <2>1. IsFiniteSet({}) /\ IsFiniteSet({"SPOT_MARKET"}) BY FS_EmptySet, FS_Singleton
  <2>2. IsFiniteSet({"SPOT_MARKET"} \cup {"CONTRACT_MARKET"}) BY FS_Singleton, FS_Union
  <2>3. IsFiniteSet({"SPOT_HEDGE_GTC"} \cup {"CONTRACT_HEDGE_GTC"}) BY FS_Singleton, FS_Union
  <2>4. Roles = ({"SPOT_MARKET"} \cup {"CONTRACT_MARKET"})
                   \cup ({"SPOT_HEDGE_GTC"} \cup {"CONTRACT_HEDGE_GTC"})
    BY DEF Roles, MarketRoles, GtcRoles
  <2> QED BY <2>2, <2>3, <2>4, FS_Union
<1>2. Planned(table) \subseteq Roles BY DEF Planned
<1> QED BY <1>1, <1>2, FS_Subset, FS_CardinalityType

\* The collector always finds a first row among planned orders.
LEMMA FirstRowIn ==
    ASSUME NEW table \in OrderTable, NEW S \in SUBSET Planned(table), S # {}
    PROVE  FirstRow(S, table) \in S
<1> DEFINE id(q) == table[q].rowid
<1>1. \A q \in S : id(q) \in Nat BY PlannedRow DEF OrderRow
<1>2. S \subseteq {"SPOT_MARKET", "CONTRACT_MARKET", "SPOT_HEDGE_GTC", "CONTRACT_HEDGE_GTC"}
  BY DEF Planned, Roles, MarketRoles, GtcRoles
<1>3. \E r \in S : \A q \in S : id(r) <= id(q)
  <2>1. SUFFICES ASSUME \A r \in S : \E q \in S : id(q) < id(r) PROVE FALSE
    BY <1>1
  <2>2. PICK a \in S : TRUE OBVIOUS
  <2>3. PICK b \in S : id(b) < id(a) BY <2>1
  <2>4. PICK c \in S : id(c) < id(b) BY <2>1
  <2>5. PICK d \in S : id(d) < id(c) BY <2>1
  <2>6. PICK e \in S : id(e) < id(d) BY <2>1
  <2>7. /\ a # b /\ a # c /\ a # d /\ a # e /\ b # c
        /\ b # d /\ b # e /\ c # d /\ c # e /\ d # e
    BY <1>1, <2>3, <2>4, <2>5, <2>6
  <2> HIDE DEF id
  <2> QED BY <1>2, <2>7
<1> QED BY <1>3 DEF FirstRow

LEMMA NewOrderType ==
    ASSUME NEW rowid \in Nat, NEW qty \in 0 .. Qty
    PROVE  NewOrder(rowid, qty) \in OrderRow
BY QtyAssumption DEF NewOrder, OrderRow, Dispositions

LEMMA AttachedType ==
    ASSUME NEW row \in OrderRow, NEW snap \in Snapshot
    PROVE  Attached(row, snap) \in OrderRow
BY DEF Attached, OrderRow, Snapshot, Dispositions

LEMMA MarkedType ==
    ASSUME NEW row \in OrderRow, NEW code \in SubmissionCodes
    PROVE  MarkedNotSubmitted(row, code) \in OrderRow
BY DEF MarkedNotSubmitted, OrderRow, Dispositions

\* Replacing a row keeps the table and plans nothing else.
LEMMA RowReplaced ==
    ASSUME NEW table \in OrderTable, NEW role \in Roles, NEW row \in OrderRow
    PROVE  /\ [table EXCEPT ![role] = row] \in OrderTable
           /\ Planned(table) \subseteq Planned([table EXCEPT ![role] = row])
           /\ Planned([table EXCEPT ![role] = row]) = Planned(table) \cup {role}
BY NoOrderAssumption DEF OrderTable, Planned

-----------------------------------------------------------------------------
(* What a decision can be *)

LEMMA FilledType ==
    ASSUME NEW table \in OrderTable, NEW role \in Roles
    PROVE  Filled(table, role) \in 0 .. Qty
BY QtyAssumption DEF Filled, OrderTable, OrderRow

\* A hedging order is never planned for more than the strategy is about.
LEMMA ResidualType ==
    ASSUME NEW table \in OrderTable
    PROVE  Residual(table) \in 0 .. Qty
<1>1. Filled(table, "SPOT_MARKET") \in 0 .. Qty /\ Filled(table, "CONTRACT_MARKET") \in 0 .. Qty
  BY FilledType DEF Roles, MarketRoles
<1> QED BY <1>1, QtyAssumption DEF Residual, Distance

VerdictType(v) ==
    /\ v.kind \in VerdictKinds
    /\ v.kind = "transition" =>
          v.state \in StrategyStates /\ v.code \in FailureCodes \cup {"none"}
    /\ v.kind = "authorize" => v.role \in GtcRoles

LEMMA PlainVerdicts ==
    /\ VerdictType(Pending)
    /\ VerdictType(WaitForGtc)
    /\ VerdictType(Inconsistent)
    /\ \A st \in StrategyStates : VerdictType(Success(st))
    /\ \A st \in StrategyStates, code \in FailureCodes \cup {"none"} :
          VerdictType(Failure(st, code))
    /\ \A g \in GtcRoles : VerdictType(Authorize(g))
BY DEF VerdictType, Pending, WaitForGtc, Inconsistent, Success, Failure, Authorize, Verdict,
       VerdictKinds, StrategyStates, TerminalStates, FailureCodes

LEMMA MarketFailureType ==
    ASSUME NEW table \in OrderTable
    PROVE  VerdictType(MarketFailure(table))
<1> DEFINE unsent == {m \in PlannedMarkets(table) : NotSubmitted(table, m)}
<1>1. CASE unsent # {}
  <2>1. FirstRow(unsent, table) \in unsent BY <1>1, FirstRowIn DEF PlannedMarkets
  <2>2. table[FirstRow(unsent, table)].code \in FailureCodes \cup {"none"}
    BY <2>1, PlannedRow DEF PlannedMarkets, OrderRow, FailureCodes
  <2>3. "FAILED" \in StrategyStates BY DEF StrategyStates, TerminalStates
  <2> QED BY <1>1, <2>2, <2>3, PlainVerdicts DEF MarketFailure
<1>2. CASE unsent = {}
  <2>1. "FAILED" \in StrategyStates /\ "ORDER_SUBMISSION_FAILED" \in FailureCodes
    BY DEF StrategyStates, TerminalStates, FailureCodes, SubmissionCodes
  <2> QED BY <1>2, <2>1, PlainVerdicts DEF MarketFailure
<1> QED BY <1>1, <1>2

LEMMA DecisionType ==
    ASSUME NEW table \in OrderTable, NEW st
    PROVE  VerdictType(Decision(st, table))
<1> USE DEF StrategyStates, TerminalStates, FailureCodes, SubmissionCodes, ActiveStates
<1>1. VerdictType(DecideWithoutGtc(table))
  BY PlainVerdicts DEF DecideWithoutGtc, SmallerLegGtc, GtcRoles
<1>2. ASSUME NEW g \in PlannedGtcs(table)
      PROVE  VerdictType(DecideExistingGtc(st, g, table))
  <2>1. table[g] \in OrderRow BY <1>2, PlannedRow DEF PlannedGtcs
  <2>2. table[g].code \in FailureCodes \cup {"none"} BY <2>1 DEF OrderRow
  <2>3. table[g].status \in {"open", "closed", "canceled", "rejected", "planned", "unknown"}
    BY <2>1 DEF OrderRow, SnapshotStatuses, TerminalStatuses
  <2>4. CASE table[g].status \in {"open", "closed", "canceled"}
    BY <2>2, <2>4, PlainVerdicts DEF DecideExistingGtc, DecideValidGtc
  <2>5. CASE table[g].status \in {"rejected", "planned", "unknown"}
    BY <2>2, <2>5, PlainVerdicts DEF DecideExistingGtc
  <2> QED BY <2>3, <2>4, <2>5
<1>3. PlannedGtcs(table) # {} =>
          (CHOOSE g \in PlannedGtcs(table) : TRUE) \in PlannedGtcs(table)
  OBVIOUS
<1> QED BY <1>1, <1>2, <1>3, PlainVerdicts, MarketFailureType DEF Decision

-----------------------------------------------------------------------------
(* The rows the runners rely on *)

\* A run asks about and submits planned orders only: what makes the type
\* invariant inductive, since both write to the row they work on.
JobPlanned(j, table) ==
    /\ j.todo \subseteq Planned(table)
    /\ j.pc = "lookup" => j.todo # {}
    /\ \A role \in Roles : j.sub[role] # "none" => role \in Planned(table)

TypeInv ==
    /\ TypeOK
    /\ \A r \in Runners : JobPlanned(job[r], orders)

LEMMA IdleJobType ==
    /\ IdleJob \in Job
    /\ \A table : JobPlanned(IdleJob, table)
BY QtyAssumption
   DEF IdleJob, Job, JobPlanned, Pcs, ActiveStates, NoOrders, NoSubmission, OrderTable,
       Submissions, Roles, MarketRoles

LEMMA PlannedGrows ==
    ASSUME NEW j, NEW old, NEW new, JobPlanned(j, old), Planned(old) \subseteq Planned(new)
    PROVE  JobPlanned(j, new)
BY DEF JobPlanned

LEMMA RequiredNotEmpty ==
    ASSUME NEW m \in ExecutionModes
    PROVE  RequiredMarkets(m) # {} /\ RequiredMarkets(m) \subseteq MarketRoles
BY DEF RequiredMarkets, MarketRoles, ExecutionModes

\* A run that starts leaves a well-formed job behind, with orders to ask about
\* whenever it waits for an answer.
LEMMA BeginRunType ==
    ASSUME TypeOK, NEW j \in Job, NEW st \in StrategyStates, JobPlanned(j, orders)
    PROVE  BeginRun(j, st) \in Job /\ JobPlanned(BeginRun(j, st), orders)
<1>1. CASE BeginRun(j, st) = IdleJob
  BY <1>1, IdleJobType
<1>2. CASE BeginRun(j, st) = [j EXCEPT !.pc = "guard_market"]
  BY <1>2 DEF Job, Pcs, JobPlanned
<1>3. CASE /\ st \in ActiveStates
           /\ ValidTopology(mode, st, orders)
           /\ BeginRun(j, st) = [j EXCEPT !.pc = "lookup", !.entered = st,
                                          !.todo = Planned(orders), !.pending = FALSE]
  <2>1. mode \in ExecutionModes BY ModesAssumption DEF TypeOK
  <2>2. Planned(orders) # {}
    BY <1>3, <2>1, RequiredNotEmpty DEF ValidTopology, LegalRoleSets
  <2>3. Planned(orders) \subseteq Roles BY DEF Planned
  <2>4. BeginRun(j, st) \in Job BY <1>3, <2>3 DEF Job, Pcs
  <2>5. JobPlanned(BeginRun(j, st), orders) BY <1>3, <2>2 DEF Job, JobPlanned
  <2> QED BY <2>4, <2>5
<1> QED BY <1>1, <1>2, <1>3 DEF BeginRun

\* What a runner's step has to show: its own job is well formed.
LEMMA RunnerContinues ==
    ASSUME TypeInv, NEW r \in Runners, NEW j \in Job, Continue(r, j),
           orders' \in OrderTable, Planned(orders) \subseteq Planned(orders'),
           JobPlanned(j, orders')
    PROVE  /\ job' \in [Runners -> Job]
           /\ lock' \in Runners \cup Requests \cup {NoOwner}
           /\ \A q \in Runners : JobPlanned(job'[q], orders')
<1>1. job' = [job EXCEPT ![r] = j] /\ job \in [Runners -> Job]
  BY DEF Continue, TypeInv, TypeOK
<1>2. job' \in [Runners -> Job] BY <1>1
<1>3. lock' \in Runners \cup Requests \cup {NoOwner} BY DEF Continue
<1>4. ASSUME NEW q \in Runners PROVE JobPlanned(job'[q], orders')
  <2>1. CASE q = r BY <1>1, <2>1
  <2>2. CASE q # r
    <3>1. job'[q] = job[q] /\ JobPlanned(job[q], orders) BY <1>1, <2>2 DEF TypeInv
    <3> QED BY <3>1, PlannedGrows
  <2> QED BY <2>1, <2>2
<1> QED BY <1>2, <1>3, <1>4

LEMMA AfterLookupType ==
    ASSUME NEW j \in Job, NEW role, NEW blocked \in BOOLEAN, NEW table \in OrderTable,
           JobPlanned(j, table)
    PROVE  /\ AfterLookup(j, role, blocked, table) \in Job
           /\ JobPlanned(AfterLookup(j, role, blocked, table), table)
<1> DEFINE rest == j.todo \ {role}
           pending == j.pending \/ blocked
<1>1. pending \in BOOLEAN BY DEF Job
<1>2. CASE rest # {}
  <2>1. AfterLookup(j, role, blocked, table) = [j EXCEPT !.todo = rest, !.pending = pending]
    BY <1>2 DEF AfterLookup
  <2> HIDE DEF pending
  <2> QED BY <1>1, <1>2, <2>1 DEF Job, JobPlanned
<1>3. CASE rest = {} /\ pending
  BY <1>3, IdleJobType DEF AfterLookup
<1>4. CASE rest = {} /\ ~pending
  <2>1. AfterLookup(j, role, blocked, table) =
            [j EXCEPT !.pc = "decide", !.todo = {}, !.seen = table]
    BY <1>4 DEF AfterLookup
  <2> QED BY <2>1 DEF Job, JobPlanned, Pcs
<1> QED BY <1>2, <1>3, <1>4

LEMMA SnapshotsType ==
    ASSUME TypeOK, NEW role \in Roles, Visible(role)
    PROVE  Snapshots(role) \subseteq Snapshot
<1>1. ex[role].st \in SnapshotStatuses /\ ex[role].filled \in 0 .. Qty
  BY DEF TypeOK, Visible, SnapshotStatuses
<1>2. PresentSnapshots(role) \subseteq Snapshot
  BY <1>1, SwitchAssumption DEF PresentSnapshots, Snapshot
<1>3. LaggingSnapshots(role) \subseteq Snapshot
  <2>1. 0 .. ex[role].filled \subseteq 0 .. Qty BY <1>1, QtyAssumption
  <2>2. {"open", "unknown"} \subseteq SnapshotStatuses BY DEF SnapshotStatuses
  <2> QED BY <2>1, <2>2 DEF LaggingSnapshots, Snapshot
<1> QED BY <1>2, <1>3 DEF Snapshots

LEMMA ConclusionType ==
    ASSUME TypeOK, NEW r \in Runners
    PROVE  VerdictType(Conclusion(r))
<1>1. VerdictType(Decision(state, orders)) BY DecisionType DEF TypeOK
<1> QED BY <1>1, PlainVerdicts DEF Conclusion

LEMMA WriteTransitionType ==
    ASSUME TypeOK, NEW r \in Runners, NEW to, NEW code \in FailureCodes \cup {"none"},
           WriteTransition(r, to, code)
    PROVE  state' \in StrategyStates /\ failure' \in FailureCodes \cup {"none"}
<1>1. \A from : AllowedTransitions(from) \subseteq StrategyStates
  BY DEF AllowedTransitions, StrategyStates, ActiveStates, TerminalStates
<1> QED BY <1>1 DEF WriteTransition, TypeOK

LEMMA SubmittingType ==
    ASSUME NEW j \in Job, NEW table, JobPlanned(j, table), NEW phase \in 1 .. 3,
           NEW roles \in SUBSET Planned(table)
    PROVE  /\ Submitting(j, roles, phase) \in Job
           /\ JobPlanned(Submitting(j, roles, phase), table)
<1> DEFINE sub == [x \in Roles |-> IF x \in roles THEN "preparing" ELSE "none"]
<1>1. sub \in [Roles -> Submissions] BY DEF Submissions
<1>2. \A role \in Roles : sub[role] # "none" => role \in Planned(table) OBVIOUS
<1>3. Submitting(j, roles, phase) = [j EXCEPT !.pc = "submitting", !.phase = phase, !.sub = sub]
  BY DEF Submitting
<1> HIDE DEF sub
<1> QED BY <1>1, <1>2, <1>3 DEF Job, JobPlanned, Pcs

\* The rows of the first market orders: none is replaced, all are planned.
LEMMA InitialPlanType ==
    ASSUME TypeOK
    PROVE  /\ InitialPlan \in OrderTable
           /\ Planned(orders) \subseteq Planned(InitialPlan)
           /\ InitialRoles \subseteq Planned(InitialPlan)
<1>1. NextRow \in Nat /\ NextRow + 1 \in Nat BY PlannedCardinality DEF NextRow
<1>2. NewOrder(NextRow, Qty) \in OrderRow /\ NewOrder(NextRow + 1, Qty) \in OrderRow
  BY <1>1, NewOrderType, QtyAssumption
<1>3. mode \in ExecutionModes /\ orders \in OrderTable BY ModesAssumption DEF TypeOK
<1>4. InitialRoles \subseteq Roles BY <1>3, RequiredNotEmpty DEF InitialRoles, Roles
<1>5. InitialPlan \in OrderTable BY <1>2, <1>3 DEF InitialPlan, OrderTable
<1>6. \A role \in InitialRoles : InitialPlan[role] \in OrderRow
  BY <1>2, <1>4 DEF InitialPlan
<1>7. \A role \in Roles \ InitialRoles : InitialPlan[role] = orders[role]
  BY DEF InitialPlan
<1>8. InitialRoles \subseteq Planned(InitialPlan)
  BY <1>4, <1>6, NoOrderAssumption DEF Planned
<1>9. Planned(orders) \subseteq Planned(InitialPlan)
  BY <1>7, <1>8 DEF Planned
<1> QED BY <1>5, <1>8, <1>9

-----------------------------------------------------------------------------
(* Type correctness *)

LEMMA TypeInit == Init => TypeInv
<1> SUFFICES ASSUME Init PROVE TypeInv OBVIOUS
<1>1. orders \in OrderTable BY DEF Init, NoOrders, OrderTable
<1>2. ex \in [Roles -> [st : ExchangeStates, qty : 0 .. Qty, filled : 0 .. Qty]]
  BY QtyAssumption DEF Init, ExchangeStates
<1>3. sends \in [Roles -> Nat] BY DEF Init
<1>4. job \in [Runners -> Job] /\ \A r \in Runners : JobPlanned(job[r], orders)
  BY IdleJobType DEF Init
<1>5. req \in [Requests -> {"idle", "preflight"}] BY DEF Init
<1>6. /\ mode \in Modes /\ state \in StrategyStates
      /\ failure \in FailureCodes \cup {"none"}
      /\ lock \in Runners \cup Requests \cup {NoOwner} /\ crashes \in 0 .. MaxCrashes
  BY CrashAssumption DEF Init, StrategyStates
<1>7. poisoned \in BOOLEAN /\ calm \in BOOLEAN BY DEF Init
<1> QED BY <1>1, <1>2, <1>3, <1>4, <1>5, <1>6, <1>7 DEF TypeInv, TypeOK

\* Steps of a confirmation request.
LEMMA TypeRequestStep ==
    ASSUME TypeInv, NEW c \in Requests, RequestStep(c)
    PROVE  TypeInv'
<1> USE DEF TypeInv, TypeOK
<1> USE DEF db, market, ReleaseRequest
<1>1. CASE ConfirmAcquires(c) BY <1>1 DEF ConfirmAcquires
<1>2. CASE ConfirmCommits(c)
  <2>1. [IdleJob EXCEPT !.pc = "ready"] \in Job
    BY IdleJobType DEF Job, Pcs
  <2>2. JobPlanned([IdleJob EXCEPT !.pc = "ready"], orders)
    BY IdleJobType DEF JobPlanned, Job
  <2>3. job' \in [Runners -> Job] /\ \A r \in Runners : JobPlanned(job'[r], orders)
    BY <1>2, <2>1, <2>2 DEF ConfirmCommits, Enqueued
  <2> QED BY <1>2, <2>3 DEF ConfirmCommits, StrategyStates, ActiveStates
<1>3. CASE ConfirmInvalidates(c) BY <1>3 DEF ConfirmInvalidates, StrategyStates
<1>4. CASE ConfirmFails(c) BY <1>4 DEF ConfirmFails
<1>5. CASE ConfirmPoisons(c)
  BY <1>5 DEF ConfirmPoisons, StrategyStates, ActiveStates
<1> QED BY <1>1, <1>2, <1>3, <1>4, <1>5 DEF RequestStep

\* Steps of the exchanges.
LEMMA TypeExchangeStep ==
    ASSUME TypeInv, NEW role \in Roles, ExchangeStep(role)
    PROVE  TypeInv'
<1> USE DEF TypeInv, TypeOK, db, ExchangeStates, TerminalStatuses
<1>1. CASE Accept(role) BY <1>1 DEF Accept
<1>2. CASE Lose(role) BY <1>2 DEF Lose
<1>3. CASE Fill(role)
  <2>1. ex[role].filled + 1 \in 0 .. Qty BY <1>3, QtyAssumption DEF Fill
  <2> QED BY <1>3, <2>1 DEF Fill
<1>4. CASE Finish(role) BY <1>4 DEF Finish
<1> QED BY <1>1, <1>2, <1>3, <1>4 DEF ExchangeStep

\* Steps of the monitor's timer and of the environment.
LEMMA TypeEnvironmentStep ==
    ASSUME TypeInv, MonitorTick \/ PoisonedElsewhere \/ Crash \/ Heal
    PROVE  TypeInv'
<1> USE DEF TypeInv, TypeOK, db, market
<1>1. CASE MonitorTick
  <2>1. "monitor" \in Runners BY DEF Runners
  <2>2. [job["monitor"] EXCEPT !.pc = "ready"] \in Job BY <2>1 DEF Job, Pcs
  <2>3. JobPlanned([job["monitor"] EXCEPT !.pc = "ready"], orders)
    BY <2>1 DEF Job, JobPlanned
  <2> QED BY <1>1, <2>1, <2>2, <2>3 DEF MonitorTick
<1>2. CASE PoisonedElsewhere BY <1>2 DEF PoisonedElsewhere
<1>3. CASE Crash
  <2>1. crashes' \in 0 .. MaxCrashes BY <1>3, CrashAssumption DEF Crash
  <2>2. job' \in [Runners -> Job] /\ \A r \in Runners : JobPlanned(job'[r], orders)
    BY <1>3, IdleJobType DEF Crash
  <2> QED BY <1>3, <2>1, <2>2 DEF Crash
<1>4. CASE Heal BY <1>4 DEF Heal
<1> QED BY <1>1, <1>2, <1>3, <1>4

\* A runner's step that leaves rows, exchanges and the environment alone.
LEMMA TypeContinue ==
    ASSUME TypeInv, NEW r \in Runners, NEW j \in Job, Continue(r, j), JobPlanned(j, orders),
           state' \in StrategyStates, failure' \in FailureCodes \cup {"none"},
           UNCHANGED <<mode, orders, market, poisoned, req, crashes, calm>>
    PROVE  TypeInv'
<1>1. orders' \in OrderTable /\ Planned(orders) \subseteq Planned(orders')
      /\ JobPlanned(j, orders')
  BY DEF TypeInv, TypeOK
<1>2. /\ job' \in [Runners -> Job]
      /\ lock' \in Runners \cup Requests \cup {NoOwner}
      /\ \A q \in Runners : JobPlanned(job'[q], orders')
  BY <1>1, RunnerContinues
<1> QED BY <1>1, <1>2 DEF TypeInv, TypeOK, market

\* A runner's step that also writes rows.
LEMMA TypeContinueWithRows ==
    ASSUME TypeInv, NEW r \in Runners, NEW j \in Job, Continue(r, j),
           orders' \in OrderTable, Planned(orders) \subseteq Planned(orders'),
           JobPlanned(j, orders'),
           UNCHANGED <<mode, state, failure, market, poisoned, req, crashes, calm>>
    PROVE  TypeInv'
<1>1. /\ job' \in [Runners -> Job]
      /\ lock' \in Runners \cup Requests \cup {NoOwner}
      /\ \A q \in Runners : JobPlanned(job'[q], orders')
  BY RunnerContinues
<1> QED BY <1>1 DEF TypeInv, TypeOK, market

\* Steps that start, resume or end a run.
LEMMA TypeRunStep ==
    ASSUME TypeInv, NEW r \in Runners,
           StartRefused(r) \/ StartOwned(r) \/ RunAborts(r) \/ Resume(r)
    PROVE  TypeInv'
<1>1. job[r] \in Job /\ JobPlanned(job[r], orders) /\ state \in StrategyStates
      /\ failure \in FailureCodes \cup {"none"}
  BY DEF TypeInv, TypeOK
<1>2. CASE StartRefused(r)
  <2>1. job' \in [Runners -> Job] /\ \A q \in Runners : JobPlanned(job'[q], orders)
    BY <1>2, IdleJobType DEF StartRefused, TypeInv, TypeOK
  <2> QED BY <1>2, <2>1 DEF StartRefused, TypeInv, TypeOK, db, market
<1>3. CASE StartOwned(r)
  <2> DEFINE claimed == IF state = "PENDING_CONFIRMATION" THEN "EXECUTING" ELSE state
  <2>1. claimed \in StrategyStates BY <1>1 DEF StrategyStates, ActiveStates
  <2>2. Continue(r, BeginRun(job[r], claimed)) /\ state' = claimed BY <1>3 DEF StartOwned
  <2>3. /\ BeginRun(job[r], claimed) \in Job
        /\ JobPlanned(BeginRun(job[r], claimed), orders)
    BY <1>1, <2>1, BeginRunType DEF TypeInv
  <2> HIDE DEF claimed
  <2> QED BY <1>1, <1>3, <2>1, <2>2, <2>3, TypeContinue DEF StartOwned
<1>4. CASE RunAborts(r)
  BY <1>1, <1>4, IdleJobType, TypeContinue DEF RunAborts, Return, db
<1>5. CASE Resume(r)
  <2> DEFINE j == [job[r] EXCEPT !.role = "SPOT_MARKET", !.qty = 0]
  <2>0. "SPOT_MARKET" \in Roles /\ 0 \in 0 .. Qty
    BY QtyAssumption DEF Roles, MarketRoles
  <2>1. j \in Job /\ JobPlanned(j, orders)
    BY <1>1, <2>0 DEF Job, JobPlanned
  <2>2. Continue(r, BeginRun(j, state)) BY <1>5 DEF Resume
  <2> HIDE DEF j
  <2>3. BeginRun(j, state) \in Job /\ JobPlanned(BeginRun(j, state), orders)
    BY <1>1, <2>1, BeginRunType DEF TypeInv
  <2> QED BY <1>1, <1>5, <2>2, <2>3, TypeContinue DEF Resume, db
<1> QED BY <1>2, <1>3, <1>4, <1>5

\* Steps that collect evidence: only the row of the order asked about is written.
LEMMA TypeLookupStep ==
    ASSUME TypeInv, NEW r \in Runners,
           LookupUnavailable(r) \/ LookupMissing(r) \/ LookupAnswers(r)
    PROVE  TypeInv'
<1> DEFINE role == FirstRow(job[r].todo, orders)
<1>1. job[r] \in Job /\ JobPlanned(job[r], orders) /\ state \in StrategyStates
      /\ failure \in FailureCodes \cup {"none"} /\ orders \in OrderTable /\ TypeOK
  BY DEF TypeInv, TypeOK
<1>2. job[r].pc = "lookup"
  BY DEF LookupUnavailable, LookupMissing, LookupAnswers
<1>3. role \in Planned(orders) /\ role \in Roles /\ orders[role] \in OrderRow
  BY <1>1, <1>2, FirstRowIn, PlannedRow DEF JobPlanned
<1>4. CASE LookupUnavailable(r)
  <2>1. Continue(r, AfterLookup(job[r], role, TRUE, orders)) BY <1>4 DEF LookupUnavailable
  <2> HIDE DEF role
  <2>2. /\ AfterLookup(job[r], role, TRUE, orders) \in Job
        /\ JobPlanned(AfterLookup(job[r], role, TRUE, orders), orders)
    BY <1>1, AfterLookupType
  <2> QED BY <1>1, <1>4, <2>1, <2>2, TypeContinue DEF LookupUnavailable, db
<1>5. CASE LookupMissing(r)
  <2> DEFINE blocked == MissingOrderBlocks(orders[role])
  <2>1. Continue(r, AfterLookup(job[r], role, blocked, orders)) BY <1>5 DEF LookupMissing
  <2>2. blocked \in BOOLEAN BY DEF MissingOrderBlocks
  <2> HIDE DEF role, blocked
  <2>3. /\ AfterLookup(job[r], role, blocked, orders) \in Job
        /\ JobPlanned(AfterLookup(job[r], role, blocked, orders), orders)
    BY <1>1, <2>2, AfterLookupType
  <2> QED BY <1>1, <1>5, <2>1, <2>3, TypeContinue DEF LookupMissing, db
<1>6. CASE LookupAnswers(r)
  <2> DEFINE accepted(snap) == AcceptsSnapshot(orders[role], snap)
             table(snap) ==
                 IF accepted(snap)
                 THEN [orders EXCEPT ![role] = Attached(orders[role], snap)] ELSE orders
             blocked(snap) == ~accepted(snap) \/ NotSubmitted(orders, role)
  <2>1. PICK snap \in Snapshots(role) :
            /\ orders' = table(snap)
            /\ Continue(r, AfterLookup(job[r], role, blocked(snap), table(snap)))
    BY <1>6 DEF LookupAnswers
  <2>2. Attached(orders[role], snap) \in OrderRow
    BY <1>1, <1>3, <1>6, SnapshotsType, AttachedType DEF LookupAnswers
  <2>3. table(snap) \in OrderTable /\ Planned(orders) \subseteq Planned(table(snap))
    <3> HIDE DEF role, accepted
    <3>1. CASE accepted(snap) BY <1>1, <1>3, <2>2, <3>1, RowReplaced
    <3>2. CASE ~accepted(snap) BY <1>1, <3>2
    <3> QED BY <3>1, <3>2
  <2>4. blocked(snap) \in BOOLEAN OBVIOUS
  <2>5. JobPlanned(job[r], table(snap)) BY <1>1, <2>3, PlannedGrows
  <2> HIDE DEF role, table, blocked
  <2>6. /\ AfterLookup(job[r], role, blocked(snap), table(snap)) \in Job
        /\ JobPlanned(AfterLookup(job[r], role, blocked(snap), table(snap)), table(snap))
    BY <1>1, <2>3, <2>4, <2>5, AfterLookupType
  <2> QED BY <1>6, <2>1, <2>3, <2>6, TypeContinueWithRows DEF LookupAnswers
<1> QED BY <1>4, <1>5, <1>6

\* Steps that act on a decision.
LEMMA TypeDecideStep ==
    ASSUME TypeInv, NEW r \in Runners,
           \/ DecideNothing(r) \/ DecideTransition(r) \/ DecideResidual(r)
           \/ ResidualNotTradable(r) \/ ResidualTradable(r)
    PROVE  TypeInv'
<1>1. job[r] \in Job /\ JobPlanned(job[r], orders) /\ state \in StrategyStates
      /\ failure \in FailureCodes \cup {"none"} /\ orders \in OrderTable /\ TypeOK
  BY DEF TypeInv, TypeOK
<1>2. VerdictType(Conclusion(r)) BY <1>1, ConclusionType
<1>3. CASE DecideNothing(r)
  BY <1>1, <1>3, IdleJobType, TypeContinue DEF DecideNothing, Return, db
<1>4. CASE DecideTransition(r)
  <2>1. state' \in StrategyStates /\ failure' \in FailureCodes \cup {"none"}
    BY <1>1, <1>2, <1>4, WriteTransitionType DEF DecideTransition, VerdictType
  <2> QED BY <1>4, <2>1, IdleJobType, TypeContinue DEF DecideTransition, Return
<1>5. CASE DecideResidual(r)
  <2> DEFINE j == [job[r] EXCEPT !.pc = "authorize", !.role = Conclusion(r).role,
                                 !.qty = Residual(orders), !.seen = NoOrders]
  <2>1. Continue(r, j) BY <1>5 DEF DecideResidual
  <2>2. Conclusion(r).role \in Roles
    BY <1>2, <1>5 DEF DecideResidual, VerdictType, Roles
  <2>3. Residual(orders) \in 0 .. Qty /\ NoOrders \in OrderTable
    BY <1>1, ResidualType DEF NoOrders, OrderTable
  <2>4. j \in Job /\ JobPlanned(j, orders)
    BY <1>1, <2>2, <2>3 DEF Job, JobPlanned, Pcs
  <2> HIDE DEF j
  <2> QED BY <1>1, <1>5, <2>1, <2>4, TypeContinue DEF DecideResidual, db
<1>6. CASE ResidualNotTradable(r)
  <2>1. state' \in StrategyStates /\ failure' \in FailureCodes \cup {"none"}
    BY <1>1, <1>6, WriteTransitionType
       DEF ResidualNotTradable, FailureCodes, SubmissionCodes
  <2> QED BY <1>6, <2>1, IdleJobType, TypeContinue DEF ResidualNotTradable, Return
<1>7. CASE ResidualTradable(r)
  <2>1. [job[r] EXCEPT !.pc = "guard_gtc"] \in Job
        /\ JobPlanned([job[r] EXCEPT !.pc = "guard_gtc"], orders)
    BY <1>1 DEF Job, JobPlanned, Pcs
  <2> QED BY <1>1, <1>7, <2>1, IdleJobType, TypeContinue DEF ResidualTradable, db
<1> QED BY <1>3, <1>4, <1>5, <1>6, <1>7

\* Steps that plan orders.
LEMMA TypePlanStep ==
    ASSUME TypeInv, NEW r \in Runners, PlanMarkets(r) \/ GuardGtcPasses(r) \/ PlanGtc(r)
    PROVE  TypeInv'
<1>1. job[r] \in Job /\ JobPlanned(job[r], orders) /\ state \in StrategyStates
      /\ failure \in FailureCodes \cup {"none"} /\ orders \in OrderTable /\ TypeOK
  BY DEF TypeInv, TypeOK
<1>2. CASE PlanMarkets(r)
  <2>1. CASE orders' = InitialPlan /\ Continue(r, Submitting(job[r], InitialRoles, 2))
    <3>1. JobPlanned(job[r], InitialPlan) BY <1>1, InitialPlanType, PlannedGrows
    <3>2. /\ Submitting(job[r], InitialRoles, 2) \in Job
          /\ JobPlanned(Submitting(job[r], InitialRoles, 2), InitialPlan)
      BY <1>1, <3>1, InitialPlanType, SubmittingType
    <3> QED BY <1>1, <1>2, <2>1, <3>2, InitialPlanType, TypeContinueWithRows DEF PlanMarkets
  <2>2. CASE UNCHANGED orders /\ Return(r)
    BY <1>1, <1>2, <2>2, IdleJobType, TypeContinue DEF PlanMarkets, Return
  <2> QED BY <1>2, <2>1, <2>2 DEF PlanMarkets
<1>3. CASE GuardGtcPasses(r)
  <2>1. [job[r] EXCEPT !.pc = "price_gtc"] \in Job
        /\ JobPlanned([job[r] EXCEPT !.pc = "price_gtc"], orders)
    BY <1>1 DEF Job, JobPlanned, Pcs
  <2> QED BY <1>1, <1>3, <2>1, IdleJobType, TypeContinue DEF GuardGtcPasses, db
<1>4. CASE PlanGtc(r)
  <2> DEFINE role == job[r].role
             row == NewOrder(NextRow, job[r].qty)
             table == [orders EXCEPT ![role] = row]
  <2>1. CASE orders' = table /\ Continue(r, Submitting(job[r], {role}, 3))
    <3>1. role \in Roles /\ job[r].qty \in 0 .. Qty BY <1>1 DEF Job
    <3>2. NextRow \in Nat BY PlannedCardinality DEF NextRow
    <3>3. row \in OrderRow BY <3>1, <3>2, NewOrderType
    <3>4. /\ table \in OrderTable /\ Planned(orders) \subseteq Planned(table)
          /\ {role} \subseteq Planned(table)
      <4> HIDE DEF row, role
      <4>1. Planned(table) = Planned(orders) \cup {role} /\ table \in OrderTable
        BY <1>1, <3>1, <3>3, RowReplaced
      <4> HIDE DEF table
      <4> QED BY <4>1
    <3> HIDE DEF table, role
    <3>5. JobPlanned(job[r], table) BY <1>1, <3>4, PlannedGrows
    <3>6. /\ Submitting(job[r], {role}, 3) \in Job
          /\ JobPlanned(Submitting(job[r], {role}, 3), table)
      BY <1>1, <3>4, <3>5, SubmittingType
    <3> QED BY <1>4, <2>1, <3>4, <3>6, TypeContinueWithRows DEF PlanGtc
  <2>2. CASE UNCHANGED orders /\ Return(r)
    BY <1>1, <1>4, <2>2, IdleJobType, TypeContinue DEF PlanGtc, Return
  <2> QED BY <1>4, <2>1, <2>2 DEF PlanGtc
<1> QED BY <1>2, <1>3, <1>4

\* A submission that settles: no other field of its runner's job changes.
LEMMA TypeSubmission ==
    ASSUME TypeInv, NEW r \in Runners, NEW role \in Roles, NEW sub \in Submissions,
           job[r].sub[role] # "none",
           job' = [job EXCEPT ![r].sub[role] = sub],
           orders' \in OrderTable, Planned(orders) \subseteq Planned(orders')
    PROVE  job' \in [Runners -> Job] /\ \A q \in Runners : JobPlanned(job'[q], orders')
<1> DEFINE j == [job[r] EXCEPT !.sub = [job[r].sub EXCEPT ![role] = sub]]
<1>1. job \in [Runners -> Job] /\ \A q \in Runners : JobPlanned(job[q], orders)
  BY DEF TypeInv, TypeOK
<1>2. job' = [job EXCEPT ![r] = j] BY <1>1
<1>3. j \in Job BY <1>1 DEF Job
<1>4. JobPlanned(j, orders)
  <2>1. \A x \in Roles : j.sub[x] # "none" => job[r].sub[x] # "none"
    BY <1>1 DEF Job
  <2>2. j.pc = job[r].pc /\ j.todo = job[r].todo BY <1>1 DEF Job
  <2> QED BY <1>1, <2>1, <2>2 DEF JobPlanned
<1> HIDE DEF j
<1>5. job' \in [Runners -> Job] BY <1>1, <1>2, <1>3
<1>6. ASSUME NEW q \in Runners PROVE JobPlanned(job'[q], orders')
  <2>1. JobPlanned(job'[q], orders) BY <1>1, <1>2, <1>4
  <2> QED BY <2>1, PlannedGrows
<1> QED BY <1>5, <1>6

LEMMA TypeSubmissionStep ==
    ASSUME TypeInv, NEW r \in Runners, NEW role \in Roles,
           PrepareFails(r, role) \/ SendOrder(r, role) \/ SubmissionSettles(r, role)
    PROVE  TypeInv'
<1>1. job[r].sub[role] # "none"
  BY DEF PrepareFails, SendOrder, SubmissionSettles
<1>2. role \in Planned(orders) /\ orders \in OrderTable BY <1>1 DEF TypeInv, JobPlanned, TypeOK
<1>3. orders[role] \in OrderRow BY <1>2, PlannedRow
<1>4. CASE PrepareFails(r, role)
  <2>1. \/ orders' = orders
        \/ \E code \in SubmissionCodes :
              orders' = [orders EXCEPT ![role] = MarkedNotSubmitted(orders[role], code)]
    BY <1>4 DEF PrepareFails, SubmissionCodes
  <2>2. orders' \in OrderTable /\ Planned(orders) \subseteq Planned(orders')
    BY <1>2, <1>3, <2>1, MarkedType, RowReplaced
  <2>3. job' \in [Runners -> Job] /\ \A q \in Runners : JobPlanned(job'[q], orders')
    BY <1>1, <1>4, <2>2, TypeSubmission DEF PrepareFails, Submissions
  <2> QED BY <1>4, <2>2, <2>3 DEF PrepareFails, TypeInv, TypeOK, market
<1>5. CASE SendOrder(r, role)
  <2>1. job' \in [Runners -> Job] /\ \A q \in Runners : JobPlanned(job'[q], orders')
    BY <1>1, <1>2, <1>5, TypeSubmission DEF SendOrder, Submissions, db
  <2>2. sends' \in [Roles -> Nat] BY <1>5 DEF SendOrder, TypeInv, TypeOK
  <2>3. ex' \in [Roles -> [st : ExchangeStates, qty : 0 .. Qty, filled : 0 .. Qty]]
    <3> DEFINE new == [ex[role] EXCEPT !.st = "inflight", !.qty = orders[role].qty]
    <3>1. ex \in [Roles -> [st : ExchangeStates, qty : 0 .. Qty, filled : 0 .. Qty]]
      BY DEF TypeInv, TypeOK
    <3>2. ex' = ex \/ ex' = [ex EXCEPT ![role] = new] BY <1>5, <3>1 DEF SendOrder
    <3>3. new \in [st : ExchangeStates, qty : 0 .. Qty, filled : 0 .. Qty]
      BY <1>3, <3>1 DEF OrderRow, ExchangeStates
    <3> HIDE DEF new
    <3> QED BY <3>1, <3>2, <3>3
  <2> QED BY <1>5, <2>1, <2>2, <2>3 DEF SendOrder, TypeInv, TypeOK, db
<1>6. CASE SubmissionSettles(r, role)
  <2>1. job' \in [Runners -> Job] /\ \A q \in Runners : JobPlanned(job'[q], orders')
    BY <1>1, <1>2, <1>6, TypeSubmission DEF SubmissionSettles, Submissions, db
  <2> QED BY <1>6, <2>1 DEF SubmissionSettles, TypeInv, TypeOK, db, market
<1> QED BY <1>4, <1>5, <1>6

LEMMA TypeStep == TypeInv /\ [Next]_vars => TypeInv'
<1> SUFFICES ASSUME TypeInv, [Next]_vars PROVE TypeInv' OBVIOUS
<1>1. CASE \E c \in Requests : RequestStep(c) BY <1>1, TypeRequestStep
<1>2. CASE \E r \in Runners : RunnerStep(r)
  BY <1>2, TypeRunStep, TypeLookupStep, TypeDecideStep, TypePlanStep, TypeSubmissionStep
     DEF RunnerStep
<1>3. CASE \E role \in Roles : ExchangeStep(role) BY <1>3, TypeExchangeStep
<1>4. CASE MonitorTick \/ PoisonedElsewhere \/ Crash \/ Heal BY <1>4, TypeEnvironmentStep
<1>5. CASE UNCHANGED vars BY <1>5 DEF vars, TypeInv, TypeOK
<1> QED BY <1>1, <1>2, <1>3, <1>4, <1>5 DEF Next

\* Every record the program keeps stays well formed: in particular a lookup and a
\* submission always find the row they are about, a hedging order is never for
\* more than the strategy's quantity, and no decision produces an unknown state.
THEOREM TypeCorrect == Spec => []TypeOK
<1>1. TypeInv => TypeOK BY DEF TypeInv
<1> QED BY TypeInit, TypeStep, <1>1, PTL DEF Spec

-----------------------------------------------------------------------------
(* One operation at a time, and what follows from it: no execution without *)
(* a confirmation, no order submitted twice, and no row that denies an     *)
(* order that was sent.                                                    *)

\* Whoever is busy owns the operation.
Ownership == \A a \in Runners \cup Requests : Busy(a) => lock = a

\* What is known of a role while and after it is submitted.
SubmissionsKnown ==
    /\ \A r \in Runners, x \in Roles : job[r].sub[x] # "none" => job[r].pc = "submitting"
    /\ \A r \in Runners, x \in Roles : job[r].sub[x] = "preparing" =>
          sends[x] = 0 /\ ~NotSubmitted(orders, x)
    /\ \A x \in Roles : sends[x] <= 1 /\ (sends[x] > 0 => x \in Planned(orders))
    /\ NotSubmittedIsTrue

SubmissionInv == TypeInv /\ Ownership /\ ExecutionIsConfirmed /\ SubmissionsKnown

-----------------------------------------------------------------------------
(* Jobs that start, resume or go on have nothing in flight *)

Quiet(j) == \A x \in Roles : j.sub[x] = "none"

LEMMA IdleQuiet == Quiet(IdleJob) /\ IdleJob.pc = "idle"
BY DEF Quiet, IdleJob, NoSubmission

LEMMA NoSubmissionQuiet ==
    ASSUME NEW j, j.sub = NoSubmission
    PROVE  Quiet(j)
BY DEF Quiet, NoSubmission

LEMMA RunnerQuiet ==
    ASSUME SubmissionInv, NEW r \in Runners, job[r].pc # "submitting"
    PROVE  Quiet(job[r])
BY DEF SubmissionInv, SubmissionsKnown, Quiet

LEMMA BeginRunQuiet ==
    ASSUME NEW j \in Job, Quiet(j), NEW st
    PROVE  Quiet(BeginRun(j, st)) /\ BeginRun(j, st).pc # "submitting"
<1>1. CASE BeginRun(j, st) = IdleJob BY <1>1, IdleQuiet
<1>2. CASE BeginRun(j, st) = [j EXCEPT !.pc = "guard_market"] BY <1>2 DEF Job, Quiet
<1>3. CASE BeginRun(j, st) = [j EXCEPT !.pc = "lookup", !.entered = st,
                                       !.todo = Planned(orders), !.pending = FALSE]
  BY <1>3 DEF Job, Quiet
<1> QED BY <1>1, <1>2, <1>3 DEF BeginRun

LEMMA AfterLookupQuiet ==
    ASSUME NEW j \in Job, Quiet(j), j.pc # "submitting", NEW role, NEW blocked, NEW table
    PROVE  /\ Quiet(AfterLookup(j, role, blocked, table))
           /\ AfterLookup(j, role, blocked, table).pc # "submitting"
<1> DEFINE k == AfterLookup(j, role, blocked, table)
<1>1. CASE k = IdleJob BY <1>1, IdleQuiet
<1>2. CASE k = [j EXCEPT !.todo = j.todo \ {role}, !.pending = j.pending \/ blocked]
  BY <1>2 DEF Job, Quiet
<1>3. CASE k = [j EXCEPT !.pc = "decide", !.todo = {}, !.seen = table]
  BY <1>3 DEF Job, Quiet
<1> QED BY <1>1, <1>2, <1>3 DEF AfterLookup

-----------------------------------------------------------------------------
(* Frames *)

\* Whatever starts no submission and denies no further order.
LEMMA SubmissionsFrame ==
    ASSUME SubmissionsKnown, sends' = sends,
           Planned(orders) \subseteq Planned(orders'),
           \A x \in Planned(orders') : NotSubmitted(orders', x) =>
               x \in Planned(orders) /\ NotSubmitted(orders, x),
           \A r \in Runners, x \in Roles : job[r].sub[x] # "none" => x \in Planned(orders),
           \A r \in Runners, x \in Roles : job'[r].sub[x] # "none" =>
               job'[r].sub[x] = job[r].sub[x] /\ job'[r].pc = job[r].pc
    PROVE  SubmissionsKnown'
<1>1. ASSUME NEW r \in Runners, NEW x \in Roles, job'[r].sub[x] # "none"
      PROVE  job'[r].pc = "submitting"
  BY <1>1 DEF SubmissionsKnown
<1>2. ASSUME NEW r \in Runners, NEW x \in Roles, job'[r].sub[x] = "preparing"
      PROVE  sends'[x] = 0 /\ ~NotSubmitted(orders', x)
  <2>1. job[r].sub[x] = "preparing" /\ x \in Planned(orders) BY <1>2
  <2> QED BY <2>1 DEF SubmissionsKnown
<1>3. \A x \in Roles : sends'[x] <= 1 /\ (sends'[x] > 0 => x \in Planned(orders'))
  BY DEF SubmissionsKnown
<1>4. NotSubmittedIsTrue'
  <2>1. SUFFICES ASSUME NEW x \in Planned(orders'), NotSubmitted(orders', x)
                 PROVE  sends'[x] = 0 /\ \A r \in Runners : job'[r].sub[x] = "none"
    BY DEF NotSubmittedIsTrue
  <2>2. x \in Roles /\ x \in Planned(orders) /\ NotSubmitted(orders, x)
    BY <2>1 DEF Planned
  <2>3. sends[x] = 0 /\ \A r \in Runners : job[r].sub[x] = "none"
    BY <2>2 DEF SubmissionsKnown, NotSubmittedIsTrue
  <2> QED BY <2>2, <2>3
<1> QED BY <1>1, <1>2, <1>3, <1>4 DEF SubmissionsKnown

\* A runner may go on when nobody else owns the operation.
LEMMA OwnershipContinues ==
    ASSUME TypeInv, Ownership, NEW r \in Runners, NEW j, Continue(r, j),
           lock \in {r, NoOwner}, req' = req
    PROVE  Ownership'
<1>1. SUFFICES ASSUME NEW a \in Runners \cup Requests, Busy(a)' PROVE lock' = a
  BY DEF Ownership
<1>2. job' = [job EXCEPT ![r] = j] /\ job \in [Runners -> Job]
  BY DEF Continue, TypeInv, TypeOK
<1>3. CASE a = r
  <2>1. j.pc # "idle" BY <1>1, <1>2, <1>3 DEF Busy
  <2> QED BY <1>3, <2>1 DEF Continue
<1>4. CASE a # r
  <2>1. Busy(a) BY <1>1, <1>2, <1>4 DEF Busy
  <2> QED BY <1>4, <2>1, OwnerAssumption DEF Ownership
<1> QED BY <1>3, <1>4

LEMMA ConfirmedContinues ==
    ASSUME TypeInv, ExecutionIsConfirmed, NEW r \in Runners, NEW j, Continue(r, j),
           job[r].pc # "idle",
           state' \notin {"PENDING_CONFIRMATION", "PREFLIGHT_INVALIDATED"}
    PROVE  ExecutionIsConfirmed'
BY DEF Continue, TypeInv, TypeOK, ExecutionIsConfirmed

\* A runner's step that has nothing in flight before or after it.
LEMMA QuietContinues ==
    ASSUME SubmissionInv, NEW r \in Runners, NEW j, Continue(r, j), Quiet(j),
           job[r].pc # "idle", lock \in {r, NoOwner}, req' = req, sends' = sends,
           Planned(orders) \subseteq Planned(orders'),
           \A x \in Planned(orders') : NotSubmitted(orders', x) =>
               x \in Planned(orders) /\ NotSubmitted(orders, x),
           state' \notin {"PENDING_CONFIRMATION", "PREFLIGHT_INVALIDATED"}
    PROVE  Ownership' /\ ExecutionIsConfirmed' /\ SubmissionsKnown'
<1>1. Ownership' BY OwnershipContinues DEF SubmissionInv
<1>2. ExecutionIsConfirmed' BY ConfirmedContinues DEF SubmissionInv
<1>3. job' = [job EXCEPT ![r] = j] /\ job \in [Runners -> Job]
  BY DEF Continue, SubmissionInv, TypeInv, TypeOK
<1>4. \A q \in Runners, x \in Roles : job'[q].sub[x] # "none" => job'[q] = job[q]
  BY <1>3 DEF Quiet
<1>5. \A q \in Runners, x \in Roles : job[q].sub[x] # "none" => x \in Planned(orders)
  BY DEF SubmissionInv, TypeInv, JobPlanned
<1>6. SubmissionsKnown' BY <1>4, <1>5, SubmissionsFrame DEF SubmissionInv
<1> QED BY <1>1, <1>2, <1>6

-----------------------------------------------------------------------------
(* The invariant holds initially and is preserved *)

LEMMA SubmissionInit == Init => SubmissionInv
<1> SUFFICES ASSUME Init PROVE SubmissionInv OBVIOUS
<1>1. TypeInv BY TypeInit
<1>2. \A r \in Runners : job[r] = IdleJob BY DEF Init
<1>3. \A a \in Runners \cup Requests : ~Busy(a) BY <1>2, IdleQuiet DEF Init, Busy
<1>4. ExecutionIsConfirmed BY <1>2, IdleQuiet DEF ExecutionIsConfirmed
<1>5. Planned(orders) = {} BY DEF Init, NoOrders, Planned
<1>6. \A x \in Roles : sends[x] = 0 BY DEF Init
<1>7. SubmissionsKnown
  BY <1>2, <1>5, <1>6, IdleQuiet DEF SubmissionsKnown, Quiet, NotSubmittedIsTrue
<1> QED BY <1>1, <1>3, <1>4, <1>7 DEF SubmissionInv, Ownership

\* A request gives the operation back; nobody else can have had it.
LEMMA OwnershipReleased ==
    ASSUME TypeInv, Ownership, NEW c \in Requests, req[c] = "preflight", ReleaseRequest(c),
           \A r \in Runners : job'[r].pc \in {"idle", "ready"} \/ job'[r].pc = job[r].pc
    PROVE  Ownership'
<1>1. lock = c BY OwnerAssumption DEF Ownership, Busy
<1>2. SUFFICES ASSUME NEW a \in Runners \cup Requests, Busy(a)' PROVE FALSE
  BY DEF Ownership
<1>3. Busy(a) /\ a # c
  BY <1>2, OwnerAssumption DEF Busy, ReleaseRequest, TypeInv, TypeOK
<1> QED BY <1>1, <1>3 DEF Ownership

LEMMA SubmissionRequestStep ==
    ASSUME SubmissionInv, NEW c \in Requests, RequestStep(c)
    PROVE  Ownership' /\ ExecutionIsConfirmed' /\ SubmissionsKnown'
<1>1. TypeInv /\ Ownership /\ ExecutionIsConfirmed /\ SubmissionsKnown
  BY DEF SubmissionInv
<1>2. \A q \in Runners, x \in Roles : job[q].sub[x] # "none" => x \in Planned(orders)
  BY <1>1 DEF TypeInv, JobPlanned
<1>3. CASE ConfirmAcquires(c)
  <2>1. Ownership'
    <3>1. lock = NoOwner /\ lock' = c /\ job' = job /\ req' = [req EXCEPT ![c] = "preflight"]
      BY <1>3 DEF ConfirmAcquires, TryAcquire
    <3>2. SUFFICES ASSUME NEW a \in Runners \cup Requests, Busy(a)' PROVE a = c
      BY <3>1 DEF Ownership
    <3>3. a # c => Busy(a) BY <3>1, <3>2 DEF Busy, TypeInv, TypeOK
    <3> QED BY <1>1, <3>1, <3>3, OwnerAssumption DEF Ownership
  <2>2. SubmissionsKnown'
    BY <1>1, <1>2, <1>3, SubmissionsFrame DEF ConfirmAcquires, db, market
  <2>3. ExecutionIsConfirmed' BY <1>1, <1>3 DEF ConfirmAcquires, db, ExecutionIsConfirmed
  <2> QED BY <2>1, <2>2, <2>3
<1>4. CASE ConfirmCommits(c)
  <2>1. \A q \in Runners : job[q].pc = "idle"
    BY <1>1, <1>4 DEF ConfirmCommits, MayWriteConfirmation, ExecutionIsConfirmed
  <2>2. \A q \in Runners : job'[q] = job[q] \/ (Quiet(job'[q]) /\ job'[q].pc = "ready")
    <3>1. Quiet([IdleJob EXCEPT !.pc = "ready"])
      BY IdleQuiet, IdleJobType DEF Quiet, Job
    <3>2. [IdleJob EXCEPT !.pc = "ready"].pc = "ready" BY IdleJobType DEF Job
    <3> QED BY <1>1, <1>4, <3>1, <3>2 DEF ConfirmCommits, Enqueued, TypeInv, TypeOK
  <2>3. Ownership'
    BY <1>1, <1>4, <2>2, OwnershipReleased DEF ConfirmCommits
  <2>4. \A q \in Runners, x \in Roles : job'[q].sub[x] # "none" => job'[q] = job[q]
    BY <2>2 DEF Quiet
  <2>5. SubmissionsKnown'
    BY <1>1, <1>2, <1>4, <2>4, SubmissionsFrame DEF ConfirmCommits, market
  <2>6. ExecutionIsConfirmed' BY <1>4 DEF ConfirmCommits, ExecutionIsConfirmed
  <2> QED BY <2>3, <2>5, <2>6
<1>5. CASE ConfirmInvalidates(c) \/ ConfirmFails(c) \/ ConfirmPoisons(c)
  <2>1. /\ req[c] = "preflight" /\ ReleaseRequest(c) /\ job' = job
        /\ UNCHANGED <<orders, sends>>
    BY <1>5 DEF ConfirmInvalidates, ConfirmFails, ConfirmPoisons, db, market
  <2>2. Ownership' BY <1>1, <2>1, OwnershipReleased
  <2>3. SubmissionsKnown' BY <1>1, <1>2, <2>1, SubmissionsFrame
  <2>4. state' = state \/ MayWriteConfirmation
    BY <1>5 DEF ConfirmInvalidates, ConfirmFails, ConfirmPoisons, db
  <2>5. ExecutionIsConfirmed'
    BY <1>1, <2>1, <2>4 DEF MayWriteConfirmation, ExecutionIsConfirmed
  <2> QED BY <2>2, <2>3, <2>5
<1> QED BY <1>3, <1>4, <1>5 DEF RequestStep

LEMMA SubmissionEnvironmentStep ==
    ASSUME SubmissionInv,
           \/ MonitorTick \/ PoisonedElsewhere \/ Crash \/ Heal
           \/ \E role \in Roles : ExchangeStep(role)
    PROVE  Ownership' /\ ExecutionIsConfirmed' /\ SubmissionsKnown'
<1>1. TypeInv /\ Ownership /\ ExecutionIsConfirmed /\ SubmissionsKnown
  BY DEF SubmissionInv
<1>2. \A q \in Runners, x \in Roles : job[q].sub[x] # "none" => x \in Planned(orders)
  BY <1>1 DEF TypeInv, JobPlanned
<1>3. CASE MonitorTick
  <2>1. /\ \A q \in Runners : job'[q].pc = job[q].pc \/ job'[q].pc = "ready"
        /\ \A q \in Runners : job'[q].sub = job[q].sub
        /\ \A q \in Runners : job'[q].pc = job[q].pc \/ job[q].pc = "idle"
    BY <1>1, <1>3 DEF MonitorTick, TypeInv, TypeOK, Job, Runners
  <2>2. Ownership' BY <1>1, <1>3, <2>1 DEF MonitorTick, Ownership, Busy
  <2>3. \A q \in Runners, x \in Roles : job[q].sub[x] # "none" => job[q].pc # "idle"
    BY <1>1 DEF SubmissionsKnown
  <2>4. SubmissionsKnown'
    BY <1>1, <1>2, <1>3, <2>1, <2>3, SubmissionsFrame DEF MonitorTick, db, market
  <2>5. ExecutionIsConfirmed'
    BY <1>3 DEF MonitorTick, db, ExecutionIsConfirmed, ActiveStates
  <2> QED BY <2>2, <2>4, <2>5
<1>4. CASE Crash
  <2>1. \A q \in Runners : job'[q] = IdleJob BY <1>4 DEF Crash
  <2>2. Ownership' BY <1>4, <2>1, IdleQuiet DEF Crash, Ownership, Busy
  <2>3. SubmissionsKnown'
    BY <1>1, <1>2, <1>4, <2>1, IdleQuiet, SubmissionsFrame DEF Crash, db, market, Quiet
  <2>4. ExecutionIsConfirmed' BY <2>1, IdleQuiet DEF ExecutionIsConfirmed
  <2> QED BY <2>2, <2>3, <2>4
<1>5. CASE PoisonedElsewhere \/ Heal \/ \E role \in Roles : ExchangeStep(role)
  <2>1. UNCHANGED <<state, orders, sends, lock, job, req>>
    BY <1>5 DEF PoisonedElsewhere, Heal, ExchangeStep, Accept, Lose, Fill, Finish, db, market
  <2>2. Ownership' BY <1>1, <2>1 DEF Ownership, Busy
  <2>3. SubmissionsKnown' BY <1>1, <1>2, <2>1, SubmissionsFrame
  <2>4. ExecutionIsConfirmed' BY <1>1, <2>1 DEF ExecutionIsConfirmed
  <2> QED BY <2>2, <2>3, <2>4
<1> QED BY <1>3, <1>4, <1>5

\* Runner steps with nothing in flight: only lookups write rows, and a row they
\* write has been observed.
LEMMA SubmissionQuietStep ==
    ASSUME SubmissionInv, NEW r \in Runners,
           \/ StartOwned(r) \/ RunAborts(r) \/ Resume(r)
           \/ LookupUnavailable(r) \/ LookupMissing(r) \/ LookupAnswers(r)
           \/ DecideNothing(r) \/ DecideTransition(r) \/ DecideResidual(r)
           \/ ResidualNotTradable(r) \/ ResidualTradable(r) \/ GuardGtcPasses(r)
    PROVE  Ownership' /\ ExecutionIsConfirmed' /\ SubmissionsKnown'
<1>1. TypeInv /\ Ownership /\ ExecutionIsConfirmed /\ job[r] \in Job
  BY DEF SubmissionInv, TypeInv, TypeOK
<1>2. job[r].pc # "idle" => state \notin {"PENDING_CONFIRMATION", "PREFLIGHT_INVALIDATED"}
  BY <1>1 DEF ExecutionIsConfirmed
<1>3. job[r].pc \notin {"idle", "ready"} => lock = r
  BY <1>1 DEF Ownership, Busy
<1>4. job[r].pc # "submitting" => Quiet(job[r]) BY RunnerQuiet
<1>5. Quiet(IdleJob) BY IdleQuiet
<1>6. CASE StartOwned(r)
  <2> DEFINE claimed == IF state = "PENDING_CONFIRMATION" THEN "EXECUTING" ELSE state
             j == BeginRun(job[r], claimed)
  <2>1. /\ job[r].pc = "ready" /\ lock = NoOwner /\ Continue(r, j) /\ state' = claimed
        /\ UNCHANGED <<orders, sends, req>>
    BY <1>6 DEF StartOwned, TryAcquire, market
  <2>2. Quiet(j) BY <1>1, <1>4, <2>1, BeginRunQuiet
  <2>3. claimed \notin {"PENDING_CONFIRMATION", "PREFLIGHT_INVALIDATED"} BY <1>2, <2>1
  <2> HIDE DEF claimed, j
  <2> QED BY <2>1, <2>2, <2>3, QuietContinues
<1>7. CASE Resume(r)
  <2> DEFINE k == [job[r] EXCEPT !.role = "SPOT_MARKET", !.qty = 0]
  <2>1. /\ job[r].pc = "submitting" /\ job[r].sub = NoSubmission
        /\ Continue(r, BeginRun(k, state)) /\ UNCHANGED <<state, orders, sends, req>>
    BY <1>7 DEF Resume, db, market
  <2>2. "SPOT_MARKET" \in Roles /\ 0 \in 0 .. Qty
    BY QtyAssumption DEF Roles, MarketRoles
  <2>3. k \in Job /\ k.sub = NoSubmission BY <1>1, <2>1, <2>2 DEF Job
  <2> HIDE DEF k
  <2>4. Quiet(BeginRun(k, state)) BY <2>3, NoSubmissionQuiet, BeginRunQuiet
  <2> QED BY <1>2, <1>3, <2>1, <2>4, QuietContinues
<1>8. CASE LookupUnavailable(r) \/ LookupMissing(r)
  <2> DEFINE role == FirstRow(job[r].todo, orders)
  <2>1. PICK blocked : Continue(r, AfterLookup(job[r], role, blocked, orders))
    BY <1>8 DEF LookupUnavailable, LookupMissing
  <2>2. job[r].pc = "lookup" /\ UNCHANGED <<state, orders, sends, req>>
    BY <1>8 DEF LookupUnavailable, LookupMissing, db, market
  <2> HIDE DEF role
  <2>3. Quiet(AfterLookup(job[r], role, blocked, orders))
    BY <1>1, <1>4, <2>2, AfterLookupQuiet
  <2> QED BY <1>2, <1>3, <2>1, <2>2, <2>3, QuietContinues
<1>9. CASE LookupAnswers(r)
  <2> DEFINE role == FirstRow(job[r].todo, orders)
  <2>1. PICK snap \in Snapshots(role), blocked \in BOOLEAN :
            /\ \/ orders' = orders
               \/ orders' = [orders EXCEPT ![role] = Attached(orders[role], snap)]
            /\ Continue(r, AfterLookup(job[r], role, blocked, orders'))
    BY <1>9 DEF LookupAnswers
  <2>2. job[r].pc = "lookup" /\ UNCHANGED <<state, sends, req>> /\ Visible(role)
    BY <1>9 DEF LookupAnswers, market
  <2>3. role \in Planned(orders) /\ orders[role] \in OrderRow /\ role \in Roles
        /\ orders \in OrderTable
    BY <1>1, <2>2, FirstRowIn, PlannedRow DEF TypeInv, TypeOK, JobPlanned
  <2> HIDE DEF role
  <2>4. /\ Attached(orders[role], snap) \in OrderRow
        /\ Attached(orders[role], snap).disposition = "REMOTE_OBSERVED"
    <3>1. snap \in Snapshot BY <1>1, <2>1, <2>2, <2>3, SnapshotsType DEF TypeInv
    <3> QED BY <2>3, <3>1, AttachedType DEF Attached, OrderRow
  <2>5. Planned(orders) \subseteq Planned(orders')
    BY <2>1, <2>3, <2>4, RowReplaced
  <2>6. \A x \in Planned(orders') : NotSubmitted(orders', x) =>
            x \in Planned(orders) /\ NotSubmitted(orders, x)
    BY <2>1, <2>3, <2>4 DEF NotSubmitted, Planned, OrderTable
  <2>7. Quiet(AfterLookup(job[r], role, blocked, orders'))
    BY <1>1, <1>4, <2>2, AfterLookupQuiet
  <2> QED BY <1>2, <1>3, <2>1, <2>2, <2>5, <2>6, <2>7, QuietContinues
<1>10. CASE \/ RunAborts(r) \/ DecideNothing(r) \/ DecideTransition(r)
            \/ ResidualNotTradable(r)
  <2>1. /\ job[r].pc \notin {"idle", "ready"} /\ Continue(r, IdleJob)
        /\ UNCHANGED <<orders, sends, req>>
    BY <1>10
       DEF RunAborts, DecideNothing, DecideTransition, ResidualNotTradable, Return, db, market
  <2>2. state' = state \/ state' \in AllowedTransitions(job[r].entered)
    BY <1>10
       DEF RunAborts, DecideNothing, DecideTransition, ResidualNotTradable, WriteTransition, db
  <2>3. state' \notin {"PENDING_CONFIRMATION", "PREFLIGHT_INVALIDATED"}
    BY <1>2, <2>1, <2>2 DEF AllowedTransitions
  <2> QED BY <1>3, <1>5, <2>1, <2>3, QuietContinues
<1>11. CASE DecideResidual(r) \/ ResidualTradable(r) \/ GuardGtcPasses(r)
  <2>1. /\ job[r].pc \notin {"idle", "ready", "submitting"}
        /\ UNCHANGED <<state, orders, sends, req>>
    BY <1>11 DEF DecideResidual, ResidualTradable, GuardGtcPasses, db, market
  <2>2. \E j : Continue(r, j) /\ Quiet(j)
    <3> DEFINE residual == [job[r] EXCEPT !.pc = "authorize", !.role = Conclusion(r).role,
                                          !.qty = Residual(orders), !.seen = NoOrders]
               guard == [job[r] EXCEPT !.pc = "guard_gtc"]
               price == [job[r] EXCEPT !.pc = "price_gtc"]
    <3>1. residual.sub = job[r].sub /\ guard.sub = job[r].sub /\ price.sub = job[r].sub
      BY <1>1 DEF Job
    <3>2. Quiet(residual) /\ Quiet(guard) /\ Quiet(price)
      BY <1>4, <2>1, <3>1 DEF Quiet
    <3>3. \/ Continue(r, residual) \/ Continue(r, guard) \/ Continue(r, price)
          \/ Continue(r, IdleJob)
      BY <1>11 DEF DecideResidual, ResidualTradable, GuardGtcPasses
    <3> QED BY <1>5, <3>2, <3>3
  <2> QED BY <1>2, <1>3, <2>1, <2>2, QuietContinues
<1> QED BY <1>6, <1>7, <1>8, <1>9, <1>10, <1>11

\* Only the owner of the operation has anything in flight.
LEMMA OneSubmitter ==
    ASSUME SubmissionInv, NEW r \in Runners, job[r].pc \notin {"idle", "ready"},
           NEW q \in Runners, q # r
    PROVE  Quiet(job[q])
<1>1. lock = r /\ (job[q].pc = "submitting" => lock = q)
  BY DEF SubmissionInv, Ownership, Busy
<1> QED BY <1>1, RunnerQuiet

\* Planning rows and handing them over in one step: none of them was sent before.
LEMMA PlanContinues ==
    ASSUME SubmissionInv, NEW r \in Runners, NEW roles, NEW phase,
           job[r].pc \notin {"idle", "ready"},
           Continue(r, Submitting(job[r], roles, phase)),
           UNCHANGED <<state, sends, req>>,
           Planned(orders) \subseteq Planned(orders'), roles \subseteq Planned(orders'),
           roles \cap Planned(orders) = {},
           \A x \in Planned(orders') : NotSubmitted(orders', x) =>
               x \in Planned(orders) /\ NotSubmitted(orders, x)
    PROVE  Ownership' /\ ExecutionIsConfirmed' /\ SubmissionsKnown'
<1> DEFINE j == Submitting(job[r], roles, phase)
<1>1. TypeInv /\ Ownership /\ ExecutionIsConfirmed /\ SubmissionsKnown /\ job[r] \in Job
      /\ job' = [job EXCEPT ![r] = j] /\ job \in [Runners -> Job]
  BY DEF SubmissionInv, TypeInv, TypeOK, Continue
<1>2. lock = r BY <1>1 DEF Ownership, Busy
<1>3. Ownership' BY <1>1, <1>2, OwnershipContinues
<1>4. ExecutionIsConfirmed' BY <1>1, ConfirmedContinues DEF ExecutionIsConfirmed
<1>5. /\ j.pc = "submitting"
      /\ \A x \in Roles : j.sub[x] = IF x \in roles THEN "preparing" ELSE "none"
  BY <1>1 DEF Submitting, Job
<1>6. \A q \in Runners : IF q = r THEN job'[q] = j ELSE job'[q] = job[q] /\ Quiet(job[q])
  BY <1>1, OneSubmitter
<1>7. \A x \in roles : sends[x] = 0 /\ x \in Roles
  <2>1. \A x \in roles : x \in Roles /\ x \notin Planned(orders) BY DEF Planned
  <2> QED BY <1>1, <2>1 DEF SubmissionsKnown, TypeInv, TypeOK
<1> HIDE DEF j
<1>8. \A q \in Runners, x \in Roles : job'[q].sub[x] # "none" =>
          /\ job'[q].pc = "submitting"
          /\ x \in roles
  BY <1>5, <1>6 DEF Quiet
<1>9. \A x \in roles : ~NotSubmitted(orders', x) OBVIOUS
<1>10. NotSubmittedIsTrue'
  <2>1. SUFFICES ASSUME NEW x \in Planned(orders'), NotSubmitted(orders', x)
                 PROVE  sends'[x] = 0 /\ \A q \in Runners : job'[q].sub[x] = "none"
    BY DEF NotSubmittedIsTrue
  <2>2. x \in Planned(orders) /\ NotSubmitted(orders, x) /\ x \in Roles
    BY <2>1 DEF Planned
  <2>3. sends[x] = 0 BY <1>1, <2>2 DEF SubmissionsKnown, NotSubmittedIsTrue
  <2> QED BY <1>8, <2>2, <2>3
<1>11. \A x \in Roles : sends'[x] <= 1 /\ (sends'[x] > 0 => x \in Planned(orders'))
  BY <1>1 DEF SubmissionsKnown
<1>12. SubmissionsKnown'
  BY <1>7, <1>8, <1>9, <1>10, <1>11 DEF SubmissionsKnown
<1> QED BY <1>3, <1>4, <1>12

LEMMA SubmissionPlanStep ==
    ASSUME SubmissionInv, NEW r \in Runners, PlanMarkets(r) \/ PlanGtc(r)
    PROVE  Ownership' /\ ExecutionIsConfirmed' /\ SubmissionsKnown'
<1>1. TypeOK /\ TypeInv /\ Ownership /\ ExecutionIsConfirmed /\ job[r] \in Job
      /\ orders \in OrderTable
  BY DEF SubmissionInv, TypeInv, TypeOK
<1>2. /\ job[r].pc \notin {"idle", "ready"}
      /\ UNCHANGED <<state, sends, req>>
  BY DEF PlanMarkets, PlanGtc, market
<1>3. lock = r BY <1>1, <1>2 DEF Ownership, Busy
<1>4. CASE UNCHANGED orders /\ Return(r)
  BY <1>1, <1>2, <1>3, <1>4, IdleQuiet, QuietContinues DEF Return, ExecutionIsConfirmed
<1>5. CASE orders' = InitialPlan /\ Continue(r, Submitting(job[r], InitialRoles, 2))
  <2>1. InitialRoles \cap Planned(orders) = {} BY DEF InitialRoles
  <2>2. \A x \in Planned(InitialPlan) : NotSubmitted(InitialPlan, x) =>
            x \in Planned(orders) /\ NotSubmitted(orders, x)
    <3>1. SUFFICES ASSUME NEW x \in Planned(InitialPlan), NotSubmitted(InitialPlan, x)
                   PROVE  x \in Planned(orders) /\ NotSubmitted(orders, x)
      OBVIOUS
    <3>2. x \in Roles BY DEF Planned
    <3>3. x \notin InitialRoles
      BY <3>1, <3>2 DEF InitialPlan, NotSubmitted, NewOrder
    <3>4. InitialPlan[x] = orders[x] BY <3>2, <3>3 DEF InitialPlan
    <3> QED BY <3>1, <3>4 DEF Planned, NotSubmitted
  <2> QED BY <1>1, <1>2, <1>5, <2>1, <2>2, InitialPlanType, PlanContinues
<1>6. ASSUME NEW role, role = job[r].role, orders[role] = NoOrder,
             orders' = [orders EXCEPT ![role] = NewOrder(NextRow, job[r].qty)],
             Continue(r, Submitting(job[r], {role}, 3))
      PROVE  Ownership' /\ ExecutionIsConfirmed' /\ SubmissionsKnown'
  <2>1. role \in Roles /\ job[r].qty \in 0 .. Qty /\ NextRow \in Nat
    BY <1>1, <1>6, PlannedCardinality DEF Job, NextRow
  <2>2. NewOrder(NextRow, job[r].qty) \in OrderRow
        /\ NewOrder(NextRow, job[r].qty).disposition = "SUBMISSION_UNCERTAIN"
    BY <2>1, NewOrderType DEF NewOrder
  <2>3. Planned(orders') = Planned(orders) \cup {role}
    BY <1>1, <1>6, <2>1, <2>2, RowReplaced
  <2>4. {role} \cap Planned(orders) = {} BY <1>6 DEF Planned
  <2>5. \A x \in Planned(orders') : NotSubmitted(orders', x) =>
            x \in Planned(orders) /\ NotSubmitted(orders, x)
    BY <1>1, <1>6, <2>1, <2>2, <2>3 DEF NotSubmitted, OrderTable
  <2> QED BY <1>2, <1>6, <2>3, <2>4, <2>5, PlanContinues
<1> QED BY <1>4, <1>5, <1>6 DEF PlanMarkets, PlanGtc

\* A submission that fails before it is sent, is sent, or settles: only its
\* runner has it in flight.
LEMMA SubmissionSubmitStep ==
    ASSUME SubmissionInv, NEW r \in Runners, NEW role \in Roles,
           PrepareFails(r, role) \/ SendOrder(r, role) \/ SubmissionSettles(r, role)
    PROVE  Ownership' /\ ExecutionIsConfirmed' /\ SubmissionsKnown'
<1>1. TypeInv /\ Ownership /\ ExecutionIsConfirmed /\ SubmissionsKnown
      /\ job \in [Runners -> Job] /\ orders \in OrderTable /\ sends \in [Roles -> Nat]
  BY DEF SubmissionInv, TypeInv, TypeOK
<1>2. PICK sub \in {"none", "sent"} : job' = [job EXCEPT ![r].sub[role] = sub]
  BY DEF PrepareFails, SendOrder, SubmissionSettles
<1>3. /\ job[r].sub[role] # "none" /\ UNCHANGED <<state, lock, req>>
  BY DEF PrepareFails, SendOrder, SubmissionSettles, db, market
<1>4. /\ \A q \in Runners : job'[q].pc = job[q].pc
      /\ \A q \in Runners, x \in Roles :
            job'[q].sub[x] = IF q = r /\ x = role THEN sub ELSE job[q].sub[x]
  BY <1>1, <1>2 DEF Job
<1>5. role \in Planned(orders) /\ orders[role] \in OrderRow
  BY <1>1, <1>3, PlannedRow DEF TypeInv, JobPlanned
<1>6. \A q \in Runners : q # r => job[q].sub[role] = "none"
  BY <1>1, <1>3, OneSubmitter DEF SubmissionsKnown, Quiet
<1>7. Ownership' BY <1>1, <1>3, <1>4 DEF Ownership, Busy
<1>8. ExecutionIsConfirmed' BY <1>1, <1>3, <1>4 DEF ExecutionIsConfirmed
<1>9. CASE PrepareFails(r, role)
  <2>1. sub = "none" /\ sends' = sends /\ job[r].sub[role] = "preparing"
    <3>1. job' = [job EXCEPT ![r].sub[role] = "none"] BY <1>9 DEF PrepareFails
    <3>2. job'[r].sub[role] = "none" BY <1>1, <3>1 DEF Job
    <3> QED BY <1>4, <1>9, <3>2 DEF PrepareFails, market
  <2>2. \/ orders' = orders
        \/ \E code \in SubmissionCodes :
              orders' = [orders EXCEPT ![role] = MarkedNotSubmitted(orders[role], code)]
    BY <1>9 DEF PrepareFails, SubmissionCodes
  <2>3. Planned(orders') = Planned(orders)
    <3>1. ASSUME NEW code \in SubmissionCodes,
                 orders' = [orders EXCEPT ![role] = MarkedNotSubmitted(orders[role], code)]
          PROVE  Planned(orders') = Planned(orders) \cup {role}
      <4>1. MarkedNotSubmitted(orders[role], code) \in OrderRow BY <1>5, MarkedType
      <4> QED BY <1>1, <3>1, <4>1, RowReplaced
    <3> QED BY <1>5, <2>2, <3>1
  <2>4. \A x \in Roles : x # role => orders'[x] = orders[x] BY <1>1, <2>2 DEF OrderTable
  <2>5. sends[role] = 0 BY <1>1, <2>1 DEF SubmissionsKnown
  <2>6. \A q \in Runners : job'[q].sub[role] = "none" BY <1>4, <1>6, <2>1
  <2>7. NotSubmittedIsTrue'
    <3>1. SUFFICES ASSUME NEW x \in Planned(orders'), NotSubmitted(orders', x)
                   PROVE  sends'[x] = 0 /\ \A q \in Runners : job'[q].sub[x] = "none"
      BY DEF NotSubmittedIsTrue
    <3>2. CASE x = role BY <2>1, <2>5, <2>6, <3>2
    <3>3. CASE x # role
      <4>1. x \in Roles /\ x \in Planned(orders) BY <2>3 DEF Planned
      <4>2. NotSubmitted(orders, x) BY <2>4, <3>1, <3>3, <4>1 DEF NotSubmitted
      <4>3. sends[x] = 0 /\ \A q \in Runners : job[q].sub[x] = "none"
        BY <1>1, <4>1, <4>2 DEF SubmissionsKnown, NotSubmittedIsTrue
      <4> QED BY <1>4, <2>1, <3>3, <4>1, <4>3
    <3> QED BY <3>2, <3>3
  <2>8. \A q \in Runners, x \in Roles : job'[q].sub[x] = "preparing" =>
            sends'[x] = 0 /\ ~NotSubmitted(orders', x)
    <3>1. SUFFICES ASSUME NEW q \in Runners, NEW x \in Roles, job'[q].sub[x] = "preparing"
                   PROVE  sends'[x] = 0 /\ ~NotSubmitted(orders', x)
      OBVIOUS
    <3>2. x # role BY <2>6, <3>1
    <3>3. job[q].sub[x] = "preparing" BY <1>4, <3>1, <3>2
    <3> QED BY <1>1, <2>1, <2>4, <3>2, <3>3 DEF SubmissionsKnown, NotSubmitted
  <2>9. SubmissionsKnown'
    BY <1>1, <1>4, <2>1, <2>3, <2>7, <2>8 DEF SubmissionsKnown
  <2> QED BY <1>7, <1>8, <2>9
<1>10. CASE SendOrder(r, role)
  <2>1. job[r].sub[role] = "preparing" /\ orders' = orders
        /\ sends' = [sends EXCEPT ![role] = @ + 1]
    BY <1>10 DEF SendOrder, db
  <2>2. sends[role] = 0 /\ ~NotSubmitted(orders, role) BY <1>1, <2>1 DEF SubmissionsKnown
  <2>3. \A x \in Roles : sends'[x] = IF x = role THEN 1 ELSE sends[x]
    BY <1>1, <2>1, <2>2
  <2>4. \A q \in Runners : job'[q].sub[role] # "preparing" BY <1>2, <1>4, <1>6
  <2>5. NotSubmittedIsTrue'
    <3>1. SUFFICES ASSUME NEW x \in Planned(orders), NotSubmitted(orders, x)
                   PROVE  sends'[x] = 0 /\ \A q \in Runners : job'[q].sub[x] = "none"
      BY <2>1 DEF NotSubmittedIsTrue
    <3>2. x # role /\ x \in Roles BY <2>2, <3>1 DEF Planned
    <3>3. sends[x] = 0 /\ \A q \in Runners : job[q].sub[x] = "none"
      BY <1>1, <3>1 DEF SubmissionsKnown, NotSubmittedIsTrue
    <3> QED BY <1>4, <2>3, <3>2, <3>3
  <2>6. \A q \in Runners, x \in Roles : job'[q].sub[x] = "preparing" =>
            sends'[x] = 0 /\ ~NotSubmitted(orders', x)
    BY <1>1, <1>4, <2>1, <2>3, <2>4 DEF SubmissionsKnown
  <2>7. \A x \in Roles : sends'[x] <= 1 /\ (sends'[x] > 0 => x \in Planned(orders'))
    BY <1>1, <1>5, <2>1, <2>3 DEF SubmissionsKnown
  <2>8. \A q \in Runners, x \in Roles : job'[q].sub[x] # "none" => job'[q].pc = "submitting"
    BY <1>1, <1>3, <1>4 DEF SubmissionsKnown
  <2>9. SubmissionsKnown' BY <2>5, <2>6, <2>7, <2>8 DEF SubmissionsKnown
  <2> QED BY <1>7, <1>8, <2>9
<1>11. CASE SubmissionSettles(r, role)
  <2>1. sends' = sends /\ orders' = orders BY <1>11 DEF SubmissionSettles, db, market
  <2>2. job' = [job EXCEPT ![r].sub[role] = "none"] BY <1>11 DEF SubmissionSettles
  <2>3. \A q \in Runners, x \in Roles : job'[q].sub[x] # "none" =>
            job'[q].sub[x] = job[q].sub[x] /\ job'[q].pc = job[q].pc
    BY <1>1, <2>2 DEF Job
  <2>4. \A q \in Runners, x \in Roles : job[q].sub[x] # "none" => x \in Planned(orders)
    BY <1>1 DEF TypeInv, JobPlanned
  <2>5. SubmissionsKnown' BY <1>1, <2>1, <2>3, <2>4, SubmissionsFrame
  <2> QED BY <1>7, <1>8, <2>5
<1> QED BY <1>9, <1>10, <1>11

LEMMA SubmissionRefusedStep ==
    ASSUME SubmissionInv, NEW r \in Runners, StartRefused(r)
    PROVE  Ownership' /\ ExecutionIsConfirmed' /\ SubmissionsKnown'
<1>1. TypeInv /\ Ownership /\ ExecutionIsConfirmed /\ SubmissionsKnown
      /\ job \in [Runners -> Job]
  BY DEF SubmissionInv, TypeInv, TypeOK
<1>2. job' = [job EXCEPT ![r] = IdleJob] /\ UNCHANGED <<state, orders, sends, lock, req>>
  BY DEF StartRefused, db, market
<1>3. \A q \in Runners : job'[q] = job[q] \/ (Quiet(job'[q]) /\ job'[q].pc = "idle")
  BY <1>1, <1>2, IdleQuiet
<1>4. Ownership' BY <1>1, <1>2, <1>3 DEF Ownership, Busy
<1>5. ExecutionIsConfirmed' BY <1>1, <1>2, <1>3 DEF ExecutionIsConfirmed
<1>6. \A q \in Runners, x \in Roles : job'[q].sub[x] # "none" => job'[q] = job[q]
  BY <1>3 DEF Quiet
<1>7. \A q \in Runners, x \in Roles : job[q].sub[x] # "none" => x \in Planned(orders)
  BY <1>1 DEF TypeInv, JobPlanned
<1>8. SubmissionsKnown' BY <1>1, <1>2, <1>6, <1>7, SubmissionsFrame
<1> QED BY <1>4, <1>5, <1>8

LEMMA SubmissionStep == SubmissionInv /\ [Next]_vars => SubmissionInv'
<1> SUFFICES ASSUME SubmissionInv, [Next]_vars PROVE SubmissionInv' OBVIOUS
<1>1. TypeInv' BY TypeStep DEF SubmissionInv
<1>2. Ownership' /\ ExecutionIsConfirmed' /\ SubmissionsKnown'
  <2>1. CASE \E c \in Requests : RequestStep(c) BY <2>1, SubmissionRequestStep
  <2>2. CASE \E r \in Runners : RunnerStep(r)
    BY <2>2, SubmissionRefusedStep, SubmissionQuietStep, SubmissionPlanStep,
       SubmissionSubmitStep
       DEF RunnerStep
  <2>3. CASE \/ \E role \in Roles : ExchangeStep(role)
             \/ MonitorTick \/ PoisonedElsewhere \/ Crash \/ Heal
    BY <2>3, SubmissionEnvironmentStep
  <2>4. CASE UNCHANGED vars
    BY <2>4 DEF vars, SubmissionInv, Ownership, Busy, ExecutionIsConfirmed, SubmissionsKnown,
                NotSubmittedIsTrue
  <2> QED BY <2>1, <2>2, <2>3, <2>4 DEF Next
<1> QED BY <1>1, <1>2 DEF SubmissionInv

-----------------------------------------------------------------------------
(* The safety properties *)

\* Confirmations and executions of a strategy exclude one another, for any number
\* of requests and restarts and along every error path.
THEOREM OneOperationHolds == Spec => []OneOperation
<1>1. SubmissionInv => OneOperation
  BY DEF SubmissionInv, Ownership, OneOperation
<1> QED BY SubmissionInit, SubmissionStep, <1>1, PTL DEF Spec

\* Nothing is executed without a confirmation: the claim in confirmAndExecuteOwned
\* is dead code as long as only the HTTP handler and the monitor call it.
THEOREM ExecutionIsConfirmedHolds == Spec => []ExecutionIsConfirmed
<1>1. SubmissionInv => ExecutionIsConfirmed BY DEF SubmissionInv
<1> QED BY SubmissionInit, SubmissionStep, <1>1, PTL DEF Spec

\* No role is ever submitted twice.
THEOREM AtMostOneSubmissionHolds == Spec => []AtMostOneSubmission
<1>1. SubmissionInv => AtMostOneSubmission
  BY DEF SubmissionInv, SubmissionsKnown, AtMostOneSubmission
<1> QED BY SubmissionInit, SubmissionStep, <1>1, PTL DEF Spec

\* A row marked as definitely not submitted was not, and will not be.
THEOREM NotSubmittedIsTrueHolds == Spec => []NotSubmittedIsTrue
<1>1. SubmissionInv => NotSubmittedIsTrue BY DEF SubmissionInv, SubmissionsKnown
<1> QED BY SubmissionInit, SubmissionStep, <1>1, PTL DEF Spec
=============================================================================
