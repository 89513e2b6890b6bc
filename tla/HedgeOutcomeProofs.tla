-------------------------- MODULE HedgeOutcomeProofs --------------------------
(***************************************************************************)
(* What a strategy says of the exchanges is true: the evidence in its rows *)
(* is never ahead of them, FAILED means that neither leg was traded,       *)
(* HEDGED that both were alike, and the engine keeps the promise of        *)
(* HedgePromise.  The argument goes from the rows to the decision: a row   *)
(* with a terminal status never changes again, a decision is only taken    *)
(* when every row is settled, and a hedging order is only planned on       *)
(* settled market orders, for exactly their difference.                    *)
(***************************************************************************)
EXTENDS HedgeExecutionProofs

-----------------------------------------------------------------------------
(* Rows and the orders they are about *)

\* A row that has seen how its order ended.
Ended(row) == row.disposition = "REMOTE_OBSERVED" /\ row.status \in TerminalStatuses

\* What a row says about order e of its exchange.
RowTruthful(e, row) ==
    IF row.disposition = "REMOTE_OBSERVED"
    THEN /\ row.status # "planned"
         /\ e.st \in {"open"} \cup TerminalStatuses
         /\ row.filled <= e.filled
         /\ Ended(row) => e.st = row.status /\ e.filled = row.filled
    ELSE row.status = "planned" /\ row.filled = 0

\* The order of a role after n remote calls for it.
Truthful(e, n, table, x) ==
    /\ e.filled <= e.qty
    /\ e.st \in {"absent", "inflight"} => e.filled = 0
    /\ n = 0 => e.st = "absent"
    /\ n > 0 => e.qty = table[x].qty
    /\ x \in Planned(table) => RowTruthful(e, table[x])

EvidenceKnown == \A x \in Roles : Truthful(ex[x], sends[x], orders, x)

\* What no step takes back from a row.
RowKept(row, new) ==
    /\ new.qty = row.qty
    /\ row.disposition # "SUBMISSION_UNCERTAIN" => new.disposition # "SUBMISSION_UNCERTAIN"
    /\ Ended(row) => Ended(new) /\ new.status = row.status /\ new.filled = row.filled

RowsKept(table, new) ==
    /\ Planned(new) = Planned(table)
    /\ \A x \in Planned(table) : RowKept(table[x], new[x])

LEMMA SameRowsKept == \A table : RowsKept(table, table)
BY DEF RowsKept, RowKept

\* An accepted answer is evidence, and adds nothing to a row that has ended.
LEMMA AttachedTruthful ==
    ASSUME TypeOK, NEW x \in Roles, Visible(x), NEW row \in OrderRow,
           RowTruthful(ex[x], row), NEW snap \in Snapshots(x), AcceptsSnapshot(row, snap)
    PROVE  RowTruthful(ex[x], Attached(row, snap)) /\ RowKept(row, Attached(row, snap))
<1> DEFINE new == Attached(row, snap)
<1>1. snap \in Snapshot BY SnapshotsType
<1>2. /\ new.status = snap.status /\ new.filled = snap.filled /\ new.qty = row.qty
      /\ new.disposition = "REMOTE_OBSERVED"
  BY DEF Attached, OrderRow
<1> HIDE DEF new
<1>3. ex[x].filled \in Nat /\ snap.filled \in Nat /\ snap.status # "planned"
  BY <1>1, QtyAssumption DEF TypeOK, Snapshot, SnapshotStatuses, TerminalStatuses
<1>4. /\ snap.filled <= ex[x].filled
      /\ snap.status \in TerminalStatuses =>
            snap.status = ex[x].st /\ snap.filled = ex[x].filled
  <2>1. CASE snap \in PresentSnapshots(x) BY <1>3, <2>1 DEF PresentSnapshots
  <2>2. CASE snap \in LaggingSnapshots(x)
    BY <1>3, <2>2 DEF LaggingSnapshots, TerminalStatuses
  <2> QED BY <2>1, <2>2 DEF Snapshots
<1>5. RowTruthful(ex[x], new) BY <1>2, <1>3, <1>4 DEF RowTruthful, Ended, Visible
<1>6. ASSUME Ended(row) PROVE Ended(new) /\ new.status = row.status /\ new.filled = row.filled
  <2>1. snap.status = row.status BY <1>6 DEF AcceptsSnapshot, StatusTransitions, Ended
  <2>2. ex[x].filled = row.filled BY <1>6 DEF RowTruthful, Ended
  <2> QED BY <1>2, <1>4, <1>6, <2>1, <2>2 DEF Ended
<1>7. RowKept(row, new) BY <1>2, <1>6 DEF RowKept
<1> QED BY <1>5, <1>7 DEF new

\* A row is only marked before anything was observed.
LEMMA MarkedTruthful ==
    ASSUME NEW e, NEW row \in OrderRow, NEW code, RowTruthful(e, row), MayMarkNotSubmitted(row)
    PROVE  /\ RowTruthful(e, MarkedNotSubmitted(row, code))
           /\ RowKept(row, MarkedNotSubmitted(row, code))
BY DEF MarkedNotSubmitted, MayMarkNotSubmitted, RowTruthful, RowKept, Ended, OrderRow

-----------------------------------------------------------------------------
(* Steps that write rows *)

\* Replacing the row of one role by one that keeps it and is truthful.
LEMMA RowStep ==
    ASSUME SubmissionInv, EvidenceKnown, NEW x \in Planned(orders), NEW row \in OrderRow,
           RowTruthful(ex[x], row), RowKept(orders[x], row),
           orders' = [orders EXCEPT ![x] = row], ex' = ex, sends' = sends
    PROVE  EvidenceKnown' /\ RowsKept(orders, orders')
<1>1. orders \in OrderTable /\ x \in Roles BY DEF SubmissionInv, TypeInv, TypeOK, Planned
<1>2. Planned(orders') = Planned(orders)
  <2>1. Planned(orders') = Planned(orders) \cup {x} BY <1>1, RowReplaced
  <2> QED BY <2>1
<1>3. \A y \in Roles : orders'[y] = IF y = x THEN row ELSE orders[y]
  BY <1>1 DEF OrderTable
<1>4. \A y \in Roles : y \in Planned(orders) => RowKept(orders[y], orders'[y])
  BY <1>3 DEF RowKept
<1>5. ASSUME NEW y \in Roles PROVE Truthful(ex[y], sends[y], orders', y)
  <2>1. Truthful(ex[y], sends[y], orders, y) BY DEF EvidenceKnown
  <2>2. CASE y = x BY <1>2, <1>3, <2>1, <2>2 DEF Truthful, RowKept
  <2>3. CASE y # x BY <1>2, <1>3, <2>1, <2>3 DEF Truthful
  <2> QED BY <2>2, <2>3
<1>6. EvidenceKnown' BY <1>5 DEF EvidenceKnown
<1>7. RowsKept(orders, orders') BY <1>2, <1>4 DEF RowsKept, Planned
<1> QED BY <1>6, <1>7

LEMMA AnswerKeeps ==
    ASSUME SubmissionInv, EvidenceKnown, NEW r \in Runners, LookupAnswers(r)
    PROVE  EvidenceKnown' /\ RowsKept(orders, orders')
<1> DEFINE x == FirstRow(job[r].todo, orders)
<1>1. TypeOK /\ orders \in OrderTable /\ JobPlanned(job[r], orders) /\ job[r].pc = "lookup"
  BY DEF SubmissionInv, TypeInv, TypeOK, LookupAnswers
<1>2. x \in Planned(orders) /\ x \in Roles /\ orders[x] \in OrderRow
  BY <1>1, FirstRowIn, PlannedRow DEF JobPlanned
<1>3. PICK snap \in Snapshots(x) :
          orders' = IF AcceptsSnapshot(orders[x], snap)
                    THEN [orders EXCEPT ![x] = Attached(orders[x], snap)] ELSE orders
  BY DEF LookupAnswers
<1>4. Visible(x) /\ ex' = ex /\ sends' = sends BY DEF LookupAnswers, market
<1> HIDE DEF x
<1>5. RowTruthful(ex[x], orders[x]) BY <1>2 DEF EvidenceKnown, Truthful
<1>6. CASE AcceptsSnapshot(orders[x], snap)
  <2>1. Attached(orders[x], snap) \in OrderRow BY <1>1, <1>2, <1>4, SnapshotsType, AttachedType
  <2>2. /\ RowTruthful(ex[x], Attached(orders[x], snap))
        /\ RowKept(orders[x], Attached(orders[x], snap))
    BY <1>1, <1>2, <1>4, <1>5, <1>6, AttachedTruthful
  <2> QED BY <1>2, <1>3, <1>4, <1>6, <2>1, <2>2, RowStep
<1>7. CASE ~AcceptsSnapshot(orders[x], snap)
  BY <1>3, <1>4, <1>7, SameRowsKept DEF EvidenceKnown
<1> QED BY <1>6, <1>7

LEMMA PrepareKeeps ==
    ASSUME SubmissionInv, EvidenceKnown, NEW r \in Runners, NEW x \in Roles, PrepareFails(r, x)
    PROVE  EvidenceKnown' /\ RowsKept(orders, orders')
<1>1. orders \in OrderTable /\ job[r].sub[x] # "none" /\ ex' = ex /\ sends' = sends
  BY DEF SubmissionInv, TypeInv, TypeOK, PrepareFails, market
<1>2. x \in Planned(orders) BY <1>1 DEF SubmissionInv, TypeInv, JobPlanned
<1>3. orders[x] \in OrderRow BY <1>1, <1>2, PlannedRow
<1>4. RowTruthful(ex[x], orders[x]) BY <1>2 DEF EvidenceKnown, Truthful
<1>5. CASE orders' = orders BY <1>1, <1>5, SameRowsKept DEF EvidenceKnown
<1>6. ASSUME NEW code \in SubmissionCodes, MayMarkNotSubmitted(orders[x]),
             orders' = [orders EXCEPT ![x] = MarkedNotSubmitted(orders[x], code)]
      PROVE  EvidenceKnown' /\ RowsKept(orders, orders')
  <2>1. MarkedNotSubmitted(orders[x], code) \in OrderRow BY <1>3, MarkedType
  <2>2. /\ RowTruthful(ex[x], MarkedNotSubmitted(orders[x], code))
        /\ RowKept(orders[x], MarkedNotSubmitted(orders[x], code))
    BY <1>3, <1>4, <1>6, MarkedTruthful
  <2> QED BY <1>1, <1>2, <1>6, <2>1, <2>2, RowStep
<1> QED BY <1>5, <1>6 DEF PrepareFails, SubmissionCodes

\* Rows are only added for roles that have none.
Adds(table, new) ==
    /\ new \in OrderTable
    /\ Planned(table) \subseteq Planned(new)
    /\ \A x \in Planned(table) : new[x] = table[x]
    /\ \A x \in Planned(new) \ Planned(table) :
          \E rowid \in Nat, qty \in 0 .. Qty : new[x] = NewOrder(rowid, qty)

LEMMA AddsTruthful ==
    ASSUME SubmissionInv, EvidenceKnown, Adds(orders, orders'), ex' = ex, sends' = sends
    PROVE  EvidenceKnown'
<1>1. ASSUME NEW x \in Roles PROVE Truthful(ex[x], sends[x], orders', x)
  <2>1. Truthful(ex[x], sends[x], orders, x) BY DEF EvidenceKnown
  <2>2. sends[x] \in Nat /\ (sends[x] > 0 => x \in Planned(orders))
    BY DEF SubmissionInv, SubmissionsKnown, TypeInv, TypeOK
  <2>3. CASE x \in Planned(orders) BY <2>1, <2>3 DEF Truthful, Adds
  <2>4. CASE x \notin Planned(orders)
    <3>1. ASSUME x \in Planned(orders') PROVE RowTruthful(ex[x], orders'[x])
      <4>1. PICK rowid \in Nat, qty \in 0 .. Qty : orders'[x] = NewOrder(rowid, qty)
        BY <2>4, <3>1 DEF Adds
      <4>2. /\ orders'[x].disposition = "SUBMISSION_UNCERTAIN"
            /\ orders'[x].status = "planned" /\ orders'[x].filled = 0
        BY <4>1 DEF NewOrder
      <4> QED BY <4>2 DEF RowTruthful
    <3> QED BY <2>1, <2>2, <2>4, <3>1 DEF Truthful
  <2> QED BY <2>3, <2>4
<1> QED BY <1>1 DEF EvidenceKnown

LEMMA InitialPlanAdds ==
    ASSUME TypeOK
    PROVE  Adds(orders, InitialPlan)
<1>1. NextRow \in Nat /\ NextRow + 1 \in Nat /\ Qty \in 0 .. Qty
  BY PlannedCardinality, QtyAssumption DEF NextRow
<1>2. \A x \in Planned(orders) : x \in Roles /\ x \notin InitialRoles
  BY DEF Planned, InitialRoles
<1>3. \A x \in Planned(orders) : InitialPlan[x] = orders[x] BY <1>2 DEF InitialPlan
<1>4. ASSUME NEW x \in Planned(InitialPlan) \ Planned(orders)
      PROVE  \E rowid \in Nat, qty \in 0 .. Qty : InitialPlan[x] = NewOrder(rowid, qty)
  <2>1. x \in Roles /\ InitialPlan[x] # NoOrder /\ orders[x] = NoOrder BY DEF Planned
  <2>2. x \in InitialRoles BY <2>1 DEF InitialPlan
  <2> QED BY <1>1, <2>1, <2>2 DEF InitialPlan
<1> QED BY <1>3, <1>4, InitialPlanType DEF Adds

\* Planning either adds rows or leaves them as they are.
LEMMA PlanAdds ==
    ASSUME SubmissionInv, NEW r \in Runners, PlanMarkets(r) \/ PlanGtc(r)
    PROVE  Adds(orders, orders') /\ ex' = ex /\ sends' = sends
<1>1. TypeOK /\ orders \in OrderTable /\ job[r] \in Job
  BY DEF SubmissionInv, TypeInv, TypeOK
<1>2. ex' = ex /\ sends' = sends BY DEF PlanMarkets, PlanGtc, market
<1>3. ASSUME orders' = orders PROVE Adds(orders, orders')
  <2>1. Adds(orders, orders) BY <1>1 DEF Adds
  <2> QED BY <1>3, <2>1
<1>4. ASSUME orders' = InitialPlan PROVE Adds(orders, orders')
  <2>1. Adds(orders, InitialPlan) BY <1>1, InitialPlanAdds
  <2> QED BY <1>4, <2>1
<1>5. ASSUME orders[job[r].role] = NoOrder,
             orders' = [orders EXCEPT ![job[r].role] = NewOrder(NextRow, job[r].qty)]
      PROVE  Adds(orders, orders')
  <2>1. job[r].role \in Roles /\ job[r].qty \in 0 .. Qty /\ NextRow \in Nat
    BY <1>1, PlannedCardinality DEF Job, NextRow
  <2>2. NewOrder(NextRow, job[r].qty) \in OrderRow BY <2>1, NewOrderType
  <2>3. orders' \in OrderTable /\ Planned(orders') = Planned(orders) \cup {job[r].role}
    <3> DEFINE x == job[r].role
               row == NewOrder(NextRow, job[r].qty)
    <3> HIDE DEF row
    <3>1. row \in OrderRow BY <2>2 DEF row
    <3>2. /\ [orders EXCEPT ![x] = row] \in OrderTable
          /\ Planned([orders EXCEPT ![x] = row]) = Planned(orders) \cup {x}
      BY <1>1, <2>1, <3>1, RowReplaced
    <3> QED BY <1>5, <3>2 DEF row
  <2>4. job[r].role \notin Planned(orders) BY <1>5 DEF Planned
  <2>5. orders'[job[r].role] = NewOrder(NextRow, job[r].qty)
    BY <1>1, <1>5, <2>1 DEF OrderTable
  <2>6. \A x \in Planned(orders) : orders'[x] = orders[x]
    BY <1>1, <1>5, <2>4 DEF OrderTable, Planned
  <2> QED BY <2>1, <2>3, <2>5, <2>6 DEF Adds
<1> QED BY <1>2, <1>3, <1>4, <1>5 DEF PlanMarkets, PlanGtc

-----------------------------------------------------------------------------
(* Steps of the exchanges *)

\* What may become of the order of a role that was sent: nothing ends an ended
\* order, and an order that was seen stays.
OrderMoves(e, new) ==
    /\ new.qty = e.qty
    /\ new.filled <= new.qty
    /\ e.st \in TerminalStatuses => new = e
    /\ e.st = "open" => new.st \in {"open"} \cup TerminalStatuses /\ e.filled <= new.filled
    /\ e.st = "inflight" => new.st \in {"open", "absent"} /\ new.filled = e.filled
    /\ e.st # "absent"

LEMMA MoveTruthful ==
    ASSUME NEW e, e.filled \in Nat, NEW new, NEW n, NEW table \in OrderTable, NEW x,
           Truthful(e, n, table, x), OrderMoves(e, new), n # 0,
           e.st \in ExchangeStates, new.filled \in Nat
    PROVE  Truthful(new, n, table, x)
<1>1. new.st \in {"absent", "inflight"} => new.filled = 0
  BY DEF Truthful, OrderMoves, ExchangeStates, TerminalStatuses
<1>2. ASSUME x \in Planned(table) PROVE RowTruthful(new, table[x])
  <2>1. RowTruthful(e, table[x]) BY <1>2 DEF Truthful
  <2>2. table[x].filled \in Nat BY <1>2, PlannedRow, QtyAssumption DEF OrderRow
  <2>3. CASE e.st \in TerminalStatuses BY <2>1, <2>3 DEF OrderMoves
  <2>4. CASE e.st = "open"
    BY <2>1, <2>2, <2>4 DEF OrderMoves, RowTruthful, Ended, TerminalStatuses
  <2>5. CASE e.st = "inflight"
    BY <2>1, <2>5 DEF RowTruthful, TerminalStatuses
  <2> QED BY <2>3, <2>4, <2>5 DEF OrderMoves, ExchangeStates
<1> QED BY <1>1, <1>2 DEF Truthful, OrderMoves

LEMMA ExchangeMoves ==
    ASSUME SubmissionInv, EvidenceKnown, NEW x \in Roles, ExchangeStep(x)
    PROVE  /\ OrderMoves(ex[x], ex'[x]) /\ sends[x] > 0
           /\ \A y \in Roles : y # x => ex'[y] = ex[y]
           /\ sends' = sends /\ orders' = orders
<1>1. ex \in [Roles -> [st : ExchangeStates, qty : 0 .. Qty, filled : 0 .. Qty]]
      /\ sends[x] \in Nat
  BY DEF SubmissionInv, TypeInv, TypeOK
<1>2. Truthful(ex[x], sends[x], orders, x) BY DEF EvidenceKnown
<1>3. ex[x].st \in {"inflight", "open"} /\ sends' = sends /\ orders' = orders
  BY DEF ExchangeStep, Accept, Lose, Fill, Finish, db
<1>4. sends[x] > 0 BY <1>1, <1>2, <1>3 DEF Truthful
<1>5. \A y \in Roles : y # x => ex'[y] = ex[y]
  BY <1>1 DEF ExchangeStep, Accept, Lose, Fill, Finish
<1> DEFINE e == ex[x]
<1>6. /\ e \in [st : ExchangeStates, qty : 0 .. Qty, filled : 0 .. Qty]
      /\ e.filled <= e.qty /\ e.filled \in Nat /\ e.qty \in Nat
  BY <1>1, <1>2, QtyAssumption DEF Truthful
<1>7. CASE Accept(x) \/ Lose(x)
  <2>1. PICK st \in {"open", "absent"} : ex' = [ex EXCEPT ![x].st = st]
    BY <1>7 DEF Accept, Lose
  <2>2. e.st = "inflight" BY <1>7 DEF Accept, Lose
  <2>3. ex'[x] = [e EXCEPT !.st = st] BY <1>1, <2>1
  <2>4. ex'[x].st = st /\ ex'[x].qty = e.qty /\ ex'[x].filled = e.filled BY <1>6, <2>3
  <2> HIDE DEF e
  <2> QED BY <1>3, <1>4, <1>5, <1>6, <2>2, <2>4 DEF OrderMoves, TerminalStatuses, e
<1>8. CASE Fill(x)
  <2>1. e.st = "open" /\ e.filled < e.qty /\ ex' = [ex EXCEPT ![x].filled = @ + 1]
    BY <1>8 DEF Fill
  <2>2. ex'[x] = [e EXCEPT !.filled = @ + 1] BY <1>1, <2>1
  <2>3. ex'[x].st = "open" /\ ex'[x].qty = e.qty /\ ex'[x].filled = e.filled + 1
    BY <1>6, <2>1, <2>2
  <2> HIDE DEF e
  <2> QED BY <1>3, <1>4, <1>5, <1>6, <2>1, <2>3 DEF OrderMoves, TerminalStatuses, e
<1>9. CASE Finish(x)
  <2>1. PICK st \in TerminalStatuses : ex' = [ex EXCEPT ![x].st = st]
    BY <1>9 DEF Finish
  <2>2. e.st = "open" BY <1>9 DEF Finish
  <2>3. ex'[x] = [e EXCEPT !.st = st] BY <1>1, <2>1
  <2>4. ex'[x].st = st /\ ex'[x].qty = e.qty /\ ex'[x].filled = e.filled BY <1>6, <2>3
  <2> HIDE DEF e
  <2> QED BY <1>3, <1>4, <1>5, <1>6, <2>2, <2>4 DEF OrderMoves, TerminalStatuses, e
<1> QED BY <1>7, <1>8, <1>9 DEF ExchangeStep

\* The first remote call for a role is the one that may leave an order.
LEMMA SendCreates ==
    ASSUME SubmissionInv, EvidenceKnown, NEW r \in Runners, NEW x \in Roles, SendOrder(r, x)
    PROVE  /\ sends[x] = 0 /\ ex[x].st = "absent" /\ x \in Planned(orders)
           /\ ex'[x].st = "inflight" /\ ex'[x].filled = 0 /\ ex'[x].qty = orders[x].qty
           /\ ex[x].filled = 0
           /\ sends'[x] = 1 /\ orders' = orders
           /\ \A y \in Roles : y # x => ex'[y] = ex[y] /\ sends'[y] = sends[y]
<1>1. /\ ex \in [Roles -> [st : ExchangeStates, qty : 0 .. Qty, filled : 0 .. Qty]]
      /\ sends \in [Roles -> Nat] /\ job[r].sub[x] = "preparing"
  BY DEF SubmissionInv, TypeInv, TypeOK, SendOrder
<1>2. x \in Planned(orders) BY <1>1 DEF SubmissionInv, TypeInv, JobPlanned
<1>3. sends[x] = 0 BY <1>1 DEF SubmissionInv, SubmissionsKnown
<1>4. ex[x].st = "absent" /\ ex[x].filled = 0 BY <1>3 DEF EvidenceKnown, Truthful
<1> QED BY <1>1, <1>2, <1>3, <1>4 DEF SendOrder, db

-----------------------------------------------------------------------------
(* The evidence stays true *)

LEMMA EvidenceInit == Init => EvidenceKnown
BY DEF Init, EvidenceKnown, Truthful, Planned, NoOrders, TerminalStatuses

LEMMA EvidenceStep ==
    ASSUME SubmissionInv, EvidenceKnown, [Next]_vars
    PROVE  EvidenceKnown'
<1>1. ASSUME UNCHANGED <<orders, ex, sends>> PROVE EvidenceKnown'
  BY <1>1 DEF EvidenceKnown
<1>2. CASE \/ UNCHANGED vars \/ MonitorTick \/ PoisonedElsewhere \/ Crash \/ Heal
           \/ \E c \in Requests : RequestStep(c)
  BY <1>1, <1>2 DEF vars, MonitorTick, PoisonedElsewhere, Crash, Heal, RequestStep,
     ConfirmAcquires, ConfirmCommits, ConfirmInvalidates, ConfirmFails, ConfirmPoisons,
     db, market
<1>3. ASSUME NEW x \in Roles, ExchangeStep(x) PROVE EvidenceKnown'
  <2>1. ASSUME NEW y \in Roles PROVE Truthful(ex'[y], sends'[y], orders', y)
    <3>1. Truthful(ex[y], sends[y], orders, y) BY DEF EvidenceKnown
    <3>2. CASE y # x BY <1>3, <3>1, <3>2, ExchangeMoves
    <3>3. CASE y = x
      <4>1. TypeOK /\ TypeInv' BY TypeStep DEF SubmissionInv, TypeInv
      <4>2. ex[x].filled \in Nat /\ ex'[x].filled \in Nat /\ ex[x].st \in ExchangeStates
            /\ orders \in OrderTable /\ sends[x] \in Nat
        BY <4>1, QtyAssumption DEF TypeInv, TypeOK
      <4>3. OrderMoves(ex[x], ex'[x]) /\ sends[x] # 0 /\ sends' = sends /\ orders' = orders
        BY <1>3, <4>2, ExchangeMoves
      <4> QED BY <3>1, <3>3, <4>2, <4>3, MoveTruthful
    <3> QED BY <3>2, <3>3
  <2> QED BY <2>1 DEF EvidenceKnown
<1>4. ASSUME NEW r \in Runners, RunnerStep(r) PROVE EvidenceKnown'
  <2>1. CASE LookupAnswers(r) BY <2>1, AnswerKeeps
  <2>2. CASE \E x \in Roles : PrepareFails(r, x) BY <2>2, PrepareKeeps
  <2>3. CASE PlanMarkets(r) \/ PlanGtc(r) BY <2>3, PlanAdds, AddsTruthful
  <2>4. ASSUME NEW x \in Roles, SendOrder(r, x) PROVE EvidenceKnown'
    <3>1. ASSUME NEW y \in Roles PROVE Truthful(ex'[y], sends'[y], orders', y)
      <4>1. Truthful(ex[y], sends[y], orders, y) BY DEF EvidenceKnown
      <4>2. CASE y # x BY <2>4, <4>1, <4>2, SendCreates
      <4>3. CASE y = x
        <5>1. orders[x] \in OrderRow
          BY <2>4, SendCreates, PlannedRow DEF SubmissionInv, TypeInv, TypeOK
        <5>2. RowTruthful(ex'[x], orders[x])
          BY <2>4, <4>1, <4>3, SendCreates DEF Truthful, RowTruthful, TerminalStatuses
        <5>3. 0 <= orders[x].qty BY <5>1, QtyAssumption DEF OrderRow
        <5> QED BY <2>4, <4>3, <5>2, <5>3, SendCreates DEF Truthful
      <4> QED BY <4>2, <4>3
    <3> QED BY <3>1 DEF EvidenceKnown
  <2>5. CASE \E x \in Roles : SubmissionSettles(r, x)
    BY <1>1, <2>5 DEF SubmissionSettles, db, market
  <2>6. CASE \/ StartRefused(r) \/ StartOwned(r) \/ RunAborts(r) \/ LookupUnavailable(r)
             \/ LookupMissing(r) \/ DecideNothing(r) \/ DecideTransition(r)
             \/ DecideResidual(r) \/ ResidualNotTradable(r) \/ ResidualTradable(r)
             \/ GuardGtcPasses(r) \/ Resume(r)
    BY <1>1, <2>6 DEF StartRefused, StartOwned, RunAborts, LookupUnavailable, LookupMissing,
       DecideNothing, DecideTransition, DecideResidual, ResidualNotTradable, ResidualTradable,
       GuardGtcPasses, Resume, db, market
  <2> QED BY <1>4, <2>1, <2>2, <2>3, <2>4, <2>5, <2>6 DEF RunnerStep
<1> QED BY <1>2, <1>3, <1>4 DEF Next

\* Persisted evidence is never ahead of the exchange, whatever answers are late,
\* lagging or repeated, and a terminal row is exact.
THEOREM EvidenceIsTrueHolds == Spec => []EvidenceIsTrue
<1>1. SubmissionInv /\ EvidenceKnown => EvidenceIsTrue
  BY DEF EvidenceKnown, Truthful, RowTruthful, Ended, EvidenceIsTrue, Observed, Planned
<1>2. Init => SubmissionInv /\ EvidenceKnown BY SubmissionInit, EvidenceInit
<1>3. SubmissionInv /\ EvidenceKnown /\ [Next]_vars => SubmissionInv' /\ EvidenceKnown'
  BY SubmissionStep, EvidenceStep
<1> QED BY <1>1, <1>2, <1>3, PTL DEF Spec

-----------------------------------------------------------------------------
(* What is known between the steps of a run *)

\* A hedging order for g and quantity q is what the market orders call for, and
\* they have all ended.
Imbalanced(g, q, table) ==
    /\ \A m \in PlannedMarkets(table) : Ended(table[m]) /\ table[m].status # "rejected"
    /\ MarketDelta(table) # 0
    /\ g = SmallerLegGtc(table)
    /\ q = Residual(table)

TableKnown(md, st, table) ==
    /\ \A g \in PlannedGtcs(table) : Imbalanced(g, table[g].qty, table)
    /\ st = "WAITING_HEDGE" => PlannedGtcs(table) # {}
    /\ PlannedMarkets(table) \in {{}, RequiredMarkets(md)}
    /\ \A m \in PlannedMarkets(table) : table[m].qty = Qty

Settled(roles, table) == \A x \in roles : table[x].disposition # "SUBMISSION_UNCERTAIN"

\* What a runner may rely on while it owns the operation.
RunKnown(j, st, table) ==
    /\ j.pc \notin {"idle", "ready"} => st \in ActiveStates
    /\ j.pc \in {"guard_market", "authorize", "guard_gtc", "price_gtc", "submitting"} =>
          st = "EXECUTING"
    /\ j.pc = "lookup" /\ ~j.pending => Settled(Planned(table) \ j.todo, table)
    /\ j.pc = "decide" => Settled(Planned(table), table)
    /\ j.pc \in {"authorize", "guard_gtc", "price_gtc"} =>
          PlannedGtcs(table) = {} /\ Imbalanced(j.role, j.qty, table)

RunsKnown == \A r \in Runners : RunKnown(job[r], state, orders)

OutcomeInv ==
    /\ SubmissionInv
    /\ EvidenceKnown
    /\ TableKnown(mode, state, orders)
    /\ RunsKnown
    /\ FailedMeansFlat
    /\ HedgedMeansBalanced

LEMMA RestingKnown ==
    ASSUME NEW j, j.pc \in {"idle", "ready"}, NEW st, NEW table
    PROVE  RunKnown(j, st, table)
BY DEF RunKnown

\* Rows that are kept leave everything known.
LEMMA KeptImbalanced ==
    ASSUME NEW table \in OrderTable, NEW new \in OrderTable, RowsKept(table, new),
           NEW g, NEW q, Imbalanced(g, q, table)
    PROVE  Imbalanced(g, q, new)
<1>1. \A m \in PlannedMarkets(new) :
          /\ m \in PlannedMarkets(table) /\ Ended(new[m])
          /\ new[m].status = table[m].status /\ new[m].filled = table[m].filled
  BY DEF PlannedMarkets, RowsKept, RowKept, Imbalanced
<1>2. \A m \in MarketRoles : Filled(new, m) = Filled(table, m)
  BY <1>1 DEF Filled, PlannedMarkets, RowsKept, Planned, Roles
<1>3. Filled(new, "SPOT_MARKET") = Filled(table, "SPOT_MARKET")
      /\ Filled(new, "CONTRACT_MARKET") = Filled(table, "CONTRACT_MARKET")
  BY <1>2 DEF MarketRoles
<1> QED BY <1>1, <1>3 DEF Imbalanced, MarketDelta, SmallerLegGtc, Residual

LEMMA KeptTable ==
    ASSUME NEW table \in OrderTable, NEW new \in OrderTable, RowsKept(table, new),
           NEW md, NEW st, TableKnown(md, st, table)
    PROVE  TableKnown(md, st, new)
<1>1. PlannedMarkets(new) = PlannedMarkets(table) /\ PlannedGtcs(new) = PlannedGtcs(table)
  BY DEF PlannedMarkets, PlannedGtcs, RowsKept
<1>2. \A x \in Planned(table) : new[x].qty = table[x].qty BY DEF RowsKept, RowKept
<1>3. ASSUME NEW g \in PlannedGtcs(new) PROVE Imbalanced(g, new[g].qty, new)
  <2>1. g \in PlannedGtcs(table) /\ new[g].qty = table[g].qty
    BY <1>1, <1>2 DEF PlannedGtcs
  <2>2. Imbalanced(g, table[g].qty, table) BY <2>1 DEF TableKnown
  <2> QED BY <2>1, <2>2, KeptImbalanced
<1>4. \A m \in PlannedMarkets(new) : new[m].qty = Qty
  BY <1>1, <1>2 DEF TableKnown, PlannedMarkets
<1> QED BY <1>1, <1>3, <1>4 DEF TableKnown

LEMMA KeptRun ==
    ASSUME NEW table \in OrderTable, NEW new \in OrderTable, RowsKept(table, new),
           NEW j, NEW st, RunKnown(j, st, table)
    PROVE  RunKnown(j, st, new)
<1>1. Planned(new) = Planned(table) /\ PlannedGtcs(new) = PlannedGtcs(table)
  BY DEF PlannedGtcs, RowsKept
<1>2. \A roles \in SUBSET Planned(table) : Settled(roles, table) => Settled(roles, new)
  BY DEF Settled, RowsKept, RowKept
<1>3. Planned(table) \ j.todo \in SUBSET Planned(table) OBVIOUS
<1> QED BY <1>1, <1>2, <1>3, KeptImbalanced DEF RunKnown

-----------------------------------------------------------------------------
(* What a run does to what it knows *)

\* A runner that goes on alone answers for its own job only.
LEMMA RunnerKnown ==
    ASSUME SubmissionInv, NEW r \in Runners, NEW j, job' = [job EXCEPT ![r] = j],
           lock \in {r, NoOwner}, RunKnown(j, state', orders')
    PROVE  RunsKnown'
<1>1. job \in [Runners -> Job] BY DEF SubmissionInv, TypeInv, TypeOK
<1>2. \A q \in Runners : q # r => job[q].pc \in {"idle", "ready"}
  BY OwnerAssumption DEF SubmissionInv, Ownership, Busy
<1>3. \A q \in Runners : job'[q] = IF q = r THEN j ELSE job[q] BY <1>1
<1>4. \A q \in Runners : RunKnown(job'[q], state', orders') BY <1>2, <1>3, RestingKnown
<1> QED BY <1>4 DEF RunsKnown

LEMMA IdleKnown == \A st, table : RunKnown(IdleJob, st, table)
BY IdleQuiet, RestingKnown

LEMMA BeginRunKnown ==
    ASSUME NEW j \in Job, NEW st \in StrategyStates
    PROVE  RunKnown(BeginRun(j, st), st, orders)
<1>1. CASE BeginRun(j, st) = IdleJob BY <1>1, IdleKnown
<1>2. CASE EmptyTopology(st, orders) /\ BeginRun(j, st) = [j EXCEPT !.pc = "guard_market"]
  <2>1. BeginRun(j, st).pc = "guard_market" /\ st = "EXECUTING"
    BY <1>2 DEF Job, EmptyTopology
  <2> QED BY <2>1 DEF RunKnown, ActiveStates
<1>3. CASE /\ st \in ActiveStates
           /\ BeginRun(j, st) = [j EXCEPT !.pc = "lookup", !.entered = st,
                                          !.todo = Planned(orders), !.pending = FALSE]
  <2>1. BeginRun(j, st).pc = "lookup" /\ BeginRun(j, st).todo = Planned(orders)
    BY <1>3 DEF Job
  <2> QED BY <1>3, <2>1 DEF RunKnown, Settled
<1> QED BY <1>1, <1>2, <1>3 DEF BeginRun

\* An answer settles the row it is about, unless it blocks the decision.
LEMMA AfterLookupKnown ==
    ASSUME NEW j \in Job, j.pc = "lookup", NEW st, NEW table,
           RunKnown(j, st, table), NEW role, NEW blocked,
           ~blocked => table[role].disposition # "SUBMISSION_UNCERTAIN"
    PROVE  RunKnown(AfterLookup(j, role, blocked, table), st, table)
<1> DEFINE k == AfterLookup(j, role, blocked, table)
           rest == j.todo \ {role}
           pending == j.pending \/ blocked
<1>1. st \in ActiveStates BY DEF RunKnown
<1>2. ~pending => Settled(Planned(table) \ rest, table)
  BY DEF RunKnown, Settled
<1>3. CASE rest # {}
  <2>1. k = [j EXCEPT !.todo = rest, !.pending = pending] BY <1>3 DEF AfterLookup
  <2>2. k.pc = "lookup" /\ k.todo = rest /\ k.pending = pending BY <2>1 DEF Job
  <2> HIDE DEF k, rest, pending
  <2>3. RunKnown(k, st, table) BY <1>1, <1>2, <2>2 DEF RunKnown
  <2> QED BY <2>3 DEF k
<1>4. CASE rest = {} /\ pending BY <1>4, IdleKnown DEF AfterLookup
<1>5. CASE rest = {} /\ ~pending
  <2>1. k = [j EXCEPT !.pc = "decide", !.todo = {}, !.seen = table]
    BY <1>5 DEF AfterLookup
  <2>2. k.pc = "decide" BY <2>1 DEF Job
  <2>3. Settled(Planned(table), table)
    <3>1. Planned(table) \ rest = Planned(table) BY <1>5
    <3> HIDE DEF rest, pending
    <3> QED BY <1>2, <1>5, <3>1
  <2> HIDE DEF k
  <2>4. RunKnown(k, st, table) BY <1>1, <2>2, <2>3 DEF RunKnown
  <2> QED BY <2>4 DEF k
<1> QED BY <1>3, <1>4, <1>5

-----------------------------------------------------------------------------
(* What a decision on settled rows says of the exchanges *)

\* The order of a role can do nothing any more, and its row tells what it did.
Done(x) == ~Live(x) /\ ex[x].filled = Filled(orders, x)

LEMMA FilledNumbers ==
    ASSUME NEW table \in OrderTable
    PROVE  /\ \A x \in Roles : Filled(table, x) \in Nat
           /\ Filled(table, "SPOT_MARKET") \in Nat /\ Filled(table, "CONTRACT_MARKET") \in Nat
           /\ Filled(table, "SPOT_HEDGE_GTC") \in Nat
           /\ Filled(table, "CONTRACT_HEDGE_GTC") \in Nat
<1>1. \A x \in Roles : Filled(table, x) \in Nat BY FilledType, QtyAssumption
<1> QED BY <1>1 DEF Roles, MarketRoles, GtcRoles

LEMMA NothingDone ==
    ASSUME SubmissionInv, EvidenceKnown, NEW x \in Roles,
           \/ x \notin Planned(orders) \/ NotSubmitted(orders, x)
    PROVE  Done(x) /\ Filled(orders, x) = 0
<1>1. sends[x] \in Nat /\ (sends[x] > 0 => x \in Planned(orders))
      /\ (x \in Planned(orders) /\ NotSubmitted(orders, x) => sends[x] = 0)
  BY DEF SubmissionInv, SubmissionsKnown, NotSubmittedIsTrue, TypeInv, TypeOK
<1>2. sends[x] = 0 BY <1>1
<1>3. ex[x].st = "absent" /\ ex[x].filled = 0 BY <1>2 DEF EvidenceKnown, Truthful
<1>4. Filled(orders, x) = 0
  BY DEF EvidenceKnown, Truthful, RowTruthful, Filled, Planned, NotSubmitted
<1> QED BY <1>3, <1>4 DEF Done, Live

LEMMA EndedDone ==
    ASSUME EvidenceKnown, NEW x \in Planned(orders), Ended(orders[x])
    PROVE  Done(x)
<1>1. RowTruthful(ex[x], orders[x]) BY DEF EvidenceKnown, Truthful, Planned
<1>2. ex[x].st \in TerminalStatuses /\ ex[x].filled = orders[x].filled
  BY <1>1 DEF RowTruthful, Ended
<1> QED BY <1>2 DEF Done, Live, Filled, Planned, TerminalStatuses

\* A settled row is one that was never submitted or one that was seen.
LEMMA SettledRow ==
    ASSUME SubmissionInv, EvidenceKnown, NEW x \in Planned(orders),
           Settled(Planned(orders), orders)
    PROVE  \/ NotSubmitted(orders, x) /\ orders[x].status = "planned"
           \/ /\ orders[x].disposition = "REMOTE_OBSERVED" /\ ~NotSubmitted(orders, x)
              /\ orders[x].status \in {"open", "unknown"} \/ Ended(orders[x])
<1>1. x \in Roles /\ orders[x] \in OrderRow
  BY PlannedRow DEF SubmissionInv, TypeInv, TypeOK
<1>2. RowTruthful(ex[x], orders[x]) BY <1>1 DEF EvidenceKnown, Truthful
<1>3. orders[x].disposition \in {"DEFINITELY_NOT_SUBMITTED", "REMOTE_OBSERVED"}
  BY <1>1 DEF Settled, OrderRow, Dispositions
<1> QED
  BY <1>1, <1>2, <1>3
     DEF RowTruthful, NotSubmitted, Ended, OrderRow, SnapshotStatuses, TerminalStatuses

\* A hedging order that is planned is what the market orders called for when
\* they had ended, so it is the only one and no market order has failed.
LEMMA GtcOnEndedMarkets ==
    ASSUME SubmissionInv, EvidenceKnown, TableKnown(mode, state, orders),
           NEW g \in PlannedGtcs(orders)
    PROVE  /\ \A h \in PlannedGtcs(orders) : h = g
           /\ \A m \in MarketRoles : Done(m)
           /\ \A h \in GtcRoles : h # g => Done(h) /\ Filled(orders, h) = 0
           /\ FailedMarkets(orders) = {}
           /\ ActiveMarkets(orders) = {}
           /\ MarketDelta(orders) # 0
           /\ g = SmallerLegGtc(orders) /\ orders[g].qty = Residual(orders)
<1>1. \A h \in PlannedGtcs(orders) : Imbalanced(h, orders[h].qty, orders)
  BY DEF TableKnown
<1>2. \A h \in PlannedGtcs(orders) : h = g BY <1>1 DEF Imbalanced
<1>3. Imbalanced(g, orders[g].qty, orders) BY <1>1
<1>4. \A m \in MarketRoles : Done(m)
  <2>1. SUFFICES ASSUME NEW m \in MarketRoles PROVE Done(m) OBVIOUS
  <2>2. CASE m \in Planned(orders)
    BY <1>3, <2>2, EndedDone DEF Imbalanced, PlannedMarkets
  <2>3. CASE m \notin Planned(orders) BY <2>3, NothingDone DEF Roles
  <2> QED BY <2>2, <2>3
<1>5. \A h \in GtcRoles : h # g => Done(h) /\ Filled(orders, h) = 0
  BY <1>2, NothingDone DEF PlannedGtcs, Roles
<1>6. FailedMarkets(orders) = {} /\ ActiveMarkets(orders) = {}
  BY <1>3 DEF Imbalanced, FailedMarkets, ActiveMarkets, NotSubmitted, Ended, TerminalStatuses
<1> QED BY <1>2, <1>3, <1>4, <1>5, <1>6 DEF Imbalanced

\* A difference between the markets is a position.
LEMMA ImbalanceIsPosition ==
    ASSUME NEW table \in OrderTable, MarketDelta(table) # 0
    PROVE  /\ \E x \in Roles : Filled(table, x) > 0
           /\ PlannedMarkets(table) # {}
<1>1. Filled(table, "SPOT_MARKET") \in Nat /\ Filled(table, "CONTRACT_MARKET") \in Nat
  BY FilledNumbers
<1>2. PICK m \in {"SPOT_MARKET", "CONTRACT_MARKET"} : Filled(table, m) > 0
  BY <1>1 DEF MarketDelta
<1>3. m \in MarketRoles /\ m \in Roles /\ m \in Planned(table)
  BY <1>2 DEF MarketRoles, Roles, Filled, Planned
<1> QED BY <1>2, <1>3 DEF PlannedMarkets

\* What a final verdict has to say about the exchanges.
Final(v) ==
    /\ \A x \in Roles : Done(x)
    /\ \/ v.state = "FAILED" /\ \A x \in Roles : Filled(orders, x) = 0
       \/ /\ v.state = "HEDGED"
          /\ TotalSpot(orders) > 0 /\ TotalSpot(orders) = TotalContract(orders)
       \/ v.state = "HEDGE_INCOMPLETE" /\ \E x \in Roles : Filled(orders, x) > 0

LEMMA FailureFinal ==
    ASSUME SubmissionInv, EvidenceKnown, Settled(Planned(orders), orders),
           TableKnown(mode, state, orders), ActiveMarkets(orders) = {},
           FailedMarkets(orders) # {}
    PROVE  MarketFailure(orders).kind = "transition" /\ Final(MarketFailure(orders))
<1>1. orders \in OrderTable BY DEF SubmissionInv, TypeInv, TypeOK
<1>2. PlannedGtcs(orders) = {} BY GtcOnEndedMarkets
<1>3. \A x \in Roles : Done(x)
  <2>1. SUFFICES ASSUME NEW x \in Roles PROVE Done(x) OBVIOUS
  <2>2. CASE x \notin Planned(orders) BY <2>2, NothingDone
  <2>3. CASE x \in Planned(orders)
    <3>1. x \in PlannedMarkets(orders) BY <1>2, <2>3 DEF PlannedGtcs, PlannedMarkets, Roles
    <3>2. orders[x].status \notin {"open", "unknown"} BY <3>1 DEF ActiveMarkets
    <3> QED BY <2>3, <3>2, SettledRow, NothingDone, EndedDone
  <2> QED BY <2>2, <2>3
<1>4. CASE ExposureKnown(orders)
  <2>1. \E x \in Roles : Filled(orders, x) > 0
    BY <1>4 DEF ExposureKnown, Planned, Filled
  <2> QED BY <1>3, <1>4, <2>1 DEF MarketFailure, Inconsistent, Failure, Verdict, Final
<1>5. CASE ~ExposureKnown(orders)
  <2>1. \A x \in Roles : Filled(orders, x) = 0
    BY <1>1, <1>5, FilledNumbers DEF ExposureKnown, Planned, Filled
  <2> QED BY <1>3, <1>5, <2>1 DEF MarketFailure, Failure, Verdict, Final
<1> QED BY <1>4, <1>5

\* Without a hedging order the market orders decide, or call for one.
LEMMA WithoutGtcFinal ==
    ASSUME SubmissionInv, EvidenceKnown, Settled(Planned(orders), orders),
           ActiveMarkets(orders) = {}, FailedMarkets(orders) = {}, PlannedGtcs(orders) = {}
    PROVE  /\ DecideWithoutGtc(orders).kind = "transition" => Final(DecideWithoutGtc(orders))
           /\ DecideWithoutGtc(orders).kind = "authorize" =>
                 Imbalanced(DecideWithoutGtc(orders).role, Residual(orders), orders)
<1> DEFINE v == DecideWithoutGtc(orders)
<1>1. orders \in OrderTable BY DEF SubmissionInv, TypeInv, TypeOK
<1>2. \A m \in PlannedMarkets(orders) : Ended(orders[m]) /\ orders[m].status # "rejected"
  BY SettledRow DEF ActiveMarkets, FailedMarkets, PlannedMarkets
<1>3. \A x \in Roles : Done(x)
  BY <1>2, NothingDone, EndedDone DEF PlannedMarkets, PlannedGtcs, Roles
<1>4. \A g \in GtcRoles : Filled(orders, g) = 0
  BY NothingDone DEF PlannedGtcs, Roles
<1>5. Filled(orders, "SPOT_HEDGE_GTC") = 0 /\ Filled(orders, "CONTRACT_HEDGE_GTC") = 0
  BY <1>4 DEF GtcRoles
<1> DEFINE s == Filled(orders, "SPOT_MARKET")
           c == Filled(orders, "CONTRACT_MARKET")
<1>6. s \in Nat /\ c \in Nat BY <1>1, FilledNumbers
<1>7. CASE s = 0 /\ c = 0
  <2>1. \A x \in Roles : Filled(orders, x) = 0
    BY <1>4, <1>7 DEF Roles, MarketRoles
  <2> QED BY <1>3, <1>7, <2>1 DEF DecideWithoutGtc, Failure, Verdict, Final
<1>8. CASE ~(s = 0 /\ c = 0) /\ s = c
  <2>1. MarketDelta(orders) = 0 BY <1>6, <1>8 DEF MarketDelta
  <2>2. TotalSpot(orders) > 0 /\ TotalSpot(orders) = TotalContract(orders)
    BY <1>5, <1>6, <1>8 DEF TotalSpot, TotalContract
  <2> QED BY <1>3, <1>8, <2>1, <2>2 DEF DecideWithoutGtc, Success, Verdict, Final
<1>9. CASE s # c
  <2>1. MarketDelta(orders) # 0 BY <1>6, <1>9 DEF MarketDelta
  <2>2. \E x \in Roles : Filled(orders, x) > 0 BY <1>1, <2>1, ImbalanceIsPosition
  <2>3. CASE ~orders[LargerMarket(orders)].priced
    BY <1>3, <1>9, <2>1, <2>2, <2>3 DEF DecideWithoutGtc, Failure, Verdict, Final
  <2>4. CASE orders[LargerMarket(orders)].priced
    <3>1. v = Authorize(SmallerLegGtc(orders)) BY <1>9, <2>1, <2>4 DEF DecideWithoutGtc
    <3> QED BY <1>2, <2>1, <3>1 DEF Authorize, Verdict, Imbalanced
  <2> QED BY <2>3, <2>4
<1> QED BY <1>7, <1>8, <1>9

\* A planned hedging order is always of the right shape: the structure check
\* of the engine never fires.
LEMMA GtcShape ==
    ASSUME SubmissionInv, EvidenceKnown, TableKnown(mode, state, orders),
           NEW g \in PlannedGtcs(orders)
    PROVE  /\ orders[g].filled <= orders[g].qty
           /\ orders[g].disposition = "REMOTE_OBSERVED" => ex[g].qty = orders[g].qty
           /\ GtcStructureValid(g, orders)
<1>1. orders \in OrderTable /\ g \in Roles /\ g \in GtcRoles /\ g \in Planned(orders)
  BY DEF SubmissionInv, TypeInv, TypeOK, PlannedGtcs, Roles
<1>2. orders[g] \in OrderRow BY <1>1, PlannedRow
<1>3. /\ ex[g].filled \in Nat /\ ex[g].qty \in Nat /\ sends[g] \in Nat
      /\ orders[g].filled \in Nat /\ orders[g].qty \in Nat
  BY <1>1, <1>2, QtyAssumption DEF SubmissionInv, TypeInv, TypeOK, OrderRow
<1>4. Truthful(ex[g], sends[g], orders, g) BY <1>1 DEF EvidenceKnown
<1>5. RowTruthful(ex[g], orders[g]) BY <1>1, <1>4 DEF Truthful
<1>6. orders[g].disposition = "REMOTE_OBSERVED" => ex[g].qty = orders[g].qty
  BY <1>3, <1>4, <1>5 DEF Truthful, RowTruthful, TerminalStatuses
<1>7. orders[g].filled <= orders[g].qty
  <2>1. CASE orders[g].disposition = "REMOTE_OBSERVED"
    BY <1>3, <1>4, <1>5, <1>6, <2>1 DEF Truthful, RowTruthful
  <2>2. CASE orders[g].disposition # "REMOTE_OBSERVED"
    BY <1>3, <1>5, <2>2 DEF RowTruthful
  <2> QED BY <2>1, <2>2
<1>8. /\ MarketDelta(orders) # 0 /\ g = SmallerLegGtc(orders)
      /\ orders[g].qty = Residual(orders)
      /\ \A h \in GtcRoles : h # g => Filled(orders, h) = 0
  BY GtcOnEndedMarkets
<1>9. orders[g].qty - orders[g].filled = Distance(TotalSpot(orders), TotalContract(orders))
  <2> DEFINE s == Filled(orders, "SPOT_MARKET")
             c == Filled(orders, "CONTRACT_MARKET")
             f == orders[g].filled
  <2>1. s \in Nat /\ c \in Nat BY <1>1, FilledNumbers
  <2>2. Filled(orders, g) = f BY <1>1 DEF Filled, Planned
  <2>3. CASE s > c
    <3>1. g = "CONTRACT_HEDGE_GTC" BY <1>8, <2>1, <2>3 DEF SmallerLegGtc, MarketDelta
    <3>2. Filled(orders, "SPOT_HEDGE_GTC") = 0 BY <1>8, <3>1 DEF GtcRoles
    <3>3. TotalSpot(orders) = s + 0 /\ TotalContract(orders) = c + f
      BY <2>2, <3>1, <3>2 DEF TotalSpot, TotalContract
    <3>4. orders[g].qty = s - c BY <1>8, <2>1, <2>3 DEF Residual, Distance
    <3> HIDE DEF s, c, f
    <3>5. f \in Nat /\ f <= s - c BY <1>3, <1>7, <3>4 DEF f
    <3>6. Distance(s + 0, c + f) = (s - c) - f BY <2>1, <3>5 DEF Distance
    <3> QED BY <3>3, <3>4, <3>6 DEF f
  <2>4. CASE s < c
    <3>1. g = "SPOT_HEDGE_GTC" BY <1>8, <2>1, <2>4 DEF SmallerLegGtc, MarketDelta
    <3>2. Filled(orders, "CONTRACT_HEDGE_GTC") = 0 BY <1>8, <3>1 DEF GtcRoles
    <3>3. TotalSpot(orders) = s + f /\ TotalContract(orders) = c + 0
      BY <2>2, <3>1, <3>2 DEF TotalSpot, TotalContract
    <3>4. orders[g].qty = c - s BY <1>8, <2>1, <2>4 DEF Residual, Distance
    <3> HIDE DEF s, c, f
    <3>5. f \in Nat /\ f <= c - s BY <1>3, <1>7, <3>4 DEF f
    <3>6. Distance(s + f, c + 0) = (c - s) - f BY <2>1, <3>5 DEF Distance
    <3> QED BY <3>3, <3>4, <3>6 DEF f
  <2>5. s # c BY <1>8, <2>1 DEF MarketDelta
  <2> HIDE DEF s, c
  <2> QED BY <2>1, <2>3, <2>4, <2>5
<1> QED BY <1>6, <1>7, <1>8, <1>9 DEF GtcStructureValid

\* A verdict on a hedging order is to wait for it, or final.
LEMMA ExistingGtcFinal ==
    ASSUME SubmissionInv, EvidenceKnown, Settled(Planned(orders), orders),
           TableKnown(mode, state, orders), NEW g \in PlannedGtcs(orders)
    PROVE  /\ DecideExistingGtc(state, g, orders).kind # "authorize"
           /\ DecideExistingGtc(state, g, orders).kind = "transition" =>
                 \/ /\ DecideExistingGtc(state, g, orders).state = "WAITING_HEDGE"
                    /\ Observed(orders, g)
                 \/ Final(DecideExistingGtc(state, g, orders))
<1> DEFINE v == DecideExistingGtc(state, g, orders)
<1>1. orders \in OrderTable /\ g \in Roles /\ g \in GtcRoles /\ g \in Planned(orders)
  BY DEF SubmissionInv, TypeInv, TypeOK, PlannedGtcs, Roles
<1>2. \A x \in Roles : x # g => Done(x) BY GtcOnEndedMarkets DEF Roles
<1>3. \E x \in Roles : Filled(orders, x) > 0
  BY <1>1, GtcOnEndedMarkets, ImbalanceIsPosition
<1>4. Done(g) => Final(Inconsistent) /\ \A code : Final(Failure("HEDGE_INCOMPLETE", code))
  BY <1>2, <1>3 DEF Final, Inconsistent, Failure, Verdict
<1>5. GtcStructureValid(g, orders) BY GtcShape
<1>6. CASE NotSubmitted(orders, g) /\ orders[g].status = "planned"
  <2>1. Done(g) BY <1>1, <1>6, NothingDone
  <2>2. v = Failure("HEDGE_INCOMPLETE", orders[g].code) BY <1>6 DEF DecideExistingGtc
  <2> QED BY <1>4, <2>1, <2>2 DEF Failure, Verdict
<1>7. CASE orders[g].status = "unknown" /\ ~NotSubmitted(orders, g)
  BY <1>7 DEF DecideExistingGtc, Pending, Verdict
<1>8. CASE orders[g].status = "open" /\ ~NotSubmitted(orders, g)
           /\ orders[g].disposition = "REMOTE_OBSERVED"
  <2>1. v = DecideValidGtc(state, g, orders) BY <1>5, <1>8 DEF DecideExistingGtc
  <2>2. CASE orders[g].filled # orders[g].qty
    BY <1>1, <1>8, <2>1, <2>2
       DEF DecideValidGtc, WaitForGtc, Success, Verdict, Observed, Planned
  <2>3. CASE orders[g].filled = orders[g].qty
    <3>1. Truthful(ex[g], sends[g], orders, g) BY <1>1 DEF EvidenceKnown
    <3>2. ex[g].qty = orders[g].qty BY <1>8, GtcShape
    <3>3. ex[g].filled <= ex[g].qty /\ orders[g].filled <= ex[g].filled
          /\ ex[g].st # "inflight"
      BY <1>1, <1>8, <3>1 DEF Truthful, RowTruthful, TerminalStatuses
    <3>4. ex[g].filled \in Nat /\ ex[g].qty \in Nat
      BY <1>1, QtyAssumption DEF SubmissionInv, TypeInv, TypeOK
    <3>5. ex[g].filled = orders[g].filled /\ ex[g].filled = ex[g].qty
      BY <2>3, <3>2, <3>3, <3>4
    <3>6. Done(g) BY <1>1, <3>3, <3>4, <3>5 DEF Done, Live, Filled, Planned
    <3> QED BY <1>4, <1>8, <2>1, <2>3, <3>6 DEF DecideValidGtc, Inconsistent, Failure, Verdict
  <2> QED BY <2>2, <2>3
<1>9. CASE Ended(orders[g]) /\ ~NotSubmitted(orders, g)
  <2>1. Done(g) BY <1>1, <1>9, EndedDone
  <2>2. orders[g].status \in {"closed", "canceled", "rejected"}
    BY <1>9 DEF Ended, TerminalStatuses
  <2>3. CASE v = Inconsistent \/ \E code : v = Failure("HEDGE_INCOMPLETE", code)
    BY <1>4, <2>1, <2>3 DEF Inconsistent, Failure, Verdict
  <2>4. CASE v = Success("HEDGED") /\ FullyHedged(g, orders)
    BY <1>2, <2>1, <2>4 DEF Final, FullyHedged, Success, Verdict
  <2> QED BY <1>5, <1>9, <2>2, <2>3, <2>4 DEF DecideExistingGtc, DecideValidGtc
<1> QED BY <1>1, <1>6, <1>7, <1>8, <1>9, SettledRow

\* The decision: to wait, to hedge exactly the difference, or one that is true.
LEMMA DecisionIsTrue ==
    ASSUME SubmissionInv, EvidenceKnown, Settled(Planned(orders), orders),
           TableKnown(mode, state, orders)
    PROVE  /\ Decision(state, orders).kind = "authorize" =>
                 /\ PlannedGtcs(orders) = {}
                 /\ Imbalanced(Decision(state, orders).role, Residual(orders), orders)
           /\ Decision(state, orders).kind = "transition" =>
                 \/ /\ Decision(state, orders).state = "WAITING_HEDGE"
                    /\ \E g \in PlannedGtcs(orders) : Observed(orders, g)
                 \/ Final(Decision(state, orders))
<1> DEFINE v == Decision(state, orders)
           gtc == CHOOSE g \in PlannedGtcs(orders) : TRUE
<1>1. CASE v = Pending BY <1>1 DEF Pending, Verdict
<1>2. CASE /\ ActiveMarkets(orders) = {} /\ FailedMarkets(orders) # {}
           /\ v = MarketFailure(orders)
  BY <1>2, FailureFinal
<1>3. CASE /\ PlannedGtcs(orders) # {} /\ v = DecideExistingGtc(state, gtc, orders)
  <2>1. gtc \in PlannedGtcs(orders) BY <1>3
  <2> QED BY <1>3, <2>1, ExistingGtcFinal
<1>4. CASE /\ ActiveMarkets(orders) = {} /\ FailedMarkets(orders) = {}
           /\ PlannedGtcs(orders) = {} /\ v = DecideWithoutGtc(orders)
  BY <1>4, WithoutGtcFinal
<1> QED BY <1>1, <1>2, <1>3, <1>4 DEF Decision

-----------------------------------------------------------------------------
(* Every step keeps what is known *)

\* An order that is over stays over.
LEMMA OverStays ==
    ASSUME SubmissionInv, EvidenceKnown, NEW x \in Roles, ExchangeStep(x),
           NEW y \in Roles, ~Live(y)
    PROVE  ~Live(y)' /\ ex'[y].filled = ex[y].filled
<1>1. CASE y # x BY <1>1, ExchangeMoves DEF Live
<1>2. CASE y = x
  <2>1. OrderMoves(ex[y], ex'[y]) BY <1>2, ExchangeMoves
  <2>2. TypeOK /\ TypeInv' BY TypeStep DEF SubmissionInv, TypeInv, Next
  <2>3. ex[y].filled \in Nat /\ ex[y].qty \in Nat /\ ex[y].st \in ExchangeStates
        /\ ex'[y].filled \in Nat
    BY <2>2, QtyAssumption DEF TypeInv, TypeOK
  <2>4. CASE ex[y].st = "open"
    <3>1. ex[y].filled >= ex[y].qty BY <2>3, <2>4 DEF Live
    <3>2. /\ ex'[y].filled <= ex[y].qty /\ ex[y].filled <= ex'[y].filled
          /\ ex'[y].qty = ex[y].qty /\ ex'[y].st # "inflight"
      BY <2>1, <2>4 DEF OrderMoves, TerminalStatuses
    <3>3. ex'[y].filled = ex[y].filled /\ ~(ex'[y].filled < ex'[y].qty)
      BY <2>3, <3>1, <3>2
    <3> QED BY <3>2, <3>3 DEF Live
  <2>5. CASE ex[y].st \in TerminalStatuses
    BY <2>1, <2>5 DEF OrderMoves, Live, TerminalStatuses
  <2> QED BY <2>1, <2>3, <2>4, <2>5 DEF Live, OrderMoves, ExchangeStates
<1> QED BY <1>1, <1>2

\* Outcomes that were reported stay true while the exchanges move on.
LEMMA OutcomesStay ==
    ASSUME OutcomeInv, state' = state,
           \/ ex' = ex
           \/ \E x \in Roles : ExchangeStep(x)
           \/ \E r \in Runners, x \in Roles : SendOrder(r, x)
    PROVE  FailedMeansFlat' /\ HedgedMeansBalanced'
<1>1. CASE ex' = ex
  BY <1>1 DEF OutcomeInv, FailedMeansFlat, HedgedMeansBalanced, Live, SpotPosition,
     ContractPosition
<1>2. ASSUME NEW z \in Roles, ExchangeStep(z)
      PROVE  FailedMeansFlat' /\ HedgedMeansBalanced'
  <2>1. ASSUME \A x \in Roles : ~Live(x)
        PROVE  \A x \in Roles : ~Live(x)' /\ ex'[x].filled = ex[x].filled
    BY <1>2, <2>1, OverStays DEF OutcomeInv
  <2>2. FailedMeansFlat' BY <2>1 DEF OutcomeInv, FailedMeansFlat
  <2>3. HedgedMeansBalanced'
    BY <2>1 DEF OutcomeInv, HedgedMeansBalanced, SpotPosition, ContractPosition, Roles,
       MarketRoles, GtcRoles
  <2> QED BY <2>2, <2>3
<1>3. ASSUME NEW r \in Runners, NEW x \in Roles, SendOrder(r, x)
      PROVE  FailedMeansFlat' /\ HedgedMeansBalanced'
  <2>1. job[r].pc = "submitting"
    BY <1>3 DEF SendOrder, OutcomeInv, SubmissionInv, SubmissionsKnown
  <2>2. state = "EXECUTING" BY <2>1 DEF OutcomeInv, RunsKnown, RunKnown
  <2> QED BY <2>2 DEF FailedMeansFlat, HedgedMeansBalanced
<1> QED BY <1>1, <1>2, <1>3

\* Nothing is running on a strategy that was not confirmed.
LEMMA UnconfirmedRests ==
    ASSUME SubmissionInv, state = "PENDING_CONFIRMATION"
    PROVE  \A r \in Runners : job[r].pc = "idle"
BY DEF SubmissionInv, ExecutionIsConfirmed

LEMMA OutcomeRequestStep ==
    ASSUME OutcomeInv, NEW c \in Requests, RequestStep(c)
    PROVE  TableKnown(mode', state', orders') /\ RunsKnown'
           /\ FailedMeansFlat' /\ HedgedMeansBalanced'
<1>1. UNCHANGED <<mode, orders, ex, sends>>
  BY DEF RequestStep, ConfirmAcquires, ConfirmCommits, ConfirmInvalidates, ConfirmFails,
     ConfirmPoisons, db, market
<1>2. CASE state' = state /\ job' = job
  <2>1. TableKnown(mode', state', orders') /\ RunsKnown' BY <1>1, <1>2 DEF OutcomeInv, RunsKnown
  <2> QED BY <1>1, <1>2, <2>1, OutcomesStay
<1>3. CASE /\ state = "PENDING_CONFIRMATION" /\ state' \in {"EXECUTING", "PREFLIGHT_INVALIDATED"}
           /\ \A r \in Runners : job'[r].pc \in {"idle", "ready"}
  <2>1. TableKnown(mode', state', orders') BY <1>1, <1>3 DEF OutcomeInv, TableKnown
  <2>2. RunsKnown' BY <1>3, RestingKnown DEF RunsKnown
  <2>3. FailedMeansFlat' /\ HedgedMeansBalanced'
    BY <1>3 DEF FailedMeansFlat, HedgedMeansBalanced
  <2> QED BY <2>1, <2>2, <2>3
<1>4. CASE ConfirmCommits(c)
  <2>1. state = "PENDING_CONFIRMATION" /\ state' = "EXECUTING" /\ job' = Enqueued
    BY <1>4 DEF ConfirmCommits, MayWriteConfirmation
  <2>2. \A r \in Runners : job[r].pc = "idle" BY <2>1, UnconfirmedRests DEF OutcomeInv
  <2>3. [IdleJob EXCEPT !.pc = "ready"].pc = "ready" BY IdleJobType DEF Job
  <2>4. \A r \in Runners : job'[r].pc \in {"idle", "ready"}
    BY <2>1, <2>2, <2>3
       DEF Enqueued, OutcomeInv, SubmissionInv, TypeInv, TypeOK
  <2> QED BY <1>3, <2>1, <2>4
<1>5. CASE ConfirmInvalidates(c) \/ ConfirmPoisons(c)
  <2>1. /\ job' = job
        /\ \/ state' = state
           \/ /\ state = "PENDING_CONFIRMATION"
              /\ state' \in {"EXECUTING", "PREFLIGHT_INVALIDATED"}
    BY <1>5 DEF ConfirmInvalidates, ConfirmPoisons, MayWriteConfirmation
  <2>2. CASE state' = state BY <1>2, <2>1, <2>2
  <2>3. CASE state' # state
    <3>1. \A r \in Runners : job'[r].pc \in {"idle", "ready"}
      BY <2>1, <2>3, UnconfirmedRests DEF OutcomeInv
    <3> QED BY <1>3, <2>1, <2>3, <3>1
  <2> QED BY <2>2, <2>3
<1>6. CASE ConfirmAcquires(c) \/ ConfirmFails(c)
  BY <1>2, <1>6 DEF ConfirmAcquires, ConfirmFails, db
<1> QED BY <1>4, <1>5, <1>6 DEF RequestStep

LEMMA OutcomeEnvironmentStep ==
    ASSUME OutcomeInv,
           \/ MonitorTick \/ PoisonedElsewhere \/ Crash \/ Heal
           \/ \E x \in Roles : ExchangeStep(x)
    PROVE  TableKnown(mode', state', orders') /\ RunsKnown'
           /\ FailedMeansFlat' /\ HedgedMeansBalanced'
<1>1. UNCHANGED <<mode, state, orders>>
  BY DEF MonitorTick, PoisonedElsewhere, Crash, Heal, ExchangeStep, Accept, Lose, Fill,
     Finish, db
<1>2. TableKnown(mode', state', orders') BY <1>1 DEF OutcomeInv
<1>3. FailedMeansFlat' /\ HedgedMeansBalanced'
  BY <1>1, OutcomesStay DEF MonitorTick, PoisonedElsewhere, Crash, Heal, market
<1>4. job \in [Runners -> Job] BY DEF OutcomeInv, SubmissionInv, TypeInv, TypeOK
<1>5. \A r \in Runners : job'[r] = job[r] \/ job'[r].pc \in {"idle", "ready"}
  <2>1. CASE MonitorTick
    BY <1>4, <2>1 DEF MonitorTick, Job, Runners
  <2>2. CASE Crash BY <2>2, IdleQuiet DEF Crash
  <2>3. CASE PoisonedElsewhere \/ Heal \/ \E x \in Roles : ExchangeStep(x)
    BY <2>3 DEF PoisonedElsewhere, Heal, ExchangeStep, Accept, Lose, Fill, Finish
  <2> QED BY <2>1, <2>2, <2>3
<1>6. RunsKnown' BY <1>1, <1>5, RestingKnown DEF OutcomeInv, RunsKnown
<1> QED BY <1>2, <1>3, <1>6

\* What the steps of a runner start from.
LEMMA RunnerFacts ==
    ASSUME OutcomeInv, NEW r \in Runners
    PROVE  /\ job[r] \in Job /\ job \in [Runners -> Job] /\ orders \in OrderTable
           /\ state \in StrategyStates /\ mode \in ExecutionModes
           /\ JobPlanned(job[r], orders)
           /\ RunKnown(job[r], state, orders)
           /\ job[r].pc \notin {"idle", "ready"} => lock = r
BY ModesAssumption DEF OutcomeInv, SubmissionInv, TypeInv, TypeOK, RunsKnown, Ownership, Busy

\* Steps of a run that leave the rows and the state alone.
LEMMA OutcomeStartStep ==
    ASSUME OutcomeInv, NEW r \in Runners,
           \/ StartRefused(r) \/ StartOwned(r) \/ RunAborts(r) \/ Resume(r)
           \/ DecideNothing(r) \/ DecideResidual(r) \/ ResidualTradable(r)
           \/ GuardGtcPasses(r)
    PROVE  TableKnown(mode', state', orders') /\ RunsKnown'
           /\ FailedMeansFlat' /\ HedgedMeansBalanced'
<1>1. SubmissionInv /\ EvidenceKnown /\ TableKnown(mode, state, orders) /\ RunsKnown
  BY DEF OutcomeInv
<1>2. UNCHANGED <<mode, orders, ex, sends>>
  BY DEF StartRefused, StartOwned, RunAborts, Resume, DecideNothing, DecideResidual,
     ResidualTradable, GuardGtcPasses, db, market
<1>3. state' = state
  <2>1. CASE StartOwned(r)
    <3>1. job[r].pc = "ready" BY <2>1 DEF StartOwned
    <3>2. state # "PENDING_CONFIRMATION" BY <1>1, <3>1, UnconfirmedRests
    <3> QED BY <2>1, <3>2 DEF StartOwned
  <2> QED
    BY <2>1 DEF StartRefused, RunAborts, Resume, DecideNothing, DecideResidual,
       ResidualTradable, GuardGtcPasses, db
<1>4. RunsKnown'
  <2>1. ASSUME NEW j, Continue(r, j), lock \in {r, NoOwner}, RunKnown(j, state, orders)
        PROVE  RunsKnown'
    BY <1>1, <1>2, <1>3, <2>1, RunnerKnown DEF Continue
  <2>2. job[r].pc \notin {"idle", "ready"} => lock = r BY RunnerFacts
  <2>3. CASE StartRefused(r)
    <3>1. \A q \in Runners : job'[q] = job[q] \/ job'[q] = IdleJob
      BY <2>3, RunnerFacts DEF StartRefused
    <3> QED BY <1>1, <1>2, <1>3, <3>1, IdleKnown DEF RunsKnown
  <2>4. CASE StartOwned(r)
    <3>1. job[r].pc = "ready" /\ lock = NoOwner BY <2>4 DEF StartOwned, TryAcquire
    <3>2. state # "PENDING_CONFIRMATION" BY <1>1, <3>1, UnconfirmedRests
    <3>3. Continue(r, BeginRun(job[r], state)) BY <2>4, <3>2 DEF StartOwned
    <3>4. RunKnown(BeginRun(job[r], state), state, orders) BY RunnerFacts, BeginRunKnown
    <3> QED BY <2>1, <3>1, <3>3, <3>4
  <2>5. CASE RunAborts(r) \/ DecideNothing(r)
    <3>1. Continue(r, IdleJob) /\ job[r].pc \notin {"idle", "ready"}
      BY <2>5 DEF RunAborts, DecideNothing, Return
    <3> QED BY <2>1, <2>2, <3>1, IdleKnown
  <2>6. CASE Resume(r)
    <3> DEFINE k == [job[r] EXCEPT !.role = "SPOT_MARKET", !.qty = 0]
    <3>1. k \in Job
      <4>1. "SPOT_MARKET" \in Roles /\ 0 \in 0 .. Qty /\ job[r] \in Job
        BY RunnerFacts, QtyAssumption DEF Roles, MarketRoles
      <4> QED BY <4>1 DEF Job
    <3>2. Continue(r, BeginRun(k, state)) /\ job[r].pc = "submitting" BY <2>6 DEF Resume
    <3> HIDE DEF k
    <3>3. RunKnown(BeginRun(k, state), state, orders) BY <3>1, RunnerFacts, BeginRunKnown
    <3> QED BY <2>1, <2>2, <3>2, <3>3
  <2>7. CASE DecideResidual(r)
    <3> DEFINE j == [job[r] EXCEPT !.pc = "authorize", !.role = Conclusion(r).role,
                                   !.qty = Residual(orders), !.seen = NoOrders]
    <3>1. Continue(r, j) /\ job[r].pc = "decide" /\ Conclusion(r).kind = "authorize"
      BY <2>7 DEF DecideResidual
    <3>2. Conclusion(r) = Decision(state, orders)
      BY <3>1 DEF Conclusion, Pending, Verdict
    <3>3. Settled(Planned(orders), orders) BY <3>1, RunnerFacts DEF RunKnown
    <3>4. /\ PlannedGtcs(orders) = {}
          /\ Imbalanced(Conclusion(r).role, Residual(orders), orders)
      BY <1>1, <3>1, <3>2, <3>3, DecisionIsTrue
    <3>5. state = "EXECUTING"
      BY <1>1, <3>1, <3>4, RunnerFacts DEF RunKnown, TableKnown, ActiveStates
    <3>6. j.pc = "authorize" /\ j.role = Conclusion(r).role /\ j.qty = Residual(orders)
      BY RunnerFacts DEF Job
    <3> HIDE DEF j
    <3>7. RunKnown(j, state, orders) BY <3>4, <3>5, <3>6 DEF RunKnown, ActiveStates
    <3> QED BY <2>1, <2>2, <3>1, <3>7
  <2>8. ASSUME NEW from \in {"authorize", "guard_gtc"}, NEW to \in {"guard_gtc", "price_gtc"},
               job[r].pc = from, Continue(r, [job[r] EXCEPT !.pc = to])
        PROVE  RunsKnown'
    <3> DEFINE j == [job[r] EXCEPT !.pc = to]
    <3>1. j.pc = to /\ j.role = job[r].role /\ j.qty = job[r].qty BY RunnerFacts DEF Job
    <3>2. RunKnown(job[r], state, orders) BY RunnerFacts
    <3> HIDE DEF j
    <3>3. RunKnown(j, state, orders) BY <2>8, <3>1, <3>2 DEF RunKnown
    <3> QED BY <2>1, <2>2, <2>8, <3>3 DEF j
  <2>9. CASE ResidualTradable(r) \/ GuardGtcPasses(r)
    <3>1. job[r].pc \in {"authorize", "guard_gtc"}
      BY <2>9 DEF ResidualTradable, GuardGtcPasses
    <3>2. CASE Continue(r, IdleJob) BY <2>1, <2>2, <3>1, <3>2, IdleKnown
    <3> QED BY <2>8, <2>9, <3>1, <3>2 DEF ResidualTradable, GuardGtcPasses
  <2> QED BY <2>3, <2>4, <2>5, <2>6, <2>7, <2>9
<1>5. TableKnown(mode', state', orders') BY <1>1, <1>2, <1>3
<1> QED BY <1>2, <1>3, <1>4, <1>5, OutcomesStay

\* Answers settle rows and change no market.
LEMMA OutcomeLookupStep ==
    ASSUME OutcomeInv, NEW r \in Runners,
           LookupUnavailable(r) \/ LookupMissing(r) \/ LookupAnswers(r)
    PROVE  TableKnown(mode', state', orders') /\ RunsKnown'
           /\ FailedMeansFlat' /\ HedgedMeansBalanced'
<1> DEFINE role == FirstRow(job[r].todo, orders)
<1>1. SubmissionInv /\ EvidenceKnown /\ TableKnown(mode, state, orders) /\ TypeOK
  BY DEF OutcomeInv, SubmissionInv, TypeInv
<1>2. job[r].pc = "lookup" /\ UNCHANGED <<mode, state, ex, sends>>
  BY DEF LookupUnavailable, LookupMissing, LookupAnswers, db, market
<1>3. role \in Planned(orders) /\ role \in Roles /\ orders[role] \in OrderRow
  BY <1>2, RunnerFacts, FirstRowIn, PlannedRow DEF JobPlanned
<1>4. RowsKept(orders, orders') /\ orders' \in OrderTable
  <2>1. CASE orders' = orders BY <2>1, SameRowsKept, RunnerFacts
  <2>2. CASE LookupAnswers(r)
    <3>1. TypeInv' BY <1>1, <2>2, TypeLookupStep DEF SubmissionInv
    <3> QED BY <1>1, <2>2, <3>1, AnswerKeeps DEF TypeInv, TypeOK
  <2> QED BY <2>1, <2>2 DEF LookupUnavailable, LookupMissing, db
<1>5. \E blocked :
          /\ Continue(r, AfterLookup(job[r], role, blocked, orders'))
          /\ ~blocked => orders'[role].disposition # "SUBMISSION_UNCERTAIN"
  <2>1. CASE LookupUnavailable(r)
    BY <2>1 DEF LookupUnavailable, db
  <2>2. CASE LookupMissing(r)
    <3>1. /\ Continue(r, AfterLookup(job[r], role, MissingOrderBlocks(orders[role]), orders'))
          /\ orders' = orders
      BY <2>2 DEF LookupMissing, db
    <3> HIDE DEF role
    <3> QED BY <3>1 DEF MissingOrderBlocks
  <2>3. CASE LookupAnswers(r)
    <3>1. PICK snap \in Snapshots(role) :
              LET accepted == AcceptsSnapshot(orders[role], snap)
              IN  /\ orders' = IF accepted
                              THEN [orders EXCEPT ![role] = Attached(orders[role], snap)]
                              ELSE orders
                  /\ Continue(r, AfterLookup(job[r], role,
                          ~accepted \/ NotSubmitted(orders, role), orders'))
      BY <2>3 DEF LookupAnswers
    <3> HIDE DEF role
    <3>2. AcceptsSnapshot(orders[role], snap) =>
              orders'[role].disposition = "REMOTE_OBSERVED"
      BY <1>3, <3>1, RunnerFacts DEF Attached, OrderRow, OrderTable
    <3> QED BY <3>1, <3>2
  <2> QED BY <2>1, <2>2, <2>3
<1>6. PICK blocked :
          /\ Continue(r, AfterLookup(job[r], role, blocked, orders'))
          /\ ~blocked => orders'[role].disposition # "SUBMISSION_UNCERTAIN"
  BY <1>5
<1> HIDE DEF role
<1>7. RunKnown(job[r], state', orders') BY <1>2, <1>4, RunnerFacts, KeptRun
<1>8. RunKnown(AfterLookup(job[r], role, blocked, orders'), state', orders')
  BY <1>2, <1>6, <1>7, RunnerFacts, AfterLookupKnown
<1>9. lock = r BY <1>2, RunnerFacts
<1>10. RunsKnown' BY <1>1, <1>6, <1>8, <1>9, RunnerKnown DEF Continue
<1>11. TableKnown(mode', state', orders') BY <1>1, <1>2, <1>4, RunnerFacts, KeptTable
<1> QED BY <1>2, <1>10, <1>11, OutcomesStay

\* A conclusion is written for settled rows, so it is true.
LEMMA OutcomeConcludeStep ==
    ASSUME OutcomeInv, NEW r \in Runners, DecideTransition(r) \/ ResidualNotTradable(r)
    PROVE  TableKnown(mode', state', orders') /\ RunsKnown'
           /\ FailedMeansFlat' /\ HedgedMeansBalanced'
<1>1. SubmissionInv /\ EvidenceKnown /\ TableKnown(mode, state, orders)
  BY DEF OutcomeInv
<1>2. /\ UNCHANGED <<mode, orders, ex, sends>> /\ Continue(r, IdleJob)
      /\ job[r].pc \in {"decide", "authorize"}
  BY DEF DecideTransition, ResidualNotTradable, Return, market
<1>3. lock = r BY <1>2, RunnerFacts
<1>4. RunsKnown' BY <1>1, <1>2, <1>3, IdleKnown, RunnerKnown DEF Continue
<1>5. CASE state' = state
  <2>1. TableKnown(mode', state', orders') BY <1>1, <1>2, <1>5
  <2> QED BY <1>2, <1>4, <1>5, <2>1, OutcomesStay
<1>6. CASE state' = "HEDGE_INCOMPLETE"
  <2>1. TableKnown(mode', state', orders') BY <1>1, <1>2, <1>6 DEF TableKnown
  <2> QED BY <1>4, <1>6, <2>1 DEF FailedMeansFlat, HedgedMeansBalanced
<1>7. CASE DecideTransition(r) /\ state' # state
  <2>1. /\ job[r].pc = "decide" /\ Conclusion(r).kind = "transition"
        /\ state' = Conclusion(r).state
    BY <1>7 DEF DecideTransition, WriteTransition
  <2>2. Conclusion(r) = Decision(state, orders) BY <2>1 DEF Conclusion, Pending, Verdict
  <2>3. Settled(Planned(orders), orders) BY <2>1, RunnerFacts DEF RunKnown
  <2>4. CASE state' = "WAITING_HEDGE" /\ \E g \in PlannedGtcs(orders) : Observed(orders, g)
    <3>1. TableKnown(mode', state', orders') BY <1>1, <1>2, <2>4 DEF TableKnown
    <3> QED BY <1>4, <2>4, <3>1 DEF FailedMeansFlat, HedgedMeansBalanced
  <2>5. CASE Final(Conclusion(r))
    <3>1. \A x \in Roles : ~Live(x)' /\ ex'[x].filled = Filled(orders, x)
      BY <1>2, <2>5 DEF Final, Done, Live
    <3>2. TableKnown(mode', state', orders')
      BY <1>1, <1>2, <2>1, <2>5 DEF TableKnown, Final
    <3>3. FailedMeansFlat' BY <2>1, <2>5, <3>1 DEF FailedMeansFlat, Final
    <3>4. HedgedMeansBalanced'
      <4>1. SpotPosition' = TotalSpot(orders) /\ ContractPosition' = TotalContract(orders)
        BY <3>1 DEF SpotPosition, ContractPosition, TotalSpot, TotalContract, Roles,
           MarketRoles, GtcRoles
      <4> QED BY <2>1, <2>5, <3>1, <4>1 DEF HedgedMeansBalanced, Final
    <3> QED BY <1>4, <3>2, <3>3, <3>4
  <2> QED BY <1>1, <2>1, <2>2, <2>3, <2>4, <2>5, DecisionIsTrue
<1> QED BY <1>5, <1>6, <1>7 DEF ResidualNotTradable, WriteTransition

\* The rows of the first plan are the markets of the execution mode.
LEMMA InitialPlanKnown ==
    ASSUME OutcomeInv, NEW st, st # "WAITING_HEDGE"
    PROVE  TableKnown(mode, st, InitialPlan)
<1>1. TypeOK /\ orders \in OrderTable /\ mode \in ExecutionModes /\ TableKnown(mode, state, orders)
  BY RunnerFacts DEF OutcomeInv, SubmissionInv, TypeInv, TypeOK, Runners
<1>2. Adds(orders, InitialPlan) /\ InitialPlan \in OrderTable
  BY <1>1, InitialPlanAdds DEF Adds
<1>3. CASE Planned(orders) # {}
  <2>1. \A x \in Roles : InitialPlan[x] = orders[x] BY <1>3 DEF InitialPlan, InitialRoles
  <2>2. RowsKept(orders, InitialPlan) BY <2>1 DEF RowsKept, RowKept, Planned
  <2>3. TableKnown(mode, state, InitialPlan) BY <1>1, <1>2, <2>2, KeptTable
  <2> QED BY <2>3 DEF TableKnown
<1>4. CASE Planned(orders) = {}
  <2>1. InitialRoles = RequiredMarkets(mode) /\ RequiredMarkets(mode) \subseteq MarketRoles
    BY <1>1, <1>4, RequiredNotEmpty DEF InitialRoles
  <2>2. \A x \in Roles : x \notin RequiredMarkets(mode) => InitialPlan[x] = NoOrder
    BY <1>4, <2>1 DEF InitialPlan, Planned
  <2>3. \A x \in RequiredMarkets(mode) : x \in Planned(InitialPlan)
    BY <1>1, <2>1, InitialPlanType
  <2>4. PlannedMarkets(InitialPlan) = RequiredMarkets(mode)
    BY <2>1, <2>2, <2>3 DEF PlannedMarkets, Planned
  <2>5. PlannedGtcs(InitialPlan) = {}
    BY <2>1, <2>2 DEF PlannedGtcs, Planned, MarketRoles, GtcRoles
  <2>6. \A m \in PlannedMarkets(InitialPlan) : InitialPlan[m].qty = Qty
    BY <2>1, <2>4 DEF InitialPlan, NewOrder, Roles
  <2> QED BY <2>4, <2>5, <2>6 DEF TableKnown
<1> QED BY <1>3, <1>4

\* The row of a hedging order is for the difference of markets that have ended.
LEMMA GtcPlanKnown ==
    ASSUME NEW table \in OrderTable, NEW g, NEW q, Imbalanced(g, q, table),
           PlannedGtcs(table) = {}, NEW md, NEW st, TableKnown(md, st, table),
           NEW new \in OrderTable, NEW rowid,
           new = [table EXCEPT ![g] = NewOrder(rowid, q)],
           Planned(new) = Planned(table) \cup {g}
    PROVE  TableKnown(md, st, new)
<1>1. g \in GtcRoles /\ g \in Roles /\ g \notin MarketRoles
  BY DEF Imbalanced, SmallerLegGtc, GtcRoles, Roles, MarketRoles
<1>2. \A m \in MarketRoles : new[m] = table[m] BY <1>1 DEF OrderTable, Roles
<1>3. PlannedMarkets(new) = PlannedMarkets(table) BY <1>1 DEF PlannedMarkets
<1>4. PlannedGtcs(new) = {g} BY <1>1 DEF PlannedGtcs
<1>5. new[g].qty = q BY <1>1 DEF OrderTable, NewOrder
<1>6. Filled(new, "SPOT_MARKET") = Filled(table, "SPOT_MARKET")
      /\ Filled(new, "CONTRACT_MARKET") = Filled(table, "CONTRACT_MARKET")
  BY <1>2 DEF Filled, MarketRoles
<1>7. \A m \in PlannedMarkets(new) : m \in MarketRoles /\ new[m] = table[m]
  BY <1>2 DEF PlannedMarkets
<1>8. Imbalanced(g, q, new)
  BY <1>3, <1>6, <1>7 DEF Imbalanced, MarketDelta, SmallerLegGtc, Residual
<1> QED BY <1>3, <1>4, <1>5, <1>7, <1>8 DEF TableKnown

LEMMA OutcomePlanStep ==
    ASSUME OutcomeInv, NEW r \in Runners, PlanMarkets(r) \/ PlanGtc(r)
    PROVE  TableKnown(mode', state', orders') /\ RunsKnown'
           /\ FailedMeansFlat' /\ HedgedMeansBalanced'
<1>1. SubmissionInv /\ TypeInv /\ TableKnown(mode, state, orders) /\ TypeInv'
      /\ RunKnown(job[r], state, orders)
  BY RunnerFacts, TypePlanStep DEF OutcomeInv, SubmissionInv
<1>2. UNCHANGED <<mode, state, ex, sends>> /\ job[r].pc \in {"guard_market", "price_gtc"}
  BY DEF PlanMarkets, PlanGtc, market
<1>3. state = "EXECUTING" BY <1>1, <1>2 DEF RunKnown
<1>4. lock = r BY <1>2, RunnerFacts
<1>5. RunsKnown'
  <2>1. ASSUME NEW j, Continue(r, j), RunKnown(j, state, orders') PROVE RunsKnown'
    BY <1>1, <1>2, <1>4, <2>1, RunnerKnown DEF Continue
  <2>2. ASSUME NEW roles, NEW phase PROVE RunKnown(Submitting(job[r], roles, phase), state, orders')
    <3>1. Submitting(job[r], roles, phase).pc = "submitting"
      BY RunnerFacts DEF Submitting, Job
    <3> QED BY <1>3, <3>1 DEF RunKnown, ActiveStates
  <2> QED BY <2>1, <2>2, IdleKnown DEF PlanMarkets, PlanGtc, Return
<1>6. TableKnown(mode', state', orders')
  <2>1. CASE orders' = orders BY <1>1, <1>2, <2>1
  <2>2. CASE orders' = InitialPlan BY <1>2, <1>3, <2>2, InitialPlanKnown
  <2>3. ASSUME PlanGtc(r), orders[job[r].role] = NoOrder,
               orders' = [orders EXCEPT ![job[r].role] = NewOrder(NextRow, job[r].qty)]
        PROVE  TableKnown(mode', state', orders')
    <3>1. PlannedGtcs(orders) = {} /\ Imbalanced(job[r].role, job[r].qty, orders)
      BY <1>1, <2>3 DEF PlanGtc, RunKnown
    <3>2. job[r].role \in Roles /\ job[r].qty \in 0 .. Qty /\ NextRow \in Nat
          /\ orders \in OrderTable /\ orders' \in OrderTable
      BY <1>1, RunnerFacts, PlannedCardinality DEF Job, NextRow, TypeInv, TypeOK
    <3>3. NewOrder(NextRow, job[r].qty) \in OrderRow BY <3>2, NewOrderType
    <3> DEFINE g == job[r].role
               row == NewOrder(NextRow, job[r].qty)
    <3>4. Planned([orders EXCEPT ![g] = row]) = Planned(orders) \cup {g}
      <4> HIDE DEF g, row
      <4> QED BY <3>2, <3>3, RowReplaced DEF g, row
    <3>5. TableKnown(mode, state, [orders EXCEPT ![g] = row])
      BY <1>1, <2>3, <3>1, <3>2, <3>4, GtcPlanKnown
    <3> QED BY <1>2, <2>3, <3>5
  <2> QED BY <2>1, <2>2, <2>3 DEF PlanMarkets, PlanGtc
<1> QED BY <1>2, <1>5, <1>6, OutcomesStay

LEMMA OutcomeSubmitStep ==
    ASSUME OutcomeInv, NEW r \in Runners, NEW x \in Roles,
           PrepareFails(r, x) \/ SendOrder(r, x) \/ SubmissionSettles(r, x)
    PROVE  TableKnown(mode', state', orders') /\ RunsKnown'
           /\ FailedMeansFlat' /\ HedgedMeansBalanced'
<1>1. SubmissionInv /\ EvidenceKnown /\ TableKnown(mode, state, orders)
      /\ TypeInv' /\ orders \in OrderTable
  BY RunnerFacts, TypeSubmissionStep DEF OutcomeInv, SubmissionInv
<1>2. UNCHANGED <<mode, state>>
  BY DEF PrepareFails, SendOrder, SubmissionSettles, db, market
<1>3. RowsKept(orders, orders') /\ orders' \in OrderTable
  <2>1. CASE orders' = orders BY <1>1, <2>1, SameRowsKept
  <2>2. CASE PrepareFails(r, x) BY <1>1, <2>2, PrepareKeeps DEF TypeInv, TypeOK
  <2> QED BY <2>1, <2>2 DEF SendOrder, SubmissionSettles, db
<1>4. TableKnown(mode', state', orders') BY <1>1, <1>2, <1>3, KeptTable
<1>5. RunsKnown'
  <2>1. PICK sub : job' = [job EXCEPT ![r].sub[x] = sub]
    BY DEF PrepareFails, SendOrder, SubmissionSettles
  <2>2. \A q \in Runners :
            /\ job'[q].pc = job[q].pc /\ job'[q].pending = job[q].pending
            /\ job'[q].todo = job[q].todo /\ job'[q].role = job[q].role
            /\ job'[q].qty = job[q].qty
    BY <2>1, RunnerFacts DEF Job
  <2>3. \A q \in Runners : RunKnown(job[q], state', orders')
    BY <1>1, <1>2, <1>3, KeptRun DEF OutcomeInv, RunsKnown
  <2> QED BY <2>2, <2>3 DEF RunsKnown, RunKnown
<1>6. FailedMeansFlat' /\ HedgedMeansBalanced'
  BY <1>2, OutcomesStay DEF PrepareFails, SendOrder, SubmissionSettles, market
<1> QED BY <1>4, <1>5, <1>6

LEMMA OutcomeInit == Init => OutcomeInv
<1> SUFFICES ASSUME Init PROVE OutcomeInv OBVIOUS
<1>1. SubmissionInv /\ EvidenceKnown BY SubmissionInit, EvidenceInit
<1>2. Planned(orders) = {} BY DEF Init, NoOrders, Planned
<1>3. TableKnown(mode, state, orders)
  BY <1>2 DEF Init, TableKnown, PlannedMarkets, PlannedGtcs
<1>4. RunsKnown BY IdleKnown DEF Init, RunsKnown
<1>5. FailedMeansFlat /\ HedgedMeansBalanced
  BY DEF Init, FailedMeansFlat, HedgedMeansBalanced
<1> QED BY <1>1, <1>3, <1>4, <1>5 DEF OutcomeInv

LEMMA OutcomeStep == OutcomeInv /\ [Next]_vars => OutcomeInv'
<1> SUFFICES ASSUME OutcomeInv, [Next]_vars PROVE OutcomeInv' OBVIOUS
<1>1. SubmissionInv' /\ EvidenceKnown' BY SubmissionStep, EvidenceStep DEF OutcomeInv
<1>2. TableKnown(mode', state', orders') /\ RunsKnown' /\ FailedMeansFlat' /\ HedgedMeansBalanced'
  <2>1. CASE \E c \in Requests : RequestStep(c) BY <2>1, OutcomeRequestStep
  <2>2. CASE \E r \in Runners : RunnerStep(r)
    BY <2>2, OutcomeStartStep, OutcomeLookupStep, OutcomeConcludeStep, OutcomePlanStep,
       OutcomeSubmitStep
       DEF RunnerStep
  <2>3. CASE \/ \E x \in Roles : ExchangeStep(x)
             \/ MonitorTick \/ PoisonedElsewhere \/ Crash \/ Heal
    BY <2>3, OutcomeEnvironmentStep
  <2>4. CASE UNCHANGED vars
    <3>1. TableKnown(mode', state', orders') /\ RunsKnown'
      BY <2>4 DEF vars, OutcomeInv, RunsKnown
    <3> QED BY <2>4, <3>1, OutcomesStay DEF vars
  <2> QED BY <2>1, <2>2, <2>3, <2>4 DEF Next
<1> QED BY <1>1, <1>2 DEF OutcomeInv

LEMMA OutcomeInvariant == Spec => []OutcomeInv
BY OutcomeInit, OutcomeStep, PTL DEF Spec

-----------------------------------------------------------------------------
(* What a strategy reports is true *)

\* FAILED is only reported, and stays true, when no order of either exchange was
\* filled and none can be any more.
THEOREM FailedMeansFlatHolds == Spec => []FailedMeansFlat
<1>1. OutcomeInv => FailedMeansFlat BY DEF OutcomeInv
<1> QED BY <1>1, OutcomeInvariant, PTL

\* HEDGED is only reported, and stays true, when both positions are equal, positive
\* and final.
THEOREM HedgedMeansBalancedHolds == Spec => []HedgedMeansBalanced
<1>1. OutcomeInv => HedgedMeansBalanced BY DEF OutcomeInv
<1> QED BY <1>1, OutcomeInvariant, PTL

-----------------------------------------------------------------------------
(* What a step may never do *)

\* Nobody runs on a strategy that has concluded or was never confirmed.
LEMMA ConcludedRests ==
    ASSUME OutcomeInv, state \notin ActiveStates
    PROVE  \A r \in Runners : job[r].pc \in {"idle", "ready"}
BY DEF OutcomeInv, RunsKnown, RunKnown

\* A concluded or invalidated strategy is never written to again, and nothing is
\* submitted for it, whoever still waits for an answer about it.
THEOREM ConclusionIsFinalHolds == Spec => ConclusionIsFinal
<1> DEFINE Over == state \in TerminalStates \cup {"PREFLIGHT_INVALIDATED"}
<1>1. OutcomeInv /\ [Next]_vars => (Over => UNCHANGED <<state, failure, orders, sends>>)
  <2> SUFFICES ASSUME OutcomeInv, [Next]_vars, Over
               PROVE  UNCHANGED <<state, failure, orders, sends>>
    OBVIOUS
  <2>1. \A r \in Runners : job[r].pc \in {"idle", "ready"}
    BY ConcludedRests DEF TerminalStates, ActiveStates
  <2>2. state # "PENDING_CONFIRMATION" BY DEF TerminalStates
  <2>3. \A r \in Runners, x \in Roles : job[r].sub[x] = "none"
    BY <2>1 DEF OutcomeInv, SubmissionInv, SubmissionsKnown
  <2>4. ASSUME NEW r \in Runners, RunnerStep(r)
        PROVE  UNCHANGED <<state, failure, orders, sends>>
    <3>1. StartRefused(r) \/ StartOwned(r)
      BY <2>1, <2>3, <2>4
         DEF RunnerStep, RunAborts, LookupUnavailable, LookupMissing, LookupAnswers,
             DecideNothing, DecideTransition, DecideResidual, ResidualNotTradable,
             ResidualTradable, PlanMarkets, GuardGtcPasses, PlanGtc, Resume, PrepareFails,
             SendOrder, SubmissionSettles
    <3> QED BY <2>2, <3>1 DEF StartRefused, StartOwned, db, market
  <2>5. ASSUME NEW c \in Requests, RequestStep(c)
        PROVE  UNCHANGED <<state, failure, orders, sends>>
    BY <2>2, <2>5
       DEF RequestStep, ConfirmAcquires, ConfirmCommits, ConfirmInvalidates, ConfirmFails,
           ConfirmPoisons, MayWriteConfirmation, db, market
  <2>6. CASE \/ \E x \in Roles : ExchangeStep(x)
             \/ MonitorTick \/ PoisonedElsewhere \/ Crash \/ Heal \/ UNCHANGED vars
    BY <2>6
       DEF ExchangeStep, Accept, Lose, Fill, Finish, MonitorTick, PoisonedElsewhere, Crash,
           Heal, vars, db, market
  <2> QED BY <2>4, <2>5, <2>6 DEF Next
<1> QED BY <1>1, OutcomeInvariant, PTL DEF Spec, ConclusionIsFinal

\* The exchanges fill no other order once a hedging order was sent.
LEMMA OnlyTheGtcFills ==
    ASSUME OutcomeInv, NEW g \in GtcRoles, sends[g] > 0, NEW x \in Roles, Fill(x)
    PROVE  /\ x = g /\ g \in PlannedGtcs(orders) /\ ex[g].filled < Residual(orders)
           /\ \A y \in Roles : y # g => ex[y].filled = Filled(orders, y)
           /\ \A y \in GtcRoles : y # g => ex[y].filled = 0
           /\ \A y \in Roles : ex'[y].filled = IF y = g THEN ex[g].filled + 1 ELSE ex[y].filled
<1>1. SubmissionInv /\ EvidenceKnown /\ TableKnown(mode, state, orders)
      /\ g \in Roles
  BY DEF OutcomeInv, Roles
<1>2. g \in PlannedGtcs(orders) BY <1>1 DEF SubmissionInv, SubmissionsKnown, PlannedGtcs
<1>3. \A y \in Roles : y # g => Done(y) BY <1>1, <1>2, GtcOnEndedMarkets DEF Roles
<1>4. Live(x) BY DEF Fill, Live
<1>5. x = g BY <1>3, <1>4 DEF Done
<1>6. orders[g].qty = Residual(orders) /\ \A y \in GtcRoles : y # g => Filled(orders, y) = 0
  BY <1>1, <1>2, GtcOnEndedMarkets
<1>7. ex[g].qty = orders[g].qty BY <1>1 DEF EvidenceKnown, Truthful
<1>8. ex[g].filled < ex[g].qty /\ ex' = [ex EXCEPT ![g].filled = @ + 1]
  BY <1>5 DEF Fill
<1>9. \A y \in Roles : ex'[y].filled = IF y = g THEN ex[g].filled + 1 ELSE ex[y].filled
  BY <1>1, <1>8 DEF SubmissionInv, TypeInv, TypeOK
<1> QED BY <1>2, <1>3, <1>5, <1>6, <1>7, <1>8, <1>9 DEF Done, Roles

\* Once a hedging order is sent, whatever trades makes the two positions more alike.
THEOREM HedgingNeverAddsExposureHolds == Spec => HedgingNeverAddsExposure
<1>1. OutcomeInv /\ [Next]_vars =>
          ((\E g \in GtcRoles : sends[g] > 0) => Exposure' <= Exposure)
  <2> SUFFICES ASSUME OutcomeInv, [Next]_vars, NEW g \in GtcRoles, sends[g] > 0
               PROVE  Exposure' <= Exposure
    OBVIOUS
  <2> USE DEF Roles, MarketRoles, GtcRoles
  <2>1. /\ \A x \in Roles : ex[x].filled \in Nat
        /\ ex \in [Roles -> [st : ExchangeStates, qty : 0 .. Qty, filled : 0 .. Qty]]
        /\ orders \in OrderTable
    BY QtyAssumption DEF OutcomeInv, SubmissionInv, TypeInv, TypeOK
  <2>2. Exposure \in Nat
    <3>1. SpotPosition \in Nat /\ ContractPosition \in Nat
      BY <2>1 DEF SpotPosition, ContractPosition
    <3> QED BY <3>1 DEF Exposure, Distance
  <2>3. CASE \A x \in Roles : ex'[x].filled = ex[x].filled
    <3>1. Exposure' = Exposure
      BY <2>3 DEF Exposure, SpotPosition, ContractPosition
    <3> QED BY <2>2, <3>1
  <2>4. ASSUME NEW x \in Roles, Fill(x) PROVE Exposure' <= Exposure
    <3> DEFINE s == Filled(orders, "SPOT_MARKET")
               c == Filled(orders, "CONTRACT_MARKET")
               e == ex[g].filled
    <3>1. s \in Nat /\ c \in Nat /\ e \in Nat BY <2>1, FilledNumbers
    <3>2. /\ g \in PlannedGtcs(orders) /\ e < Residual(orders)
          /\ \A y \in Roles : y # g => ex[y].filled = Filled(orders, y)
          /\ \A y \in GtcRoles : y # g => ex[y].filled = 0
          /\ \A y \in Roles : ex'[y].filled = IF y = g THEN e + 1 ELSE ex[y].filled
      BY <2>4, OnlyTheGtcFills
    <3>3. g = SmallerLegGtc(orders) /\ MarketDelta(orders) # 0
      BY <3>2, GtcOnEndedMarkets DEF OutcomeInv
    <3>4. CASE s > c
      <4>1. g = "CONTRACT_HEDGE_GTC" BY <3>1, <3>3, <3>4 DEF SmallerLegGtc, MarketDelta
      <4>2. /\ SpotPosition = s + 0 /\ ContractPosition = c + e
            /\ SpotPosition' = s + 0 /\ ContractPosition' = c + (e + 1)
        BY <3>2, <4>1 DEF SpotPosition, ContractPosition
      <4>3. e < s - c BY <3>1, <3>2, <3>4 DEF Residual, Distance
      <4> HIDE DEF s, c, e
      <4> QED BY <3>1, <4>2, <4>3 DEF Exposure, Distance
    <3>5. CASE s < c
      <4>1. g = "SPOT_HEDGE_GTC" BY <3>1, <3>3, <3>5 DEF SmallerLegGtc, MarketDelta
      <4>2. /\ SpotPosition = s + e /\ ContractPosition = c + 0
            /\ SpotPosition' = s + (e + 1) /\ ContractPosition' = c + 0
        BY <3>2, <4>1 DEF SpotPosition, ContractPosition
      <4>3. e < c - s BY <3>1, <3>2, <3>5 DEF Residual, Distance
      <4> HIDE DEF s, c, e
      <4> QED BY <3>1, <4>2, <4>3 DEF Exposure, Distance
    <3>6. s # c BY <3>1, <3>3 DEF MarketDelta
    <3> HIDE DEF s, c
    <3> QED BY <3>1, <3>4, <3>5, <3>6
  <2>5. ASSUME NEW x \in Roles, ExchangeStep(x), ~Fill(x)
        PROVE  \A y \in Roles : ex'[y].filled = ex[y].filled
    BY <2>1, <2>5 DEF ExchangeStep, Accept, Lose, Finish
  <2>6. ASSUME NEW r \in Runners, NEW x \in Roles, SendOrder(r, x)
        PROVE  \A y \in Roles : ex'[y].filled = ex[y].filled
    <3>1. SubmissionInv /\ EvidenceKnown BY DEF OutcomeInv
    <3> QED BY <2>6, <3>1, SendCreates
  <2>7. \/ \E x \in Roles : ExchangeStep(x)
        \/ \E r \in Runners, x \in Roles : SendOrder(r, x)
        \/ ex' = ex
    BY DEF Next, RequestStep, ConfirmAcquires, ConfirmCommits, ConfirmInvalidates,
       ConfirmFails, ConfirmPoisons, RunnerStep, StartRefused, StartOwned, RunAborts,
       LookupUnavailable, LookupMissing, LookupAnswers, DecideNothing, DecideTransition,
       DecideResidual, ResidualNotTradable, ResidualTradable, PlanMarkets, GuardGtcPasses,
       PlanGtc, Resume, PrepareFails, SubmissionSettles, MonitorTick, PoisonedElsewhere,
       Crash, Heal, vars, market, db
  <2> QED BY <2>3, <2>4, <2>5, <2>6, <2>7
<1> QED BY <1>1, OutcomeInvariant, PTL DEF Spec, HedgingNeverAddsExposure

-----------------------------------------------------------------------------
(* The refinement *)

Sent == {x \in Roles : sends[x] > 0}
LiveRoles == {x \in Roles : Live(x)}
Limits == [x \in Roles |-> ex[x].qty]
Fills == [x \in Roles |-> ex[x].filled]

LEMMA Legs ==
    ASSUME NEW f
    PROVE  /\ Promise!Leg("spot", f) = f["SPOT_MARKET"] + f["SPOT_HEDGE_GTC"]
           /\ Promise!Leg("contract", f) = f["CONTRACT_MARKET"] + f["CONTRACT_HEDGE_GTC"]
<1> DEFINE spot == {"SPOT_MARKET", "SPOT_HEDGE_GTC"}
<1>1. (CHOOSE r \in MarketRoles : (r \in spot) = ("spot" = "spot")) = "SPOT_MARKET"
  BY DEF MarketRoles
<1>2. (CHOOSE r \in GtcRoles : (r \in spot) = ("spot" = "spot")) = "SPOT_HEDGE_GTC"
  BY DEF GtcRoles
<1>3. (CHOOSE r \in MarketRoles : (r \in spot) = ("contract" = "spot")) = "CONTRACT_MARKET"
  BY DEF MarketRoles
<1>4. (CHOOSE r \in GtcRoles : (r \in spot) = ("contract" = "spot")) = "CONTRACT_HEDGE_GTC"
  BY DEF GtcRoles
<1> QED BY <1>1, <1>2, <1>3, <1>4 DEF Promise!Leg

\* Steps that a reader of the exchanges and of the state cannot see.
Unseen == UNCHANGED <<mode, state, Sent, LiveRoles, Limits, Fills>>

LEMMA SameIsUnseen ==
    ASSUME UNCHANGED <<mode, state, ex, sends>>
    PROVE  Unseen
BY DEF Unseen, Sent, LiveRoles, Limits, Fills, Live

\* When every order is done, what a conclusion says is what the promise asks for.
LEMMA FinalConcludes ==
    ASSUME OutcomeInv, state \in ActiveStates, NEW v, Final(v), state' = v.state,
           UNCHANGED <<mode, ex, sends>>
    PROVE  Promise!Conclude
<1>1. LiveRoles = {} BY DEF Final, Done, LiveRoles
<1>2. \A x \in Roles : Fills[x] = Filled(orders, x) BY DEF Final, Done, Fills
<1>3. Promise!AllRoles = Roles BY DEF Promise!AllRoles, Roles
<1>4. /\ Promise!Leg("spot", Fills) = TotalSpot(orders)
      /\ Promise!Leg("contract", Fills) = TotalContract(orders)
  BY <1>2, Legs DEF TotalSpot, TotalContract, Roles, MarketRoles, GtcRoles
<1>5. UNCHANGED <<RequiredMarkets(mode), Sent, LiveRoles, Limits, Fills>>
  BY DEF Sent, LiveRoles, Limits, Fills, Live
<1>6. \/ state' = "HEDGED" /\ Promise!Balanced(Fills)
      \/ state' = "FAILED" /\ ~Promise!Traded(Roles, Fills)
      \/ state' = "HEDGE_INCOMPLETE" /\ Promise!Traded(Roles, Fills)
  BY <1>2, <1>4 DEF Final, Promise!Balanced, Promise!Traded
<1> HIDE DEF LiveRoles, Sent, Limits, Fills
<1> QED
  BY <1>1, <1>3, <1>5, <1>6
     DEF Promise!Conclude, ActiveStates, LiveRoles, Sent, Limits, Fills

LEMMA ConclusionKept ==
    ASSUME OutcomeInv, NEW r \in Runners, DecideTransition(r) \/ ResidualNotTradable(r)
    PROVE  Unseen \/ Promise!Rest \/ Promise!Conclude
<1>1. SubmissionInv /\ EvidenceKnown /\ TableKnown(mode, state, orders)
  BY DEF OutcomeInv
<1>2. UNCHANGED <<mode, orders, ex, sends>> /\ job[r].pc \in {"decide", "authorize"}
  BY DEF DecideTransition, ResidualNotTradable, market
<1>3. RunKnown(job[r], state, orders) /\ state \in ActiveStates /\ orders \in OrderTable
  BY <1>2, RunnerFacts DEF RunKnown
<1>4. CASE state' = state BY <1>2, <1>4, SameIsUnseen
<1>5. CASE ResidualNotTradable(r) /\ state' # state
  <2> DEFINE v == Failure("HEDGE_INCOMPLETE", "HEDGE_RESIDUAL_NOT_TRADABLE")
  <2>1. state' = "HEDGE_INCOMPLETE" /\ job[r].pc = "authorize"
    BY <1>5 DEF ResidualNotTradable, WriteTransition
  <2>2. PlannedGtcs(orders) = {} /\ Imbalanced(job[r].role, job[r].qty, orders)
    BY <1>3, <2>1 DEF RunKnown
  <2>3. \A x \in Roles : Done(x)
    <3>1. SUFFICES ASSUME NEW x \in Roles PROVE Done(x) OBVIOUS
    <3>2. CASE x \in Planned(orders)
      <4>1. x \in PlannedMarkets(orders)
        BY <2>2, <3>2 DEF PlannedGtcs, PlannedMarkets, Roles
      <4> QED BY <1>1, <2>2, <3>2, <4>1, EndedDone DEF Imbalanced
    <3>3. CASE x \notin Planned(orders) BY <1>1, <3>3, NothingDone
    <3> QED BY <3>2, <3>3
  <2>4. \E x \in Roles : Filled(orders, x) > 0
    BY <1>3, <2>2, ImbalanceIsPosition DEF Imbalanced
  <2>5. Final(v) /\ state' = v.state
    BY <2>1, <2>3, <2>4 DEF Final, Failure, Verdict
  <2> HIDE DEF v
  <2> QED BY <1>2, <1>3, <2>5, FinalConcludes
<1>6. CASE DecideTransition(r) /\ state' # state
  <2>1. /\ job[r].pc = "decide" /\ Conclusion(r).kind = "transition"
        /\ state' = Conclusion(r).state /\ state' \in AllowedTransitions(state)
    BY <1>6 DEF DecideTransition, WriteTransition
  <2>2. Conclusion(r) = Decision(state, orders) BY <2>1 DEF Conclusion, Pending, Verdict
  <2>3. Settled(Planned(orders), orders) BY <1>3, <2>1 DEF RunKnown
  <2>4. ASSUME state' = "WAITING_HEDGE", NEW g \in PlannedGtcs(orders), Observed(orders, g)
        PROVE  Promise!Rest
    <3>1. g \in Roles /\ g \in GtcRoles /\ g \in Planned(orders)
      BY DEF PlannedGtcs, Roles
    <3>2. ex[g].st # "absent"
      BY <2>4, <3>1
         DEF OutcomeInv, EvidenceKnown, Truthful, RowTruthful, Observed, TerminalStatuses
    <3>3. sends[g] > 0
      BY <1>1, <3>1, <3>2 DEF EvidenceKnown, Truthful, SubmissionInv, TypeInv, TypeOK
    <3>4. Sent \cap GtcRoles # {} BY <3>1, <3>3 DEF Sent
    <3>5. state = "EXECUTING" BY <1>3, <1>6, <2>4 DEF ActiveStates
    <3>6. UNCHANGED <<RequiredMarkets(mode), Sent, LiveRoles, Limits, Fills>>
      BY <1>2 DEF Sent, LiveRoles, Limits, Fills, Live
    <3> QED BY <2>4, <3>4, <3>5, <3>6 DEF Promise!Rest, Sent, LiveRoles, Limits, Fills
  <2>5. CASE Final(Conclusion(r)) BY <1>2, <1>3, <2>1, <2>5, FinalConcludes
  <2> QED BY <1>1, <2>1, <2>2, <2>3, <2>4, <2>5, DecisionIsTrue
<1> QED BY <1>4, <1>5, <1>6

\* Confirmations are the only other steps that write the state.
LEMMA RequestKept ==
    ASSUME OutcomeInv, NEW c \in Requests, RequestStep(c)
    PROVE  Unseen \/ Promise!Confirm
<1>1. UNCHANGED <<mode, ex, sends>>
  BY DEF RequestStep, ConfirmAcquires, ConfirmCommits, ConfirmInvalidates, ConfirmFails,
     ConfirmPoisons, db, market
<1>2. \/ state' = state
      \/ state = "PENDING_CONFIRMATION" /\ state' \in {"EXECUTING", "PREFLIGHT_INVALIDATED"}
  BY DEF RequestStep, ConfirmAcquires, ConfirmCommits, ConfirmInvalidates, ConfirmFails,
     ConfirmPoisons, MayWriteConfirmation, db
<1>3. UNCHANGED <<RequiredMarkets(mode), Sent, LiveRoles, Limits, Fills>>
  BY <1>1 DEF Sent, LiveRoles, Limits, Fills, Live
<1> QED
  BY <1>1, <1>2, <1>3, SameIsUnseen
     DEF Promise!Confirm, Sent, LiveRoles, Limits, Fills

\* An order that is over leaves a step of the exchange unseen, any other one trades or dies.
LEMMA ExchangeKept ==
    ASSUME OutcomeInv, NEW x \in Roles, ExchangeStep(x)
    PROVE  Unseen \/ Promise!Die(x) \/ Promise!Trade(x)
<1>1. SubmissionInv /\ EvidenceKnown /\ TypeOK /\ TypeInv'
  BY TypeStep DEF OutcomeInv, SubmissionInv, TypeInv, Next
<1>2. UNCHANGED <<mode, state, sends>>
  BY DEF ExchangeStep, Accept, Lose, Fill, Finish, db
<1>3. OrderMoves(ex[x], ex'[x]) /\ \A y \in Roles : y # x => ex'[y] = ex[y]
  BY <1>1, ExchangeMoves
<1>4. Sent' = Sent /\ RequiredMarkets(mode)' = RequiredMarkets(mode) BY <1>2 DEF Sent
<1>5. Limits' = Limits
  <2>1. \A y \in Roles : ex'[y].qty = ex[y].qty BY <1>3 DEF OrderMoves
  <2> QED BY <2>1 DEF Limits
<1>6. \A y \in Roles : y # x => (Live(y)' <=> Live(y)) BY <1>3 DEF Live
<1>7. CASE ~Fill(x)
  <2>1. \A y \in Roles : ex'[y].filled = ex[y].filled
    BY <1>1, <1>7 DEF ExchangeStep, Accept, Lose, Finish, TypeOK
  <2>2. Fills' = Fills BY <2>1 DEF Fills
  <2>3. Live(x)' => Live(x)
    <3>1. ~Live(x) => ~Live(x)' BY <1>1, OverStays
    <3> QED BY <3>1
  <2>4. CASE Live(x)' <=> Live(x)
    <3>1. LiveRoles' = LiveRoles BY <1>6, <2>4 DEF LiveRoles
    <3> QED BY <1>2, <1>4, <1>5, <2>2, <3>1 DEF Unseen
  <2>5. CASE Live(x) /\ ~Live(x)'
    <3>1. x \in LiveRoles /\ LiveRoles' = LiveRoles \ {x} BY <1>6, <2>5 DEF LiveRoles
    <3> QED BY <1>2, <1>4, <1>5, <2>2, <3>1 DEF Promise!Die, Sent, LiveRoles, Limits, Fills
  <2> QED BY <2>3, <2>4, <2>5
<1>8. CASE Fill(x)
  <2> DEFINE f == ex[x].filled + 1
  <2>1. /\ ex[x].st = "open" /\ ex[x].filled < ex[x].qty
        /\ ex' = [ex EXCEPT ![x].filled = @ + 1]
    BY <1>8 DEF Fill
  <2>2. /\ ex[x].filled \in Nat /\ ex[x].qty \in Nat
        /\ ex \in [Roles -> [st : ExchangeStates, qty : 0 .. Qty, filled : 0 .. Qty]]
    BY <1>1, QtyAssumption DEF TypeOK
  <2>3. ex'[x].filled = f /\ ex'[x].st = "open" /\ ex'[x].qty = ex[x].qty
    BY <2>1, <2>2
  <2>4. x \in LiveRoles BY <2>1 DEF LiveRoles, Live
  <2>5. f \in Fills[x] + 1 .. Limits[x] BY <2>1, <2>2 DEF Fills, Limits
  <2>6. Fills' = [Fills EXCEPT ![x] = f] BY <1>3, <2>3 DEF Fills
  <2>7. Live(x)' <=> f # Limits[x] BY <2>1, <2>2, <2>3 DEF Live, Limits
  <2>8. LiveRoles' = IF f = Limits[x] THEN LiveRoles \ {x} ELSE LiveRoles
    BY <1>6, <2>4, <2>7 DEF LiveRoles
  <2> HIDE DEF f
  <2>9. Promise!Trade(x)
    BY <1>2, <1>4, <1>5, <2>4, <2>5, <2>6, <2>8
       DEF Promise!Trade, Sent, LiveRoles, Limits, Fills
  <2> QED BY <2>9
<1> QED BY <1>7, <1>8

\* A row that saw its order end is about an order that was sent.
LEMMA EndedWasSent ==
    ASSUME SubmissionInv, EvidenceKnown, NEW x \in Planned(orders), Ended(orders[x])
    PROVE  x \in Sent
<1>1. x \in Roles /\ Truthful(ex[x], sends[x], orders, x) /\ sends[x] \in Nat
  BY DEF EvidenceKnown, SubmissionInv, TypeInv, TypeOK, Planned
<1>2. ex[x].st # "absent" BY <1>1 DEF Truthful, RowTruthful, Ended, TerminalStatuses
<1> QED BY <1>1, <1>2 DEF Truthful, Sent

\* An order leaves the process as the promise allows: market orders before any
\* hedging order, and a hedging order when nothing trades, for the difference.
LEMMA SendKept ==
    ASSUME OutcomeInv, NEW r \in Runners, NEW x \in Roles, SendOrder(r, x)
    PROVE  \/ x \in MarketRoles /\ Promise!SubmitMarket(x)
           \/ x \in GtcRoles /\ Promise!SubmitGtc(x)
<1>1. SubmissionInv /\ EvidenceKnown /\ TableKnown(mode, state, orders)
      /\ orders \in OrderTable /\ mode \in ExecutionModes
      /\ sends \in [Roles -> Nat]
  BY RunnerFacts DEF OutcomeInv, SubmissionInv, TypeInv, TypeOK
<1>2. /\ sends[x] = 0 /\ ex[x].st = "absent" /\ x \in Planned(orders)
      /\ ex'[x].st = "inflight" /\ ex'[x].filled = 0 /\ ex'[x].qty = orders[x].qty
      /\ ex[x].filled = 0 /\ sends'[x] = 1
      /\ \A y \in Roles : y # x => ex'[y] = ex[y] /\ sends'[y] = sends[y]
  BY <1>1, SendCreates
<1>3. state = "EXECUTING" /\ UNCHANGED <<mode, state>>
  <2>1. job[r].pc = "submitting" BY <1>1 DEF SendOrder, SubmissionInv, SubmissionsKnown
  <2> QED BY <2>1, RunnerFacts DEF RunKnown, SendOrder, db
<1>4. /\ x \notin Sent /\ Sent' = Sent \cup {x} /\ LiveRoles' = LiveRoles \cup {x}
      /\ Limits' = [Limits EXCEPT ![x] = orders[x].qty] /\ Fills' = Fills
      /\ RequiredMarkets(mode)' = RequiredMarkets(mode)
  <2>1. Sent' = Sent \cup {x} BY <1>1, <1>2 DEF Sent
  <2>2. LiveRoles' = LiveRoles \cup {x} BY <1>2 DEF LiveRoles, Live
  <2>3. Limits' = [Limits EXCEPT ![x] = orders[x].qty] BY <1>2 DEF Limits
  <2>4. Fills' = Fills
    <3>1. \A y \in Roles : ex'[y].filled = ex[y].filled BY <1>2
    <3> QED BY <3>1 DEF Fills
  <2>5. x \notin Sent BY <1>2 DEF Sent
  <2> QED BY <1>3, <2>1, <2>2, <2>3, <2>4, <2>5
<1>5. \A y \in Sent : y \in Planned(orders) /\ y \in Roles
  BY <1>1 DEF Sent, SubmissionInv, SubmissionsKnown
<1>6. ~Ended(orders[x]) BY <1>1, <1>2, EndedWasSent DEF Sent
<1>7. CASE x \in MarketRoles
  <2>1. x \in PlannedMarkets(orders) BY <1>2, <1>7 DEF PlannedMarkets
  <2>2. x \in RequiredMarkets(mode) /\ orders[x].qty = Qty BY <1>1, <2>1 DEF TableKnown
  <2>3. Sent \cap GtcRoles = {}
    BY <1>1, <1>5, <1>6, <2>1 DEF TableKnown, Imbalanced, PlannedGtcs
  <2> QED BY <1>3, <1>4, <1>7, <2>2, <2>3
          DEF Promise!SubmitMarket, Promise!Submit, Sent, LiveRoles, Limits, Fills
<1>8. CASE x \in GtcRoles
  <2> DEFINE s == Filled(orders, "SPOT_MARKET")
             c == Filled(orders, "CONTRACT_MARKET")
  <2>1. x \in PlannedGtcs(orders) BY <1>2, <1>8 DEF PlannedGtcs
  <2>2. Imbalanced(x, orders[x].qty, orders) BY <1>1, <2>1 DEF TableKnown
  <2>3. /\ \A h \in PlannedGtcs(orders) : h = x
        /\ \A y \in Roles : y # x => Done(y)
        /\ \A h \in GtcRoles : h # x => Filled(orders, h) = 0
        /\ MarketDelta(orders) # 0 /\ x = SmallerLegGtc(orders)
        /\ orders[x].qty = Residual(orders)
    BY <1>1, <2>1, GtcOnEndedMarkets DEF Roles
  <2>4. RequiredMarkets(mode) \subseteq Sent
    <3>1. PlannedMarkets(orders) = RequiredMarkets(mode)
      BY <1>1, <2>3, ImbalanceIsPosition DEF TableKnown
    <3> QED BY <1>1, <2>2, <3>1, EndedWasSent DEF Imbalanced, PlannedMarkets
  <2>5. LiveRoles = {} BY <1>2, <2>3 DEF LiveRoles, Live, Done
  <2>6. Sent \cap GtcRoles = {}
    <3>1. x \notin Sent BY <1>2 DEF Sent
    <3> QED BY <1>5, <2>3, <3>1 DEF PlannedGtcs
  <2>7. \A h \in GtcRoles : Fills[h] = 0
    BY <1>2, <2>3 DEF Fills, Done, Roles
  <2>8. Fills["SPOT_MARKET"] = s /\ Fills["CONTRACT_MARKET"] = c
    BY <1>8, <2>3 DEF Fills, Done, Roles, MarketRoles, GtcRoles
  <2>9. s \in Nat /\ c \in Nat BY <1>1, FilledNumbers
  <2>10. Promise!Leg("spot", Fills) = s /\ Promise!Leg("contract", Fills) = c
    BY <2>7, <2>8, <2>9, Legs DEF GtcRoles
  <2>11. s # c BY <2>3, <2>9 DEF MarketDelta
  <2> HIDE DEF s, c
  <2>12. CASE s > c
    <3>1. x = "CONTRACT_HEDGE_GTC" /\ x \notin {"SPOT_MARKET", "SPOT_HEDGE_GTC"}
      BY <2>3, <2>9, <2>12 DEF SmallerLegGtc, MarketDelta, s, c
    <3>2. orders[x].qty = s - c BY <2>3, <2>9, <2>12 DEF Residual, Distance, s, c
    <3> QED BY <1>3, <1>4, <1>8, <2>4, <2>5, <2>6, <2>9, <2>10, <2>12, <3>1, <3>2
            DEF Promise!SubmitGtc, Promise!Submit, Sent, LiveRoles, Limits, Fills
  <2>13. CASE s < c
    <3>1. x = "SPOT_HEDGE_GTC"
      BY <2>3, <2>9, <2>13 DEF SmallerLegGtc, MarketDelta, s, c
    <3>2. orders[x].qty = c - s BY <2>3, <2>9, <2>13 DEF Residual, Distance, s, c
    <3> QED BY <1>3, <1>4, <1>8, <2>4, <2>5, <2>6, <2>9, <2>10, <2>13, <3>1, <3>2
            DEF Promise!SubmitGtc, Promise!Submit, Sent, LiveRoles, Limits, Fills
  <2> QED BY <2>9, <2>11, <2>12, <2>13
<1> QED BY <1>7, <1>8 DEF Roles

\* The engine, with its lost answers, restarts and competing runs, does to the
\* exchanges and to the state only what HedgePromise allows.
THEOREM HedgePromiseIsKept == Spec => PromiseKept
<1>1. Init => Promise!Init
  <2> SUFFICES ASSUME Init PROVE Promise!Init OBVIOUS
  <2>1. mode \in ExecutionModes BY ModesAssumption DEF Init
  <2>2. RequiredMarkets(mode) \in (SUBSET MarketRoles) \ {{}} BY <2>1, RequiredNotEmpty
  <2>3. /\ state = "PENDING_CONFIRMATION" /\ Sent = {} /\ LiveRoles = {}
        /\ Limits = [x \in Roles |-> 0] /\ Fills = [x \in Roles |-> 0]
    BY DEF Init, Sent, LiveRoles, Live, Limits, Fills
  <2> QED BY <2>2, <2>3
          DEF Promise!Init, Promise!AllRoles, Roles, Sent, LiveRoles, Limits, Fills
<1>2. OutcomeInv /\ [Next]_vars => [Promise!Next]_(Promise!promiseVars)
  <2> SUFFICES ASSUME OutcomeInv, [Next]_vars
               PROVE  Promise!Next \/ UNCHANGED Promise!promiseVars
    OBVIOUS
  <2>1. Unseen => UNCHANGED Promise!promiseVars
    BY DEF Unseen, Promise!promiseVars, Sent, LiveRoles, Limits, Fills
  <2>2. CASE \E c \in Requests : RequestStep(c) BY <2>1, <2>2, RequestKept DEF Promise!Next
  <2>3. CASE \E x \in Roles : ExchangeStep(x)
    BY <2>1, <2>3, ExchangeKept DEF Promise!Next, Promise!AllRoles, Roles
  <2>4. ASSUME NEW r \in Runners, RunnerStep(r)
        PROVE  Promise!Next \/ UNCHANGED Promise!promiseVars
    <3>1. CASE DecideTransition(r) \/ ResidualNotTradable(r)
      BY <2>1, <3>1, ConclusionKept DEF Promise!Next
    <3>2. ASSUME NEW x \in Roles, SendOrder(r, x) PROVE Promise!Next
      BY <3>2, SendKept DEF Promise!Next
    <3>3. CASE StartOwned(r)
      <4>1. state # "PENDING_CONFIRMATION"
        BY <3>3, UnconfirmedRests DEF StartOwned, OutcomeInv
      <4>2. UNCHANGED <<mode, state, ex, sends>> BY <3>3, <4>1 DEF StartOwned, market
      <4> QED BY <2>1, <4>2, SameIsUnseen
    <3>4. CASE UNCHANGED <<mode, state, ex, sends>> BY <2>1, <3>4, SameIsUnseen
    <3> QED
      BY <2>4, <3>1, <3>2, <3>3, <3>4
         DEF RunnerStep, StartRefused, RunAborts, LookupUnavailable, LookupMissing,
             LookupAnswers, DecideNothing, DecideResidual, ResidualTradable, PlanMarkets,
             GuardGtcPasses, PlanGtc, Resume, PrepareFails, SubmissionSettles, db, market
  <2>5. CASE MonitorTick \/ PoisonedElsewhere \/ Crash \/ Heal \/ UNCHANGED vars
    BY <2>1, <2>5, SameIsUnseen
       DEF MonitorTick, PoisonedElsewhere, Crash, Heal, vars, db, market
  <2> QED BY <2>2, <2>3, <2>4, <2>5 DEF Next
<1> QED BY <1>1, <1>2, OutcomeInvariant, PTL DEF Spec, PromiseKept, Promise!Spec
=============================================================================
