---------------------------- MODULE HedgeDecision ----------------------------
(***************************************************************************)
(* The pure rules of the hedge engine: which sets of order plans are       *)
(* legal, when a snapshot read from an exchange may replace the persisted  *)
(* one, and what a complete set of order evidence makes of a strategy.     *)
(* No variable is declared here; HedgeExecution applies these rules to the *)
(* database, and the proofs cite them.                                     *)
(*                                                                         *)
(* An order row keeps what the rules tell apart: the row order, the        *)
(* requested quantity, the persisted status and fill, whether the snapshot *)
(* carries a positive average price, and the submission disposition with   *)
(* its failure code.  The remaining quantity is requested minus filled,    *)
(* which the repository enforces on every row it reads or writes.          *)
(***************************************************************************)
EXTENDS Integers, FiniteSets

CONSTANTS
    Qty,        \* effective base quantity of the strategy, in base steps
    NoOrder     \* stands for a role without an order row

ASSUME QtyAssumption == Qty \in Nat \ {0}

-----------------------------------------------------------------------------
(* Roles, modes and states *)

MarketRoles == {"SPOT_MARKET", "CONTRACT_MARKET"}
GtcRoles == {"SPOT_HEDGE_GTC", "CONTRACT_HEDGE_GTC"}
Roles == MarketRoles \cup GtcRoles

ExecutionModes == {"CONCURRENT", "CONTRACT_FIRST", "SPOT_FIRST"}

ActiveStates == {"EXECUTING", "WAITING_HEDGE"}
TerminalStates == {"HEDGED", "HEDGE_INCOMPLETE", "FAILED"}
FailureStates == {"HEDGE_INCOMPLETE", "FAILED"}
StrategyStates ==
    {"PENDING_CONFIRMATION", "PREFLIGHT_INVALIDATED"} \cup ActiveStates \cup TerminalStates

SubmissionCodes == {"ORDER_SUBMISSION_FAILED", "HEDGE_RESIDUAL_NOT_TRADABLE"}
\* The failure codes a reconciliation writes; three more are declared and never stored.
FailureCodes ==
    SubmissionCodes \cup {"NO_FILL", "MISSING_AVERAGE_PRICE", "INCONSISTENT_ORDER_STATE",
                          "HEDGE_ORDER_REJECTED", "HEDGE_ORDER_CANCELED"}

\* Mutant: a waiting strategy can only succeed.
AllowedTransitionsToHedged(from) ==
    IF from = "EXECUTING"
    THEN {"WAITING_HEDGE", "HEDGED", "HEDGE_INCOMPLETE", "FAILED"}
    ELSE IF from = "WAITING_HEDGE" THEN {"HEDGED"} ELSE {}

\* Targets the repository accepts from each state a reconciliation can enter in.
AllowedTransitions(from) ==
    IF from = "EXECUTING"
    THEN {"WAITING_HEDGE", "HEDGED", "HEDGE_INCOMPLETE", "FAILED"}
    ELSE IF from = "WAITING_HEDGE" THEN {"HEDGED", "HEDGE_INCOMPLETE"} ELSE {}

-----------------------------------------------------------------------------
(* Order rows *)

TerminalStatuses == {"closed", "canceled", "rejected"}
SnapshotStatuses == TerminalStatuses \cup {"open", "unknown"}
Dispositions == {"SUBMISSION_UNCERTAIN", "DEFINITELY_NOT_SUBMITTED", "REMOTE_OBSERVED"}

OrderRow ==
    [rowid : Nat, qty : 0 .. Qty, status : SnapshotStatuses \cup {"planned"},
     filled : 0 .. Qty, priced : BOOLEAN, disposition : Dispositions,
     code : SubmissionCodes \cup {"none"}]

Snapshot == [status : SnapshotStatuses, filled : 0 .. Qty, priced : BOOLEAN]

OrderTable == [Roles -> OrderRow \cup {NoOrder}]

\* A row as it is inserted: planned, no snapshot, submission not yet known.
NewOrder(rowid, qty) ==
    [rowid |-> rowid, qty |-> qty, status |-> "planned", filled |-> 0, priced |-> FALSE,
     disposition |-> "SUBMISSION_UNCERTAIN", code |-> "none"]

Planned(orders) == {r \in Roles : orders[r] # NoOrder}

Filled(orders, r) == IF orders[r] = NoOrder THEN 0 ELSE orders[r].filled

Observed(orders, r) == orders[r] # NoOrder /\ orders[r].disposition = "REMOTE_OBSERVED"

Distance(a, b) == IF a >= b THEN a - b ELSE b - a

\* Signed market imbalance: positive when the spot leg is the larger one.
MarketDelta(orders) == Filled(orders, "SPOT_MARKET") - Filled(orders, "CONTRACT_MARKET")

TotalSpot(orders) == Filled(orders, "SPOT_MARKET") + Filled(orders, "SPOT_HEDGE_GTC")
TotalContract(orders) == Filled(orders, "CONTRACT_MARKET") + Filled(orders, "CONTRACT_HEDGE_GTC")

\* Mutant: the difference keeps its sign.
ResidualSigned(orders) == MarketDelta(orders)

Residual(orders) ==
    Distance(Filled(orders, "SPOT_MARKET"), Filled(orders, "CONTRACT_MARKET"))

-----------------------------------------------------------------------------
(* Local topology: the combinations of plans an execution mode can hold *)

RequiredMarkets(mode) ==
    IF mode = "CONCURRENT" THEN MarketRoles
    ELSE IF mode = "CONTRACT_FIRST" THEN {"CONTRACT_MARKET"} ELSE {"SPOT_MARKET"}

LegalGtc(mode) ==
    IF mode = "CONCURRENT" THEN GtcRoles
    ELSE IF mode = "CONTRACT_FIRST" THEN {"SPOT_HEDGE_GTC"} ELSE {"CONTRACT_HEDGE_GTC"}

LegalRoleSets(mode) ==
    {RequiredMarkets(mode)} \cup {RequiredMarkets(mode) \cup {g} : g \in LegalGtc(mode)}

GtcFollowsMarkets(mode, orders) ==
    \A g \in Planned(orders) \cap GtcRoles : \A m \in RequiredMarkets(mode) :
        orders[m].rowid < orders[g].rowid

\* Nothing has been planned yet, which is how a confirmed strategy starts.
EmptyTopology(state, orders) == Planned(orders) = {} /\ state = "EXECUTING"

ValidTopology(mode, state, orders) ==
    /\ Planned(orders) \in LegalRoleSets(mode)
    /\ state = "WAITING_HEDGE" => Planned(orders) \cap GtcRoles # {}
    /\ \A m \in Planned(orders) \cap MarketRoles : orders[m].qty = Qty
    /\ GtcFollowsMarkets(mode, orders)

\* The collector asks the exchanges about the plans in row order.
FirstRow(S, orders) ==
    CHOOSE r \in S : \A q \in S : orders[r].rowid <= orders[q].rowid

-----------------------------------------------------------------------------
(* Evidence: when a remote snapshot may replace the persisted one *)

StatusTransitions(from) ==
    IF from \in TerminalStatuses THEN {from}
    ELSE IF from = "open" THEN SnapshotStatuses \ {"unknown"} ELSE SnapshotStatuses

\* Checked against the row just before it is written: the status does not
\* regress, the fill stays within the request and never shrinks.
AcceptsSnapshot(row, snap) ==
    /\ snap.status \in StatusTransitions(row.status)
    /\ snap.filled <= row.qty
    /\ snap.filled >= row.filled

\* Mutant: the fill of a snapshot is dropped.
AttachedStatusOnly(row, snap) ==
    [row EXCEPT !.status = snap.status, !.priced = snap.priced,
                !.disposition = "REMOTE_OBSERVED", !.code = "none"]

Attached(row, snap) ==
    [row EXCEPT !.status = snap.status, !.filled = snap.filled, !.priced = snap.priced,
                !.disposition = "REMOTE_OBSERVED", !.code = "none"]

\* Mutant: an uncertain submission the exchange does not know is taken for absent.
MissingOrderBlocksObserved(row) == row.disposition = "REMOTE_OBSERVED"

\* The exchange does not know the order: only a plan that certainly never left
\* the process may be treated as absent; every other one blocks the decision.
MissingOrderBlocks(row) == row.disposition # "DEFINITELY_NOT_SUBMITTED"

\* The conditional update behind markDefinitelyNotSubmitted.
MayMarkNotSubmitted(row) ==
    row.status = "planned" /\ row.disposition = "SUBMISSION_UNCERTAIN"

MarkedNotSubmitted(row, code) ==
    [row EXCEPT !.disposition = "DEFINITELY_NOT_SUBMITTED", !.code = code]

-----------------------------------------------------------------------------
(* Decision on a complete set of evidence *)

VerdictKinds == {"pending", "waiting_gtc", "transition", "authorize"}

Verdict(kind, state, code, role) ==
    [kind |-> kind, state |-> state, code |-> code, role |-> role]

Pending == Verdict("pending", "none", "none", "none")
WaitForGtc == Verdict("waiting_gtc", "none", "none", "none")
Success(state) == Verdict("transition", state, "none", "none")
Failure(state, code) == Verdict("transition", state, code, "none")
Authorize(role) == Verdict("authorize", "none", "none", role)

Inconsistent == Failure("HEDGE_INCOMPLETE", "INCONSISTENT_ORDER_STATE")

PlannedMarkets(orders) == Planned(orders) \cap MarketRoles
PlannedGtcs(orders) == Planned(orders) \cap GtcRoles

\* Mutants: a market order only counts as active in one of the two statuses.
ActiveMarketsUnknown(orders) ==
    {m \in PlannedMarkets(orders) : orders[m].status = "unknown"}
ActiveMarketsOpen(orders) ==
    {m \in PlannedMarkets(orders) : orders[m].status = "open"}

ActiveMarkets(orders) ==
    {m \in PlannedMarkets(orders) : orders[m].status \in {"open", "unknown"}}

NotSubmitted(orders, r) == orders[r].disposition = "DEFINITELY_NOT_SUBMITTED"

FailedMarkets(orders) ==
    {m \in PlannedMarkets(orders) : orders[m].status = "rejected" \/ NotSubmitted(orders, m)}

ExposureKnown(orders) == \E r \in Planned(orders) : orders[r].filled > 0

MarketFailure(orders) ==
    LET unsent == {m \in PlannedMarkets(orders) : NotSubmitted(orders, m)}
    IN  IF ExposureKnown(orders) THEN Inconsistent
        ELSE IF unsent = {} THEN Failure("FAILED", "ORDER_SUBMISSION_FAILED")
        ELSE Failure("FAILED", orders[FirstRow(unsent, orders)].code)

\* Mutant: the hedging order goes to the leg that traded more.
LargerLegGtc(orders) ==
    IF MarketDelta(orders) > 0 THEN "SPOT_HEDGE_GTC" ELSE "CONTRACT_HEDGE_GTC"

\* The leg that traded less is the one a hedging order has to buy up to.
SmallerLegGtc(orders) ==
    IF MarketDelta(orders) > 0 THEN "CONTRACT_HEDGE_GTC" ELSE "SPOT_HEDGE_GTC"

LargerMarket(orders) ==
    IF MarketDelta(orders) > 0 THEN "SPOT_MARKET" ELSE "CONTRACT_MARKET"

DecideWithoutGtc(orders) ==
    IF Filled(orders, "SPOT_MARKET") = 0 /\ Filled(orders, "CONTRACT_MARKET") = 0
    THEN Failure("FAILED", "NO_FILL")
    ELSE IF MarketDelta(orders) = 0 THEN Success("HEDGED")
    ELSE IF ~orders[LargerMarket(orders)].priced
         THEN Failure("HEDGE_INCOMPLETE", "MISSING_AVERAGE_PRICE")
    ELSE Authorize(SmallerLegGtc(orders))

\* The hedging order is on the right leg, for exactly the market imbalance,
\* and what it has filled has not pushed the position to the other side.
GtcStructureValid(g, orders) ==
    /\ MarketDelta(orders) # 0
    /\ g = SmallerLegGtc(orders)
    /\ orders[g].qty = Residual(orders)
    /\ orders[g].filled <= Residual(orders)
    /\ orders[g].qty - orders[g].filled = Distance(TotalSpot(orders), TotalContract(orders))

\* Mutant: a hedging order that has ended is taken for filled.
FullyHedgedOnceEnded(g, orders) == TotalSpot(orders) > 0 /\ TotalContract(orders) > 0

FullyHedged(g, orders) ==
    /\ orders[g].filled = orders[g].qty
    /\ TotalSpot(orders) > 0
    /\ TotalSpot(orders) = TotalContract(orders)

DecideValidGtc(state, g, orders) ==
    IF orders[g].status = "open"
    THEN IF orders[g].filled = orders[g].qty THEN Inconsistent
         ELSE IF state = "WAITING_HEDGE" THEN WaitForGtc ELSE Success("WAITING_HEDGE")
    ELSE IF FullyHedged(g, orders) THEN Success("HEDGED")
    ELSE IF orders[g].status = "closed" THEN Inconsistent
    ELSE Failure("HEDGE_INCOMPLETE", "HEDGE_ORDER_CANCELED")

DecideExistingGtc(state, g, orders) ==
    IF orders[g].status = "rejected"
    THEN IF orders[g].filled = 0
         THEN Failure("HEDGE_INCOMPLETE", "HEDGE_ORDER_REJECTED") ELSE Inconsistent
    ELSE IF NotSubmitted(orders, g) THEN Failure("HEDGE_INCOMPLETE", orders[g].code)
    ELSE IF orders[g].status \in {"planned", "unknown"} THEN Pending
    ELSE IF ~GtcStructureValid(g, orders) THEN Inconsistent
    ELSE DecideValidGtc(state, g, orders)

Decision(state, orders) ==
    IF ActiveMarkets(orders) # {} THEN Pending
    ELSE IF \E g \in PlannedGtcs(orders) : orders[g].status = "unknown" THEN Pending
    ELSE IF FailedMarkets(orders) # {} THEN MarketFailure(orders)
    ELSE IF PlannedGtcs(orders) # {}
         THEN DecideExistingGtc(state, CHOOSE g \in PlannedGtcs(orders) : TRUE, orders)
    ELSE DecideWithoutGtc(orders)
=============================================================================
