----------------------------- MODULE HedgePromise -----------------------------
(***************************************************************************)
(* What the hedge engine promises about one strategy, in terms of what     *)
(* really happens on the two exchanges and not of what the program         *)
(* believes.  An order role is submitted at most once; a hedging order is  *)
(* only submitted when no market order can trade any more, on the leg that *)
(* traded less and for exactly the difference; a strategy is only declared *)
(* finished when no order can trade any more, HEDGED only when both legs   *)
(* hold the same positive quantity and FAILED only when neither holds any. *)
(***************************************************************************)
EXTENDS Integers

CONSTANTS
    Markets,    \* roles of the market orders
    Gtcs,       \* roles of the hedging orders
    SpotRoles,  \* the roles that trade the spot leg
    Size        \* base quantity of a market order

VARIABLES
    required,   \* market roles the execution mode submits
    state,      \* state of the strategy
    sent,       \* roles whose submission has left the process
    live,       \* roles whose order may still trade
    limit,      \* [role -> quantity its order may trade]
    filled      \* [role -> quantity its order has traded]

promiseVars == <<required, state, sent, live, limit, filled>>

AllRoles == Markets \cup Gtcs

Traded(roles, f) == \E r \in roles : f[r] > 0

\* The two roles of a leg trade into one position.
Leg(leg, f) ==
    LET m == CHOOSE r \in Markets : (r \in SpotRoles) = (leg = "spot")
        g == CHOOSE r \in Gtcs : (r \in SpotRoles) = (leg = "spot")
    IN  f[m] + f[g]

Balanced(f) == Leg("spot", f) = Leg("contract", f) /\ Leg("spot", f) > 0

Init ==
    /\ required \in (SUBSET Markets) \ {{}}
    /\ state = "PENDING_CONFIRMATION"
    /\ sent = {}
    /\ live = {}
    /\ limit = [r \in AllRoles |-> 0]
    /\ filled = [r \in AllRoles |-> 0]

Confirm ==
    /\ state = "PENDING_CONFIRMATION"
    /\ state' \in {"EXECUTING", "PREFLIGHT_INVALIDATED"}
    /\ UNCHANGED <<required, sent, live, limit, filled>>

Submit(r, quantity) ==
    /\ state = "EXECUTING"
    /\ r \notin sent
    /\ sent' = sent \cup {r}
    /\ live' = live \cup {r}
    /\ limit' = [limit EXCEPT ![r] = quantity]
    /\ UNCHANGED <<required, state, filled>>

SubmitMarket(m) == m \in required /\ sent \cap Gtcs = {} /\ Submit(m, Size)

SubmitGtc(g) ==
    LET mine == IF g \in SpotRoles THEN "spot" ELSE "contract"
        other == IF g \in SpotRoles THEN "contract" ELSE "spot"
    IN  /\ g \in Gtcs
        /\ required \subseteq sent
        /\ live = {}
        /\ sent \cap Gtcs = {}
        /\ Leg(mine, filled) < Leg(other, filled)
        /\ Submit(g, Leg(other, filled) - Leg(mine, filled))

\* An order that has traded all it was sent for is over.
Trade(r) ==
    /\ r \in live
    /\ \E f \in filled[r] + 1 .. limit[r] :
        /\ filled' = [filled EXCEPT ![r] = f]
        /\ live' = IF f = limit[r] THEN live \ {r} ELSE live
    /\ UNCHANGED <<required, state, sent, limit>>

Die(r) ==
    /\ r \in live
    /\ live' = live \ {r}
    /\ UNCHANGED <<required, state, sent, limit, filled>>

Rest ==
    /\ state = "EXECUTING"
    /\ sent \cap Gtcs # {}
    /\ state' = "WAITING_HEDGE"
    /\ UNCHANGED <<required, sent, live, limit, filled>>

Conclude ==
    /\ state \in {"EXECUTING", "WAITING_HEDGE"}
    /\ live = {}
    /\ \/ state' = "HEDGED" /\ Balanced(filled)
       \/ state' = "FAILED" /\ ~Traded(AllRoles, filled)
       \/ state' = "HEDGE_INCOMPLETE" /\ Traded(AllRoles, filled)
    /\ UNCHANGED <<required, sent, live, limit, filled>>

Next ==
    \/ Confirm
    \/ \E m \in Markets : SubmitMarket(m)
    \/ \E g \in Gtcs : SubmitGtc(g)
    \/ \E r \in AllRoles : Trade(r) \/ Die(r)
    \/ Rest
    \/ Conclude

Spec == Init /\ [][Next]_promiseVars
=============================================================================
