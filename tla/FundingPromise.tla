---------------------------- MODULE FundingPromise ----------------------------
(***************************************************************************)
(* What the synchronisation of funding history promises about each market, *)
(* without tasks, pages, leases or restarts: stored history only grows,    *)
(* "complete up to a cutoff" is said only when it is true and never taken  *)
(* back, and a market that came back is read incrementally only after a    *)
(* new proof.                                                              *)
(***************************************************************************)
EXTENDS Naturals

CONSTANT Markets

VARIABLES
    now,        \* the last settlement
    market      \* [market -> what is stored about it]

vars == <<now, market>>

\* active: seen active last; owed: returned and not proved again; proof: number of the last
\* proof; cutoff: settlements it covers; hist: stored settlements; fetching: read incrementally.
NewMarket ==
    [active |-> FALSE, owed |-> FALSE, proof |-> 0, cutoff |-> 0, hist |-> {}, fetching |-> FALSE]

Init ==
    /\ now = 1
    /\ market = [m \in Markets |-> NewMarket]

\* A proof from p to q is new and covers everything up to its cutoff.
Proved(p, q) ==
    /\ q.proof > p.proof
    /\ q.cutoff >= p.cutoff
    /\ 1 .. q.cutoff \subseteq q.hist

\* A change of one market.
Changes(p, q) ==
    /\ p.hist \subseteq q.hist
    /\ q.hist \subseteq 1 .. now
    /\ Proved(p, q) \/ (q.proof = p.proof /\ q.cutoff = p.cutoff)
    /\ q.owed /\ ~p.owed => q.active /\ ~p.active
    /\ ~q.owed /\ p.owed => ~q.active \/ Proved(p, q)
    /\ q.fetching => q.active /\ ~q.owed /\ q.proof # 0

Settle == now' = now + 1 /\ UNCHANGED market

Synchronise ==
    /\ market' \in [Markets -> {market'[m] : m \in Markets}]
    /\ \A m \in Markets : market'[m] = market[m] \/ Changes(market[m], market'[m])
    /\ UNCHANGED now

Next == Settle \/ Synchronise

Spec == Init /\ [][Next]_vars
=============================================================================
