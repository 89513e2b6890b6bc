------------------------------ MODULE MCPreflight ------------------------------
EXTENDS Preflight, TLC

Listing ==
    [status |-> "active", amountStep |-> 2, contractSize |-> 1, contractUnits |-> 1,
     priceStep |-> 1, min |-> 2, max |-> NoLimit,
     minNotional |-> 6, maxNotional |-> NoLimit, rawZero |-> FALSE]

SpotListings ==
    {Listing, [Listing EXCEPT !.min = 0, !.rawZero = TRUE], [Listing EXCEPT !.status = "inactive"]}
ContractListings ==
    {[Listing EXCEPT !.amountStep = 1, !.contractSize = 3, !.min = 1, !.minNotional = NoLimit],
     [Listing EXCEPT !.amountStep = 1, !.contractSize = 3, !.min = 1, !.max = 5]}
AccountSettings ==
    {[position |-> "hedged", margin |-> "cross", leverage |-> 1],
     [position |-> "hedged", margin |-> "isolated", leverage |-> 2],
     [position |-> "one-way", margin |-> "unknown", leverage |-> 0]}

\* One run over many listings.
ManySpots ==
    [status : {"active"}, amountStep : {1, 2, 4}, contractSize : {1}, contractUnits : {1},
     priceStep : {2}, min : {0, 3}, max : {NoLimit, 11},
     minNotional : {6}, maxNotional : {NoLimit}, rawZero : BOOLEAN]
ManyContracts ==
    [status : {"active"}, amountStep : {1, 2}, contractSize : {2, 3}, contractUnits : {1, 2},
     priceStep : {1, 3}, min : {1}, max : {NoLimit, 4},
     minNotional : {NoLimit}, maxNotional : {NoLimit, 20}, rawZero : {FALSE}]
Symmetry == Permutations(Strategies)

CrossSettings == {[position |-> "hedged", margin |-> "cross", leverage |-> 1]}
=============================================================================
