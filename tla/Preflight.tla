------------------------------- MODULE Preflight -------------------------------
(***************************************************************************)
(* The ordered preflight and the confirmation that repeats it.  Every      *)
(* value is a separate request, and the exchanges change between them: the *)
(* listing, the account settings, the price, the balance.  Runs for        *)
(* several strategies interleave and share the market lists the gateways   *)
(* keep, from which orders are later prepared.                             *)
(***************************************************************************)
EXTENDS OrderSizing, FiniteSets

CONSTANTS
    Strategies,
    SpotMarkets,        \* listings the spot market may have
    ContractMarkets,    \* listings the swap market may have
    Settings,           \* account settings the contract exchange may report
    Prices,             \* last prices
    Averages,           \* average prices of a market order
    Balances,           \* free USDT
    Requested,          \* requested base quantities
    Compatible,         \* the spot exchange is Bitget
    MaxChanges          \* changes of the exchanges

ASSUMPTION MarketAssumption == SpotMarkets \cup ContractMarkets \subseteq Market
ASSUMPTION SettingsAssumption ==
    Settings \subseteq [position : {"one-way", "hedged", "unknown"},
                        margin : {"isolated", "cross", "unknown"}, leverage : Nat]
ASSUMPTION NumberAssumption ==
    /\ Prices \cup Averages \subseteq Nat \ {0} /\ Balances \subseteq Nat /\ Requested \subseteq Nat \ {0}
    /\ Compatible \in BOOLEAN /\ MaxChanges \in Nat

VARIABLES
    world,      \* what the exchanges would answer now
    changes,    \* how often that changed
    cache,      \* [leg -> listing the gateway's adapter loaded last]
    run,        \* [strategy -> preflight under way]
    stored,     \* [strategy -> stored record]
    since       \* [strategy -> answers the exchanges could give since its last run began]

vars == <<world, changes, cache, run, stored, since>>

Steps == {"idle", "spot market", "contract market", "settings", "spot price", "contract price",
          "spot balance", "contract balance"}
World == [spot : SpotMarkets, contract : ContractMarkets, settings : Settings,
          price : Prices, balance : Balances]

\* What a run has read so far; need: quote amounts both balances must cover.
NoMarket == [status |-> "missing", amountStep |-> 0, contractSize |-> 0, contractUnits |-> 0,
             priceStep |-> 0, min |-> 0, max |-> 0,
             minNotional |-> 0, maxNotional |-> 0, rawZero |-> FALSE]
NoSettings == [position |-> "unknown", margin |-> "unknown", leverage |-> 0]
Idle == [step |-> "idle", purpose |-> "preflight", requested |-> 0, spot |-> NoMarket,
         contract |-> NoMarket, settings |-> NoSettings, quantity |-> 0,
         spotNeed |-> 0, contractNeed |-> 0]
NoRecord == [state |-> "none", requested |-> 0, spot |-> NoMarket, contract |-> NoMarket,
             settings |-> NoSettings, quantity |-> 0]

TypeOK ==
    /\ world \in World /\ changes \in 0 .. MaxChanges
    /\ cache \in [spot : SpotMarkets \cup {NoMarket}, contract : ContractMarkets \cup {NoMarket}]
    /\ \A s \in Strategies :
        /\ run[s].step \in Steps /\ run[s].purpose \in {"preflight", "confirmation"}
        /\ stored[s].state \in {"none", "PENDING_CONFIRMATION", "EXECUTING", "PREFLIGHT_INVALIDATED"}
        /\ run[s].purpose = "confirmation" /\ run[s].step # "idle"
               => stored[s].state = "PENDING_CONFIRMATION"
        /\ since[s] \subseteq World

Init ==
    /\ world \in World
    /\ changes = 0
    /\ cache = [spot |-> NoMarket, contract |-> NoMarket]
    /\ run = [s \in Strategies |-> Idle]
    /\ stored = [s \in Strategies |-> NoRecord]
    /\ since = [s \in Strategies |-> {}]

-----------------------------------------------------------------------------
(* The exchanges *)

\* One part of the answers changes; runs under way may see either.
WorldChanges ==
    /\ changes < MaxChanges
    /\ \E w \in World :
        /\ Cardinality({f \in DOMAIN world : w[f] # world[f]}) = 1
        /\ world' = w
        /\ since' = [s \in Strategies |-> IF run[s].step = "idle" THEN since[s] ELSE since[s] \cup {w}]
    /\ changes' = changes + 1
    /\ UNCHANGED <<cache, run, stored>>

-----------------------------------------------------------------------------
(* Runs *)

Begin(s, purpose, requested) ==
    /\ run[s].step = "idle"
    /\ run' = [run EXCEPT ![s] = [Idle EXCEPT !.step = "spot market", !.purpose = purpose,
                                              !.requested = requested]]
    /\ since' = [since EXCEPT ![s] = {world}]
    /\ UNCHANGED <<world, changes, cache, stored>>

\* POST /api/hedges/preflight
BeginPreflight(s) == stored[s].state = "none" /\ \E q \in Requested : Begin(s, "preflight", q)

\* Mutant: the state is not looked at again.
BeginConfirmationAgain(s) ==
    /\ stored[s].state # "none"
    /\ Begin(s, "confirmation", stored[s].requested)

\* ConfirmationService.confirm: the operation owner admits one at a time.
BeginConfirmation(s) ==
    /\ stored[s].state = "PENDING_CONFIRMATION"
    /\ Begin(s, "confirmation", stored[s].requested)

Continues(s, r) == run' = [run EXCEPT ![s] = r] /\ UNCHANGED stored

\* A request or a check fails: nothing is stored by a preflight, a confirmation is invalidated.
\* Where that write fails too (the wall clock went back) the record stays as it is.
Ends(s) ==
    /\ run' = [run EXCEPT ![s] = Idle]
    /\ \/ run[s].purpose = "confirmation" /\ stored' = [stored EXCEPT ![s].state = "PREFLIGHT_INVALIDATED"]
       \/ UNCHANGED stored

\* The answer a run waits for: from the exchange, or a failed request.
Answered(s, step, passes, r) ==
    /\ run[s].step = step
    /\ IF passes THEN Continues(s, r) \/ Ends(s) ELSE Ends(s)

\* Mutant: the market list is loaded without a forced reload.
SpotMarketCached(s) ==
    LET listing == IF cache.spot = NoMarket THEN world.spot ELSE cache.spot IN
    /\ Answered(s, "spot market", listing.status = "active",
                [run[s] EXCEPT !.step = "contract market", !.spot = listing])
    /\ cache' = [cache EXCEPT !.spot = listing]
    /\ UNCHANGED <<world, changes, since>>

SpotMarketLoaded(s) ==
    /\ Answered(s, "spot market", world.spot.status = "active",
                [run[s] EXCEPT !.step = "contract market", !.spot = world.spot])
    /\ cache' = [cache EXCEPT !.spot = world.spot]
    /\ UNCHANGED <<world, changes, since>>

ContractMarketLoaded(s) ==
    /\ Answered(s, "contract market", world.contract.status = "active",
                [run[s] EXCEPT !.step = "settings", !.contract = world.contract])
    /\ cache' = [cache EXCEPT !.contract = world.contract]
    /\ UNCHANGED <<world, changes, since>>

SettingsFit(settings) ==
    /\ settings.position = "hedged"
    /\ settings.margin \in {"isolated", "cross"}
    /\ settings.leverage > 0

\* The settings are read; both quantity rules and the effective quantity follow at once.
SettingsRead(s) ==
    LET r == run[s]
        q == EffectiveQuantity(r.requested, r.spot, r.contract, Compatible)
    IN /\ Answered(s, "settings",
                   /\ SettingsFit(world.settings)
                   /\ QuantityRulesValid(r.spot, Compatible) /\ QuantityRulesValid(r.contract, FALSE)
                   /\ q # Rejected,
                   [r EXCEPT !.step = "spot price", !.settings = world.settings, !.quantity = q])
       /\ UNCHANGED <<world, changes, cache, since>>

SpotPriceRead(s) ==
    LET r == run[s] IN
    /\ Answered(s, "spot price",
                NotionalRulesValid(r.spot) /\ NotionalFits(r.quantity, world.price, r.spot),
                [r EXCEPT !.step = "contract price", !.spotNeed = r.quantity * world.price])
    /\ UNCHANGED <<world, changes, cache, since>>

ContractPriceRead(s) ==
    LET r == run[s] IN
    /\ Answered(s, "contract price",
                NotionalRulesValid(r.contract) /\ NotionalFits(r.quantity, world.price, r.contract),
                [r EXCEPT !.step = "spot balance", !.contractNeed = r.quantity * world.price])
    /\ UNCHANGED <<world, changes, cache, since>>

SpotBalanceRead(s) ==
    /\ Answered(s, "spot balance", world.balance >= run[s].spotNeed,
                [run[s] EXCEPT !.step = "contract balance"])
    /\ UNCHANGED <<world, changes, cache, since>>

\* confirmationDrift: anything the user was shown is different now.
Drift(record, r) ==
    <<record.spot, record.contract, record.quantity, record.settings>>
        # <<r.spot, r.contract, r.quantity, r.settings>>

Complete(s) ==
    LET r == run[s] IN
    /\ run' = [run EXCEPT ![s] = Idle]
    /\ stored' = [stored EXCEPT ![s] =
                    IF r.purpose = "preflight"
                    THEN [state |-> "PENDING_CONFIRMATION", requested |-> r.requested,
                          spot |-> r.spot, contract |-> r.contract,
                          settings |-> r.settings, quantity |-> r.quantity]
                    ELSE [@ EXCEPT !.state = IF Drift(stored[s], r) THEN "PREFLIGHT_INVALIDATED" ELSE "EXECUTING"]]

\* The last answer: the result is stored, compared and confirmed, or invalidated.
ContractBalanceRead(s) ==
    LET r == run[s] IN
    /\ r.step = "contract balance"
    /\ IF world.balance * r.settings.leverage >= r.contractNeed
       THEN Complete(s) \/ Ends(s) ELSE Ends(s)
    /\ UNCHANGED <<world, changes, cache, since>>

Next ==
    \/ WorldChanges
    \/ \E s \in Strategies :
        \/ BeginPreflight(s) \/ BeginConfirmation(s)
        \/ SpotMarketLoaded(s) \/ ContractMarketLoaded(s) \/ SettingsRead(s)
        \/ SpotPriceRead(s) \/ ContractPriceRead(s)
        \/ SpotBalanceRead(s) \/ ContractBalanceRead(s)

Spec == Init /\ [][Next]_vars

-----------------------------------------------------------------------------
(* Properties *)

Confirmed(s) == stored[s].state = "EXECUTING"

\* The quantity of a stored preflight is the largest both markets can trade: a multiple of each
\* base step, within each maximum and minimum, and not more than requested (quantity-normalizer).
QuantityIsTheLargestTradable ==
    \A s \in Strategies : stored[s].state # "none" =>
        LET record == stored[s]
            tradable(q) ==
                /\ q % BaseStep(record.spot) = 0 /\ q % BaseStep(record.contract) = 0
                /\ Within(q, MinBase(record.spot, Compatible), MaxBase(record.spot))
                /\ Within(q, MinBase(record.contract, FALSE), MaxBase(record.contract))
        IN /\ tradable(record.quantity) /\ record.quantity \in 1 .. record.requested
           /\ \A q \in record.quantity + 1 .. record.requested : ~tradable(q)

\* What a confirmed strategy was shown was true of the exchanges after the user confirmed: each
\* listing and the settings, though they are read one after the other (ConfirmationService).
ConfirmedIsFresh ==
    \A s \in Strategies : Confirmed(s) =>
        /\ \E w \in since[s] : w.spot = stored[s].spot
        /\ \E w \in since[s] : w.contract = stored[s].contract
        /\ \E w \in since[s] : w.settings = stored[s].settings

\* An order of the confirmed quantity is not refused by the gateway on either leg while its
\* listing stands and the price keeps the notional in range, and the amount the exchange then
\* reports is the planned one (prepareCreateOrder, normalizeOrder, validatedSnapshot).
ConfirmedCanBeOrdered ==
    \A s \in Strategies : Confirmed(s) =>
        \A price \in Prices :
            LET q == stored[s].quantity
                ordered(m, compatible) ==
                    NotionalFits(q, price, m) => Prepared(q, price, m, compatible)
            IN /\ cache.spot = stored[s].spot => ordered(cache.spot, Compatible)
               /\ cache.contract = stored[s].contract => ordered(cache.contract, FALSE)

\* Whatever the two market orders filled, the reconciliation gives a residual up exactly when the
\* gateway would refuse the hedging order or it is no whole number of contracts: both check it with
\* arithmetic of their own and at a price each has quantized (authorizeGtc, prepareCreateOrder).
HedgingOrderIsNotRefused ==
    \A s \in Strategies : Confirmed(s) =>
        LET record == stored[s]
            agreed(residual, m, compatible) ==
                \A average \in Averages : LimitPrice(average, m) > 0 =>
                    (Tradable(residual, average, m, compatible) <=>
                        /\ WholeContracts(residual, m)
                        /\ Prepared(residual, LimitPrice(average, m), m, compatible))
        IN \A f \in Fills(record.quantity, record.spot), g \in Fills(record.quantity, record.contract) :
            /\ f < g /\ cache.spot = record.spot => agreed(g - f, cache.spot, Compatible)
            /\ f > g /\ cache.contract = record.contract => agreed(f - g, cache.contract, FALSE)
=============================================================================
