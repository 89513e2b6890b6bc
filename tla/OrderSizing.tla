----------------------------- MODULE OrderSizing ------------------------------
(***************************************************************************)
(* The arithmetic of an order: the rules a market listing yields, the      *)
(* quantity both legs can trade, and what the gateway sends and reads      *)
(* back.  Amounts are counted in units of the smallest decimal place, so   *)
(* the exact decimals of the code are integers; 0 is an absent limit.      *)
(***************************************************************************)
EXTENDS Integers, FiniteSetsExt

NoLimit == 0
Rejected == 0

\* A listing: amounts in exchange units, of which contractUnits make a whole contract (1 on the spot
\* market), contractSize: base units per exchange unit, notionals in quote units.
\* rawZero: Bitget also reports a minimum of zero in its raw spot data.
Market ==
    [status : {"active", "inactive", "missing"}, amountStep : Nat, contractSize : Nat,
     contractUnits : Nat, priceStep : Nat,
     min : Nat, max : Nat, minNotional : Nat, maxNotional : Nat, rawZero : BOOLEAN]

\* classicBitgetSpotMinimumAmount: a minimum of zero is the step when a notional minimum stands.
MinimumAmount(m, compatible) ==
    IF m.min = 0 /\ compatible /\ m.rawZero /\ m.minNotional # NoLimit THEN m.amountStep ELSE m.min

\* Limits in base units.
BaseStep(m) == m.amountStep * m.contractSize
MinBase(m, compatible) == MinimumAmount(m, compatible) * m.contractSize
MaxBase(m) == m.max * m.contractSize

Within(value, least, most) == value >= least /\ (most = NoLimit \/ value <= most)

\* quantityRules and validateQuantityRules accept the listing.
QuantityRulesValid(m, compatible) ==
    /\ m.amountStep > 0 /\ m.contractSize > 0 /\ m.priceStep > 0
    /\ MinimumAmount(m, compatible) > 0
    /\ Within(MinBase(m, compatible), 0, MaxBase(m))

\* notionalRules and readNotionalRules accept it.
NotionalRulesValid(m) == Within(m.minNotional, 0, m.maxNotional)

Gcd[p \in Nat \X Nat] == IF p[2] = 0 THEN p[1] ELSE Gcd[<<p[2], p[1] % p[2]>>]

\* Mutant: the coarser of the two steps.
CoarserStep(a, b) == IF a > b THEN a ELSE b

CommonStep(a, b) == (a \div Gcd[<<a, b>>]) * b

AlignedDown(value, step) == (value \div step) * step

\* Mutant: a maximum caps the quantity as it is.
CommonQuantityCapped(requested, spot, contract, compatible) ==
    LET step == CommonStep(BaseStep(spot), BaseStep(contract))
        effective == Min({AlignedDown(requested, step)}
                            \cup ({MaxBase(spot), MaxBase(contract)} \ {NoLimit}))
    IN IF effective >= MinBase(spot, compatible) /\ effective >= MinBase(contract, FALSE)
       THEN effective ELSE Rejected

\* normalizeCommonBaseQuantity: both maxima are aligned before they cap the quantity.
CommonQuantity(requested, spot, contract, compatible) ==
    LET step == CommonStep(BaseStep(spot), BaseStep(contract))
        maxima == {MaxBase(spot), MaxBase(contract)} \ {NoLimit}
        effective == Min({AlignedDown(v, step) : v \in maxima \cup {requested}})
    IN IF effective >= MinBase(spot, compatible) /\ effective >= MinBase(contract, FALSE)
       THEN effective ELSE Rejected

\* effectiveQuantity: the requested quantity itself must reach both minima.
EffectiveQuantity(requested, spot, contract, compatible) ==
    IF requested >= Max({MinBase(spot, compatible), MinBase(contract, FALSE)})
    THEN CommonQuantity(requested, spot, contract, compatible) ELSE Rejected

\* validateNotional, validateQuoteNotional
NotionalFits(q, price, m) == Within(q * price, m.minNotional, m.maxNotional)

\* The amount sent for base quantity q, in exchange units; amountToPrecision truncates.
SentAmount(q, m) == AlignedDown(q \div m.contractSize, m.amountStep)

\* What an amount the exchange reports is in base units.
ReportedQuantity(amount, m) == amount * m.contractSize

\* prepareCreateOrder finds nothing to refuse at this price.
Prepared(q, price, m, compatible) ==
    /\ Within(q, MinBase(m, compatible), MaxBase(m))
    /\ ReportedQuantity(SentAmount(q, m), m) = q
    /\ NotionalFits(q, price, m)

-----------------------------------------------------------------------------
(* The hedging order *)

\* quantizePrice: the exchange library rounds to the nearest step.
Quantized(price, m) == ((2 * price + m.priceStep) \div (2 * m.priceStep)) * m.priceStep

\* What the market orders of a strategy of quantity q can have filled on a leg.
Fills(q, m) == {f \in 0 .. q : f % BaseStep(m) = 0}

WholeContracts(q, m) == q % (m.contractUnits * m.contractSize) = 0

\* Mutant: the notional is taken at the average price itself.
TradableAtAverage(residual, average, m, compatible) ==
    /\ residual % BaseStep(m) = 0 /\ WholeContracts(residual, m)
    /\ Within(residual, MinBase(m, compatible), MaxBase(m))
    /\ NotionalFits(residual, average, m)

\* authorizeGtc: the residual can be traded at the average price of the larger leg.
Tradable(residual, average, m, compatible) ==
    /\ residual % BaseStep(m) = 0 /\ WholeContracts(residual, m)
    /\ Within(residual, MinBase(m, compatible), MaxBase(m))
    /\ NotionalFits(residual, Quantized(average, m), m)

\* The price of the order: planAuthorizedGtc quantizes the average, the gateway what it is given.
LimitPrice(average, m) == Quantized(Quantized(average, m), m)
=============================================================================
