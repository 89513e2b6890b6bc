---------------------------- MODULE PreflightProofs ----------------------------
(***************************************************************************)
(* Proofs about Preflight, for every set of strategies, listings, prices   *)
(* and requests, and any number of changes of the exchanges.  The first    *)
(* sections are arithmetic: Euclid's algorithm computes a greatest common  *)
(* divisor, so the common step is the least common multiple, so the        *)
(* quantity is the largest both markets can trade.  The invariant then     *)
(* carries these facts, and what each run has read, through every step.    *)
(***************************************************************************)
EXTENDS Preflight, TLAPS, FiniteSetTheorems, WellFoundedInduction

-----------------------------------------------------------------------------
(* Numbers: a least one, division, multiples *)

\* A set of numbers has a smallest one: the intervals below its members are finite sets, and
\* their strict inclusion is well founded.
LEMMA SmallestNumber ==
    ASSUME NEW S \in SUBSET Nat, S # {}
    PROVE  \E x \in S : \A y \in S : x <= y
<1> DEFINE F == {0 .. n : n \in S}
<1>1. \A n \in Nat : 0 .. n \in FiniteSubsetsOf(Nat) BY FS_Interval DEF FiniteSubsetsOf
<1>2. F \in SUBSET FiniteSubsetsOf(Nat) /\ F # {} BY <1>1
<1>3. IsWellFoundedOn(StrictSubsetOrdering(Nat), FiniteSubsetsOf(Nat))
  BY FS_StrictSubsetOrderingWellFounded
<1>4. PICK U \in F : \A V \in F : <<V, U>> \notin StrictSubsetOrdering(Nat)
  <2> HIDE DEF F
  <2> QED BY <1>2, <1>3, WFMin
<1>5. PICK x \in S : U = 0 .. x OBVIOUS
<1>6. ASSUME NEW y \in S, y < x PROVE FALSE
  <2>1. 0 .. y \in F /\ 0 .. y \in SUBSET Nat /\ 0 .. x \in SUBSET Nat OBVIOUS
  <2>2. 0 .. y \subseteq 0 .. x /\ 0 .. y # 0 .. x
    <3>1. x \in 0 .. x /\ x \notin 0 .. y BY <1>6
    <3> QED BY <1>6, <3>1
  <2>3. <<0 .. y, U>> \in StrictSubsetOrdering(Nat)
    BY <1>5, <2>1, <2>2 DEF StrictSubsetOrdering
  <2> QED BY <1>4, <2>1, <2>3
<1>7. \A y \in S : x <= y BY <1>6
<1> QED BY <1>7

Divides(d, n) == \E k \in Nat : n = d * k

LEMMA Division ==
    ASSUME NEW a \in Nat, NEW b \in Nat \ {0}
    PROVE  /\ a \div b \in Nat /\ a % b \in 0 .. b - 1
           /\ a = b * (a \div b) + (a % b)
OBVIOUS

LEMMA MultipleDivided ==
    ASSUME NEW b \in Nat \ {0}, NEW k \in Nat
    PROVE  (b * k) \div b = k /\ (b * k) % b = 0
OBVIOUS

LEMMA DividesRemainder ==
    ASSUME NEW a \in Nat, NEW b \in Nat \ {0}
    PROVE  a % b = 0 <=> Divides(b, a)
<1>1. ASSUME a % b = 0 PROVE Divides(b, a)
  <2>1. a = b * (a \div b) /\ a \div b \in Nat BY <1>1
  <2> QED BY <2>1 DEF Divides
<1>2. ASSUME NEW k \in Nat, a = b * k PROVE a % b = 0 BY <1>2, MultipleDivided
<1> QED BY <1>1, <1>2 DEF Divides

LEMMA DividesProduct ==
    ASSUME NEW d \in Nat, NEW n \in Nat, NEW k \in Nat, Divides(d, n)
    PROVE  Divides(d, n * k)
<1>1. PICK j \in Nat : n = d * j BY DEF Divides
<1>2. n * k = d * (j * k) /\ j * k \in Nat BY <1>1
<1> QED BY <1>2 DEF Divides

\* Divisors of b divide a exactly when they divide the remainder.
LEMMA DividesSum ==
    ASSUME NEW d \in Nat, NEW b \in Nat, NEW q \in Nat, NEW r \in Nat, Divides(d, b)
    PROVE  Divides(d, b * q + r) <=> Divides(d, r)
<1>1. PICK j \in Nat : b = d * j BY DEF Divides
<1>2. ASSUME NEW k \in Nat, r = d * k PROVE Divides(d, b * q + r)
  <2>1. b * q + r = d * (j * q + k) /\ j * q + k \in Nat BY <1>1, <1>2
  <2> QED BY <2>1 DEF Divides
<1>3. ASSUME NEW k \in Nat, b * q + r = d * k PROVE Divides(d, r)
  <2>1. CASE d = 0
    <3>1. r = d * 0 BY <1>1, <1>3, <2>1
    <3> QED BY <3>1 DEF Divides
  <2>2. CASE d # 0
    <3>1. r = d * (k - j * q) /\ k - j * q \in Int BY <1>1, <1>3
    <3>2. k - j * q >= 0 BY <2>2, <3>1
    <3>3. k - j * q \in Nat BY <3>1, <3>2
    <3> QED BY <3>1, <3>3 DEF Divides
  <2> QED BY <2>1, <2>2
<1> QED BY <1>2, <1>3 DEF Divides

LEMMA DividesEachOther ==
    ASSUME NEW a \in Nat, NEW b \in Nat, Divides(a, b), Divides(b, a)
    PROVE  a = b
<1>1. PICK j \in Nat : b = a * j BY DEF Divides
<1>2. PICK k \in Nat : a = b * k BY DEF Divides
<1>3. CASE a = 0 BY <1>1, <1>3
<1>4. CASE a # 0
  <2>1. a * (j * k) = a BY <1>1, <1>2
  <2>2. j * k = 1 BY <1>4, <2>1
  <2>3. j = 1 BY <2>2
  <2> QED BY <1>1, <2>3
<1> QED BY <1>3, <1>4

-----------------------------------------------------------------------------
(* Euclid's algorithm *)

\* The numbers whose divisors are the common divisors of a and b.
Greatest(a, b) ==
    {d \in Nat : \A e \in Nat : Divides(e, d) <=> Divides(e, a) /\ Divides(e, b)}

LEMMA GreatestWithZero ==
    ASSUME NEW a \in Nat
    PROVE  Greatest(a, 0) = {a}
<1>1. \A e \in Nat : Divides(e, 0)
  <2>1. \A e \in Nat : 0 = e * 0 OBVIOUS
  <2> QED BY <2>1 DEF Divides
<1>2. a \in Greatest(a, 0) BY <1>1 DEF Greatest
<1>3. \A d \in Nat : Divides(d, d)
  <2>1. \A d \in Nat : d = d * 1 OBVIOUS
  <2> QED BY <2>1 DEF Divides
<1>4. ASSUME NEW d \in Greatest(a, 0) PROVE d = a
  <2>1. Divides(d, a) /\ Divides(a, d) BY <1>1, <1>3 DEF Greatest
  <2> QED BY <2>1, DividesEachOther DEF Greatest
<1> QED BY <1>2, <1>4

LEMMA GreatestOfRemainder ==
    ASSUME NEW a \in Nat, NEW b \in Nat \ {0}
    PROVE  Greatest(a, b) = Greatest(b, a % b)
<1>1. \A e \in Nat : Divides(e, a) /\ Divides(e, b) <=> Divides(e, b) /\ Divides(e, a % b)
  <2> SUFFICES ASSUME NEW e \in Nat, Divides(e, b)
               PROVE  Divides(e, a) <=> Divides(e, a % b)
    OBVIOUS
  <2> DEFINE q == a \div b
             r == a % b
  <2>1. q \in Nat /\ r \in Nat /\ a = b * q + r OBVIOUS
  <2> HIDE DEF q, r
  <2>2. Divides(e, b * q + r) <=> Divides(e, r) BY <2>1, DividesSum
  <2> QED BY <2>1, <2>2 DEF r
<1> QED BY <1>1 DEF Greatest

\* The recursive definition of Gcd has a solution, so Gcd is one.
LEMMA GcdEquation ==
    ASSUME NEW a \in Nat, NEW b \in Nat
    PROVE  Gcd[<<a, b>>] = IF b = 0 THEN a ELSE Gcd[<<b, a % b>>]
<1> DEFINE Solves(f) == f = [p \in Nat \X Nat |-> IF p[2] = 0 THEN p[1] ELSE f[<<p[2], p[1] % p[2]>>]]
           g == [p \in Nat \X Nat |-> CHOOSE d : d \in Greatest(p[1], p[2])]
<1>1. Solves(g)
  <2>1. ASSUME NEW p \in Nat \X Nat
        PROVE  g[p] = IF p[2] = 0 THEN p[1] ELSE g[<<p[2], p[1] % p[2]>>]
    <3>1. CASE p[2] = 0
      <4>1. Greatest(p[1], p[2]) = {p[1]} BY <3>1, GreatestWithZero
      <4> QED BY <3>1, <4>1
    <3>2. CASE p[2] # 0
      <4>1. Greatest(p[1], p[2]) = Greatest(p[2], p[1] % p[2]) BY <3>2, GreatestOfRemainder
      <4>2. p[1] % p[2] \in Nat BY <3>2, Division
      <4>3. g[<<p[2], p[1] % p[2]>>] = CHOOSE d : d \in Greatest(p[2], p[1] % p[2]) BY <4>2
      <4> QED BY <3>2, <4>1, <4>3
    <3> QED BY <3>1, <3>2
  <2> QED BY <2>1
<1>2. Gcd = CHOOSE f : Solves(f) BY DEF Gcd
<1>3. Solves(Gcd)
  <2> HIDE DEF Solves, g
  <2> QED BY <1>1, <1>2
<1> QED BY <1>3

\* What Gcd computes: a common divisor that is a sum of multiples of both numbers.
GcdOf(a, b, g) ==
    /\ g \in Nat /\ Divides(g, a) /\ Divides(g, b)
    /\ \E x, y \in Int : g = x * a + y * b

LEMMA GcdCorrect ==
    \A a, b \in Nat : GcdOf(a, b, Gcd[<<a, b>>])
<1> DEFINE Wrong(b) == \E a \in Nat : ~GcdOf(a, b, Gcd[<<a, b>>])
           S == {b \in Nat : Wrong(b)}
<1> SUFFICES ASSUME S # {} PROVE FALSE OBVIOUS
<1>1. PICK b \in S : \A c \in S : b <= c BY SmallestNumber
<1>2. PICK a \in Nat : ~GcdOf(a, b, Gcd[<<a, b>>]) OBVIOUS
<1>3. CASE b = 0
  <2>1. Gcd[<<a, b>>] = a BY <1>3, GcdEquation
  <2>2. Divides(a, a) /\ Divides(a, b)
    <3>1. a = a * 1 /\ b = a * 0 BY <1>3
    <3> QED BY <3>1 DEF Divides
  <2>3. \E x, y \in Int : a = x * a + y * b
    <3>1. a = 1 * a + 0 * b BY <1>3
    <3> QED BY <3>1
  <2>4. GcdOf(a, b, a) BY <2>2, <2>3 DEF GcdOf
  <2> QED BY <1>2, <2>1, <2>4
<1>4. CASE b # 0
  <2> DEFINE q == a \div b
             r == a % b
             g == Gcd[<<b, r>>]
  <2>1. b \in Nat \ {0} BY <1>4
  <2>2. q \in Nat /\ r \in Nat /\ r < b /\ a = b * q + r BY <2>1
  <2>3. Gcd[<<a, b>>] = g BY <2>1, GcdEquation
  <2>4. GcdOf(b, r, g)
    <3>1. r \notin S BY <1>1, <2>1, <2>2
    <3> QED BY <2>1, <2>2, <3>1
  <2> HIDE DEF q, r, g
  <2>5. Divides(g, a) BY <2>1, <2>2, <2>4, DividesSum DEF GcdOf
  <2>6. \E x, y \in Int : g = x * a + y * b
    <3>1. PICK x \in Int, y \in Int : g = x * b + y * r BY <2>4 DEF GcdOf
    <3>2. r = a - b * q BY <2>1, <2>2
    <3>3. y * r = y * a - y * (b * q) BY <2>1, <2>2, <3>2
    <3>4. g = y * a + (x - y * q) * b BY <2>1, <2>2, <3>1, <3>3
    <3>5. x - y * q \in Int BY <2>2
    <3> WITNESS y \in Int, x - y * q \in Int
    <3> QED BY <3>4
  <2> QED BY <1>2, <2>3, <2>4, <2>5, <2>6 DEF GcdOf
<1> QED BY <1>3, <1>4

-----------------------------------------------------------------------------
(* The quantity of a preflight *)

\* The common step is a common multiple of the two steps and divides every other one.
LEMMA CommonStepIsLeast ==
    ASSUME NEW a \in Nat \ {0}, NEW b \in Nat \ {0}
    PROVE  /\ CommonStep(a, b) \in Nat \ {0}
           /\ Divides(a, CommonStep(a, b)) /\ Divides(b, CommonStep(a, b))
           /\ \A m \in Nat : Divides(a, m) /\ Divides(b, m) => Divides(CommonStep(a, b), m)
<1> DEFINE g == Gcd[<<a, b>>]
           L == CommonStep(a, b)
<1>1. GcdOf(a, b, g) BY GcdCorrect
<1> HIDE DEF g
<1>2. PICK s \in Nat : a = g * s BY <1>1 DEF GcdOf, Divides
<1>3. PICK t \in Nat : b = g * t BY <1>1 DEF GcdOf, Divides
<1>4. PICK x \in Int, y \in Int : g = x * a + y * b BY <1>1 DEF GcdOf
<1>5. g \in Nat \ {0} /\ s \in Nat \ {0} /\ t \in Nat \ {0}
  <2>1. g # 0 BY <1>2
  <2> QED BY <1>1, <1>2, <1>3, <2>1 DEF GcdOf
<1>6. L = s * b
  <2>1. a \div g = s BY <1>2, <1>5, MultipleDivided
  <2> QED BY <2>1 DEF CommonStep, g
<1>7. L = a * t
  <2>1. L = s * (g * t) BY <1>3, <1>6
  <2>2. s * (g * t) = (g * s) * t BY <1>5
  <2> QED BY <1>2, <2>1, <2>2
<1>8. L \in Nat \ {0}
  <2>1. s * b # 0 BY <1>5
  <2> QED BY <1>5, <1>6, <2>1
<1>9. Divides(a, L) /\ Divides(b, L)
  <2>1. L = b * s BY <1>5, <1>6
  <2> QED BY <1>5, <1>7, <2>1 DEF Divides
<1>10. x * s + y * t = 1
  <2>1. g = x * (g * s) + y * (g * t) BY <1>2, <1>3, <1>4
  <2>2. g * 1 = g * (x * s + y * t) BY <1>5, <2>1
  <2> HIDE DEF L
  <2>3. x * s + y * t \in Int BY <1>5
  <2> QED BY <1>5, <2>2, <2>3
<1>11. ASSUME NEW m \in Nat, Divides(a, m), Divides(b, m) PROVE Divides(L, m)
  <2>1. PICK i \in Nat : m = a * i BY <1>11 DEF Divides
  <2>2. PICK j \in Nat : m = b * j BY <1>11 DEF Divides
  <2> DEFINE k == x * j + y * i
  <2>3. k \in Int OBVIOUS
  <2>4. s * i = t * j
    <3>1. (g * s) * i = (g * t) * j BY <1>2, <1>3, <2>1, <2>2
    <3>2. g * (s * i) = g * (t * j) BY <1>5, <3>1
    <3>3. s * i \in Int /\ t * j \in Int BY <1>5
    <3> QED BY <1>5, <3>2, <3>3
  <2>5. i = t * k
    <3>1. i = (x * s + y * t) * i BY <1>10
    <3>2. (x * s + y * t) * i = x * (s * i) + t * (y * i) BY <1>5
    <3>3. x * (t * j) + t * (y * i) = t * (x * j + y * i) BY <1>5
    <3> QED BY <2>4, <3>1, <3>2, <3>3
  <2>6. m = L * k
    <3> HIDE DEF k, L
    <3>1. m = a * (t * k) BY <2>1, <2>5
    <3>2. a * (t * k) = (a * t) * k BY <1>5, <2>3
    <3> QED BY <1>7, <3>1, <3>2
  <2>7. k >= 0
    <3> HIDE DEF k, L
    <3> QED BY <1>8, <2>3, <2>6
  <2> HIDE DEF k, L
  <2> QED BY <2>3, <2>6, <2>7 DEF Divides
<1> QED BY <1>8, <1>9, <1>11

\* Aligning a value down gives the largest multiple of the step that is not above it.
LEMMA AlignedDownIsLargest ==
    ASSUME NEW v \in Nat, NEW s \in Nat \ {0}
    PROVE  /\ AlignedDown(v, s) \in Nat /\ AlignedDown(v, s) <= v
           /\ Divides(s, AlignedDown(v, s))
           /\ \A m \in Nat : Divides(s, m) /\ m <= v => m <= AlignedDown(v, s)
<1> DEFINE k == v \div s
<1>1. k \in Nat /\ v % s \in 0 .. s - 1 /\ v = s * k + (v % s) BY Division
<1> HIDE DEF k
<1>2. AlignedDown(v, s) = s * k BY <1>1 DEF AlignedDown, k
<1>3. s * k \in Nat /\ s * k <= v BY <1>1
<1>4. ASSUME NEW j \in Nat, s * j <= v PROVE s * j <= s * k
  <2>1. CASE j <= k BY <1>1, <2>1
  <2>2. CASE j > k
    <3>1. s * j >= s * (k + 1) BY <1>1, <2>2
    <3>2. s * (k + 1) = s * k + s BY <1>1
    <3>3. v < s * k + s BY <1>1
    <3> QED BY <1>1, <1>4, <3>1, <3>2, <3>3
  <2> QED BY <1>1, <2>1, <2>2
<1> QED BY <1>1, <1>2, <1>3, <1>4 DEF Divides

LEMMA MinimumOfNumbers ==
    ASSUME NEW S \in SUBSET Nat, S # {}
    PROVE  Min(S) \in S /\ \A y \in S : Min(S) <= y
BY SmallestNumber DEF Min

LEMMA MaximumOfTwo ==
    ASSUME NEW x \in Nat, NEW y \in Nat
    PROVE  x <= Max({x, y}) /\ y <= Max({x, y})
<1>1. \E z \in {x, y} : \A w \in {x, y} : z >= w
  <2>1. CASE x >= y BY <2>1
  <2>2. CASE x < y BY <2>2
  <2> QED BY <2>1, <2>2
<1> QED BY <1>1 DEF Max

LEMMA DividesTransitive ==
    ASSUME NEW a \in Nat, NEW b \in Nat, NEW c \in Nat, Divides(a, b), Divides(b, c)
    PROVE  Divides(a, c)
<1>1. PICK k \in Nat : c = b * k BY DEF Divides
<1> QED BY <1>1, DividesProduct

\* What a listing that is accepted gives: positive steps and positive minima, in base units.
LEMMA ListingNumbers ==
    ASSUME NEW m \in Market, NEW compatible \in BOOLEAN, QuantityRulesValid(m, compatible)
    PROVE  /\ m.amountStep \in Nat \ {0} /\ m.contractSize \in Nat \ {0} /\ m.priceStep \in Nat \ {0}
           /\ BaseStep(m) \in Nat \ {0} /\ MinBase(m, compatible) \in Nat \ {0} /\ MaxBase(m) \in Nat
<1>1. /\ m.amountStep \in Nat \ {0} /\ m.contractSize \in Nat \ {0} /\ m.priceStep \in Nat \ {0}
      /\ m.max \in Nat /\ m.min \in Nat
  BY DEF Market, QuantityRulesValid
<1>2. MinimumAmount(m, compatible) \in Nat \ {0}
  BY <1>1 DEF MinimumAmount, QuantityRulesValid
<1>3. \A x, y \in Nat \ {0} : x * y \in Nat \ {0} OBVIOUS
<1>4. MaxBase(m) \in Nat BY <1>1 DEF MaxBase
<1> QED BY <1>1, <1>2, <1>3, <1>4 DEF BaseStep, MinBase

\* A quantity one market can trade, in base units.
TradableOn(q, m, compatible) ==
    q % BaseStep(m) = 0 /\ Within(q, MinBase(m, compatible), MaxBase(m))

\* The quantity both can trade that no larger one within the request can replace.
Largest(q, requested, spot, contract, compatible) ==
    /\ q \in 1 .. requested
    /\ TradableOn(q, spot, compatible) /\ TradableOn(q, contract, FALSE)
    /\ \A larger \in q + 1 .. requested :
            ~(TradableOn(larger, spot, compatible) /\ TradableOn(larger, contract, FALSE))

LEMMA EffectiveQuantityIsLargest ==
    ASSUME NEW requested \in Nat \ {0}, NEW spot \in Market, NEW contract \in Market,
           NEW compatible \in BOOLEAN,
           QuantityRulesValid(spot, compatible), QuantityRulesValid(contract, FALSE),
           EffectiveQuantity(requested, spot, contract, compatible) # Rejected
    PROVE  Largest(EffectiveQuantity(requested, spot, contract, compatible),
                   requested, spot, contract, compatible)
<1> DEFINE a == BaseStep(spot)
           b == BaseStep(contract)
           L == CommonStep(a, b)
           maxima == {MaxBase(spot), MaxBase(contract)} \ {NoLimit}
           V == maxima \cup {requested}
           aligned == {AlignedDown(v, L) : v \in V}
           q == Min(aligned)
<1>1. /\ a \in Nat \ {0} /\ b \in Nat \ {0}
      /\ MinBase(spot, compatible) \in Nat \ {0} /\ MaxBase(spot) \in Nat
      /\ MinBase(contract, FALSE) \in Nat \ {0} /\ MaxBase(contract) \in Nat
  BY ListingNumbers
<1>2. /\ EffectiveQuantity(requested, spot, contract, compatible) = q
      /\ q >= MinBase(spot, compatible) /\ q >= MinBase(contract, FALSE)
  BY DEF EffectiveQuantity, CommonQuantity
<1> HIDE DEF a, b
<1>3. /\ L \in Nat \ {0} /\ Divides(a, L) /\ Divides(b, L)
      /\ \A m \in Nat : Divides(a, m) /\ Divides(b, m) => Divides(L, m)
  BY <1>1, CommonStepIsLeast
<1>4. V \in SUBSET Nat /\ requested \in V /\ maxima \subseteq V BY <1>1
<1> HIDE DEF L, V, maxima
<1>5. \A v \in V : /\ AlignedDown(v, L) \in Nat /\ AlignedDown(v, L) <= v
                   /\ Divides(L, AlignedDown(v, L))
                   /\ \A m \in Nat : Divides(L, m) /\ m <= v => m <= AlignedDown(v, L)
  BY <1>3, <1>4, AlignedDownIsLargest
<1>6. aligned \in SUBSET Nat /\ aligned # {} BY <1>4, <1>5
<1>7. q \in aligned /\ \A y \in aligned : q <= y
  <2> HIDE DEF aligned
  <2> QED BY <1>6, MinimumOfNumbers
<1>8. q \in Nat /\ Divides(L, q) /\ \A v \in V : q <= v
  <2>1. q \in Nat /\ Divides(L, q)
    <3> HIDE DEF q
    <3> QED BY <1>5, <1>7
  <2>2. ASSUME NEW v \in V PROVE q <= v
    <3>1. q <= AlignedDown(v, L) BY <1>7
    <3> HIDE DEF q
    <3> QED BY <1>4, <1>5, <2>1, <3>1
  <2> QED BY <2>1, <2>2
<1>9. ASSUME NEW m \in Nat, Divides(a, m), Divides(b, m), \A v \in V : m <= v PROVE m <= q
  <2>1. Divides(L, m) BY <1>3, <1>9
  <2>2. \A y \in aligned : m <= y BY <1>5, <1>9, <2>1
  <2> HIDE DEF q
  <2> QED BY <1>7, <2>2
<1> HIDE DEF q, aligned
<1>10. \A m \in Nat : /\ m % a = 0 <=> Divides(a, m)
                      /\ m % b = 0 <=> Divides(b, m)
  BY <1>1, DividesRemainder
<1>11. q % a = 0 /\ q % b = 0
  BY <1>1, <1>3, <1>8, <1>10, DividesTransitive
<1>12. q \in 1 .. requested BY <1>1, <1>2, <1>4, <1>8
<1>13. /\ MaxBase(spot) = NoLimit \/ q <= MaxBase(spot)
       /\ MaxBase(contract) = NoLimit \/ q <= MaxBase(contract)
  BY <1>4, <1>8 DEF maxima
<1>14. TradableOn(q, spot, compatible) /\ TradableOn(q, contract, FALSE)
  BY <1>2, <1>11, <1>13 DEF TradableOn, Within, a, b
<1>15. ASSUME NEW m \in q + 1 .. requested,
              TradableOn(m, spot, compatible), TradableOn(m, contract, FALSE)
       PROVE  FALSE
  <2>1. m \in Nat /\ m > q /\ m <= requested BY <1>8
  <2>2. Divides(a, m) /\ Divides(b, m) BY <1>10, <1>15, <2>1 DEF TradableOn, a, b
  <2>3. /\ MaxBase(spot) = NoLimit \/ m <= MaxBase(spot)
        /\ MaxBase(contract) = NoLimit \/ m <= MaxBase(contract)
    BY <1>15 DEF TradableOn, Within
  <2>4. \A v \in V : m <= v BY <2>1, <2>3 DEF V, maxima
  <2> QED BY <1>8, <1>9, <2>1, <2>2, <2>4
<1> QED BY <1>2, <1>12, <1>14, <1>15 DEF Largest

-----------------------------------------------------------------------------
(* Orders *)

\* The exchange reports the quantity that was meant exactly when it is a whole number of base steps.
LEMMA ReportedIsSent ==
    ASSUME NEW m \in Market, NEW compatible \in BOOLEAN, QuantityRulesValid(m, compatible),
           NEW q \in Nat
    PROVE  ReportedQuantity(SentAmount(q, m), m) = q <=> q % BaseStep(m) = 0
<1> DEFINE s == m.amountStep
           c == m.contractSize
           n == (q \div c) \div s
<1>1. s \in Nat \ {0} /\ c \in Nat \ {0} /\ BaseStep(m) \in Nat \ {0} BY ListingNumbers
<1>2. BaseStep(m) = s * c BY DEF BaseStep
<1>3. n \in Nat
  <2>1. \A x \in Nat, y \in Nat \ {0} : x \div y \in Nat OBVIOUS
  <2> QED BY <1>1, <2>1
<1>4. ReportedQuantity(SentAmount(q, m), m) = (n * s) * c
  BY DEF ReportedQuantity, SentAmount, AlignedDown
<1>5. (n * s) * c = (s * c) * n BY <1>1, <1>3
<1>6. ASSUME q % BaseStep(m) = 0 PROVE (s * c) * n = q
  <2>1. PICK k \in Nat : q = BaseStep(m) * k BY <1>1, <1>6, DividesRemainder DEF Divides
  <2> HIDE DEF s, c
  <2>2. q = c * (s * k) /\ s * k \in Nat BY <1>1, <1>2, <2>1
  <2>3. q \div c = s * k BY <1>1, <2>2, MultipleDivided
  <2>4. n = k BY <1>1, <2>3, MultipleDivided
  <2> QED BY <1>2, <2>1, <2>4
<1>7. ASSUME (s * c) * n = q PROVE q % BaseStep(m) = 0
  <2> HIDE DEF n, s, c
  <2>1. Divides(BaseStep(m), q) BY <1>2, <1>3, <1>7 DEF Divides
  <2> QED BY <1>1, <2>1, DividesRemainder
<1> HIDE DEF n, s, c
<1> QED BY <1>4, <1>5, <1>6, <1>7

\* A quantized price is not moved by quantizing it again.
LEMMA QuantizedAgain ==
    ASSUME NEW m \in Market, NEW compatible \in BOOLEAN, QuantityRulesValid(m, compatible),
           NEW price \in Nat
    PROVE  LimitPrice(price, m) = Quantized(price, m)
<1> DEFINE p == m.priceStep
           k == (2 * price + p) \div (2 * p)
<1>1. p \in Nat \ {0} BY ListingNumbers
<1> HIDE DEF p
<1>2. 2 * p \in Nat \ {0} /\ 2 * price + p \in Nat BY <1>1
<1>3. k \in Nat
  <2>1. \A x \in Nat, y \in Nat \ {0} : x \div y \in Nat OBVIOUS
  <2> QED BY <1>2, <2>1
<1>4. Quantized(price, m) = k * p BY DEF Quantized, p
<1> HIDE DEF k
<1>5. (2 * (k * p) + p) \div (2 * p) = k
  <2>1. \A b \in Nat \ {0}, j \in Nat, r \in Nat : r < b => (b * j + r) \div b = j OBVIOUS
  <2>2. p < 2 * p BY <1>1
  <2>3. ((2 * p) * k + p) \div (2 * p) = k BY <1>1, <1>2, <1>3, <2>1, <2>2
  <2>4. (2 * p) * k = 2 * (k * p) BY <1>1, <1>3
  <2> QED BY <2>3, <2>4
<1>6. Quantized(k * p, m) = k * p BY <1>5 DEF Quantized, p
<1> QED BY <1>4, <1>6 DEF LimitPrice

\* A quantity a market can trade is not refused by the gateway at a price that fits.
LEMMA TradableIsPrepared ==
    ASSUME NEW m \in Market, NEW compatible \in BOOLEAN, QuantityRulesValid(m, compatible),
           NEW q \in Nat, NEW price, TradableOn(q, m, compatible), NotionalFits(q, price, m)
    PROVE  Prepared(q, price, m, compatible)
BY ReportedIsSent DEF TradableOn, Prepared

\* The reconciliation and the gateway refuse the same residuals.
LEMMA ResidualIsAgreed ==
    ASSUME NEW m \in Market, NEW compatible \in BOOLEAN, QuantityRulesValid(m, compatible),
           NEW residual \in Nat, NEW average \in Nat
    PROVE  Tradable(residual, average, m, compatible) <=>
                /\ WholeContracts(residual, m)
                /\ Prepared(residual, LimitPrice(average, m), m, compatible)
BY ReportedIsSent, QuantizedAgain DEF Tradable, Prepared

-----------------------------------------------------------------------------
(* The invariant of the runs and the stored records *)

AccountSettings ==
    [position : {"one-way", "hedged", "unknown"}, margin : {"isolated", "cross", "unknown"},
     leverage : Nat]

Run ==
    [step : Steps, purpose : {"preflight", "confirmation"}, requested : Nat, spot : Market,
     contract : Market, settings : AccountSettings, quantity : Nat,
     spotNeed : Nat, contractNeed : Nat]

Record ==
    [state : {"none", "PENDING_CONFIRMATION", "EXECUTING", "PREFLIGHT_INVALIDATED"},
     requested : Nat, spot : Market, contract : Market, settings : AccountSettings, quantity : Nat]

Cache == [spot : SpotMarkets \cup {NoMarket}, contract : ContractMarkets \cup {NoMarket}]

Typed ==
    /\ world \in World /\ changes \in 0 .. MaxChanges /\ cache \in Cache
    /\ run \in [Strategies -> Run]
    /\ stored \in [Strategies -> Record]
    /\ since \in [Strategies -> SUBSET World]

\* What a run knows from each step on.
SettingsKnown == {"spot price", "contract price", "spot balance", "contract balance"}
ContractKnown == SettingsKnown \cup {"settings"}
SpotKnown == ContractKnown \cup {"contract market"}

\* The listings of x were accepted and its quantity is the largest both can trade.
Sized(x) ==
    /\ QuantityRulesValid(x.spot, Compatible) /\ QuantityRulesValid(x.contract, FALSE)
    /\ Largest(x.quantity, x.requested, x.spot, x.contract, Compatible)

\* A part of x was true of the exchanges at some time in seen.
SpotFresh(x, seen) == \E w \in seen : w.spot = x.spot
ContractFresh(x, seen) == \E w \in seen : w.contract = x.contract
SettingsFresh(x, seen) == \E w \in seen : w.settings = x.settings

\* r: the run of a strategy, t: its record, seen: the answers since the run began, now: the next.
RunSound(r, t, seen, now) ==
    /\ r.step # "idle" => now \in seen /\ r.requested # 0
    /\ r.step # "idle" /\ r.purpose = "confirmation" => t.state = "PENDING_CONFIRMATION"
    /\ r.step \in SpotKnown => SpotFresh(r, seen)
    /\ r.step \in ContractKnown => ContractFresh(r, seen)
    /\ r.step \in SettingsKnown => SettingsFresh(r, seen) /\ Sized(r)

RecordSound(t, seen) ==
    /\ t.state # "none" => Sized(t)
    /\ t.state = "EXECUTING" => SpotFresh(t, seen) /\ ContractFresh(t, seen) /\ SettingsFresh(t, seen)

PreflightInv ==
    /\ Typed
    /\ \A s \in Strategies : /\ RunSound(run[s], stored[s], since[s], world)
                             /\ RecordSound(stored[s], since[s])

-----------------------------------------------------------------------------
(* Every step preserves it *)

LEMMA NothingKnownYet == NoMarket \in Market /\ NoSettings \in AccountSettings /\ Idle \in Run /\ NoRecord \in Record
BY DEF NoMarket, Market, NoSettings, AccountSettings, Idle, Run, NoRecord, Record, Steps

LEMMA AnswersTyped ==
    ASSUME NEW w \in World
    PROVE  /\ w.spot \in SpotMarkets /\ w.spot \in Market
           /\ w.contract \in ContractMarkets /\ w.contract \in Market
           /\ w.settings \in AccountSettings /\ w.price \in Nat \ {0} /\ w.balance \in Nat
BY MarketAssumption, SettingsAssumption, NumberAssumption DEF World, AccountSettings

\* A step of one strategy leaves the others as they were.
LEMMA StepOfOne ==
    ASSUME PreflightInv, NEW s \in Strategies,
           NEW r \in Run, NEW t \in Record, NEW seen \in SUBSET World,
           run' = [run EXCEPT ![s] = r], stored' = [stored EXCEPT ![s] = t],
           since' = [since EXCEPT ![s] = seen],
           UNCHANGED <<world, changes>>, cache' \in Cache,
           RunSound(r, t, seen, world), RecordSound(t, seen)
    PROVE  PreflightInv'
<1>1. Typed' BY DEF PreflightInv, Typed
<1>2. ASSUME NEW o \in Strategies
      PROVE  /\ RunSound(run'[o], stored'[o], since'[o], world)
             /\ RecordSound(stored'[o], since'[o])
  <2>1. CASE o = s
    <3>1. run'[o] = r /\ stored'[o] = t /\ since'[o] = seen BY <2>1 DEF PreflightInv, Typed
    <3> QED BY <3>1
  <2>2. CASE o # s
    <3>1. run'[o] = run[o] /\ stored'[o] = stored[o] /\ since'[o] = since[o]
      BY <2>2 DEF PreflightInv, Typed
    <3> QED BY <3>1 DEF PreflightInv
  <2> QED BY <2>1, <2>2
<1>3. world' = world OBVIOUS
<1> QED BY <1>1, <1>2, <1>3 DEF PreflightInv, RunSound, RecordSound, Sized, SpotFresh, ContractFresh, SettingsFresh

\* An answer that passes.
LEMMA Passing ==
    ASSUME PreflightInv, NEW s \in Strategies, NEW r \in Run, Continues(s, r),
           UNCHANGED <<world, changes, since>>, cache' \in Cache,
           RunSound(r, stored[s], since[s], world)
    PROVE  PreflightInv'
<1>1. stored[s] \in Record /\ since[s] \in SUBSET World /\ RecordSound(stored[s], since[s])
  BY DEF PreflightInv, Typed
<1>2. stored' = [stored EXCEPT ![s] = stored[s]] /\ since' = [since EXCEPT ![s] = since[s]]
  BY DEF PreflightInv, Typed, Continues
<1> QED BY <1>1, <1>2, StepOfOne DEF Continues

\* A request or a check that fails.
LEMMA Ending ==
    ASSUME PreflightInv, NEW s \in Strategies, run[s].step # "idle", Ends(s),
           UNCHANGED <<world, changes, since>>, cache' \in Cache
    PROVE  PreflightInv'
<1>1. /\ stored[s] \in Record /\ since[s] \in SUBSET World /\ run[s] \in Run
      /\ RunSound(run[s], stored[s], since[s], world) /\ RecordSound(stored[s], since[s])
  BY DEF PreflightInv, Typed
<1>2. since' = [since EXCEPT ![s] = since[s]] /\ run' = [run EXCEPT ![s] = Idle]
  BY DEF PreflightInv, Typed, Ends
<1>3. \A t : RunSound(Idle, t, since[s], world)
  BY DEF Idle, RunSound, SpotKnown, ContractKnown, SettingsKnown
<1>4. CASE UNCHANGED stored
  <2>1. stored' = [stored EXCEPT ![s] = stored[s]] BY <1>4 DEF PreflightInv, Typed
  <2> QED BY <1>1, <1>2, <1>3, <2>1, NothingKnownYet, StepOfOne
<1>5. CASE /\ run[s].purpose = "confirmation"
           /\ stored' = [stored EXCEPT ![s].state = "PREFLIGHT_INVALIDATED"]
  <2> DEFINE t == [stored[s] EXCEPT !.state = "PREFLIGHT_INVALIDATED"]
  <2>1. stored' = [stored EXCEPT ![s] = t] BY <1>5
  <2>2. t \in Record BY <1>1 DEF Record
  <2>3. stored[s].state # "none" BY <1>1, <1>5 DEF RunSound
  <2>4. RecordSound(t, since[s]) BY <1>1, <2>3 DEF RecordSound, Sized, Record
  <2> HIDE DEF t
  <2> QED BY <1>1, <1>2, <1>3, <2>1, <2>2, <2>4, NothingKnownYet, StepOfOne
<1> QED BY <1>4, <1>5 DEF Ends

LEMMA WorldChangesKeepsInv ==
    ASSUME PreflightInv, WorldChanges PROVE PreflightInv'
<1>1. PICK w \in World :
        /\ world' = w
        /\ since' = [s \in Strategies |-> IF run[s].step = "idle" THEN since[s] ELSE since[s] \cup {w}]
  BY DEF WorldChanges
<1>2. Typed' BY <1>1, NumberAssumption DEF PreflightInv, Typed, WorldChanges
<1>3. ASSUME NEW s \in Strategies
      PROVE  RunSound(run[s], stored[s], since'[s], w) /\ RecordSound(stored[s], since'[s])
  <2>1. RunSound(run[s], stored[s], since[s], world) /\ RecordSound(stored[s], since[s])
    BY DEF PreflightInv
  <2>2. since[s] \subseteq since'[s] /\ (run[s].step # "idle" => w \in since'[s]) BY <1>1
  <2>3. RecordSound(stored[s], since'[s])
    BY <2>1, <2>2 DEF RecordSound, SpotFresh, ContractFresh, SettingsFresh
  <2>4. RunSound(run[s], stored[s], since'[s], w)
    BY <2>1, <2>2 DEF RunSound, SpotFresh, ContractFresh, SettingsFresh
  <2> QED BY <2>3, <2>4
<1>4. run' = run /\ stored' = stored BY DEF WorldChanges
<1>5. ASSUME NEW s \in Strategies
      PROVE  RunSound(run'[s], stored'[s], since'[s], world') /\ RecordSound(stored'[s], since'[s])
  BY <1>1, <1>3, <1>4
<1> QED BY <1>2, <1>5
    DEF PreflightInv, RunSound, RecordSound, Sized, SpotFresh, ContractFresh, SettingsFresh

LEMMA BeginKeepsInv ==
    ASSUME PreflightInv, NEW s \in Strategies,
           NEW purpose \in {"preflight", "confirmation"}, NEW requested \in Nat \ {0},
           purpose = "confirmation" => stored[s].state = "PENDING_CONFIRMATION",
           stored[s].state # "EXECUTING", Begin(s, purpose, requested)
    PROVE  PreflightInv'
<1> DEFINE r == [Idle EXCEPT !.step = "spot market", !.purpose = purpose, !.requested = requested]
<1>1. stored[s] \in Record /\ RecordSound(stored[s], since[s]) /\ world \in World
  BY DEF PreflightInv, Typed
<1>2. r \in Run BY NothingKnownYet DEF Idle, Run, Steps
<1>3. RunSound(r, stored[s], {world}, world)
  BY DEF Idle, RunSound, SpotKnown, ContractKnown, SettingsKnown
<1>4. RecordSound(stored[s], {world}) BY <1>1 DEF RecordSound
<1>5. /\ run' = [run EXCEPT ![s] = r] /\ since' = [since EXCEPT ![s] = {world}]
      /\ stored' = [stored EXCEPT ![s] = stored[s]] /\ UNCHANGED <<world, changes>>
      /\ cache' \in Cache
  BY DEF Begin, PreflightInv, Typed
<1>6. {world} \in SUBSET World BY <1>1
<1> HIDE DEF r
<1> QED BY <1>1, <1>2, <1>3, <1>4, <1>5, <1>6, StepOfOne

LEMMA BeginningsKeepInv ==
    ASSUME PreflightInv, NEW s \in Strategies, BeginPreflight(s) \/ BeginConfirmation(s)
    PROVE  PreflightInv'
<1>1. CASE BeginPreflight(s)
  <2>1. PICK q \in Requested : Begin(s, "preflight", q) BY <1>1 DEF BeginPreflight
  <2>2. stored[s].state = "none" BY <1>1 DEF BeginPreflight
  <2> QED BY <2>1, <2>2, NumberAssumption, BeginKeepsInv
<1>2. CASE BeginConfirmation(s)
  <2>1. stored[s].state = "PENDING_CONFIRMATION" /\ Begin(s, "confirmation", stored[s].requested)
    BY <1>2 DEF BeginConfirmation
  <2>2. stored[s] \in Record /\ RecordSound(stored[s], since[s]) BY DEF PreflightInv, Typed
  <2>3. stored[s].requested \in Nat /\ Sized(stored[s]) BY <2>1, <2>2 DEF Record, RecordSound
  <2>4. stored[s].requested \in Nat \ {0} BY <2>3 DEF Sized, Largest
  <2> QED BY <2>1, <2>4, BeginKeepsInv
<1> QED BY <1>1, <1>2

\* What the lemmas of the answers have in common.
LEMMA UnderWay ==
    ASSUME PreflightInv, NEW s \in Strategies, run[s].step # "idle"
    PROVE  /\ run[s] \in Run /\ world \in World /\ world \in since[s] /\ cache \in Cache
           /\ run[s].requested \in Nat \ {0}
           /\ RunSound(run[s], stored[s], since[s], world)
BY DEF PreflightInv, Typed, RunSound, Run

LEMMA SpotMarketLoadedKeepsInv ==
    ASSUME PreflightInv, NEW s \in Strategies, SpotMarketLoaded(s) PROVE PreflightInv'
<1> DEFINE r == [run[s] EXCEPT !.step = "contract market", !.spot = world.spot]
<1>1. /\ run[s].step = "spot market" /\ (Continues(s, r) \/ Ends(s))
      /\ UNCHANGED <<world, changes, since>>
      /\ cache' = [cache EXCEPT !.spot = world.spot]
  BY DEF SpotMarketLoaded, Answered
<1>2. /\ run[s] \in Run /\ world \in World /\ world \in since[s] /\ cache \in Cache
      /\ run[s].requested \in Nat \ {0} /\ RunSound(run[s], stored[s], since[s], world)
  BY <1>1, UnderWay
<1>3. cache' \in Cache BY <1>1, <1>2, AnswersTyped DEF Cache
<1>4. r \in Run BY <1>2, AnswersTyped DEF Run, Steps
<1>5. RunSound(r, stored[s], since[s], world)
  BY <1>1, <1>2 DEF Run, RunSound, SpotKnown, ContractKnown, SettingsKnown, SpotFresh
<1> HIDE DEF r
<1> QED BY <1>1, <1>3, <1>4, <1>5, Passing, Ending

LEMMA ContractMarketLoadedKeepsInv ==
    ASSUME PreflightInv, NEW s \in Strategies, ContractMarketLoaded(s) PROVE PreflightInv'
<1> DEFINE r == [run[s] EXCEPT !.step = "settings", !.contract = world.contract]
<1>1. /\ run[s].step = "contract market" /\ (Continues(s, r) \/ Ends(s))
      /\ UNCHANGED <<world, changes, since>>
      /\ cache' = [cache EXCEPT !.contract = world.contract]
  BY DEF ContractMarketLoaded, Answered
<1>2. /\ run[s] \in Run /\ world \in World /\ world \in since[s] /\ cache \in Cache
      /\ run[s].requested \in Nat \ {0} /\ RunSound(run[s], stored[s], since[s], world)
  BY <1>1, UnderWay
<1>3. cache' \in Cache BY <1>1, <1>2, AnswersTyped DEF Cache
<1>4. r \in Run BY <1>2, AnswersTyped DEF Run, Steps
<1>5. RunSound(r, stored[s], since[s], world)
  BY <1>1, <1>2 DEF Run, RunSound, SpotKnown, ContractKnown, SettingsKnown, SpotFresh, ContractFresh
<1> HIDE DEF r
<1> QED BY <1>1, <1>3, <1>4, <1>5, Passing, Ending

LEMMA SettingsReadKeepsInv ==
    ASSUME PreflightInv, NEW s \in Strategies, SettingsRead(s) PROVE PreflightInv'
<1> DEFINE q == EffectiveQuantity(run[s].requested, run[s].spot, run[s].contract, Compatible)
           r == [run[s] EXCEPT !.step = "spot price", !.settings = world.settings, !.quantity = q]
           passes == /\ QuantityRulesValid(run[s].spot, Compatible)
                     /\ QuantityRulesValid(run[s].contract, FALSE)
                     /\ q # Rejected
<1>1. /\ run[s].step = "settings" /\ ((passes /\ Continues(s, r)) \/ Ends(s))
      /\ UNCHANGED <<world, changes, since, cache>>
  BY DEF SettingsRead, Answered
<1>2. /\ run[s] \in Run /\ world \in World /\ world \in since[s] /\ cache \in Cache
      /\ run[s].requested \in Nat \ {0} /\ RunSound(run[s], stored[s], since[s], world)
  BY <1>1, UnderWay
<1>3. CASE Ends(s) BY <1>1, <1>2, <1>3, Ending
<1>4. CASE passes /\ Continues(s, r)
  <2>1. run[s].spot \in Market /\ run[s].contract \in Market BY <1>2 DEF Run
  <2>2. Largest(q, run[s].requested, run[s].spot, run[s].contract, Compatible)
    BY <1>2, <1>4, <2>1, NumberAssumption, EffectiveQuantityIsLargest
  <2> HIDE DEF q
  <2>3. q \in Nat BY <2>2 DEF Largest
  <2>4. r \in Run BY <1>2, <2>3, AnswersTyped DEF Run, Steps
  <2>5. /\ r.step = "spot price" /\ r.purpose = run[s].purpose /\ r.requested = run[s].requested
        /\ r.spot = run[s].spot /\ r.contract = run[s].contract
        /\ r.settings = world.settings /\ r.quantity = q
    BY <1>2 DEF Run
  <2> HIDE DEF r
  <2>6. Sized(r) BY <1>4, <2>2, <2>5 DEF Sized
  <2>7. SpotFresh(r, since[s]) /\ ContractFresh(r, since[s]) /\ SettingsFresh(r, since[s])
    BY <1>1, <1>2, <2>5
    DEF RunSound, SpotKnown, ContractKnown, SpotFresh, ContractFresh, SettingsFresh
  <2>8. RunSound(r, stored[s], since[s], world)
    BY <1>1, <1>2, <2>5, <2>6, <2>7 DEF RunSound
  <2> QED BY <1>1, <1>2, <1>4, <2>4, <2>8, Passing
<1> QED BY <1>1, <1>3, <1>4

\* The answers after the settings change neither what is known nor the quantity.
LEMMA LaterStep ==
    ASSUME PreflightInv, NEW s \in Strategies, run[s].step \in SettingsKnown,
           NEW r \in Run, r.step \in SettingsKnown,
           \A f \in {"purpose", "requested", "spot", "contract", "settings", "quantity"} :
                r[f] = run[s][f],
           Continues(s, r) \/ Ends(s), UNCHANGED <<world, changes, since, cache>>
    PROVE  PreflightInv'
<1>1. run[s].step # "idle" BY DEF SettingsKnown
<1>2. /\ cache \in Cache /\ RunSound(run[s], stored[s], since[s], world) BY <1>1, UnderWay
<1>3. /\ r.purpose = run[s].purpose /\ r.requested = run[s].requested /\ r.spot = run[s].spot
      /\ r.contract = run[s].contract /\ r.settings = run[s].settings
      /\ r.quantity = run[s].quantity
  OBVIOUS
<1>4. RunSound(r, stored[s], since[s], world)
  BY <1>1, <1>2, <1>3 DEF RunSound, SpotKnown, ContractKnown, Sized, SpotFresh, ContractFresh, SettingsFresh
<1> QED BY <1>1, <1>2, <1>4, Passing, Ending

LEMMA PricesKeepInv ==
    ASSUME PreflightInv, NEW s \in Strategies,
           SpotPriceRead(s) \/ ContractPriceRead(s) \/ SpotBalanceRead(s)
    PROVE  PreflightInv'
<1>1. run[s].step \in SettingsKnown /\ run[s].step # "idle"
  BY DEF SpotPriceRead, ContractPriceRead, SpotBalanceRead, Answered, SettingsKnown
<1>2. run[s] \in Run /\ world \in World BY <1>1, UnderWay
<1>3. run[s].quantity * world.price \in Nat BY <1>2, AnswersTyped DEF Run
<1>4. CASE SpotPriceRead(s)
  <2> DEFINE r == [run[s] EXCEPT !.step = "contract price",
                                 !.spotNeed = run[s].quantity * world.price]
  <2>1. Continues(s, r) \/ Ends(s) BY <1>4 DEF SpotPriceRead, Answered
  <2>2. UNCHANGED <<world, changes, since, cache>> BY <1>4 DEF SpotPriceRead
  <2>3. r \in Run BY <1>2, <1>3 DEF Run, Steps
  <2>4. /\ r.step \in SettingsKnown
        /\ \A f \in {"purpose", "requested", "spot", "contract", "settings", "quantity"} :
                r[f] = run[s][f]
    BY <1>2 DEF Run, SettingsKnown
  <2> HIDE DEF r
  <2> QED BY <1>1, <2>1, <2>2, <2>3, <2>4, LaterStep
<1>5. CASE ContractPriceRead(s)
  <2> DEFINE r == [run[s] EXCEPT !.step = "spot balance",
                                 !.contractNeed = run[s].quantity * world.price]
  <2>1. Continues(s, r) \/ Ends(s) BY <1>5 DEF ContractPriceRead, Answered
  <2>2. UNCHANGED <<world, changes, since, cache>> BY <1>5 DEF ContractPriceRead
  <2>3. r \in Run BY <1>2, <1>3 DEF Run, Steps
  <2>4. /\ r.step \in SettingsKnown
        /\ \A f \in {"purpose", "requested", "spot", "contract", "settings", "quantity"} :
                r[f] = run[s][f]
    BY <1>2 DEF Run, SettingsKnown
  <2> HIDE DEF r
  <2> QED BY <1>1, <2>1, <2>2, <2>3, <2>4, LaterStep
<1>6. CASE SpotBalanceRead(s)
  <2> DEFINE r == [run[s] EXCEPT !.step = "contract balance"]
  <2>1. Continues(s, r) \/ Ends(s) BY <1>6 DEF SpotBalanceRead, Answered
  <2>2. UNCHANGED <<world, changes, since, cache>> BY <1>6 DEF SpotBalanceRead
  <2>3. r \in Run BY <1>2 DEF Run, Steps
  <2>4. /\ r.step \in SettingsKnown
        /\ \A f \in {"purpose", "requested", "spot", "contract", "settings", "quantity"} :
                r[f] = run[s][f]
    BY <1>2 DEF Run, SettingsKnown
  <2> HIDE DEF r
  <2> QED BY <1>1, <2>1, <2>2, <2>3, <2>4, LaterStep
<1> QED BY <1>4, <1>5, <1>6

\* The record a completed run leaves.
LEMMA CompleteKeepsInv ==
    ASSUME PreflightInv, NEW s \in Strategies, run[s].step = "contract balance", Complete(s),
           UNCHANGED <<world, changes, since, cache>>
    PROVE  PreflightInv'
<1> DEFINE r == run[s]
           old == stored[s]
           t == IF r.purpose = "preflight"
                THEN [state |-> "PENDING_CONFIRMATION", requested |-> r.requested,
                      spot |-> r.spot, contract |-> r.contract,
                      settings |-> r.settings, quantity |-> r.quantity]
                ELSE [old EXCEPT !.state = IF Drift(old, r) THEN "PREFLIGHT_INVALIDATED"
                                                            ELSE "EXECUTING"]
<1>1. /\ r \in Run /\ cache \in Cache /\ RunSound(r, old, since[s], world)
  BY UnderWay
<1>2. old \in Record /\ since[s] \in SUBSET World /\ RecordSound(old, since[s])
  BY DEF PreflightInv, Typed
<1>3. /\ run' = [run EXCEPT ![s] = Idle] /\ stored' = [stored EXCEPT ![s] = t]
      /\ since' = [since EXCEPT ![s] = since[s]]
  BY DEF Complete, PreflightInv, Typed
<1>4. RunSound(Idle, t, since[s], world)
  BY DEF Idle, RunSound, SpotKnown, ContractKnown, SettingsKnown
<1>5. /\ Sized(r) /\ SpotFresh(r, since[s]) /\ ContractFresh(r, since[s])
      /\ SettingsFresh(r, since[s])
  BY <1>1 DEF RunSound, SpotKnown, ContractKnown, SettingsKnown
<1>6. t \in Record /\ RecordSound(t, since[s])
  <2>1. CASE r.purpose = "preflight"
    <3>1. t = [state |-> "PENDING_CONFIRMATION", requested |-> r.requested,
               spot |-> r.spot, contract |-> r.contract,
               settings |-> r.settings, quantity |-> r.quantity]
      BY <2>1
    <3> HIDE DEF t
    <3>2. t \in Record BY <1>1, <3>1 DEF Run, Record
    <3>3. Sized(t) BY <1>5, <3>1 DEF Sized
    <3> QED BY <3>1, <3>2, <3>3 DEF RecordSound
  <2>2. CASE r.purpose # "preflight"
    <3>1. old.state = "PENDING_CONFIRMATION" BY <1>1, <2>2 DEF RunSound, Run
    <3>2. CASE Drift(old, r)
      <4>1. t = [old EXCEPT !.state = "PREFLIGHT_INVALIDATED"] BY <2>2, <3>2
      <4> HIDE DEF t
      <4>2. t \in Record BY <1>2, <4>1 DEF Record
      <4>3. Sized(t) BY <1>2, <3>1, <4>1 DEF RecordSound, Sized, Record
      <4> QED BY <1>2, <4>1, <4>2, <4>3 DEF RecordSound, Record
    <3>3. CASE ~Drift(old, r)
      <4>1. t = [old EXCEPT !.state = "EXECUTING"] BY <2>2, <3>3
      <4>2. old.spot = r.spot /\ old.contract = r.contract /\ old.settings = r.settings
        BY <3>3 DEF Drift
      <4> HIDE DEF t
      <4>3. t \in Record BY <1>2, <4>1 DEF Record
      <4>4. Sized(t) BY <1>2, <3>1, <4>1 DEF RecordSound, Sized, Record
      <4>5. /\ t.spot = r.spot /\ t.contract = r.contract /\ t.settings = r.settings
        BY <1>2, <4>1, <4>2 DEF Record
      <4> QED BY <1>5, <4>3, <4>4, <4>5 DEF RecordSound, SpotFresh, ContractFresh, SettingsFresh
    <3> QED BY <3>2, <3>3
  <2> QED BY <2>1, <2>2
<1> HIDE DEF t, r, old
<1> QED BY <1>1, <1>2, <1>3, <1>4, <1>6, NothingKnownYet, StepOfOne

LEMMA ContractBalanceReadKeepsInv ==
    ASSUME PreflightInv, NEW s \in Strategies, ContractBalanceRead(s) PROVE PreflightInv'
<1>1. /\ run[s].step = "contract balance" /\ (Complete(s) \/ Ends(s))
      /\ UNCHANGED <<world, changes, since, cache>>
  BY DEF ContractBalanceRead
<1>2. cache \in Cache BY DEF PreflightInv, Typed
<1> QED BY <1>1, <1>2, CompleteKeepsInv, Ending

\* Init establishes the invariant and every step keeps it.
THEOREM PreflightInvariant == Spec => []PreflightInv
<1>1. ASSUME Init PROVE PreflightInv
  <2>1. Typed BY <1>1, NothingKnownYet, NumberAssumption DEF Init, Typed, Cache
  <2>2. RunSound(Idle, NoRecord, {}, world) /\ RecordSound(NoRecord, {})
    BY DEF RunSound, RecordSound, Idle, NoRecord, SpotKnown, ContractKnown, SettingsKnown
  <2>3. \A s \in Strategies : run[s] = Idle /\ stored[s] = NoRecord /\ since[s] = {}
    BY <1>1 DEF Init
  <2> QED BY <2>1, <2>2, <2>3 DEF PreflightInv
<1>2. PreflightInv /\ [Next]_vars => PreflightInv'
  <2> SUFFICES ASSUME PreflightInv, [Next]_vars PROVE PreflightInv' OBVIOUS
  <2>1. CASE WorldChanges BY <2>1, WorldChangesKeepsInv
  <2>2. ASSUME NEW s \in Strategies, BeginPreflight(s) \/ BeginConfirmation(s) PROVE PreflightInv'
    BY <2>2, BeginningsKeepInv
  <2>3. ASSUME NEW s \in Strategies, SpotMarketLoaded(s) PROVE PreflightInv'
    BY <2>3, SpotMarketLoadedKeepsInv
  <2>4. ASSUME NEW s \in Strategies, ContractMarketLoaded(s) PROVE PreflightInv'
    BY <2>4, ContractMarketLoadedKeepsInv
  <2>5. ASSUME NEW s \in Strategies, SettingsRead(s) PROVE PreflightInv'
    BY <2>5, SettingsReadKeepsInv
  <2>6. ASSUME NEW s \in Strategies,
               SpotPriceRead(s) \/ ContractPriceRead(s) \/ SpotBalanceRead(s)
        PROVE  PreflightInv'
    BY <2>6, PricesKeepInv
  <2>7. ASSUME NEW s \in Strategies, ContractBalanceRead(s) PROVE PreflightInv'
    BY <2>7, ContractBalanceReadKeepsInv
  <2>8. CASE UNCHANGED vars
    BY <2>8 DEF vars, PreflightInv, Typed, RunSound, RecordSound, Sized,
                SpotFresh, ContractFresh, SettingsFresh
  <2> QED BY <2>1, <2>2, <2>3, <2>4, <2>5, <2>6, <2>7, <2>8 DEF Next
<1> QED BY <1>1, <1>2, PTL DEF Spec

-----------------------------------------------------------------------------
(* What follows *)

\* Every variable keeps its type, through any interleaving of runs and changes of the exchanges.
THEOREM PreflightTypes == Spec => []TypeOK
<1>1. PreflightInv => TypeOK
  BY DEF PreflightInv, Typed, TypeOK, RunSound, Run, Record, Cache
<1> QED BY <1>1, PreflightInvariant, PTL

\* No listing and no setting of a confirmed strategy is older than the confirmation: what was read
\* last is what is compared, and what was read was true after the run began (ConfirmationService).
THEOREM ConfirmedStrategiesAreFresh == Spec => []ConfirmedIsFresh
<1>1. PreflightInv => ConfirmedIsFresh
  BY DEF PreflightInv, RecordSound, ConfirmedIsFresh, Confirmed, SpotFresh, ContractFresh, SettingsFresh
<1> QED BY <1>1, PreflightInvariant, PTL

\* For every pair of listings and every request the quantity stored is the largest that is a
\* multiple of both base steps within both markets' limits (normalizeCommonBaseQuantity).
THEOREM StoredQuantityIsLargest == Spec => []QuantityIsTheLargestTradable
<1>1. PreflightInv => QuantityIsTheLargestTradable
  BY DEF PreflightInv, RecordSound, Sized, Largest, TradableOn, QuantityIsTheLargestTradable
<1> QED BY <1>1, PreflightInvariant, PTL

\* What both halves of the program know of a stored record.
LEMMA StoredNumbers ==
    ASSUME PreflightInv, NEW s \in Strategies, Confirmed(s)
    PROVE  /\ stored[s].spot \in Market /\ stored[s].contract \in Market
           /\ QuantityRulesValid(stored[s].spot, Compatible)
           /\ QuantityRulesValid(stored[s].contract, FALSE)
           /\ stored[s].quantity \in Nat
           /\ TradableOn(stored[s].quantity, stored[s].spot, Compatible)
           /\ TradableOn(stored[s].quantity, stored[s].contract, FALSE)
BY DEF PreflightInv, Typed, Record, Confirmed, RecordSound, Sized, Largest

\* The truncation and the conversions of the gateway lose nothing of a confirmed quantity, whatever
\* the steps and the contract size (prepareCreateOrder).
THEOREM ConfirmedQuantityCanBeOrdered == Spec => []ConfirmedCanBeOrdered
<1>1. PreflightInv => ConfirmedCanBeOrdered
  BY StoredNumbers, TradableIsPrepared, NumberAssumption DEF ConfirmedCanBeOrdered
<1> QED BY <1>1, PreflightInvariant, PTL

\* The two checks of a hedging order agree on every residual at every average price
\* (authorizeGtc, prepareCreateOrder).
THEOREM HedgingOrderIsAuthorizedOnce == Spec => []HedgingOrderIsNotRefused
<1>1. ASSUME PreflightInv, NEW s \in Strategies, Confirmed(s),
             NEW f \in Fills(stored[s].quantity, stored[s].spot),
             NEW g \in Fills(stored[s].quantity, stored[s].contract), NEW average \in Averages
      PROVE  /\ f < g => (Tradable(g - f, average, stored[s].spot, Compatible) <=>
                    /\ WholeContracts(g - f, stored[s].spot)
                    /\ Prepared(g - f, LimitPrice(average, stored[s].spot), stored[s].spot, Compatible))
             /\ f > g => (Tradable(f - g, average, stored[s].contract, FALSE) <=>
                    /\ WholeContracts(f - g, stored[s].contract)
                    /\ Prepared(f - g, LimitPrice(average, stored[s].contract), stored[s].contract, FALSE))
  <2>1. f \in Nat /\ g \in Nat BY <1>1, StoredNumbers DEF Fills
  <2>2. f < g => g - f \in Nat BY <2>1
  <2>3. f > g => f - g \in Nat BY <2>1
  <2>4. average \in Nat BY NumberAssumption
  <2> QED BY <1>1, <2>2, <2>3, <2>4, StoredNumbers, ResidualIsAgreed, NumberAssumption
<1>2. ASSUME PreflightInv PROVE HedgingOrderIsNotRefused
  <2> SUFFICES ASSUME NEW s \in Strategies, Confirmed(s),
                      NEW f \in Fills(stored[s].quantity, stored[s].spot),
                      NEW g \in Fills(stored[s].quantity, stored[s].contract)
               PROVE  /\ f < g /\ cache.spot = stored[s].spot =>
                            \A average \in Averages : LimitPrice(average, cache.spot) > 0 =>
                                (Tradable(g - f, average, cache.spot, Compatible) <=>
                                    /\ WholeContracts(g - f, cache.spot)
                                    /\ Prepared(g - f, LimitPrice(average, cache.spot),
                                                cache.spot, Compatible))
                      /\ f > g /\ cache.contract = stored[s].contract =>
                            \A average \in Averages : LimitPrice(average, cache.contract) > 0 =>
                                (Tradable(f - g, average, cache.contract, FALSE) <=>
                                    /\ WholeContracts(f - g, cache.contract)
                                    /\ Prepared(f - g, LimitPrice(average, cache.contract),
                                                cache.contract, FALSE))
    BY Zenon DEF HedgingOrderIsNotRefused
  <2> QED BY <1>1, <1>2
<1> QED BY <1>2, PreflightInvariant, PTL
================================================================================
