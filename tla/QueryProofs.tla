---------------------------- MODULE QueryProofs ----------------------------
(***************************************************************************)
(* What the pool answers, and what its handlers then do.  The inversion    *)
(* that amount_from_usd_haircutted performs is exact for every price,      *)
(* precision, haircut and value (price.rs 184-188), and so are the quotes  *)
(* to borrowers; a quoted amount suffices; the state query hides no        *)
(* collateral; the position a borrower is shown is the one a handler       *)
(* judges, and nobody's message makes it worse; a liquidator who pays for  *)
(* all that is priced finds no check of liquidate in the way, and no       *)
(* borrower is locked in; and the rate charged is the rate shown.  Last,   *)
(* over a whole history, the pool loses nothing but truncation.            *)
(***************************************************************************)
EXTENDS PoolQueries, PoolExits, PoolSolvency, BooksTheorems

-----------------------------------------------------------------------------
\* The arithmetic of quotes.

\* A truncated quotient reaches v just when the dividend reaches v times the
\* divisor.
LEMMA FloorReaches ==
    ASSUME NEW y \in Nat, NEW e \in Nat \ {0}, NEW v \in Nat
    PROVE  y \div e >= v <=> y >= v * e
<1> DEFINE q == y \div e
<1>1. q \in Nat /\ e * q <= y /\ y < e * q + e
  BY DivisionBounds
<1>2. ASSUME q >= v PROVE y >= v * e
  <2>1. v * e <= q * e
    BY <1>1, <1>2, ProductMonotone
  <2> QED
    BY <1>1, <2>1
<1>3. ASSUME y >= v * e, ~(q >= v) PROVE FALSE
  <2>1. q + 1 <= v /\ q + 1 \in Nat
    BY <1>1, <1>3
  <2>2. (q + 1) * e <= v * e
    BY <2>1, ProductMonotone
  <2>3. (q + 1) * e = e * q + e
    BY <1>1
  <2> HIDE DEF q
  <2>4. v * e \in Nat /\ e * q \in Nat
    BY <1>1
  <2> QED
    BY <1>1, <1>3, <2>2, <2>3, <2>4
<1> QED
  BY <1>1, <1>2, <1>3

\* ceil_div is the least number of divisors that reaches the dividend.
LEMMA CeilDivIsLeast ==
    ASSUME NEW n \in Nat, NEW d \in Nat \ {0}
    PROVE  /\ ceil_div(n, d) \in Nat
           /\ \A k \in Nat : k * d >= n <=> k >= ceil_div(n, d)
<1> DEFINE q == n \div d
<1>1. q \in Nat /\ d * q <= n /\ n < d * q + d
  BY DivisionBounds
<1>2. n % d = n - d * q
  OBVIOUS
<1>3. ceil_div(n, d) = q + (IF n = d * q THEN 0 ELSE 1)
  <2>1. n % d = 0 <=> n = d * q
    BY <1>1, <1>2
  <2> QED
    BY <2>1 DEF ceil_div
<1>4. ceil_div(n, d) \in Nat
  BY <1>1, <1>3
<1>5. ASSUME NEW k \in Nat, k >= ceil_div(n, d) PROVE k * d >= n
  <2>1. ceil_div(n, d) * d <= k * d
    BY <1>4, <1>5, ProductMonotone
  <2>2. ceil_div(n, d) * d >= n
    <3>1. q * d = d * q /\ (q + 1) * d = d * q + d /\ d * q \in Nat
      BY <1>1
    <3>2. CASE n = d * q
      <4>1. ceil_div(n, d) = q
        BY <1>1, <1>3, <3>2
      <4> QED
        BY <4>1, <3>1, <3>2
    <3>3. CASE n # d * q
      <4>1. ceil_div(n, d) = q + 1
        BY <1>1, <1>3, <3>3
      <4> HIDE DEF q
      <4> QED
        BY <1>1, <3>1, <4>1
    <3> QED
      BY <3>2, <3>3
  <2>3. ceil_div(n, d) * d \in Nat /\ k * d \in Nat
    BY <1>4
  <2> QED
    BY <2>1, <2>2, <2>3
<1>6. ASSUME NEW k \in Nat, k * d >= n PROVE k >= ceil_div(n, d)
  <2>1. n \div d <= k
    <3>1. (k * d) \div d = k
      BY SMT
    <3>2. k * d \in Nat
      OBVIOUS
    <3> QED
      BY <1>6, <3>1, <3>2, DivisionMonotone
  <2>2. n # d * q => k > q
    <3>1. k = q => k * d = d * q
      BY <1>1
    <3> QED
      BY <1>1, <1>6, <2>1, <3>1
  <2> QED
    BY <1>1, <1>3, <2>1, <2>2
<1> QED
  BY <1>4, <1>5, <1>6

\* checked_div_ceil finds the exact quotient rounded up, although it tests by a
\* multiplication that truncates: the truncation never hides a remainder.
THEOREM CheckedDivCeilIsCeil ==
    ASSUME NEW x \in Nat, NEW y \in Nat \ {0}
    PROVE  checked_div_ceil(x, y) = ceil_div(x * ONE, y)
<1> DEFINE n == x * ONE
           q == n \div y
<1>1. n \in Nat
  BY OneAssumption
<1>2. q \in Nat /\ y * q <= n /\ n < y * q + y /\ n % y = n - y * q
  <2> HIDE DEF n
  <2>1. q \in Nat /\ y * q <= n /\ n < y * q + y
    BY ONLY <1>1, y \in Nat \ {0}, DivisionBounds
  <2>2. n % y = n - y * q
    BY ONLY <1>1, y \in Nat \ {0}
  <2> QED
    BY <2>1, <2>2
<1>3. (q * y) \div ONE = x <=> n = y * q
  <2>1. q * y = y * q /\ y * q \in Nat
    BY <1>2
  <2>2. (y * q) \div ONE >= x <=> y * q >= n
    BY <2>1, OneAssumption, FloorReaches
  <2>3. n \div ONE = x
    BY OneAssumption
  <2>4. (y * q) \div ONE <= x
    BY <1>1, <1>2, <2>1, <2>3, OneAssumption, DivisionMonotone
  <2>5. (y * q) \div ONE \in Nat
    BY <2>1, OneAssumption, DivisionBounds
  <2> HIDE DEF q, n
  <2> QED
    BY <1>1, <1>2, <2>1, <2>2, <2>4, <2>5
<1>4. n % y = 0 <=> n = y * q
  BY <1>1, <1>2
<1>5. checked_div_ceil(x, y) = IF (q * y) \div ONE = x THEN q ELSE q + 1
  BY DEF checked_div_ceil, checked_div, checked_mul
<1>6. ceil_div(n, y) = q + (IF n % y = 0 THEN 0 ELSE 1)
  BY DEF ceil_div
<1> HIDE DEF q, n
<1> QED
  BY <1>2, <1>3, <1>4, <1>5, <1>6 DEF n

\* The quote is exact: an amount is worth the value after both truncations of
\* the health check just when it is at least the amount quoted.
THEOREM QuoteIsLeast ==
    ASSUME NEW prices \in PriceMap, NEW a \in Denoms, prices[a] > 0,
           NEW haircut \in Nat \ {0}, NEW value \in Nat
    PROVE  /\ amount_from_usd_haircutted(prices, a, value, haircut) \in Nat
           /\ \A amount \in Nat :
                haircutted_value(prices, a, amount, haircut) >= value <=>
                    amount >= amount_from_usd_haircutted(prices, a, value, haircut)
<1> DEFINE price == prices[a]
           unit  == UNIT[a]
           least == ceil_div(value * ONE, haircut)
<1>1. price \in Nat \ {0} /\ unit \in Nat \ {0}
  BY PricingAssumption DEF PriceMap, Atomics
<1>2. /\ least \in Nat
      /\ \A k \in Nat : k * haircut >= value * ONE <=> k >= least
  BY OneAssumption, CeilDivIsLeast
<1> HIDE DEF price, unit, least
<1>3. /\ ceil_div(least * unit, price) \in Nat
      /\ \A k \in Nat : k * price >= least * unit <=> k >= ceil_div(least * unit, price)
  BY <1>1, <1>2, CeilDivIsLeast
<1>4. amount_from_usd_haircutted(prices, a, value, haircut) = ceil_div(least * unit, price)
  BY DEF amount_from_usd_haircutted, amount_from_usd, least, unit, price
<1>5. ASSUME NEW amount \in Nat
      PROVE  haircutted_value(prices, a, amount, haircut) >= value <=>
                 amount >= ceil_div(least * unit, price)
  <2> DEFINE worth == (price * amount) \div unit
  <2>1. price * amount \in Nat /\ price * amount = amount * price
    BY <1>1
  <2>2. worth \in Nat /\ (worth >= least <=> price * amount >= least * unit)
    BY <1>1, <1>2, <2>1, DivisionBounds, FloorReaches
  <2>3. haircutted_value(prices, a, amount, haircut) = (worth * haircut) \div ONE
    BY DEF haircutted_value, checked_mul, value_usd, price, unit
  <2> HIDE DEF worth
  <2>4. (worth * haircut) \div ONE >= value <=> worth * haircut >= value * ONE
    BY <2>2, OneAssumption, FloorReaches
  <2> QED
    BY <1>2, <1>3, <2>1, <2>2, <2>3, <2>4
<1> QED
  BY <1>3, <1>4, <1>5

-----------------------------------------------------------------------------
\* What the collateral of a borrower is worth.
term(c, prices, held, a) ==
    checked_mul(value_usd(prices, a, held[a]), haircut_percentage(c, a))

\* A term is a natural, and so is their sum.
LEMMA WorthType ==
    ASSUME NEW c, c.supported \in [Collaterals -> Nat], NEW prices \in [Denoms -> Nat],
           NEW held \in Holdings
    PROVE  /\ \A a \in Collaterals : term(c, prices, held, a) \in Nat
           /\ calculate_total_collateral_value_usd(c, prices, held) \in Nat
           /\ calculate_total_collateral_value_usd(c, prices, held)
                = SumFunctionOnSet([a \in Collaterals |-> term(c, prices, held, a)], Collaterals)
<1> DEFINE worth == [a \in Collaterals |-> term(c, prices, held, a)]
<1>1. ASSUME NEW a \in Collaterals PROVE term(c, prices, held, a) \in Nat
  <2>1. held[a] \in Nat /\ prices[a] \in Nat /\ UNIT[a] \in Nat \ {0}
    BY PricingAssumption DEF Holdings, Denoms
  <2>2. prices[a] * held[a] \in Nat
    BY <2>1
  <2>3. value_usd(prices, a, held[a]) \in Nat
    BY <2>1, <2>2, DivisionBounds DEF value_usd
  <2>4. haircut_percentage(c, a) \in Nat
    BY OneAssumption DEF haircut_percentage
  <2> QED
    BY <2>3, <2>4, DecimalTypes DEF term
<1>2. DOMAIN worth = Collaterals /\ \A a \in Collaterals : worth[a] \in Nat
  BY <1>1
<1>3. calculate_total_collateral_value_usd(c, prices, held) = SumFunction(worth)
  BY DEF calculate_total_collateral_value_usd, term
<1> HIDE DEF worth
<1>4. SumFunctionOnSet(worth, Collaterals) \in Nat
  BY <1>2, FiniteAssumption, SumOfNaturals
<1> QED
  BY <1>1, <1>2, <1>3, <1>4 DEF SumFunction, worth

\* More of each, at no lower prices, is worth no less.
LEMMA TermIsMonotone ==
    ASSUME NEW c, c.supported \in [Collaterals -> Nat],
           NEW p \in [Denoms -> Nat], NEW q \in [Denoms -> Nat],
           NEW less \in Holdings, NEW more \in Holdings, NEW a \in Collaterals,
           less[a] <= more[a], p[a] <= q[a]
    PROVE  term(c, p, less, a) <= term(c, q, more, a)
<1> DEFINE u == UNIT[a]
<1>1. /\ less[a] \in Nat /\ more[a] \in Nat /\ p[a] \in Nat /\ q[a] \in Nat
      /\ u \in Nat \ {0}
  BY PricingAssumption DEF Holdings, Denoms
<1>2. p[a] * less[a] <= q[a] * less[a] /\ q[a] * less[a] <= q[a] * more[a]
  BY <1>1, ProductMonotone
<1>3. /\ p[a] * less[a] \in Nat /\ q[a] * less[a] \in Nat /\ q[a] * more[a] \in Nat
  BY <1>1
<1>4. p[a] * less[a] <= q[a] * more[a]
  BY <1>2, <1>3
<1>5. (p[a] * less[a]) \div u <= (q[a] * more[a]) \div u
  BY <1>1, <1>3, <1>4, DivisionMonotone
<1>6. (p[a] * less[a]) \div u \in Nat /\ (q[a] * more[a]) \div u \in Nat
  BY <1>1, <1>3, DivisionBounds
<1>7. haircut_percentage(c, a) \in Nat
  BY OneAssumption DEF haircut_percentage
<1>8. /\ ((p[a] * less[a]) \div u) * haircut_percentage(c, a)
           <= ((q[a] * more[a]) \div u) * haircut_percentage(c, a)
      /\ ((p[a] * less[a]) \div u) * haircut_percentage(c, a) \in Nat
      /\ ((q[a] * more[a]) \div u) * haircut_percentage(c, a) \in Nat
  BY <1>5, <1>6, <1>7, ProductMonotone
<1> QED
  BY <1>8, OneAssumption, DivisionMonotone DEF term, value_usd, checked_mul

\* What is held more of, at prices no lower, is worth no less altogether.
LEMMA WorthIsMonotone ==
    ASSUME NEW c, c.supported \in [Collaterals -> Nat],
           NEW p \in [Denoms -> Nat], NEW q \in [Denoms -> Nat],
           NEW less \in Holdings, NEW more \in Holdings,
           \A a \in Collaterals : less[a] <= more[a] /\ p[a] <= q[a]
    PROVE  calculate_total_collateral_value_usd(c, p, less)
               <= calculate_total_collateral_value_usd(c, q, more)
<1> DEFINE f == [a \in Collaterals |-> term(c, p, less, a)]
           g == [a \in Collaterals |-> term(c, q, more, a)]
<1>1. \A a \in Collaterals : /\ f[a] \in Int /\ g[a] \in Int
                             /\ f[a] <= g[a]
  <2> TAKE a \in Collaterals
  <2>1. term(c, p, less, a) \in Nat /\ term(c, q, more, a) \in Nat
    BY WorthType
  <2>2. term(c, p, less, a) <= term(c, q, more, a)
    BY TermIsMonotone
  <2> QED
    BY <2>1, <2>2
<1>2. /\ calculate_total_collateral_value_usd(c, p, less) = SumFunctionOnSet(f, Collaterals)
      /\ calculate_total_collateral_value_usd(c, q, more) = SumFunctionOnSet(g, Collaterals)
  BY WorthType
<1> HIDE DEF f, g
<1>3. SumFunctionOnSet(f, Collaterals) <= SumFunctionOnSet(g, Collaterals)
  BY <1>1, FiniteAssumption, SumMonotone
<1> QED
  BY <1>2, <1>3

\* Two truncated quotients are no more than the quotient of the sum.
LEMMA FloorOfSum ==
    ASSUME NEW x \in Nat, NEW y \in Nat, NEW e \in Nat \ {0}
    PROVE  /\ x \div e \in Nat /\ y \div e \in Nat /\ (x + y) \div e \in Nat
           /\ (x \div e) + (y \div e) <= (x + y) \div e
<1> DEFINE m == x \div e
           n == y \div e
<1>1. /\ m \in Nat /\ e * m <= x
      /\ n \in Nat /\ e * n <= y
  BY DivisionBounds
<1> HIDE DEF m, n
<1>2. (m + n) * e <= x + y
  <2>1. (m + n) * e = e * m + e * n /\ e * m \in Nat /\ e * n \in Nat
    BY <1>1
  <2> QED
    BY <1>1, <2>1
<1>3. x + y \in Nat /\ m + n \in Nat
  BY <1>1
<1>4. (x + y) \div e >= m + n
  BY <1>2, <1>3, FloorReaches
<1>5. (x + y) \div e \in Nat
  BY <1>3, DivisionBounds
<1> QED
  BY <1>1, <1>3, <1>4, <1>5 DEF m, n

\* An amount of one asset on top adds at least what it is worth by itself.
LEMMA TopUpCounts ==
    ASSUME NEW c, c.supported \in [Collaterals -> Nat], NEW prices \in [Denoms -> Nat],
           NEW held \in Holdings, NEW a \in Collaterals, NEW amount \in Nat,
           NEW more \in Holdings, more = [held EXCEPT ![a] = @ + amount]
    PROVE  /\ haircutted_value(prices, a, amount, haircut_percentage(c, a)) \in Nat
           /\ calculate_total_collateral_value_usd(c, prices, more)
                >= calculate_total_collateral_value_usd(c, prices, held)
                     + haircutted_value(prices, a, amount, haircut_percentage(c, a))
<1> DEFINE f == [d \in Collaterals |-> term(c, prices, held, d)]
           g == [d \in Collaterals |-> term(c, prices, more, d)]
           u == UNIT[a]
           h == haircut_percentage(c, a)
           p == prices[a]
           worth == haircutted_value(prices, a, amount, h)
<1>1. /\ calculate_total_collateral_value_usd(c, prices, held) = SumFunctionOnSet(f, Collaterals)
      /\ calculate_total_collateral_value_usd(c, prices, more) = SumFunctionOnSet(g, Collaterals)
      /\ \A d \in Collaterals : f[d] \in Nat /\ g[d] \in Nat
      /\ SumFunctionOnSet(f, Collaterals) \in Nat
  <2>1. \A d \in Collaterals : term(c, prices, held, d) \in Nat /\ term(c, prices, more, d) \in Nat
    BY WorthType
  <2> QED
    BY <2>1, WorthType
<1>2. \A d \in Collaterals \ {a} : g[d] = f[d]
  BY DEF term, value_usd, Holdings
<1>3. worth \in Nat /\ g[a] >= f[a] + worth
  <2>1. /\ u \in Nat \ {0} /\ p \in Nat /\ h \in Nat /\ held[a] \in Nat
        /\ more[a] = held[a] + amount
    BY PricingAssumption, OneAssumption DEF Holdings, Denoms, haircut_percentage
  <2> DEFINE v == (p * held[a]) \div u
             w == (p * amount) \div u
             z == (p * (held[a] + amount)) \div u
  <2>2. /\ f[a] = (v * h) \div ONE
        /\ worth = (w * h) \div ONE
        /\ g[a] = (z * h) \div ONE
    BY <2>1 DEF term, haircutted_value, value_usd, checked_mul
  <2>3. v \in Nat /\ w \in Nat /\ z \in Nat /\ v + w <= z
    <3>1. /\ p * held[a] \in Nat /\ p * amount \in Nat
          /\ p * (held[a] + amount) = p * held[a] + p * amount
      BY <2>1
    <3> QED
      BY <2>1, <3>1, FloorOfSum
  <2> HIDE DEF v, w, z, h, p, u, f, g, worth
  <2>4. /\ v * h \in Nat /\ w * h \in Nat /\ z * h \in Nat
        /\ v * h + w * h = (v + w) * h
        /\ (v + w) * h <= z * h
    <3>1. v + w \in Nat
      BY <2>3
    <3>2. (v + w) * h <= z * h /\ v * h \in Nat /\ w * h \in Nat /\ z * h \in Nat
      BY <2>1, <2>3, <3>1, ProductMonotone
    <3> QED
      BY <2>1, <2>3, <3>2
  <2>5. /\ (v * h) \div ONE \in Nat /\ (w * h) \div ONE \in Nat
        /\ (v * h + w * h) \div ONE \in Nat
        /\ (v * h) \div ONE + (w * h) \div ONE <= (v * h + w * h) \div ONE
    BY <2>4, OneAssumption, FloorOfSum
  <2>6. v * h + w * h \in Nat /\ v * h + w * h <= z * h
    BY <2>4
  <2>7. (v * h + w * h) \div ONE <= (z * h) \div ONE /\ (z * h) \div ONE \in Nat
    BY <2>4, <2>6, OneAssumption, DivisionMonotone, DivisionBounds
  <2> QED
    BY <2>2, <2>5, <2>7
<1> HIDE DEF f, g, worth
<1>4. SumFunctionOnSet(g, Collaterals) = SumFunctionOnSet(f, Collaterals) + (g[a] - f[a])
  <2>1. (\A d \in Collaterals : f[d] \in Int) /\ g[a] \in Int
    BY <1>1
  <2> QED
    BY <1>2, <2>1, FiniteAssumption, SumUpdate
<1> QED
  BY <1>1, <1>3, <1>4 DEF worth

\* No debt is healthy under any settings in force, whatever is pledged.
LEMMA NoDebtIsHealthy ==
    ASSUME NEW c, c.supported \in [Collaterals -> Nat], c.margin_rate \in Nat,
           c.liquidation_rate \in Nat, c.margin_rate < c.liquidation_rate,
           NEW prices \in [Denoms -> Nat], NEW held \in Holdings
    PROVE  get_borrower_health(c, prices, held, 0) = Healthy
<1>1. prices[LENDING] \in Nat /\ UNIT[LENDING] \in Nat \ {0}
  BY PricingAssumption DEF Denoms
<1>2. calculate_borrow_value_usd(prices, 0) = 0
  BY <1>1 DEF calculate_borrow_value_usd, value_usd
<1>3. calculate_total_collateral_value_usd(c, prices, held) \in Nat
  BY WorthType
<1>4. calculate_ltv(c, prices, held, 0) = 0
  BY <1>2, <1>3, OneAssumption DEF calculate_ltv, checked_div
<1> QED
  BY <1>4 DEF get_borrower_health, get_health_from_ltv

\* The value of a debt is a natural.
LEMMA BorrowValueType ==
    ASSUME NEW prices \in [Denoms -> Nat], NEW debt \in Nat
    PROVE  calculate_borrow_value_usd(prices, debt) \in Nat
<1>1. prices[LENDING] \in Nat /\ UNIT[LENDING] \in Nat \ {0}
  BY PricingAssumption DEF Denoms
<1>2. prices[LENDING] * debt \in Nat
  BY <1>1
<1> QED
  BY <1>1, <1>2, DivisionBounds DEF calculate_borrow_value_usd, value_usd

\* Healthy in other words: what is pledged, at the margin rate, covers the debt.
LEMMA HealthyIsCovered ==
    ASSUME NEW c, c.supported \in [Collaterals -> Nat], c.margin_rate \in Nat,
           c.liquidation_rate \in Nat, c.margin_rate < c.liquidation_rate,
           c.liquidation_rate <= ONE,
           NEW prices \in [Denoms -> Nat], NEW held \in Holdings, NEW debt \in Nat
    PROVE  get_borrower_health(c, prices, held, debt) = Healthy
             <=> calculate_borrow_value_usd(prices, debt) * ONE
                   < (c.margin_rate + 1) * calculate_total_collateral_value_usd(c, prices, held)
                 \/ calculate_borrow_value_usd(prices, debt) = 0
<1> DEFINE bv == calculate_borrow_value_usd(prices, debt)
           P  == calculate_total_collateral_value_usd(c, prices, held)
           m  == c.margin_rate
           ltv == calculate_ltv(c, prices, held, debt)
<1>1. P \in Nat /\ m \in Nat /\ m + 1 \in Nat
  <2>1. P \in Nat
    BY WorthType
  <2>2. m \in Nat
    OBVIOUS
  <2> HIDE DEF P, m
  <2> QED
    BY <2>1, <2>2
<1>2. bv \in Nat
  BY BorrowValueType
<1>3. ltv = IF P = 0 THEN (IF bv = 0 THEN 0 ELSE ONE) ELSE (bv * ONE) \div P
  BY DEF calculate_ltv, checked_div
<1>4. ltv \in Nat => (get_borrower_health(c, prices, held, debt) = Healthy <=> ltv <= m)
  BY <1>1 DEF get_borrower_health, get_health_from_ltv, Healthy, Unhealthy, Liquidatable
<1> HIDE DEF bv, P, m, ltv
<1>5. CASE P = 0
  <2>1. (m + 1) * P = 0 /\ bv * ONE \in Nat
    BY <1>1, <1>2, <1>5, OneAssumption
  <2> QED
    BY <1>1, <1>2, <1>3, <1>4, <1>5, <2>1, OneAssumption DEF m, bv, P
<1>6. CASE P # 0
  <2>1. bv * ONE \in Nat /\ P \in Nat \ {0}
    BY <1>1, <1>2, <1>6, OneAssumption
  <2>2. ltv = (bv * ONE) \div P /\ ltv \in Nat
    BY <1>3, <1>6, <2>1, DivisionBounds
  <2>3. ltv >= m + 1 <=> bv * ONE >= (m + 1) * P
    BY <1>1, <2>1, <2>2, FloorReaches
  <2>4. (m + 1) * P \in Nat
    BY <1>1
  <2>5. bv = 0 => bv * ONE < (m + 1) * P
    <3>1. 1 <= m + 1 /\ 1 * P <= (m + 1) * P
      BY <1>1, ProductMonotone
    <3> QED
      BY <1>1, <1>6, <2>4, <3>1, OneAssumption
  <2> QED
    BY <1>1, <1>4, <2>1, <2>2, <2>3, <2>4, <2>5 DEF m, bv, P
<1> QED
  BY <1>5, <1>6

-----------------------------------------------------------------------------
\* What is held is on the list of supported collateral: only listed collateral
\* comes in, and nothing in use is delisted.
HeldIsListed == \A a \in Collaterals : total_collateral[a] > 0 => contract.supported[a] > 0

QueryInv == BooksInv /\ HeldIsListed

\* A deposit is of listed collateral.
LEMMA DepositsAreListed ==
    ASSUME Inv, HeldIsListed, NEW b \in Borrowers, NEW coins \in [Collaterals -> Nat],
           AddCollateral(b, coins)
    PROVE  HeldIsListed'
<1> SUFFICES ASSUME NEW a \in Collaterals, total_collateral'[a] > 0
             PROVE  contract'.supported[a] > 0
  BY DEF HeldIsListed
<1>1. /\ contract' = contract
      /\ total_collateral'[a] = total_collateral[a] + coins[a]
      /\ coins[a] > 0 => contract.supported[a] > 0
  BY DEF AddCollateral, config_vars, held_types
<1>2. total_collateral[a] \in Nat /\ coins[a] \in Nat
  BY StoredTypes
<1>3. CASE coins[a] > 0
  BY <1>1, <1>3
<1>4. CASE coins[a] = 0
  BY <1>1, <1>2, <1>4 DEF HeldIsListed
<1> QED
  BY <1>2, <1>3, <1>4

\* A step that adds to no total and keeps the settings keeps the list sound.
LEMMA ListedUnlessAdded ==
    ASSUME Inv, HeldIsListed, contract'.supported = contract.supported,
           \A a \in Collaterals : total_collateral'[a] <= total_collateral[a],
           \A a \in Collaterals : total_collateral'[a] \in Nat
    PROVE  HeldIsListed'
<1> SUFFICES ASSUME NEW a \in Collaterals, total_collateral'[a] > 0
             PROVE  contract'.supported[a] > 0
  BY DEF HeldIsListed
<1>1. total_collateral[a] \in Nat
  BY DEF Inv, TypeOK, Amount
<1>2. total_collateral[a] > 0
  BY <1>1
<1> QED
  BY <1>2 DEF HeldIsListed

\* The settings of a step that is not one of governance: the curve at most.
LEMMA OnlyGovernanceLists ==
    ASSUME Inv, LenderStep \/ BorrowerStep \/ LiquidationStep \/ ReserveStep \/ WorldStep
                  \/ UNCHANGED vars
    PROVE  contract'.supported = contract.supported
<1>1. contract \in Config
  BY DEF Inv, TypeOK
<1>2. ASSUME LenderStep PROVE contract' = contract
  BY <1>2 DEF LenderStep, Lend, Withdraw, WithdrawExact, WithdrawCw20, WithdrawUnits,
              TransferExact, TransferCw20, ForwardUnits, config_vars
<1>3. ASSUME BorrowerStep PROVE contract' = contract
  BY <1>3 DEF BorrowerStep, Borrow, Repay, AddCollateral, RemoveCollateral,
              AdjustDirectedCollateralSale, config_vars
<1>4. ASSUME LiquidationStep PROVE contract' = contract
  BY <1>4 DEF LiquidationStep, Liquidate, can_liquidate, config_vars
<1>5. ASSUME WorldStep PROVE contract' = contract
  BY <1>5 DEF WorldStep, Tick, PostPrice, config_vars
<1>6. CASE ReserveStep
  <2>1. CASE \E s \in Operators, p \in Inputs.curves : UpdateRateParams(s, p)
    BY <1>1, <2>1 DEF UpdateRateParams, Config
  <2>2. CASE contract' = contract
    BY <2>2
  <2> QED
    BY <1>6, <2>1, <2>2
    DEF ReserveStep, EliminateDeficitFromReserve, EliminateDeficitFromBank,
        SocializeDeficit, WithdrawReserve, Donate, config_vars
<1> QED
  BY <1>2, <1>3, <1>4, <1>5, <1>6 DEF vars

\* A listing never drops what is held.
LEMMA GovernanceKeepsListed ==
    ASSUME Inv, HeldIsListed, GovernanceStep
    PROVE  HeldIsListed'
<1>1. contract \in Config /\ total_collateral \in [Collaterals -> Nat]
  BY DEF Inv, TypeOK, Amount
<1>2. total_collateral' = total_collateral
  BY DEF GovernanceStep, UpdateContractConfig, UpdateSupportedCollateral,
      SetOperationalState, SetLenderRequiredAttrs, SetBorrowerRequiredAttrs,
      SetLenderRequireCommitOnExit, SetBorrowerRequireCommit, TransferOwnership,
      AcceptOwnership, ChangeContract, ChangeOwnership, BooksUnchanged, position_vars
<1>3. CASE contract'.supported = contract.supported
  BY <1>2, <1>3 DEF HeldIsListed
<1>4. ASSUME NEW s \in Operators, NEW u \in Inputs.updates, UpdateContractConfig(s, u)
      PROVE  contract'.supported = contract.supported
  <2>1. contract' = updated_config(contract, u)
    BY <1>4 DEF UpdateContractConfig, ChangeContract
  <2> QED
    BY <1>1, <2>1 DEF updated_config, Config
<1>5. ASSUME NEW s \in Operators, NEW l \in Inputs.listings,
             UpdateSupportedCollateral(s, l.to_update, l.to_remove)
      PROVE  HeldIsListed'
  <2> SUFFICES ASSUME NEW a \in Collaterals, total_collateral'[a] > 0
               PROVE  contract'.supported[a] > 0
    BY DEF HeldIsListed
  <2> DEFINE supported == [d \in Collaterals |->
                 IF d \in DOMAIN l.to_update THEN l.to_update[d] ELSE contract.supported[d]]
             dropped   == {d \in l.to_remove : supported[d] > 0}
             listed    == [d \in Collaterals |-> IF d \in dropped THEN 0 ELSE supported[d]]
  <2>1. /\ \A d \in DOMAIN l.to_update : 0 < l.to_update[d]
        /\ \A d \in dropped : ~(total_collateral[d] > 0)
        /\ contract' = [contract EXCEPT !.supported = listed]
    BY <1>5 DEF UpdateSupportedCollateral, ChangeContract, is_collateral_asset_in_use
  <2>2. contract.supported[a] > 0 /\ a \notin dropped
    BY <1>2, <2>1 DEF HeldIsListed
  <2>3. supported[a] > 0
    BY <2>1, <2>2
  <2>4. contract'.supported[a] = supported[a]
    <3> HIDE DEF listed
    <3>1. contract'.supported = listed
      BY <1>1, <2>1 DEF Config
    <3> QED
      BY <2>2, <3>1 DEF listed
  <2> QED
    BY <2>3, <2>4
<1>6. ASSUME NEW s \in Operators, NEW x, SetOperationalState(s, x)
      PROVE  contract'.supported = contract.supported
  BY <1>1, <1>6 DEF SetOperationalState, ChangeContract, Config
<1>7. ASSUME NEW s \in Operators, NEW x,
             SetLenderRequiredAttrs(s, x) \/ SetBorrowerRequiredAttrs(s, x)
      PROVE  contract'.supported = contract.supported
  BY <1>1, <1>7 DEF SetLenderRequiredAttrs, SetBorrowerRequiredAttrs, ChangeContract, Config
<1>8. CASE contract' = contract
  BY <1>3, <1>8
<1> QED
  BY <1>3, <1>4, <1>5, <1>6, <1>7, <1>8
  DEF GovernanceStep, SetLenderRequireCommitOnExit, SetBorrowerRequireCommit,
      TransferOwnership, AcceptOwnership, ChangeOwnership

\* Every message keeps what is held on the list.
LEMMA HeldIsListedStep ==
    ASSUME Inv, Inv', SettingsOK, HeldIsListed, [Next]_vars
    PROVE  HeldIsListed'
<1>1. \A a \in Collaterals : total_collateral[a] \in Nat /\ total_collateral'[a] \in Nat
  BY DEF Inv, TypeOK, Amount
<1>2. CASE GovernanceStep
  BY <1>2, GovernanceKeepsListed
<1>3. ASSUME CollateralKept, contract'.supported = contract.supported
      PROVE  HeldIsListed'
  BY <1>3 DEF CollateralKept, HeldIsListed
<1>4. CASE LenderStep
  <2>1. CollateralKept
    BY <1>4, LenderStepIsTurn DEF LenderTurn, BooksKept, Supplied, Redeemed, PassedOn
  <2> QED
    BY <1>3, <1>4, <2>1, OnlyGovernanceLists
<1>5. CASE ReserveStep \/ WorldStep \/ UNCHANGED vars
  <2>1. CollateralKept
    BY <1>5, OtherStepsKeepBooks DEF BooksKept
  <2> QED
    BY <1>3, <1>5, <2>1, OnlyGovernanceLists
<1>6. CASE LiquidationStep
  <2>1. PICK s \in Operators, b \in Borrowers, z \in Inputs.seizures, x \in Inputs.payments :
            Liquidate(s, b, z, x)
    BY <1>6 DEF LiquidationStep
  <2>2. z \in [Collaterals -> Nat] /\ x \in Nat
    BY InputsAssumption DEF Amount
  <2>3. PICK debt \in Nat, held \in Holdings : Seized(b, debt, held)
    BY <2>1, <2>2, LiquidateIsTurn
  <2>4. \A a \in Collaterals :
           /\ held[a] <= borrower_collateral[b][a]
           /\ total_collateral'[a] = total_collateral[a] + (held[a] - borrower_collateral[b][a])
           /\ held[a] \in Nat /\ borrower_collateral[b][a] \in Nat
    BY <2>3, StoredTypes DEF Seized, CollateralSet, Holdings
  <2>5. \A a \in Collaterals : total_collateral'[a] <= total_collateral[a]
    BY <1>1, <2>4
  <2> QED
    BY <1>1, <1>6, <2>5, OnlyGovernanceLists, ListedUnlessAdded
<1>7. ASSUME NEW b \in Borrowers, NEW x \in Inputs.borrows, Borrow(b, x)
      PROVE  HeldIsListed'
  BY <1>7 DEF Borrow, HeldIsListed, config_vars
<1>8. ASSUME NEW b \in Borrowers, NEW x \in Inputs.repayments, Repay(b, x)
      PROVE  HeldIsListed'
  BY <1>8 DEF Repay, HeldIsListed, config_vars
<1>9. ASSUME NEW b \in Borrowers, NEW coins \in Inputs.deposits, AddCollateral(b, coins)
      PROVE  HeldIsListed'
  <2>1. coins \in [Collaterals -> Nat]
    BY InputsAssumption DEF Amount
  <2> QED
    BY <1>9, <2>1, DepositsAreListed
<1>10. ASSUME NEW b \in Borrowers, NEW coins \in Inputs.removals, RemoveCollateral(b, coins)
       PROVE  HeldIsListed'
  <2>1. coins \in [Collaterals -> Nat]
    BY InputsAssumption DEF Amount
  <2>2. /\ contract' = contract
        /\ \A a \in Collaterals :
              total_collateral'[a] = saturating_sub(total_collateral[a], coins[a])
    BY <1>10 DEF RemoveCollateral, left_after, config_vars
  <2>3. \A a \in Collaterals : total_collateral'[a] <= total_collateral[a]
    BY <1>1, <2>1, <2>2 DEF saturating_sub
  <2> QED
    BY <1>1, <2>2, <2>3, ListedUnlessAdded
<1>11. ASSUME NEW b, NEW delta, NEW t, NEW v, AdjustDirectedCollateralSale(b, delta, t, v)
       PROVE  HeldIsListed'
  BY <1>11 DEF AdjustDirectedCollateralSale, HeldIsListed, config_vars, position_vars
<1>12. CASE BorrowerStep
  BY <1>7, <1>8, <1>9, <1>10, <1>11, <1>12 DEF BorrowerStep
<1> QED
  BY <1>2, <1>4, <1>5, <1>6, <1>12 DEF Next

\* The books agree and what is held is listed, after any sequence of messages.
LEMMA QueryInvIsInvariant == Spec => []QueryInv
<1>1. Init => QueryInv
  <2>1. Init => HeldIsListed
    BY DEF Init, HeldIsListed, NoCollateral
  <2>2. Init => BooksInv
    BY InitInv, SettingsInit, BooksAgreeInit DEF BooksInv
  <2> QED
    BY <2>1, <2>2 DEF QueryInv
<1>2. QueryInv /\ [Next]_vars => QueryInv'
  BY NextInv, SettingsStep, StepIsBookStep, BooksAgreeStep, HeldIsListedStep DEF QueryInv, BooksInv
<1> QED
  BY <1>1, <1>2, PTL DEF Spec

\* What a borrower holds is part of the total, in the bank and on the list.
LEMMA HoldingsAreKept ==
    ASSUME QueryInv, NEW b \in Borrowers, NEW a \in Collaterals
    PROVE  /\ borrower_collateral[b][a] \in Nat
           /\ total_collateral[a] \in Nat /\ bank[a] \in Nat
           /\ borrower_collateral[b][a] <= total_collateral[a]
           /\ total_collateral[a] <= bank[a]
           /\ borrower_collateral[b][a] > 0 => contract.supported[a] > 0
<1> DEFINE held == [d \in Borrowers |-> borrower_collateral[d][a]]
<1>1. /\ \A d \in Borrowers : held[d] \in Nat
      /\ DOMAIN held = Borrowers /\ held[b] = borrower_collateral[b][a]
      /\ total_collateral[a] \in Nat /\ bank[a] \in Nat
  BY StoredTypes DEF QueryInv, BooksInv
<1>2. total_collateral[a] = SumFunction(held) /\ total_collateral[a] <= bank[a]
  BY DEF QueryInv, BooksInv, BooksAgree
<1> HIDE DEF held
<1>3. held[b] <= SumFunctionOnSet(held, Borrowers)
  BY <1>1, FiniteAssumption, SumOfNaturals
<1>4. held[b] \in Nat /\ held[b] <= total_collateral[a]
  BY <1>1, <1>2, <1>3 DEF SumFunction
<1>5. held[b] > 0 => contract.supported[a] > 0
  BY <1>1, <1>4 DEF QueryInv, HeldIsListed
<1> QED
  BY <1>1, <1>2, <1>4, <1>5

\* The state query, which goes through the supported list alone, hides no
\* collateral that any borrower holds, and shows no less than any one holds.
THEOREM StateHidesNoCollateral == Spec => []StateShowsAllCollateral
<1>1. QueryInv => StateShowsAllCollateral
  <2> SUFFICES ASSUME QueryInv, NEW b \in Borrowers, NEW a \in Collaterals,
                      borrower_collateral[b][a] > 0
               PROVE  /\ a \in DOMAIN query_state.total_collateral_held
                      /\ query_state.total_collateral_held[a] >= borrower_collateral[b][a]
    BY DEF StateShowsAllCollateral, held_types
  <2>1. total_collateral[a] >= borrower_collateral[b][a] /\ contract.supported[a] > 0
    BY HoldingsAreKept
  <2> QED
    BY <2>1 DEF query_state
<1> QED
  BY <1>1, QueryInvIsInvariant, PTL

-----------------------------------------------------------------------------
\* Borrowers can leave.  The payment of the whole payoff cancels all scaled
\* units, which the total covers.
LEMMA PayoffIsAccepted ==
    ASSUME QueryInv, NotPaused, NEW b \in Borrowers, scaled_borrow[b] > 0, within_bound(b)
    PROVE  can_repay(b, payoff_of(b))
<1>1. Inv /\ BooksAgree
  BY DEF QueryInv, BooksInv
<1>2. /\ \A d \in Borrowers : scaled_borrow[d] \in Nat
      /\ accrued.borrow_index \in Nat /\ accrued.borrow_index > 0
      /\ accrued.total_scaled_borrow = reserve.total_scaled_borrow
  BY <1>1, StoredTypes, AccruedFacts
\* A debt costs a coin or more.
<1>3. payoff_of(b) \in Nat /\ payoff_of(b) >= 1
  <2>1. scaled_borrow[b] \in Nat \ {0}
    BY <1>2
  <2>2. PICK worth : worth = checked_mul(scaled_borrow[b] * ONE, accrued.borrow_index)
    OBVIOUS
  <2>3. scaled_borrow[b] * ONE \in Nat
    BY <2>1, OneAssumption
  <2>4. worth \in Nat
    BY <1>2, <2>2, <2>3, DecimalTypes
  <2>5. worth \div ONE \in Nat /\ worth \div ONE # 0
    <3>1. scaled_to_underlying_borrow(scaled_borrow[b], accrued.borrow_index) \in Nat \ {0}
      BY <1>1, <2>1, ScaledDebtIsDebt
    <3>2. scaled_to_underlying_borrow(scaled_borrow[b], accrued.borrow_index) = worth \div ONE
      BY <2>2 DEF scaled_to_underlying_borrow, floor_to_u128
    <3> QED
      BY <3>1, <3>2
  <2>6. payoff_of(b) = ceil_to_u128(worth)
    BY <2>2 DEF payoff_of, scaled_to_underlying_borrow_ceil
  <2> QED
    BY <2>5, <2>6 DEF ceil_to_u128
<1>4. scaled_borrow[b] <= accrued.total_scaled_borrow
  <2>1. scaled_borrow[b] <= SumFunctionOnSet(scaled_borrow, Borrowers)
    BY <1>2, FiniteAssumption, SumOfNaturals
  <2> QED
    BY <1>1, <1>2, <2>1 DEF BooksAgree
<1>5. lesser(payoff_of(b), payoff_of(b)) = payoff_of(b)
  BY DEF lesser
<1>6. scaled_repaid(scaled_borrow[b], payoff_of(b), payoff_of(b), accrued.borrow_index)
        = scaled_borrow[b]
  BY <1>3 DEF scaled_repaid
<1>7. payoff_of(b) = scaled_to_underlying_borrow_ceil(scaled_borrow[b], accrued.borrow_index)
  BY DEF payoff_of
<1> QED
  BY <1>2, <1>3, <1>4, <1>5, <1>6, <1>7 DEF can_repay, within_bound

\* Without debt the whole holding can be taken out: no quote is asked for, and
\* every denom of it is listed, in the total and in the bank.
LEMMA HoldingIsReleased ==
    ASSUME QueryInv, NotPaused, NEW b \in Borrowers, scaled_borrow[b] = 0,
           ~is_empty(borrower_collateral[b]), in_good_standing(b)
    PROVE  can_remove_collateral(b, borrower_collateral[b])
<1> DEFINE held == borrower_collateral[b]
<1>1. \A a \in Collaterals : /\ held[a] \in Nat
                             /\ total_collateral[a] >= held[a] /\ bank[a] >= held[a]
                             /\ held[a] > 0 => contract.supported[a] > 0
  BY HoldingsAreKept
<1>2. held_types(held) # {}
  BY <1>1 DEF is_empty, held_types
<1>3. scaled_to_underlying_borrow(scaled_borrow[b], accrued.borrow_index) = 0
  <2>1. accrued.borrow_index \in Nat
    BY AccruedFacts DEF QueryInv, BooksInv
  <2>2. (0 * ONE) * accrued.borrow_index = 0
    BY <2>1, OneAssumption
  <2>3. 0 \div ONE = 0
    BY OneAssumption
  <2> QED
    BY <2>2, <2>3 DEF scaled_to_underlying_borrow, checked_mul, floor_to_u128
<1>4. \A a \in held_types(held) : a \in Collaterals /\ held[a] > 0
  BY DEF held_types
<1> HIDE DEF held
<1>5. \A a \in held_types(held) : /\ contract.supported[a] > 0 /\ held[a] >= held[a]
                                  /\ total_collateral[a] >= held[a] /\ bank[a] >= held[a]
  BY <1>1, <1>4
<1> QED
  BY <1>2, <1>3, <1>5 DEF can_remove_collateral, in_good_standing, held

\* After any sequence of messages a pool that is not paused takes the payoff
\* of every debt, and gives a debtless borrower all they hold.
THEOREM NobodyIsLockedIn == Spec => []BorrowersCanLeave
<1>1. QueryInv => BorrowersCanLeave
  BY PayoffIsAccepted, HoldingIsReleased DEF BorrowersCanLeave
<1> QED
  BY <1>1, QueryInvIsInvariant, PTL

-----------------------------------------------------------------------------
\* What the quotes to borrowers are made of: naturals, whoever asks.
LEMMA QuoteTypes ==
    ASSUME QueryInv, NEW b \in Asking, NEW loan \in Nat
    PROVE  /\ fresh_prices \in [Denoms -> Nat]
           /\ contract.supported \in [Collaterals -> Nat]
           /\ held_by(b) \in Holdings
           /\ debt_to_cover(b, loan) \in Nat
           /\ calculate_borrow_value_usd(fresh_prices, debt_to_cover(b, loan)) \in Nat
           /\ calculate_total_collateral_value_usd(contract, fresh_prices, held_by(b)) \in Nat
           /\ required_collateral_value_usd(b, loan) \in Nat
           /\ additional_collateral_value_usd(b, loan) \in Nat
<1>1. fresh_prices \in [Denoms -> Nat]
  BY DEF fresh_prices, borrower_prices, QueryInv, BooksInv, Inv, TypeOK, Quotes, Atomics
<1>2. contract.supported \in [Collaterals -> Nat] /\ contract.margin_rate \in Nat \ {0}
  BY DEF QueryInv, BooksInv, SettingsOK, Inv, TypeOK, Config, Atomics
<1>3. held_by(b) \in Holdings
  BY DEF held_by, Asking, Holdings, NoCollateral, QueryInv, BooksInv, Inv, TypeOK, Amount
<1>4. debt_to_cover(b, loan) \in Nat
  <2>1. scaled_of(b) \in Nat
    BY DEF scaled_of, Asking, QueryInv, BooksInv, Inv, TypeOK, Amount
  <2>2. accrued.borrow_index \in Nat /\ accrued.borrow_index > 0
    BY AccruedFacts DEF QueryInv, BooksInv
  <2>3. underlying_to_scaled_borrow_ceil(loan, accrued.borrow_index) \in Nat
    BY <2>2, ConversionTypes
  <2>4. scaled_of(b) + underlying_to_scaled_borrow_ceil(loan, accrued.borrow_index) \in Nat
    BY <2>1, <2>3
  <2> QED
    BY <2>1, <2>2, <2>4, ConversionTypes DEF debt_to_cover, debt_after_borrow
<1>5. calculate_borrow_value_usd(fresh_prices, debt_to_cover(b, loan)) \in Nat
  BY <1>1, <1>4, BorrowValueType
<1>6. calculate_total_collateral_value_usd(contract, fresh_prices, held_by(b)) \in Nat
  BY <1>1, <1>2, <1>3, WorthType
<1>7. required_collateral_value_usd(b, loan) \in Nat
  <2>1. calculate_borrow_value_usd(fresh_prices, debt_to_cover(b, loan)) * ONE \in Nat
    BY <1>5, OneAssumption
  <2> QED
    BY <1>2, <1>5, <2>1, CheckedDivCeilIsCeil, CeilDivIsLeast DEF required_collateral_value_usd
<1>8. additional_collateral_value_usd(b, loan) \in Nat
  BY <1>6, <1>7, DecimalTypes DEF additional_collateral_value_usd
<1> QED
  BY <1>1, <1>2, <1>3, <1>4, <1>5, <1>6, <1>7, <1>8

\* The quotes are exact in every reachable state: the amount named of an asset
\* is the least that is worth what has to be covered.
THEOREM QuotesAreExact == Spec => []QuotesAreLeast
<1>1. QueryInv => QuotesAreLeast
  <2> SUFFICES ASSUME QueryInv, NEW b \in Asking, NEW loan \in Inputs.borrows \cup {0},
                      NEW a \in Collaterals
               PROVE  LET value == additional_collateral_value_usd(b, loan)
                          quote == quote_for(a, value)
                          worth(amount) == haircutted_value(fresh_prices, a, amount,
                                                            haircut_percentage(contract, a))
                      IN  quote.satisfiable =>
                              /\ worth(quote.amount) >= value
                              /\ quote.amount > 0 => worth(quote.amount - 1) < value
    BY DEF QuotesAreLeast
  <2> DEFINE value == additional_collateral_value_usd(b, loan)
             quote == quote_for(a, value)
             haircut == haircut_percentage(contract, a)
             worth(amount) == haircutted_value(fresh_prices, a, amount, haircut)
             least == amount_from_usd_haircutted(fresh_prices, a, value, haircut)
  <2>1. loan \in Nat
    BY InputsAssumption DEF Amount
  <2>2. /\ value \in Nat /\ fresh_prices \in PriceMap
        /\ contract.supported \in [Collaterals -> Nat]
    BY <2>1, QuoteTypes DEF PriceMap, Atomics
  <2>3. haircut \in Nat \ {0} /\ a \in Denoms
    BY <2>2, OneAssumption DEF haircut_percentage, Denoms
  <2>4. /\ quote.satisfiable /\ value # 0 => fresh_prices[a] > 0 /\ quote.amount = least
        /\ value = 0 => quote.amount = 0
    BY DEF quote_for
  <2> HIDE DEF value, quote, haircut
  <2>5. \A amount \in Nat : worth(amount) \in Nat
    <3> TAKE amount \in Nat
    <3>1. fresh_prices[a] \in Nat /\ UNIT[a] \in Nat \ {0}
      BY <2>2, <2>3, PricingAssumption DEF PriceMap, Atomics
    <3>2. fresh_prices[a] * amount \in Nat
      BY <3>1
    <3>3. value_usd(fresh_prices, a, amount) \in Nat
      BY <3>1, <3>2, DivisionBounds DEF value_usd
    <3> QED
      BY <2>3, <3>3, DecimalTypes DEF haircutted_value
  <2>6. CASE value = 0
    <3>1. worth(quote.amount) \in Nat
      BY <2>4, <2>5, <2>6
    <3> HIDE DEF worth
    <3> QED
      BY <2>4, <2>6, <3>1 DEF value, quote, haircut, worth
  <2>7. ASSUME value # 0, quote.satisfiable
        PROVE  worth(quote.amount) >= value /\ (quote.amount > 0 => worth(quote.amount - 1) < value)
    <3>1. /\ least \in Nat
          /\ \A amount \in Nat : worth(amount) >= value <=> amount >= least
      BY <2>2, <2>3, <2>4, <2>7, QuoteIsLeast
    <3> HIDE DEF worth, least
    <3>2. worth(least) >= value
      BY <3>1
    <3>3. ASSUME least > 0 PROVE worth(least - 1) < value
      <4>1. least - 1 \in Nat /\ ~(least - 1 >= least)
        BY <3>1, <3>3
      <4> QED
        BY <2>2, <2>5, <3>1, <4>1
    <3> QED
      BY <2>4, <2>7, <3>2, <3>3
  <2> QED
    BY <2>6, <2>7 DEF value, quote, haircut
<1> QED
  BY <1>1, QueryInvIsInvariant, PTL

\* Collateral worth what the quote is based on is enough for the margin.
LEMMA RequiredIsEnough ==
    ASSUME NEW c, c.supported \in [Collaterals -> Nat], c.margin_rate \in Nat \ {0},
           c.liquidation_rate \in Nat, c.margin_rate < c.liquidation_rate,
           c.liquidation_rate <= ONE,
           NEW prices \in [Denoms -> Nat], NEW held \in Holdings, NEW debt \in Nat,
           calculate_total_collateral_value_usd(c, prices, held)
               >= checked_div_ceil(calculate_borrow_value_usd(prices, debt), c.margin_rate)
    PROVE  get_borrower_health(c, prices, held, debt) = Healthy
<1> DEFINE bv == calculate_borrow_value_usd(prices, debt)
           P  == calculate_total_collateral_value_usd(c, prices, held)
           m  == c.margin_rate
<1>1. P \in Nat
  BY WorthType
<1>2. bv \in Nat
  BY BorrowValueType
<1>3. m \in Nat \ {0}
  OBVIOUS
<1>4. P >= checked_div_ceil(bv, m)
  OBVIOUS
<1> HIDE DEF bv, P, m
<1>5. bv * ONE \in Nat
  BY <1>2, OneAssumption
<1>6. P * m >= bv * ONE
  <2>1. checked_div_ceil(bv, m) = ceil_div(bv * ONE, m)
    BY <1>2, <1>3, CheckedDivCeilIsCeil
  <2> QED
    BY <1>1, <1>3, <1>4, <1>5, <2>1, CeilDivIsLeast
<1>7. bv * ONE < (m + 1) * P \/ bv = 0
  <2>1. (m + 1) * P = P * m + P /\ P * m \in Nat
    BY <1>1, <1>3
  <2>2. P = 0 => bv * ONE = 0
    <3>1. P = 0 => P * m = 0
      BY <1>3
    <3> QED
      BY <1>5, <1>6, <3>1
  <2>3. bv * ONE = 0 => bv = 0
    BY <1>2, OneAssumption
  <2> QED
    BY <1>1, <1>5, <1>6, <2>1, <2>2, <2>3
<1> QED
  BY <1>3, <1>7, HealthyIsCovered DEF bv, P, m

\* A quote suffices in every reachable state: whoever adds the amount named of
\* any one asset passes the health check of Borrow in the same block.
THEOREM QuotesSuffice == Spec => []QuotesAreEnough
<1>1. QueryInv => QuotesAreEnough
  <2> SUFFICES ASSUME QueryInv, NEW b \in Borrowers, NEW loan \in Inputs.borrows \cup {0},
                      NEW a \in Collaterals,
                      requirements_answered(b, loan),
                      query_collateral_requirements(b, loan).required[a].satisfiable
               PROVE  healthy_at_fresh_prices(
                          [borrower_collateral[b] EXCEPT ![a] =
                              @ + query_collateral_requirements(b, loan).required[a].amount],
                          debt_after_borrow(scaled_borrow[b], loan, accrued.borrow_index).debt_after)
    BY DEF QuotesAreEnough
  <2> DEFINE value   == additional_collateral_value_usd(b, loan)
             quote   == quote_for(a, value)
             haircut == haircut_percentage(contract, a)
             least   == amount_from_usd_haircutted(fresh_prices, a, value, haircut)
             held    == borrower_collateral[b]
             more    == [held EXCEPT ![a] = @ + quote.amount]
             debt    == debt_to_cover(b, loan)
             bv      == calculate_borrow_value_usd(fresh_prices, debt)
             before  == calculate_total_collateral_value_usd(contract, fresh_prices, held)
             after   == calculate_total_collateral_value_usd(contract, fresh_prices, more)
             worth   == haircutted_value(fresh_prices, a, quote.amount, haircut)
  <2>1. loan \in Nat /\ b \in Asking /\ b # NO_ONE
    BY InputsAssumption, AddressAssumption DEF Amount, Asking, Accounts
  <2>2. /\ value \in Nat /\ fresh_prices \in PriceMap /\ fresh_prices \in [Denoms -> Nat]
        /\ contract.supported \in [Collaterals -> Nat]
        /\ held \in Holdings /\ debt \in Nat /\ before \in Nat
        /\ required_collateral_value_usd(b, loan) \in Nat
    BY <2>1, QuoteTypes DEF PriceMap, Atomics, held_by
  <2>3. haircut \in Nat \ {0} /\ a \in Denoms
    BY <2>2, OneAssumption DEF haircut_percentage, Denoms
  <2>4. quote = query_collateral_requirements(b, loan).required[a] /\ quote.satisfiable
    BY DEF query_collateral_requirements
  <2>5. /\ value # 0 => fresh_prices[a] > 0 /\ quote.amount = least
        /\ value = 0 => quote.amount = 0
    BY <2>4 DEF quote_for
  <2>6. debt = debt_after_borrow(scaled_borrow[b], loan, accrued.borrow_index).debt_after
    <3>1. CASE loan = 0
      <4>1. scaled_borrow[b] \in Nat /\ accrued.borrow_index \in Nat \ {0}
        BY StoredTypes, AccruedFacts DEF QueryInv, BooksInv
      <4>2. underlying_to_scaled_borrow_ceil(0, accrued.borrow_index) = 0
        BY <4>1, OneAssumption DEF underlying_to_scaled_borrow_ceil, checked_div, ceil_to_u128
      <4> QED
        BY <2>1, <3>1, <4>1, <4>2 DEF debt_to_cover, debt_after_borrow, scaled_of
    <3>2. CASE loan # 0
      BY <2>1, <3>2 DEF debt_to_cover, scaled_of
    <3> QED
      BY <3>1, <3>2
  <2>7. value = saturating_sub(required_collateral_value_usd(b, loan), before)
    BY <2>1 DEF additional_collateral_value_usd, held_by
  <2>8. required_collateral_value_usd(b, loan) = checked_div_ceil(bv, contract.margin_rate)
    BY DEF required_collateral_value_usd
  <2>9. fresh(quotes, now, LENDING)
    BY <2>1 DEF requirements_answered
  <2> HIDE DEF value, quote, haircut, held, debt, bv
  <2>10. quote.amount \in Nat /\ worth \in Nat /\ worth >= value
    <3>1. CASE value = 0
      <4>1. quote.amount \in Nat
        BY <2>5, <3>1
      <4>2. worth \in Nat
        <5>1. fresh_prices[a] \in Nat /\ UNIT[a] \in Nat \ {0}
          BY <2>2, <2>3, PricingAssumption
        <5>2. fresh_prices[a] * quote.amount \in Nat
          BY <4>1, <5>1
        <5>3. value_usd(fresh_prices, a, quote.amount) \in Nat
          BY <5>1, <5>2, DivisionBounds DEF value_usd
        <5> QED
          BY <2>3, <5>3, DecimalTypes DEF haircutted_value
      <4> QED
        BY <3>1, <4>1, <4>2
    <3>2. CASE value # 0
      <4>1. /\ least \in Nat
            /\ haircutted_value(fresh_prices, a, least, haircut) >= value <=> least >= least
        BY <2>2, <2>3, <2>5, <3>2, QuoteIsLeast
      <4>2. quote.amount = least
        BY <2>5, <3>2
      <4>3. worth \in Nat
        <5>1. fresh_prices[a] \in Nat /\ UNIT[a] \in Nat \ {0}
          BY <2>2, <2>3, PricingAssumption
        <5>2. fresh_prices[a] * quote.amount \in Nat
          BY <4>1, <4>2, <5>1
        <5>3. value_usd(fresh_prices, a, quote.amount) \in Nat
          BY <5>1, <5>2, DivisionBounds DEF value_usd
        <5> QED
          BY <2>3, <5>3, DecimalTypes DEF haircutted_value
      <4> HIDE DEF least
      <4> QED
        BY <4>1, <4>2, <4>3
    <3> QED
      BY <3>1, <3>2
  <2>11. more \in Holdings /\ more = [held EXCEPT ![a] = @ + quote.amount]
    BY <2>2, <2>10 DEF Holdings
  <2>12. after >= before + worth /\ after \in Nat
    <3> HIDE DEF more
    <3>1. after \in Nat
      BY <2>2, <2>11, WorthType
    <3> QED
      BY <2>2, <2>10, <2>11, <3>1, TopUpCounts DEF haircut
  <2>13. after >= required_collateral_value_usd(b, loan)
    <3> HIDE DEF after, before, worth
    <3> QED
      BY <2>2, <2>7, <2>10, <2>12 DEF saturating_sub
  <2>14. /\ contract.margin_rate \in Nat \ {0} /\ contract.liquidation_rate \in Nat
         /\ contract.margin_rate < contract.liquidation_rate /\ contract.liquidation_rate <= ONE
    BY DEF QueryInv, BooksInv, SettingsOK, Inv, TypeOK, Config, Atomics
  <2>15. get_borrower_health(contract, fresh_prices, more, debt) = Healthy
    <3> HIDE DEF more
    <3>1. calculate_total_collateral_value_usd(contract, fresh_prices, more)
            >= checked_div_ceil(calculate_borrow_value_usd(fresh_prices, debt),
                                contract.margin_rate)
      BY <2>8, <2>13 DEF bv
    <3> QED
      BY <2>2, <2>11, <2>14, <3>1, RequiredIsEnough
  <2> QED
    BY <2>4, <2>6, <2>9, <2>15 DEF healthy_at_fresh_prices, fresh_prices, more, held
<1> QED
  BY <1>1, QueryInvIsInvariant, PTL

-----------------------------------------------------------------------------
\* Health.  More collateral, no lower prices for it and less debt leave a
\* Healthy borrower Healthy.
LEMMA HealthIsMonotone ==
    ASSUME NEW c, c.supported \in [Collaterals -> Nat], c.margin_rate \in Nat,
           c.liquidation_rate \in Nat, c.margin_rate < c.liquidation_rate,
           c.liquidation_rate <= ONE,
           NEW p \in [Denoms -> Nat], NEW q \in [Denoms -> Nat], p[LENDING] = q[LENDING],
           NEW less \in Holdings, NEW more \in Holdings,
           \A a \in Collaterals : less[a] <= more[a] /\ p[a] <= q[a],
           NEW debt \in Nat, NEW larger \in Nat, debt <= larger,
           get_borrower_health(c, p, less, larger) = Healthy
    PROVE  get_borrower_health(c, q, more, debt) = Healthy
<1> DEFINE bp == calculate_borrow_value_usd(p, larger)
           bq == calculate_borrow_value_usd(q, debt)
           cp == calculate_total_collateral_value_usd(c, p, less)
           cq == calculate_total_collateral_value_usd(c, q, more)
           m  == c.margin_rate
<1>1. bp \in Nat /\ bq \in Nat
  BY BorrowValueType
<1>2. bq <= bp
  <2>1. /\ q[LENDING] \in Nat /\ UNIT[LENDING] \in Nat \ {0}
        /\ p[LENDING] = q[LENDING]
    BY PricingAssumption DEF Denoms
  <2>2. q[LENDING] * debt <= q[LENDING] * larger
    BY <2>1, ProductMonotone
  <2>3. q[LENDING] * debt \in Nat /\ q[LENDING] * larger \in Nat
    BY <2>1
  <2> QED
    BY <2>1, <2>2, <2>3, DivisionMonotone DEF calculate_borrow_value_usd, value_usd
<1>3. cp \in Nat /\ cq \in Nat
  BY WorthType
<1>4. cp <= cq
  BY WorthIsMonotone
<1>5. bp * ONE < (m + 1) * cp \/ bp = 0
  BY HealthyIsCovered
<1>6. m + 1 \in Nat
  OBVIOUS
<1>7. bq * ONE < (m + 1) * cq \/ bq = 0
  <2> HIDE DEF bp, bq, cp, cq, m
  <2>1. /\ bq * ONE <= bp * ONE /\ bq * ONE \in Nat /\ bp * ONE \in Nat
        /\ (m + 1) * cp <= (m + 1) * cq /\ (m + 1) * cp \in Nat /\ (m + 1) * cq \in Nat
    BY <1>1, <1>2, <1>3, <1>4, <1>6, OneAssumption, ProductMonotone
  <2>2. bp = 0 => bq = 0
    BY <1>1, <1>2
  <2> QED
    BY <1>5, <2>1, <2>2
<1> QED
  BY <1>7, HealthyIsCovered

\* More scaled units are no less debt.
LEMMA DebtIsMonotone ==
    ASSUME NEW m \in Nat, NEW n \in Nat, m <= n, NEW index \in Nat, index > 0
    PROVE  /\ scaled_to_underlying_borrow(m, index) \in Nat
           /\ scaled_to_underlying_borrow(n, index) \in Nat
           /\ scaled_to_underlying_borrow(m, index) <= scaled_to_underlying_borrow(n, index)
<1>1. m * ONE <= n * ONE /\ m * ONE \in Nat /\ n * ONE \in Nat
  BY OneAssumption, ProductMonotone
<1>2. /\ (m * ONE) * index <= (n * ONE) * index
      /\ (m * ONE) * index \in Nat /\ (n * ONE) * index \in Nat
  BY <1>1, ProductMonotone
<1>3. /\ ((m * ONE) * index) \div ONE <= ((n * ONE) * index) \div ONE
      /\ ((m * ONE) * index) \div ONE \in Nat /\ ((n * ONE) * index) \div ONE \in Nat
  BY <1>2, OneAssumption, DivisionMonotone, DivisionBounds
<1> QED
  BY <1>3, OneAssumption, DivisionMonotone, DivisionBounds
  DEF scaled_to_underlying_borrow, floor_to_u128, checked_mul

\* The prices that grant credit are no higher than those a liquidation acts on,
\* and the same where they are not absent.
LEMMA FreshPricesAreActedOn ==
    ASSUME Inv
    PROVE  /\ fresh_prices \in [Denoms -> Nat] /\ acted_on_prices \in [Denoms -> Nat]
           /\ \A d \in Denoms : fresh_prices[d] <= acted_on_prices[d]
           /\ fresh(quotes, now, LENDING) => fresh_prices[LENDING] = acted_on_prices[LENDING]
<1> DEFINE max == contract.max_liquidation_staleness_seconds
<1>1. ASSUME NEW d \in Denoms
      PROVE  /\ quotes[d].usd \in Nat
             /\ fresh_prices[d] = IF fresh(quotes, now, d) THEN quotes[d].usd ELSE 0
             /\ acted_on_prices[d] = IF usable(quotes, now, max, d) THEN quotes[d].usd ELSE 0
             /\ fresh(quotes, now, d) => usable(quotes, now, max, d)
  BY DEF Inv, TypeOK, Quotes, Atomics, fresh_prices, borrower_prices, acted_on_prices,
         liquidation_prices, fresh, usable, liquidation_price_too_old
<1>2. fresh_prices \in [Denoms -> Nat] /\ acted_on_prices \in [Denoms -> Nat]
  BY <1>1 DEF fresh_prices, borrower_prices, acted_on_prices, liquidation_prices
<1>3. LENDING \in Denoms
  BY DEF Denoms
<1>4. \A d \in Denoms : fresh_prices[d] <= acted_on_prices[d]
  <2> TAKE d \in Denoms
  <2> QED
    BY <1>1
<1> QED
  BY <1>1, <1>2, <1>3, <1>4

-----------------------------------------------------------------------------
\* How a step leaves one borrower: no worse off in the books, closed, or judged
\* by the handler on what is then on file.
debt_left(b) == scaled_to_underlying_borrow(scaled_borrow'[b], accrued.borrow_index)

Eased(b) ==
    /\ scaled_borrow'[b] <= scaled_borrow[b]
    /\ \A a \in Collaterals : borrower_collateral[b][a] <= borrower_collateral'[b][a]

Closed(b) == scaled_borrow'[b] = 0

Granted(b) ==
    /\ UNCHANGED <<now, quotes, contract>>
    /\ healthy_at_fresh_prices(borrower_collateral'[b], debt_left(b))

Filled(b) ==
    /\ scaled_borrow'[b] < scaled_borrow[b]
    /\ get_borrower_health(contract, acted_on_prices, borrower_collateral'[b], debt_left(b))
           = Healthy

\* A row that stays as it is.
LEMMA EasedIfKept ==
    ASSUME Inv, NEW b \in Borrowers, scaled_borrow'[b] = scaled_borrow[b],
           borrower_collateral'[b] = borrower_collateral[b]
    PROVE  Eased(b)
<1>1. scaled_borrow[b] \in Nat /\ \A a \in Collaterals : borrower_collateral[b][a] \in Nat
  BY StoredTypes
<1> QED
  BY <1>1 DEF Eased

\* A loan is granted to who is Healthy with it.
LEMMA BorrowIsGranted ==
    ASSUME Inv, NEW b \in Borrowers, NEW x \in Nat, Borrow(b, x)
    PROVE  Granted(b)
<1> DEFINE debt == debt_after_borrow(scaled_borrow[b], x, accrued.borrow_index)
<1>1. /\ UNCHANGED <<now, quotes, contract>>
      /\ scaled_borrow' = [scaled_borrow EXCEPT ![b] = debt.new_scaled]
      /\ borrower_collateral' = borrower_collateral
      /\ healthy_at_fresh_prices(borrower_collateral[b], debt.debt_after)
  BY DEF Borrow, world_vars, config_vars
<1>2. debt.debt_after = scaled_to_underlying_borrow(debt.new_scaled, accrued.borrow_index)
  BY DEF debt_after_borrow
<1> HIDE DEF debt
<1>3. scaled_borrow'[b] = debt.new_scaled
  BY <1>1 DEF Inv, TypeOK
<1> QED
  BY <1>1, <1>2, <1>3 DEF Granted, debt_left

\* A removal is granted to who is Healthy without it, or owes nothing.
LEMMA RemovalIsGranted ==
    ASSUME Inv, NEW b \in Borrowers, NEW coins \in [Collaterals -> Nat],
           RemoveCollateral(b, coins)
    PROVE  scaled_borrow'[b] = scaled_borrow[b] /\ (Granted(b) \/ Closed(b))
<1> DEFINE left == [a \in Collaterals |-> saturating_sub(borrower_collateral[b][a], coins[a])]
           debt == scaled_to_underlying_borrow(scaled_borrow[b], accrued.borrow_index)
<1>1. /\ UNCHANGED <<now, quotes, contract>>
      /\ scaled_borrow' = scaled_borrow
      /\ borrower_collateral' = [borrower_collateral EXCEPT ![b] = left]
      /\ debt > 0 => healthy_at_fresh_prices(left, debt)
  BY DEF RemoveCollateral, can_remove_collateral, left_after, world_vars, config_vars
<1>2. scaled_borrow[b] \in Nat
  BY StoredTypes
<1>3. debt_left(b) = debt
  BY <1>1 DEF debt_left
<1>4. CASE scaled_borrow[b] = 0
  BY <1>1, <1>4 DEF Closed
<1>5. CASE scaled_borrow[b] # 0
  <2>1. debt \in Nat \ {0}
    BY <1>2, <1>5, ScaledDebtIsDebt
  <2> HIDE DEF debt, left
  <2>2. healthy_at_fresh_prices(left, debt)
    BY <1>1, <2>1
  <2>3. borrower_collateral'[b] = left
    BY <1>1 DEF Inv, TypeOK
  <2> QED
    BY <1>1, <1>3, <2>2, <2>3 DEF Granted
<1> QED
  BY <1>4, <1>5

\* What no liquidator closes or writes off, he leaves Healthy.
LEMMA LiquidationFills ==
    ASSUME Inv, NEW s \in Operators, NEW b \in Borrowers,
           NEW z \in Inputs.seizures, NEW x \in Inputs.payments, Liquidate(s, b, z, x)
    PROVE  Filled(b) \/ Closed(b)
<1>1. PICK f : f = figures(b, z, x)
  OBVIOUS
<1>2. z \in [Collaterals -> Nat] /\ x \in Nat
  BY InputsAssumption DEF Amount
<1>3. /\ can_liquidate(s, f)
      /\ f.r = accrued /\ f.scaled = scaled_borrow[b] /\ f.prices = acted_on_prices
      /\ f.held = borrower_collateral[b] /\ f.seize = z
  BY <1>1, SeizureFigures
<1>4. /\ f.residue = f.scaled - f.removed /\ f.removed \in Nat /\ f.scaled \in Nat
      /\ f.left = [a \in Collaterals |-> saturating_sub(borrower_collateral[b][a], z[a])]
  <2>1. f.residue = f.scaled - f.removed /\ f.removed \in Nat /\ f.scaled \in Nat
    BY <1>1, <1>2, FiguresFacts
  <2>2. f.left = [a \in Collaterals |-> saturating_sub(borrower_collateral[b][a], z[a])]
    BY ONLY <1>1 DEF figures
  <2> QED
    BY ONLY <2>1, <2>2
<1>5. /\ scaled_borrow' = [scaled_borrow EXCEPT ![b] = IF f.bad_debt THEN 0 ELSE f.residue]
      /\ borrower_collateral' = [borrower_collateral EXCEPT ![b] =
                   [a \in Collaterals |-> saturating_sub(@[a], outgoing(f)[a])]]
  BY <1>1 DEF Liquidate
<1>6. /\ f.removed > 0 /\ f.residue >= 0
      /\ f.residue > 0 /\ ~f.bad_debt =>
           get_borrower_health(contract, f.prices, f.left,
               scaled_to_underlying_borrow(f.residue, f.r.borrow_index)) = Healthy
  BY <1>3 DEF can_liquidate, leaves_healthy_or_closed
<1>7. scaled_borrow'[b] = IF f.bad_debt THEN 0 ELSE f.residue
  BY <1>5 DEF Inv, TypeOK
<1>8. CASE f.bad_debt \/ f.residue = 0
  BY <1>7, <1>8 DEF Closed
<1>9. CASE ~f.bad_debt /\ f.residue > 0
  <2>1. borrower_collateral'[b] = f.left
    <3>1. outgoing(f) = z
      BY <1>3, <1>9 DEF outgoing
    <3> QED
      BY <1>4, <1>5, <3>1 DEF Inv, TypeOK
  <2>2. scaled_borrow'[b] = f.residue /\ f.residue < scaled_borrow[b]
    BY <1>3, <1>4, <1>6, <1>7, <1>9
  <2> QED
    BY <1>3, <1>6, <1>9, <2>1, <2>2 DEF Filled, debt_left
<1> QED
  BY <1>4, <1>6, <1>8, <1>9

\* What any step may do to a borrower.
LEMMA BorrowerIsJudged ==
    ASSUME Inv, [Next]_vars, NEW b \in Borrowers
    PROVE  Eased(b) \/ Closed(b) \/ Granted(b) \/ Filled(b)
<1>1. \A d \in Borrowers : scaled_borrow[d] \in Nat
                          /\ borrower_collateral[d] \in [Collaterals -> Nat]
  BY DEF Inv, TypeOK, Amount
<1>2. ASSUME UNCHANGED <<scaled_borrow, borrower_collateral>> PROVE Eased(b)
  BY <1>2, EasedIfKept
<1>3. CASE LenderStep
  <2>1. UNCHANGED <<scaled_borrow, borrower_collateral>>
    BY <1>3, LenderStepIsTurn
    DEF LenderTurn, Supplied, Redeemed, PassedOn, BooksKept, DebtKept, CollateralKept
  <2> QED
    BY <1>2, <2>1
<1>4. CASE ReserveStep \/ GovernanceStep \/ WorldStep \/ UNCHANGED vars
  <2>1. UNCHANGED <<scaled_borrow, borrower_collateral>>
    BY <1>4, OtherStepsKeepBooks DEF BooksKept, DebtKept, CollateralKept
  <2> QED
    BY <1>2, <2>1
<1>5. CASE LiquidationStep
  <2>1. PICK s \in Operators, d \in Borrowers, z \in Inputs.seizures, x \in Inputs.payments :
            Liquidate(s, d, z, x)
    BY <1>5 DEF LiquidationStep
  <2>2. CASE d = b
    BY <2>1, <2>2, LiquidationFills
  <2>3. CASE d # b
    <3>1. PICK debt, held : /\ scaled_borrow' = [scaled_borrow EXCEPT ![d] = debt]
                            /\ borrower_collateral' = [borrower_collateral EXCEPT ![d] = held]
      BY <2>1 DEF Liquidate
    <3> QED
      BY <2>3, <3>1, EasedIfKept DEF Inv, TypeOK
  <2> QED
    BY <2>2, <2>3
<1>6. ASSUME NEW d \in Borrowers, NEW x \in Inputs.borrows, Borrow(d, x)
      PROVE  Eased(b) \/ Granted(b)
  <2>1. CASE d = b
    BY <1>6, <2>1, BorrowIsGranted, InputsAssumption DEF Amount
  <2>2. CASE d # b
    BY <1>6, <2>2, EasedIfKept DEF Borrow, Inv, TypeOK
  <2> QED
    BY <2>1, <2>2
<1>7. ASSUME NEW d \in Borrowers, NEW x \in Inputs.repayments, Repay(d, x)
      PROVE  Eased(b)
  <2> DEFINE payoff == scaled_to_underlying_borrow_ceil(scaled_borrow[d], accrued.borrow_index)
             repaid == lesser(x, payoff)
             scaled == scaled_repaid(scaled_borrow[d], repaid, payoff, accrued.borrow_index)
  <2>1. /\ scaled > 0 /\ scaled_borrow[d] >= scaled
        /\ scaled_borrow' = [scaled_borrow EXCEPT ![d] = @ - scaled]
        /\ borrower_collateral' = borrower_collateral
        /\ scaled \in Nat
    <3>1. x \in Nat /\ scaled_borrow[d] \in Nat
      BY <1>1, InputsAssumption DEF Amount
    <3>2. scaled \in Nat
      BY <3>1, PayoffTypes
    <3> QED
      BY <1>7, <3>2 DEF Repay, can_repay
  <2> HIDE DEF scaled
  <2>2. CASE d = b
    <3>1. scaled_borrow'[b] = scaled_borrow[b] - scaled
      BY <2>1, <2>2 DEF Inv, TypeOK
    <3> QED
      BY <1>1, <2>1, <2>2, <3>1 DEF Eased
  <2>3. CASE d # b
    BY <2>1, <2>3, EasedIfKept DEF Inv, TypeOK
  <2> QED
    BY <2>2, <2>3
<1>8. ASSUME NEW d \in Borrowers, NEW coins \in Inputs.deposits, AddCollateral(d, coins)
      PROVE  Eased(b)
  <2>1. coins \in [Collaterals -> Nat]
    BY InputsAssumption DEF Amount
  <2>2. /\ scaled_borrow' = scaled_borrow
        /\ borrower_collateral' = [borrower_collateral EXCEPT ![d] =
               [a \in Collaterals |-> borrower_collateral[d][a] + coins[a]]]
    BY <1>8 DEF AddCollateral
  <2>3. CASE d = b
    <3>1. \A a \in Collaterals : borrower_collateral'[b][a] = borrower_collateral[b][a] + coins[a]
      BY <2>2, <2>3 DEF Inv, TypeOK
    <3>2. \A a \in Collaterals : borrower_collateral[b][a] \in Nat /\ coins[a] \in Nat
      BY <1>1, <2>1
    <3> QED
      BY <1>1, <2>2, <3>1, <3>2 DEF Eased
  <2>4. CASE d # b
    BY <2>2, <2>4, EasedIfKept DEF Inv, TypeOK
  <2> QED
    BY <2>3, <2>4
<1>9. ASSUME NEW d \in Borrowers, NEW coins \in Inputs.removals, RemoveCollateral(d, coins)
      PROVE  Eased(b) \/ Granted(b) \/ Closed(b)
  <2>1. CASE d = b
    BY <1>9, <2>1, RemovalIsGranted, InputsAssumption DEF Amount
  <2>2. CASE d # b
    <3>1. PICK left : /\ scaled_borrow' = scaled_borrow
                      /\ borrower_collateral' = [borrower_collateral EXCEPT ![d] = left]
      BY <1>9 DEF RemoveCollateral
    <3> QED
      BY <2>2, <3>1, EasedIfKept DEF Inv, TypeOK
  <2> QED
    BY <2>1, <2>2
<1>10. ASSUME NEW d, NEW delta, NEW t, NEW v, AdjustDirectedCollateralSale(d, delta, t, v)
       PROVE  Eased(b)
  BY <1>2, <1>10 DEF AdjustDirectedCollateralSale, position_vars
<1>11. CASE BorrowerStep
  BY <1>6, <1>7, <1>8, <1>9, <1>10, <1>11 DEF BorrowerStep
<1> QED
  BY <1>3, <1>4, <1>5, <1>11 DEF Next

\* The settings a borrower is judged by.
LEMMA JudgedBy ==
    ASSUME Inv, SettingsOK
    PROVE  /\ contract.supported \in [Collaterals -> Nat]
           /\ contract.margin_rate \in Nat /\ contract.liquidation_rate \in Nat
           /\ contract.margin_rate < contract.liquidation_rate
           /\ contract.liquidation_rate <= ONE
BY DEF SettingsOK, Inv, TypeOK, Config, Atomics

\* Who is Healthy at fresh prices is Healthy at those a liquidation acts on.
LEMMA GrantedIsHealthy ==
    ASSUME Inv, SettingsOK, NEW held \in Holdings, NEW debt \in Nat,
           healthy_at_fresh_prices(held, debt)
    PROVE  get_borrower_health(contract, acted_on_prices, held, debt) = Healthy
<1>1. /\ fresh_prices \in [Denoms -> Nat] /\ acted_on_prices \in [Denoms -> Nat]
      /\ \A d \in Denoms : fresh_prices[d] <= acted_on_prices[d]
      /\ fresh(quotes, now, LENDING) => fresh_prices[LENDING] = acted_on_prices[LENDING]
  BY FreshPricesAreActedOn
<1>2. /\ fresh(quotes, now, LENDING)
      /\ get_borrower_health(contract, fresh_prices, held, debt) = Healthy
  BY DEF healthy_at_fresh_prices, fresh_prices
<1>3. \A a \in Collaterals : held[a] <= held[a] /\ fresh_prices[a] <= acted_on_prices[a]
  BY <1>1 DEF Holdings, Denoms
<1> QED
  BY <1>1, <1>2, <1>3, JudgedBy, HealthIsMonotone

\* Within a block the accrued borrow index stands still.
LEMMA IndexWithinBlock ==
    ASSUME Inv, [Next]_vars, now' = now
    PROVE  accrued'.borrow_index = accrued.borrow_index
<1>1. Inv'
  BY NextInv
<1>2. CASE Accrues
  BY <1>1, <1>2, AccruedAfter DEF Accrues
<1>3. CASE Waits
  BY <1>3, AccruedUnmoved DEF Waits
<1> QED
  BY <1>2, <1>3, StepKind

\* Within a block, and at the same prices and settings, whoever is Healthy
\* remains so.
LEMMA HealthStep ==
    ASSUME Inv, Inv', SettingsOK, [Next]_vars, UNCHANGED <<now, quotes, contract>>,
           NEW b \in Borrowers, health_of(b) = Healthy
    PROVE  health_of(b)' = Healthy
<1> DEFINE index == accrued.borrow_index
           held  == borrower_collateral'[b]
           debt  == scaled_to_underlying_borrow(scaled_borrow'[b], index)
<1>1. /\ scaled_borrow[b] \in Nat /\ scaled_borrow'[b] \in Nat
      /\ borrower_collateral[b] \in Holdings /\ held \in Holdings
      /\ index \in Nat /\ index > 0
  BY AccruedFacts DEF Inv, TypeOK, Amount, Holdings
<1>2. debt \in Nat /\ debt_of(b) \in Nat
  BY <1>1, DebtIsMonotone DEF debt_of
<1>3. health_of(b)' = get_borrower_health(contract, acted_on_prices, held, debt)
  <2>1. accrued'.borrow_index = index
    BY IndexWithinBlock
  <2>2. acted_on_prices' = acted_on_prices
    BY DEF acted_on_prices
  <2> QED
    BY <2>1, <2>2 DEF health_of, debt_of
<1>4. debt = debt_left(b)
  BY DEF debt_left
<1>5. acted_on_prices \in [Denoms -> Nat]
  BY FreshPricesAreActedOn
<1> HIDE DEF index, held, debt
<1>6. CASE Eased(b)
  <2>1. debt <= debt_of(b)
    BY <1>1, <1>6, DebtIsMonotone DEF Eased, debt_of, debt, index
  <2>2. \A a \in Collaterals : /\ borrower_collateral[b][a] <= held[a]
                               /\ acted_on_prices[a] <= acted_on_prices[a]
    BY <1>5, <1>6 DEF Eased, held, Denoms
  <2>3. get_borrower_health(contract, acted_on_prices, borrower_collateral[b], debt_of(b)) = Healthy
    BY DEF health_of
  <2> QED
    BY <1>1, <1>2, <1>3, <1>5, <2>1, <2>2, <2>3, JudgedBy, HealthIsMonotone
<1>7. CASE Closed(b)
  <2>1. debt = 0
    BY <1>1, <1>7, OneAssumption
    DEF Closed, debt, scaled_to_underlying_borrow, floor_to_u128, checked_mul
  <2> QED
    BY <1>1, <1>3, <1>5, <2>1, JudgedBy, NoDebtIsHealthy
<1>8. CASE Granted(b)
  BY <1>1, <1>2, <1>3, <1>4, <1>8, GrantedIsHealthy DEF Granted, held
<1>9. CASE Filled(b)
  BY <1>3, <1>4, <1>9 DEF Filled, held
<1> QED
  BY <1>6, <1>7, <1>8, <1>9, BorrowerIsJudged

\* Only time, prices and settings make a borrower unhealthy: no message of the
\* borrower, of a liquidator, a lender or the owner does.
THEOREM HealthIsKept == Spec => HealthyStaysHealthy
<1>1. BooksInv /\ [Next]_vars =>
        [ /\ now' = now /\ quotes' = quotes /\ contract' = contract
          /\ acted_on_prices[LENDING] > 0
          => \A b \in Borrowers : health_of(b) = Healthy => health_of(b)' = Healthy ]_vars
  BY HealthStep, NextInv DEF BooksInv
<1> QED
  BY <1>1, BooksInvIsInvariant, PTL DEF Spec, HealthyStaysHealthy

-----------------------------------------------------------------------------
\* The position a borrower is shown is the one the handlers judge.  A loan or
\* a removal against one leaves both healths shown Healthy.
LEMMA CreditIsShownHealthy ==
    ASSUME Inv, Inv', SettingsOK, DebtIsAlwaysSecured', NEW b \in Borrowers, [Next]_vars,
           Granted(b), scaled_borrow'[b] > 0
    PROVE  /\ position_answered(b)'
           /\ query_borrower_position(b)'.health = Healthy
           /\ query_borrower_position(b)'.liquidation_health = Healthy
<1> DEFINE held == borrower_collateral'[b]
<1>1. /\ UNCHANGED <<now, quotes, contract>>
      /\ healthy_at_fresh_prices(held, debt_left(b))
  BY DEF Granted
<1>2. /\ held \in Holdings /\ scaled_borrow'[b] \in Nat
      /\ accrued.borrow_index \in Nat /\ accrued.borrow_index > 0
  BY AccruedFacts DEF Inv, TypeOK, Amount, Holdings
<1>3. ~is_empty(held)
  BY DEF DebtIsAlwaysSecured
<1>4. underlying_debt(b)' = debt_left(b)
  BY <1>1, IndexWithinBlock DEF underlying_debt, debt_left
<1>5. debt_left(b) \in Nat
  BY <1>2, ConversionTypes DEF debt_left
<1>6. fresh_prices' = fresh_prices /\ acted_on_prices' = acted_on_prices
  BY <1>1 DEF fresh_prices, acted_on_prices
<1>7. position_answered(b)'
  BY <1>1 DEF position_answered, healthy_at_fresh_prices
<1>8. get_borrower_health(contract, fresh_prices, held, debt_left(b)) = Healthy
  BY <1>1 DEF healthy_at_fresh_prices, fresh_prices
<1>9. get_borrower_health(contract, acted_on_prices, held, debt_left(b)) = Healthy
  BY <1>1, <1>2, <1>5, GrantedIsHealthy
<1>10. shown_health(b, fresh_prices)' = Healthy /\ shown_health(b, acted_on_prices)' = Healthy
  BY <1>1, <1>3, <1>4, <1>6, <1>8, <1>9 DEF shown_health
<1> QED
  BY <1>7, <1>10 DEF query_borrower_position

\* Debt grows, or collateral is taken out at the same debt, only when credit is
\* granted.
LEMMA CreditIsGranted ==
    ASSUME Inv, Inv', [Next]_vars, NEW b \in Borrowers, scaled_borrow'[b] > 0,
           \/ scaled_borrow'[b] > scaled_borrow[b]
           \/ /\ scaled_borrow'[b] = scaled_borrow[b]
              /\ \E a \in Collaterals : taken(b)[a] > 0
    PROVE  Granted(b)
<1>1. /\ scaled_borrow[b] \in Nat /\ scaled_borrow'[b] \in Nat
      /\ \A a \in Collaterals : /\ borrower_collateral[b][a] \in Nat
                                /\ borrower_collateral'[b][a] \in Nat
  BY DEF Inv, TypeOK, Amount
<1>2. ~Eased(b)
  BY <1>1 DEF Eased, taken
<1>3. ~Closed(b) /\ ~Filled(b)
  BY <1>1 DEF Closed, Filled
<1> QED
  BY <1>2, <1>3, BorrowerIsJudged

\* Collateral that nobody offered is seized from who is shown Liquidatable.
LEMMA SeizedIsShownLiquidatable ==
    ASSUME Inv, Inv', [Next]_vars, NEW b \in Borrowers, seized_from(b),
           is_empty(directed_sale[b].amounts)
    PROVE  query_borrower_position(b).liquidation_health = Liquidatable
<1>1. PICK s \in Operators, z \in Inputs.seizures, x \in Inputs.payments : Liquidate(s, b, z, x)
  BY SeizureIsLiquidation
<1>2. PICK f : f = figures(b, z, x)
  OBVIOUS
<1>3. /\ can_liquidate(s, f)
      /\ f.held = borrower_collateral[b] /\ f.seize = z
      /\ f.debt = debt_of(b) /\ f.prices = acted_on_prices
      /\ f.directed => is_seize_within_offer(directed_sale[b].amounts, z)
  BY <1>1, <1>2, SeizureFigures
<1>4. ~is_seize_within_offer(directed_sale[b].amounts, z)
  <2>1. z \in [Collaterals -> Nat]
    BY InputsAssumption DEF Amount
  <2> QED
    BY <2>1 DEF is_seize_within_offer, is_empty
<1>5. /\ get_borrower_health(contract, f.prices, f.held, f.debt) = Liquidatable
      /\ ~is_empty(f.held)
  BY <1>3, <1>4 DEF can_liquidate, may_be_liquidated, has_position
<1>6. underlying_debt(b) = debt_of(b)
  BY DEF underlying_debt, debt_of
<1>7. shown_health(b, acted_on_prices) = Liquidatable
  BY <1>3, <1>5, <1>6 DEF shown_health
<1> QED
  BY <1>7 DEF query_borrower_position

\* The handlers keep to what the position shows, where one scaled unit of debt
\* never prices to zero: credit leaves the borrower shown Healthy, to
\* liquidators as well, and a seizure without an offer finds the borrower shown
\* Liquidatable.
THEOREM PositionIsTheOneJudged ==
    ASSUME LendingPricesCount
    PROVE  Spec => PositionShownIsTheOneJudged
<1>1. SecuredInv /\ SecuredInv' /\ [Next]_vars =>
        [ \A b \in Borrowers :
          /\ /\ scaled_borrow'[b] > 0
             /\ \/ scaled_borrow'[b] > scaled_borrow[b]
                \/ /\ scaled_borrow'[b] = scaled_borrow[b]
                   /\ \E a \in Collaterals : taken(b)[a] > 0
             => /\ position_answered(b)'
                /\ query_borrower_position(b)'.health = Healthy
                /\ query_borrower_position(b)'.liquidation_health = Healthy
          /\ seized_from(b) /\ is_empty(directed_sale[b].amounts) /\ position_answered(b)
             => query_borrower_position(b).liquidation_health = Liquidatable ]_vars
  <2> SUFFICES ASSUME SecuredInv, SecuredInv', [Next]_vars, NEW b \in Borrowers
               PROVE  /\ /\ scaled_borrow'[b] > 0
                         /\ \/ scaled_borrow'[b] > scaled_borrow[b]
                            \/ /\ scaled_borrow'[b] = scaled_borrow[b]
                               /\ \E a \in Collaterals : taken(b)[a] > 0
                         => /\ position_answered(b)'
                            /\ query_borrower_position(b)'.health = Healthy
                            /\ query_borrower_position(b)'.liquidation_health = Healthy
                      /\ seized_from(b) /\ is_empty(directed_sale[b].amounts)
                           /\ position_answered(b)
                         => query_borrower_position(b).liquidation_health = Liquidatable
    OBVIOUS
  <2>1. Inv /\ Inv' /\ SettingsOK /\ DebtIsAlwaysSecured'
    BY DEF SecuredInv, BooksInv
  <2> QED
    BY <2>1, CreditIsGranted, CreditIsShownHealthy, SeizedIsShownLiquidatable
<1> QED
  BY <1>1, SecuredInvIsInvariant, PTL DEF Spec, PositionShownIsTheOneJudged

-----------------------------------------------------------------------------
\* Bad debt.

\* A set of payments has a least one.
LEMMA LeastPayment ==
    ASSUME NEW n \in Nat, NEW S \in SUBSET (1 .. n), S # {}
    PROVE  Min(S) \in S
<1> DEFINE F == {1 .. x : x \in S}
<1>1. IsFiniteSet(1 .. n) /\ S \subseteq Nat
  BY FS_Interval
<1>2. F \in SUBSET SUBSET (1 .. n) /\ F # {}
  <2>1. \A x \in S : x \in Nat /\ x <= n
    OBVIOUS
  <2>2. ASSUME NEW x \in S PROVE (1 .. x) \subseteq (1 .. n)
    BY <2>1
  <2>3. PICK x \in S : TRUE
    OBVIOUS
  <2>4. 1 .. x \in F
    BY <2>3
  <2>5. ASSUME NEW U \in F PROVE U \in SUBSET (1 .. n)
    BY <2>2, <2>5
  <2> QED
    BY <2>4, <2>5
<1>3. PICK T \in F : \A U \in F : U \subseteq T => U = T
  <2> HIDE DEF F
  <2>1. PICK D : D = 1 .. n
    OBVIOUS
  <2>2. IsFiniteSet(D)
    BY <1>1, <2>1
  <2>3. F \in SUBSET SUBSET D
    BY <1>2, <2>1
  <2>4. F # {}
    BY <1>2
  <2> QED
    BY <2>2, <2>3, <2>4, LeastSubset
<1>4. PICK x \in S : T = 1 .. x
  BY <1>3
<1>5. ASSUME NEW y \in S, y < x PROVE FALSE
  <2>1. x \in Nat /\ y \in Nat /\ x \in 1 .. x /\ x \notin 1 .. y /\ 1 .. y \subseteq 1 .. x
    BY <1>1, <1>5
  <2>2. 1 .. y \in F
    OBVIOUS
  <2> QED
    BY <1>3, <1>4, <2>1, <2>2
<1>6. \A y \in S : x <= y
  BY <1>1, <1>5
<1> QED
  BY <1>6 DEF Min

\* What has no price is worth nothing, and nothing of it is worth nothing.
LEMMA Worthless ==
    ASSUME NEW p, NEW n \in Nat, NEW a \in Denoms, p[a] \in Nat, p[a] = 0 \/ n = 0
    PROVE  value_usd(p, a, n) = 0
<1>1. p[a] * n = 0 /\ UNIT[a] \in Nat \ {0}
  BY PricingAssumption
<1> QED
  BY <1>1 DEF value_usd

\* Taking everything that is priced leaves nothing of value, and is worth all
\* there is.
LEMMA PricedHoldingIsAll ==
    ASSUME Inv, NEW b \in Borrowers
    PROVE  /\ priced_holding(b) \in [Collaterals -> Nat]
           /\ calculate_total_collateral_value_usd(contract, acted_on_prices,
                 [a \in Collaterals |->
                    saturating_sub(borrower_collateral[b][a], priced_holding(b)[a])]) = 0
           /\ market_value_usd(acted_on_prices, priced_holding(b))
                = market_value_usd(acted_on_prices, borrower_collateral[b])
<1> DEFINE P    == acted_on_prices
           held == borrower_collateral[b]
           left == [a \in Collaterals |-> saturating_sub(held[a], priced_holding(b)[a])]
           rest == [a \in Collaterals |->
                      checked_mul(value_usd(P, a, left[a]), haircut_percentage(contract, a))]
<1>1. ASSUME NEW a \in Collaterals
      PROVE  /\ a \in Denoms /\ P[a] \in Nat /\ held[a] \in Nat
             /\ priced_holding(b)[a] = IF P[a] > 0 THEN held[a] ELSE 0
  BY StoredTypes, PriceTypes DEF Denoms, priced_holding
<1>2. priced_holding(b) \in [Collaterals -> Nat]
  BY <1>1 DEF priced_holding
<1>3. ASSUME NEW a \in Collaterals PROVE rest[a] = 0
  <2>1. left[a] = IF P[a] > 0 THEN 0 ELSE held[a]
    BY <1>1 DEF saturating_sub
  <2>2. value_usd(P, a, left[a]) = 0
    <3> HIDE DEF left, P, held
    <3>1. left[a] \in Nat /\ (P[a] = 0 \/ left[a] = 0)
      BY <1>1, <2>1
    <3> QED
      BY <1>1, <3>1, Worthless
  <2>3. haircut_percentage(contract, a) \in Nat
    BY OneAssumption DEF haircut_percentage, Inv, TypeOK, Config, Atomics
  <2> HIDE DEF left, P, held
  <2> QED
    BY <2>2, <2>3, OneAssumption DEF checked_mul
<1>4. calculate_total_collateral_value_usd(contract, P, left) = 0
  <2>1. calculate_total_collateral_value_usd(contract, P, left) = SumFunctionOnSet(rest, Collaterals)
    BY DEF calculate_total_collateral_value_usd, SumFunction
  <2> HIDE DEF rest
  <2> QED
    BY <1>3, <2>1, FiniteAssumption, SumOfZeros
<1>5. ASSUME NEW a \in Collaterals
      PROVE  value_usd(P, a, priced_holding(b)[a]) = value_usd(P, a, held[a])
  <2>1. CASE P[a] > 0
    BY <1>1, <2>1
  <2>2. CASE P[a] = 0
    <3> HIDE DEF P, held
    <3>1. priced_holding(b)[a] = 0
      BY <1>1, <2>2
    <3> QED
      BY <1>1, <2>2, <3>1, Worthless
  <2> QED
    BY <1>1, <2>1, <2>2
<1>6. [a \in Collaterals |-> value_usd(P, a, priced_holding(b)[a])]
        = [a \in Collaterals |-> value_usd(P, a, held[a])]
  BY <1>5
<1>7. market_value_usd(P, priced_holding(b)) = market_value_usd(P, held)
  BY <1>6 DEF market_value_usd
<1> QED
  BY <1>2, <1>4, <1>7

\* In the order of the handler, the least payment for all that is priced passes
\* every check, once the loss can be allocated (liquidate.rs sections 2 to 8).
LEMMA WriteOffIsAccepted ==
    ASSUME SecuredInv, QueryInv, NotPaused, acted_on_prices[LENDING] > 0,
           NEW b \in Borrowers, is_underwater(b), within_bound(b),
           NEW paid \in payments_for_all(b),
           NEW f, f = figures(b, priced_holding(b), paid), books_balance(f)
    PROVE  can_liquidate(authorized_liquidator, f)
<1> DEFINE P    == acted_on_prices
           held == borrower_collateral[b]
           all  == priced_holding(b)
           max  == contract.max_liquidation_staleness_seconds
<1>0. Inv /\ BooksAgree /\ HeldIsListed /\ DebtIsAlwaysSecured
  BY DEF SecuredInv, QueryInv, BooksInv
<1>1. /\ all \in [Collaterals -> Nat]
      /\ market_value_usd(P, all) = market_value_usd(P, held)
      /\ calculate_total_collateral_value_usd(contract, P,
            [a \in Collaterals |-> saturating_sub(held[a], all[a])]) = 0
      /\ \A a \in Collaterals : /\ held[a] \in Nat
                                /\ P[a] \in Nat
                                /\ all[a] = IF P[a] > 0 THEN held[a] ELSE 0
                                /\ P[a] > 0 <=> usable(quotes, now, max, a)
  <2>1. \A a \in Collaterals : /\ a \in Denoms
                               /\ quotes[a].usd \in Nat
                               /\ P[a] = IF usable(quotes, now, max, a) THEN quotes[a].usd ELSE 0
    BY <1>0 DEF Inv, TypeOK, Quotes, Atomics, Denoms, acted_on_prices, liquidation_prices
  <2>2. \A a \in Collaterals : P[a] \in Nat /\ (P[a] > 0 <=> usable(quotes, now, max, a))
    BY <2>1 DEF usable
  <2>3. \A a \in Collaterals : all[a] = IF P[a] > 0 THEN held[a] ELSE 0
    BY DEF priced_holding
  <2>4. \A a \in Collaterals : held[a] \in Nat
    BY <1>0, StoredTypes
  <2> HIDE DEF P, held, all, max
  <2> QED
    BY <1>0, <2>2, <2>3, <2>4, PricedHoldingIsAll DEF P, held, all
\* What is paid: some of the debt, less than all of it.
<1>2. /\ scaled_borrow[b] \in Nat /\ debt_of(b) \in Nat /\ payoff_of(b) \in Nat
      /\ debt_of(b) <= payoff_of(b)
      /\ accrued.borrow_index \in Nat \ {0}
  <2>1. scaled_borrow[b] \in Nat /\ accrued.borrow_index \in Nat /\ accrued.borrow_index > 0
    BY <1>0, StoredTypes, AccruedFacts, OneAssumption DEF Reserve, Atomics, Sound
  <2>2. scaled_borrow[b] * ONE \in Nat
    BY <2>1, OneAssumption
  <2>3. PICK worth : worth = checked_mul(scaled_borrow[b] * ONE, accrued.borrow_index)
    OBVIOUS
  <2>4. worth \in Nat
    BY <2>1, <2>2, <2>3, DecimalTypes
  <2>5. floor_to_u128(worth) \in Nat /\ ceil_to_u128(worth) \in Nat
        /\ floor_to_u128(worth) <= ceil_to_u128(worth)
    <3>1. worth \div ONE \in Nat
      BY <2>4, OneAssumption, DivisionBounds
    <3> QED
      BY <3>1 DEF floor_to_u128, ceil_to_u128
  <2>6. debt_of(b) = floor_to_u128(worth) /\ payoff_of(b) = ceil_to_u128(worth)
    BY <2>3
    DEF debt_of, payoff_of, scaled_to_underlying_borrow, scaled_to_underlying_borrow_ceil
  <2>7. accrued.borrow_index \in Nat \ {0}
    BY <2>1
  <2> QED
    BY <2>1, <2>5, <2>6, <2>7
<1>3. /\ paid \in Nat /\ paid >= 1 /\ paid < debt_of(b)
      /\ market_value_usd(P, held)
           <= checked_mul(value_usd(P, LENDING, paid), contract.liquidation_bonus_rate)
      /\ scaled_repaid(scaled_borrow[b], paid, payoff_of(b), accrued.borrow_index) > 0
  BY <1>2 DEF payments_for_all
<1>4. lesser(paid, payoff_of(b)) = paid /\ ~(paid >= payoff_of(b))
  BY <1>2, <1>3 DEF lesser
<1>5. PICK cancelled : cancelled = underlying_to_scaled_borrow(paid, accrued.borrow_index)
  OBVIOUS
<1>6. /\ scaled_repaid(scaled_borrow[b], paid, payoff_of(b), accrued.borrow_index) = cancelled
      /\ cancelled \in Nat /\ cancelled > 0 /\ cancelled < scaled_borrow[b]
  <2>1. scaled_repaid(scaled_borrow[b], paid, payoff_of(b), accrued.borrow_index) = cancelled
    BY <1>4, <1>5 DEF scaled_repaid
  <2>2. cancelled < scaled_borrow[b]
    <3>1. paid < scaled_to_underlying_borrow_ceil(scaled_borrow[b], accrued.borrow_index)
      BY <1>2, <1>3 DEF payoff_of
    <3>2. paid \in Nat
      BY <1>3
    <3> QED
      BY <1>2, <1>5, <3>1, <3>2, PartialPaymentLeavesDebt
  <2>3. cancelled \in Nat
    <3>1. accrued.borrow_index \in Nat /\ accrued.borrow_index > 0
      BY <1>2
    <3> QED
      BY <1>3, <1>5, <3>1, ConversionTypes
  <2> QED
    BY <1>3, <2>1, <2>2, <2>3
<1>7. /\ f.r = accrued /\ f.held = held /\ f.seize = all /\ f.sent = paid
      /\ f.scaled = scaled_borrow[b] /\ f.debt = debt_of(b) /\ f.payoff = payoff_of(b)
      /\ f.prices = P
      /\ f.dead = unpriceable(quotes, now, max, held)
  BY DEF figures, debt_of, payoff_of, acted_on_prices
<1>8. f.repaid = paid /\ f.removed = cancelled /\ f.residue = scaled_borrow[b] - cancelled
  BY <1>4, <1>6 DEF figures, payoff_of
<1>9. f.bad_debt
  BY <1>1, <1>2, <1>6, <1>8 DEF figures, acted_on_prices
<1> HIDE DEF P, held, all, max
\* Section by section.
<1>10. has_position(f)
  <2>1. ~is_empty(held)
    BY <1>0, <1>2, <1>6 DEF DebtIsAlwaysSecured, held
  <2> QED
    BY <1>2, <1>3, <1>6, <1>7, <2>1 DEF has_position, P
<1>11. may_be_liquidated(f)
  BY <1>7 DEF may_be_liquidated, is_underwater, health_of, P, held
<1>12. ASSUME NEW a \in Collaterals
       PROVE  total_collateral[a] >= held[a] /\ bank[a] >= held[a]
  <2> DEFINE rows == [d \in Borrowers |-> borrower_collateral[d][a]]
  <2>1. /\ \A d \in Borrowers : rows[d] \in Nat
        /\ DOMAIN rows = Borrowers /\ rows[b] = held[a]
        /\ total_collateral[a] \in Nat /\ bank[a] \in Nat
    BY <1>0, StoredTypes DEF held
  <2>2. total_collateral[a] = SumFunction(rows) /\ total_collateral[a] <= bank[a]
    BY <1>0 DEF BooksAgree
  <2> HIDE DEF rows
  <2>3. rows[b] <= SumFunctionOnSet(rows, Borrowers)
    BY <2>1, FiniteAssumption, SumOfNaturals
  <2> QED
    BY <1>1, <2>1, <2>2, <2>3 DEF SumFunction
<1>13. seizure_is_possible(f)
  <2>1. ASSUME NEW a \in held_types(all)
        PROVE  contract.supported[a] > 0 /\ held[a] >= all[a] /\ a \notin f.dead
    <3>1. a \in Collaterals /\ all[a] > 0
      BY DEF held_types
    <3>2. P[a] > 0 /\ all[a] = held[a] /\ held[a] \in Nat /\ held[a] > 0
      BY <1>1, <3>1
    <3>3. total_collateral[a] > 0
      BY <1>0, <1>12, <3>1, <3>2, StoredTypes
    <3> QED
      BY <1>0, <1>1, <1>7, <3>1, <3>2, <3>3 DEF HeldIsListed, unpriceable
  <2>2. ASSUME is_empty(all), NEW a \in held_types(held) PROVE a \in f.dead
    <3>1. a \in Collaterals /\ held[a] > 0
      BY DEF held_types
    <3>2. ~(P[a] > 0)
      BY <1>1, <2>2, <3>1 DEF is_empty
    <3> QED
      BY <1>1, <1>7, <3>1, <3>2 DEF unpriceable
  <2> QED
    BY <1>7, <2>1, <2>2 DEF seizure_is_possible
<1>14. require_owner_for_unpriceable(f, authorized_liquidator)
  BY DEF require_owner_for_unpriceable, authorized_liquidator, is_owner, assert_owner,
         LiquidatorOnly, Permissionless
<1>15. writeoff_is_insolvent(f)
  BY <1>7 DEF writeoff_is_insolvent, is_underwater, P, held
<1>16. within_value_band(f)
  BY <1>1, <1>3, <1>7, <1>8, <1>9 DEF within_value_band
<1>17. leaves_healthy_or_closed(f)
  BY <1>2, <1>3, <1>7, <1>9 DEF leaves_healthy_or_closed
<1>18. bank[LENDING] + f.repaid <= MaxCash
  <2>1. bank[LENDING] \in Nat
    BY <1>0, StoredTypes
  <2>2. MaxCash >= bank[LENDING] + payoff_of(b)
    BY DEF within_bound
  <2> QED
    BY <1>2, <1>3, <1>8, <2>1, <2>2, BoundAssumption
<1>19. outgoing(f) = held
  BY <1>7, <1>9 DEF outgoing
<1>20. contract.liquidation_access = LiquidatorOnly => assert_liquidator(authorized_liquidator)
  BY DEF assert_liquidator, authorized_liquidator
<1>21. f.sent >= 1 /\ f.removed > 0 /\ f.residue >= 0
  BY <1>2, <1>3, <1>6, <1>7, <1>8
<1> QED
  BY <1>10, <1>11, <1>12, <1>13, <1>14, <1>15, <1>16, <1>17, <1>18, <1>19, <1>20, <1>21
  DEF can_liquidate

\* No bad debt is stuck, in any pool, after any sequence of messages, where one
\* unit of debt never prices to zero.
THEOREM BadDebtIsNotStuck ==
    ASSUME LendingPricesCount
    PROVE  Spec => []BadDebtCanBeCleared
<1>1. SecuredInv /\ QueryInv => BadDebtCanBeCleared
  <2> SUFFICES ASSUME SecuredInv, QueryInv, NotPaused, acted_on_prices[LENDING] > 0,
                      NEW b \in Borrowers, is_underwater(b), within_bound(b),
                      payments_for_all(b) # {},
                      NEW f, f = figures(b, priced_holding(b), Min(payments_for_all(b))),
                      books_balance(f)
               PROVE  can_liquidate(authorized_liquidator, f)
    BY DEF BadDebtCanBeCleared
  <2>1. debt_of(b) \in Nat
    <3>1. Inv
      BY DEF QueryInv, BooksInv
    <3> QED
      BY <3>1, StoredTypes, AccruedFacts, ConversionTypes, OneAssumption
      DEF debt_of, Reserve, Atomics, Sound
  <2>2. PICK n \in Nat : payments_for_all(b) \subseteq 1 .. n
    <3>1. payments_for_all(b) \subseteq 1 .. debt_of(b)
      BY <2>1 DEF payments_for_all
    <3> QED
      BY <2>1, <3>1
  <2>3. PICK S : S = payments_for_all(b)
    OBVIOUS
  <2>4. Min(S) \in S
    BY <2>2, <2>3, LeastPayment
  <2>5. Min(payments_for_all(b)) \in payments_for_all(b)
    BY <2>3, <2>4
  <2> QED
    BY <2>5, WriteOffIsAccepted
<1> QED
  BY <1>1, SecuredInvIsInvariant, QueryInvIsInvariant, PTL

-----------------------------------------------------------------------------
\* The rate charged and the rate shown.

\* A common factor is cancelled.
LEMMA Cancel ==
    ASSUME NEW x \in Int, NEW y \in Int, NEW c \in Nat \ {0}, c * x <= c * y
    PROVE  x <= y
<1> SUFFICES ASSUME y + 1 <= x PROVE FALSE
  OBVIOUS
<1>1. PICK gap \in Nat : x = y + 1 + gap
  <2>1. x - (y + 1) \in Nat /\ x = y + 1 + (x - (y + 1))
    OBVIOUS
  <2> QED
    BY <2>1
<1>2. c * x = c * y + c + c * gap
  BY <1>1
<1>3. c * gap >= 0 /\ c * gap \in Int /\ c * y \in Int
  OBVIOUS
<1> QED
  BY <1>2, <1>3

\* A fraction that is no smaller has no smaller quotient.
LEMMA QuotientMonotone ==
    ASSUME NEW a \in Nat, NEW b \in Nat \ {0}, NEW c \in Nat, NEW d \in Nat \ {0},
           a * d <= c * b
    PROVE  a \div b <= c \div d
<1>1. PICK q \in Nat : q = a \div b /\ b * q <= a
  BY DivisionBounds
<1>2. (b * q) * d <= a * d
  BY <1>1, ProductMonotone
<1>3. b * (q * d) <= b * c
  <2>1. PICK k \in Nat : k = q * d
    BY <1>1
  <2>2. b * k = (b * q) * d
    BY <1>1, <2>1
  <2>3. b * c = c * b /\ b * k \in Nat /\ b * c \in Nat /\ a * d \in Nat
    BY <2>1
  <2> QED
    BY <1>2, <2>1, <2>2, <2>3
<1>4. c >= q * d
  BY <1>1, <1>3, Cancel
<1> QED
  BY <1>1, <1>4, FloorReaches

\* The curve never falls as utilization grows, not at the kink either.
LEMMA CurveIsMonotone ==
    ASSUME NEW p \in RateParams, valid_rate_params(p), NEW u \in Nat, NEW v \in Nat, u <= v
    PROVE  borrower_rate_from_utilization(p, u) <= borrower_rate_from_utilization(p, v)
<1>1. PICK low, mid, high, kink \in Nat :
         /\ low = p.min_rate /\ mid = p.target_rate
         /\ high = p.max_rate /\ kink = p.kink_utilization
  BY DEF RateParams, Atomics
<1>2. low <= mid /\ mid <= high /\ 0 < kink /\ kink < ONE
  BY <1>1 DEF valid_rate_params
<1>3. PICK rise, steep, width \in Nat :
         rise = mid - low /\ steep = high - mid /\ width = ONE - kink
  BY <1>2, OneAssumption
<1>4. PICK slope \in Nat : slope = checked_div(rise, kink) /\ kink * slope <= rise * ONE
  <2>1. rise * ONE \in Nat /\ kink \in Nat \ {0}
    BY <1>2, OneAssumption
  <2> QED
    BY <2>1, DivisionBounds DEF checked_div
<1>5. PICK slope2 \in Nat : slope2 = checked_div(steep, width)
  BY <1>2, <1>3, OneAssumption, DecimalTypes
<1>6. ASSUME NEW x \in Nat, x <= kink
      PROVE  /\ borrower_rate_from_utilization(p, x) = low + checked_mul(slope, x)
             /\ borrower_rate_from_utilization(p, x) <= mid
  <2>1. borrower_rate_from_utilization(p, x) = low + checked_mul(slope, x)
    BY <1>1, <1>3, <1>4, <1>6 DEF borrower_rate_from_utilization, below_kink_rate
  <2>2. slope * x <= rise * ONE
    <3>1. slope * x <= kink * slope
      BY <1>6, ProductMonotone
    <3> QED
      BY <1>3, <1>4, <3>1, OneAssumption
  <2>3. checked_mul(slope, x) <= rise /\ checked_mul(slope, x) \in Nat
    <3>1. slope * x \in Nat /\ rise * ONE \in Nat /\ (rise * ONE) \div ONE = rise
      BY OneAssumption
    <3> QED
      BY <2>2, <3>1, OneAssumption, DivisionMonotone, DivisionBounds DEF checked_mul
  <2> QED
    BY <1>3, <2>1, <2>3
<1>7. ASSUME NEW x \in Nat, ~(x <= kink)
      PROVE  /\ borrower_rate_from_utilization(p, x)
                  = lesser(mid + checked_mul(slope2, x - kink), high)
             /\ borrower_rate_from_utilization(p, x) >= mid
  <2>1. borrower_rate_from_utilization(p, x)
           = lesser(mid + checked_mul(slope2, x - kink), high)
    BY <1>1, <1>3, <1>5, <1>7 DEF borrower_rate_from_utilization, above_kink_rate
  <2>2. checked_mul(slope2, x - kink) \in Nat
    BY <1>7, DecimalTypes
  <2> QED
    BY <1>2, <2>1, <2>2 DEF lesser
<1>8. CASE v <= kink
  <2>1. checked_mul(slope, u) <= checked_mul(slope, v)
    BY MulMonotone
  <2>2. checked_mul(slope, u) \in Nat /\ checked_mul(slope, v) \in Nat
    BY DecimalTypes
  <2> QED
    BY <1>6, <1>8, <2>1, <2>2
<1>9. CASE u <= kink /\ ~(v <= kink)
  <2>1. borrower_rate_from_utilization(p, u) \in Nat /\ borrower_rate_from_utilization(p, v) \in Nat
    BY BorrowerRateType
  <2> QED
    BY <1>6, <1>7, <1>9, <2>1
<1>10. CASE ~(u <= kink)
  <2>1. ~(v <= kink)
    BY <1>10
  <2>2. u - kink \in Nat /\ v - kink \in Nat /\ u - kink <= v - kink
    BY <1>10
  <2>3. /\ checked_mul(slope2, u - kink) <= checked_mul(slope2, v - kink)
        /\ checked_mul(slope2, u - kink) \in Nat /\ checked_mul(slope2, v - kink) \in Nat
    BY <2>2, MulMonotone, DecimalTypes
  <2> QED
    BY <1>7, <1>10, <2>1, <2>3 DEF lesser
<1> QED
  BY <1>8, <1>9, <1>10

\* From utilization 1 on the curve is at its maximum, up to the atomic that
\* the truncated slope may leave out; it is nowhere above.
LEMMA CurveEndsAtMaximum ==
    ASSUME NEW p \in RateParams, valid_rate_params(p), NEW u \in Nat, NEW v \in Nat, v >= ONE
    PROVE  borrower_rate_from_utilization(p, u) <= borrower_rate_from_utilization(p, v) + 1
<1>1. PICK mid, high, kink \in Nat :
         mid = p.target_rate /\ high = p.max_rate /\ kink = p.kink_utilization
  BY DEF RateParams, Atomics
<1>2. p.min_rate \in Nat /\ p.min_rate <= mid /\ mid <= high /\ 0 < kink /\ kink < ONE
  BY <1>1 DEF valid_rate_params, RateParams, Atomics
<1>3. PICK steep, width \in Nat : steep = high - mid /\ width = ONE - kink
  BY <1>2, OneAssumption
<1>4. 0 < width /\ width < ONE
  BY <1>2, <1>3, OneAssumption
<1>5. PICK slope \in Nat : /\ slope = checked_div(steep, width)
                           /\ steep * ONE < width * slope + width
  <2>1. steep * ONE \in Nat /\ width \in Nat \ {0}
    BY <1>4, OneAssumption
  <2> QED
    BY <2>1, DivisionBounds DEF checked_div
<1>6. ~(v <= kink) /\ v - kink \in Nat /\ width <= v - kink
  BY <1>2, <1>3, OneAssumption
<1>7. borrower_rate_from_utilization(p, v) = lesser(mid + checked_mul(slope, v - kink), high)
  BY <1>1, <1>3, <1>5, <1>6 DEF borrower_rate_from_utilization, above_kink_rate
<1>8. checked_mul(slope, v - kink) \in Nat /\ checked_mul(slope, v - kink) + 1 >= steep
  <2>1. PICK far \in Nat : far = v - kink /\ width * slope <= slope * far
    BY <1>6, ProductMonotone
  <2>2. PICK part \in Nat : /\ part = checked_mul(slope, far)
                            /\ slope * far < ONE * part + ONE
    <3>1. slope * far \in Nat
      OBVIOUS
    <3> QED
      BY <3>1, OneAssumption, DivisionBounds DEF checked_mul
  <2>3. ONE * steep < ONE * (part + 2)
    <3>1. PICK area \in Nat : area = slope * far
      OBVIOUS
    <3>2. PICK base \in Nat : base = width * slope
      OBVIOUS
    <3>3. steep * ONE < area + ONE
      BY <1>4, <1>5, <2>1, <3>1, <3>2, OneAssumption
    <3>4. ONE * (part + 2) = ONE * part + ONE + ONE /\ ONE * steep = steep * ONE
      BY OneAssumption
    <3> QED
      BY <2>2, <3>1, <3>3, <3>4, OneAssumption
  <2>4. steep < part + 2
    <3>1. CASE part + 2 <= steep
      <4>1. ONE * (part + 2) <= ONE * steep
        BY <3>1, OneAssumption, ProductMonotone
      <4> QED
        BY <2>3, <4>1, OneAssumption
    <3> QED
      BY <3>1
  <2> QED
    BY <2>1, <2>2, <2>4
<1>9. borrower_rate_from_utilization(p, v) + 1 >= high
  BY <1>3, <1>7, <1>8 DEF lesser
<1>10. borrower_rate_from_utilization(p, u) \in Nat /\ borrower_rate_from_utilization(p, v) \in Nat
  BY BorrowerRateType
<1>11. CASE u <= v
  <2>1. borrower_rate_from_utilization(p, u) <= borrower_rate_from_utilization(p, v)
    BY <1>11, CurveIsMonotone
  <2> QED
    BY <1>10, <2>1
<1>12. CASE v < u
  <2>1. u - kink \in Nat /\ ~(u <= kink)
    BY <1>6, <1>12
  <2>2. borrower_rate_from_utilization(p, u) = lesser(mid + checked_mul(slope, u - kink), high)
    BY <1>1, <1>3, <1>5, <2>1 DEF borrower_rate_from_utilization, above_kink_rate
  <2>3. borrower_rate_from_utilization(p, u) <= high
    <3>1. checked_mul(slope, u - kink) \in Nat
      BY <2>1, DecimalTypes
    <3> QED
      BY <2>2, <3>1 DEF lesser
  <2> QED
    BY <1>9, <1>10, <2>3
<1> QED
  BY <1>11, <1>12

\* Lenders earn at most the borrow rate on what is utilized.
LEMMA LendersEarnAShare ==
    ASSUME NEW r \in Reserve, NEW p \in RateParams, valid_rate_params(p)
    PROVE  ONE * lender_rate(r, p) <= borrower_rate(r, p) * utilization(r)
<1>1. PICK u, br \in Nat : u = utilization(r) /\ br = borrower_rate(r, p) /\ br >= p.min_rate
  BY UtilizationType, BorrowerRateType DEF borrower_rate
<1>2. /\ p.min_rate \in Nat /\ p.reserve_factor \in Nat /\ p.flat_fee_apr \in Nat
      /\ p.reserve_factor < ONE
      /\ p.fee_model # ReserveFactor => p.flat_fee_apr <= p.min_rate
  BY DEF RateParams, valid_rate_params, Atomics
<1>3. lender_rate(r, p) \in Nat /\ lender_rate(r, p) <= checked_mul(br, u)
  <2>1. CASE p.fee_model = ReserveFactor
    <3>1. PICK kept \in Nat : kept = ONE - p.reserve_factor /\ kept <= ONE
      BY <1>2, OneAssumption
    <3>2. checked_mul(u, kept) <= u /\ checked_mul(u, kept) \in Nat
      <4>1. checked_mul(u, kept) <= checked_mul(u, ONE)
        BY <3>1, MulMonotone, OneAssumption
      <4>2. checked_mul(u, ONE) = u
        BY OneAssumption DEF checked_mul
      <4> QED
        BY <4>1, <4>2, DecimalTypes
    <3>3. lender_rate(r, p) = checked_mul(br, checked_mul(u, kept))
      BY <1>1, <2>1, <3>1 DEF lender_rate, lender_rate_from_utilization
    <3> QED
      BY <3>2, <3>3, MulMonotone, DecimalTypes
  <2>2. CASE p.fee_model # ReserveFactor
    <3>1. PICK net \in Nat : net = br - p.flat_fee_apr /\ net <= br
      BY <1>1, <1>2, <2>2
    <3>2. lender_rate(r, p) = checked_mul(net, u)
      BY <1>1, <2>2, <3>1 DEF lender_rate, lender_rate_from_utilization
    <3>3. checked_mul(net, u) <= checked_mul(br, u) /\ checked_mul(net, u) \in Nat
      <4>1. net * u <= br * u /\ net * u \in Nat /\ br * u \in Nat
        BY <3>1, ProductMonotone
      <4> QED
        BY <4>1, OneAssumption, DivisionMonotone, DivisionBounds DEF checked_mul
    <3> QED
      BY <3>2, <3>3
  <2> QED
    BY <2>1, <2>2
<1>4. PICK most \in Nat : most = checked_mul(br, u) /\ ONE * most <= br * u
  <2>1. br * u \in Nat
    OBVIOUS
  <2> QED
    BY <2>1, OneAssumption, DivisionBounds DEF checked_mul
<1>5. ONE * lender_rate(r, p) <= ONE * most
  BY <1>3, <1>4, OneAssumption, ProductMonotone
<1>6. ONE * lender_rate(r, p) \in Nat /\ ONE * most \in Nat /\ br * u \in Nat
  BY <1>3, OneAssumption
<1> QED
  BY <1>1, <1>4, <1>5, <1>6

\* So the lenders' index grows by no larger factor up to utilization 1, and
\* above it by one that leaves utilization at 1 or more.
LEMMA GrowthIsShared ==
    ASSUME NEW lr \in Nat, NEW br \in Nat, NEW u \in Nat, NEW elapsed \in Nat,
           ONE * lr <= br * u
    PROVE  LET gl == index_growth_factor(lr, elapsed)
               gb == index_growth_factor(br, elapsed)
           IN  /\ u <= ONE => gl <= gb
               /\ u > ONE => ONE * gl <= u * gb
<1>1. PICK f \in Nat : f = time_fraction(elapsed)
  <2>1. elapsed * ONE \in Nat
    BY OneAssumption
  <2> QED
    BY <2>1, YearAssumption, DivisionBounds DEF time_fraction, from_ratio
<1>2. PICK m \in Nat : m = checked_mul(lr, f) /\ ONE * m <= lr * f
  <2>1. lr * f \in Nat
    OBVIOUS
  <2> QED
    BY <2>1, OneAssumption, DivisionBounds DEF checked_mul
<1>3. PICK n \in Nat : n = checked_mul(br, f) /\ br * f < ONE * n + ONE
  <2>1. br * f \in Nat
    OBVIOUS
  <2> QED
    BY <2>1, OneAssumption, DivisionBounds DEF checked_mul
<1>4. /\ index_growth_factor(lr, elapsed) = ONE + m
      /\ index_growth_factor(br, elapsed) = ONE + n
  BY <1>1, <1>2, <1>3 DEF index_growth_factor
<1>5. ASSUME u <= ONE PROVE m <= n
  <2>1. br * u <= br * ONE
    BY <1>5, OneAssumption, ProductMonotone
  <2>2. ONE * lr <= ONE * br
    BY <2>1, OneAssumption
  <2>3. lr <= br
    BY <2>2, OneAssumption, Cancel
  <2>4. lr * f <= br * f /\ lr * f \in Nat /\ br * f \in Nat
    BY <2>3, ProductMonotone
  <2> QED
    BY <1>2, <1>3, <2>4, OneAssumption, DivisionMonotone DEF checked_mul
<1>6. ASSUME u > ONE PROVE ONE * (ONE + m) <= u * (ONE + n)
  <2>1. PICK paid \in Nat : paid = br * f /\ paid + 1 <= ONE * (n + 1)
    <3>1. br * f \in Nat /\ ONE * (n + 1) = ONE * n + ONE /\ ONE * n \in Nat
      BY OneAssumption
    <3> QED
      BY <1>3, <3>1, OneAssumption
  <2>2. ONE * (ONE * m) <= u * paid
    <3>1. ONE * (ONE * m) <= ONE * (lr * f)
      <4>1. PICK x, y \in Nat : x = ONE * m /\ y = lr * f
        BY OneAssumption
      <4> QED
        BY <1>2, <4>1, OneAssumption, ProductMonotone
    <3>2. ONE * (lr * f) = (ONE * lr) * f
      BY OneAssumption
    <3>3. (ONE * lr) * f <= (br * u) * f
      <4>1. PICK x, y \in Nat : x = ONE * lr /\ y = br * u
        BY OneAssumption
      <4> QED
        BY <4>1, ProductMonotone
    <3>4. (br * u) * f = u * paid
      BY <2>1
    <3>5. /\ ONE * (ONE * m) \in Nat /\ (ONE * lr) * f \in Nat /\ u * paid \in Nat
      BY OneAssumption, <2>1
    <3> QED
      BY <3>1, <3>2, <3>3, <3>4, <3>5
  <2>3. u * (paid + 1) <= u * (ONE * (n + 1))
    <3>1. PICK y \in Nat : y = ONE * (n + 1)
      BY OneAssumption
    <3> QED
      BY <2>1, <3>1, ProductMonotone
  <2>4. u * (paid + 1) = u * paid + u /\ u * (ONE * (n + 1)) = ONE * (u * (n + 1))
    BY <2>1, OneAssumption
  <2>5. ONE * (ONE * m + 1) <= ONE * (u * (n + 1))
    <3>1. ONE * (ONE * m + 1) = ONE * (ONE * m) + ONE
      BY OneAssumption
    <3>2. /\ ONE * (ONE * m) \in Nat /\ u * paid \in Nat /\ ONE * (u * (n + 1)) \in Nat
      BY OneAssumption, <2>1
    <3> QED
      BY <1>6, <2>2, <2>3, <2>4, <3>1, <3>2, OneAssumption
  <2>6. ONE * m + 1 <= u * (n + 1)
    <3>1. ONE * m + 1 \in Nat /\ u * (n + 1) \in Nat
      BY OneAssumption
    <3> QED
      BY <2>5, <3>1, OneAssumption, Cancel
  <2>7. ONE * ONE + u <= u * ONE + 1
    <3>1. PICK gap \in Nat : u = ONE + 1 + gap
      <4>1. u - ONE - 1 \in Nat /\ u = ONE + 1 + (u - ONE - 1)
        BY <1>6, OneAssumption
      <4> QED
        BY <4>1
    <3>2. gap <= gap * ONE
      BY OneAssumption
    <3>3. u * ONE = ONE * ONE + ONE + gap * ONE
      BY <3>1, OneAssumption
    <3>4. ONE * ONE \in Nat /\ gap * ONE \in Nat
      BY OneAssumption
    <3> QED
      BY <3>1, <3>2, <3>3, <3>4, OneAssumption
  <2>8. /\ ONE * (ONE + m) = ONE * ONE + ONE * m
        /\ u * (ONE + n) = u * ONE + u * n
        /\ u * (n + 1) = u * n + u
    BY OneAssumption
  <2>9. ONE * ONE \in Nat /\ ONE * m \in Nat /\ u * ONE \in Nat /\ u * n \in Nat
    BY OneAssumption
  <2> QED
    BY <2>6, <2>7, <2>8, <2>9
<1>7. ONE + m <= ONE + n <=> m <= n
  BY OneAssumption
<1> QED
  BY <1>4, <1>5, <1>6, <1>7

\* What accrual does to the two indexes: relative to its size, the liquidity
\* index grows by no more than the borrow index and one atomic of it, and by no
\* more than the borrow index alone if its growth factor is the smaller.
LEMMA IndexesGrowTogether ==
    ASSUME NEW li \in Nat, NEW bi \in Nat, bi >= ONE, NEW gl \in Nat, NEW gb \in Nat
    PROVE  /\ checked_mul(li, gl) \in Nat /\ checked_mul(bi, gb) \in Nat
           /\ ONE * checked_mul(li, gl) <= li * gl
           /\ bi * gb <= ONE * (checked_mul(bi, gb) + 1)
           /\ gl <= gb => bi * checked_mul(li, gl) <= (checked_mul(bi, gb) + 1) * li
           /\ gl < gb => bi * checked_mul(li, gl) <= checked_mul(bi, gb) * li
<1>1. PICK x, y \in Nat : x = li * gl /\ y = bi * gb
  OBVIOUS
<1>2. PICK l1, b1 \in Nat : /\ l1 = checked_mul(li, gl) /\ ONE * l1 <= x
                            /\ b1 = checked_mul(bi, gb) /\ y < ONE * b1 + ONE
  BY <1>1, OneAssumption, DivisionBounds DEF checked_mul
<1>3. y <= ONE * (b1 + 1)
  <2>1. ONE * (b1 + 1) = ONE * b1 + ONE /\ ONE * b1 \in Nat
    BY OneAssumption
  <2> QED
    BY <1>2, <2>1, OneAssumption
<1>4. ONE * (bi * l1) <= bi * x
  <2>1. PICK z \in Nat : z = ONE * l1
    BY OneAssumption
  <2>2. bi * z <= bi * x
    BY <1>2, <2>1, ProductMonotone
  <2> QED
    BY <2>1, <2>2, OneAssumption
<1>5. bi * x = (li * bi) * gl /\ y * li = (li * bi) * gb
  BY <1>1
<1>6. ASSUME gl <= gb PROVE bi * l1 <= (b1 + 1) * li
  <2>1. (li * bi) * gl <= (li * bi) * gb
    <3>1. li * bi \in Nat
      OBVIOUS
    <3> QED
      BY <1>6, <3>1, ProductMonotone
  <2>2. y * li <= (ONE * (b1 + 1)) * li
    <3>1. ONE * (b1 + 1) \in Nat
      BY OneAssumption
    <3> QED
      BY <1>3, <3>1, ProductMonotone
  <2>3. (ONE * (b1 + 1)) * li = ONE * ((b1 + 1) * li)
    BY OneAssumption
  <2>4. /\ ONE * (bi * l1) \in Nat /\ bi * x \in Nat /\ y * li \in Nat
        /\ ONE * ((b1 + 1) * li) \in Nat
    BY OneAssumption
  <2>5. ONE * (bi * l1) <= ONE * ((b1 + 1) * li)
    BY <1>4, <1>5, <2>1, <2>2, <2>3, <2>4
  <2>6. bi * l1 \in Nat /\ (b1 + 1) * li \in Nat
    OBVIOUS
  <2> QED
    BY <2>5, <2>6, OneAssumption, Cancel
<1>7. ASSUME gl < gb PROVE bi * l1 <= b1 * li
  <2>1. (li * bi) * (gl + 1) <= (li * bi) * gb
    <3>1. li * bi \in Nat /\ gl + 1 \in Nat /\ gl + 1 <= gb
      BY <1>7
    <3> QED
      BY <3>1, ProductMonotone
  <2>2. (li * bi) * (gl + 1) = (li * bi) * gl + li * bi
    OBVIOUS
  <2>3. li * ONE <= li * bi
    BY OneAssumption, ProductMonotone
  <2>4. y * li <= (ONE * b1 + ONE) * li
    <3>1. ONE * b1 + ONE \in Nat /\ y <= ONE * b1 + ONE
      BY <1>2, OneAssumption
    <3> QED
      BY <3>1, ProductMonotone
  <2>5. (ONE * b1 + ONE) * li = ONE * (b1 * li) + li * ONE
    BY OneAssumption
  <2>6. /\ ONE * (bi * l1) \in Nat /\ bi * x \in Nat /\ y * li \in Nat
        /\ ONE * (b1 * li) \in Nat /\ li * ONE \in Nat /\ li * bi \in Nat
        /\ (li * bi) * gl \in Nat /\ (li * bi) * gb \in Nat
    BY OneAssumption
  <2>7. ONE * (bi * l1) <= ONE * (b1 * li)
    BY <1>4, <1>5, <2>1, <2>2, <2>3, <2>4, <2>5, <2>6
  <2>8. bi * l1 \in Nat /\ b1 * li \in Nat
    OBVIOUS
  <2> QED
    BY <2>7, <2>8, OneAssumption, Cancel
<1> QED
  BY <1>1, <1>2, <1>3, <1>6, <1>7

\* Utilization does not fall when the borrow index grows by no less.
LEMMA UtilizationRises ==
    ASSUME NEW r \in Reserve, NEW e \in Reserve, Sound(r), Sound(e),
           e.total_scaled_liquidity = r.total_scaled_liquidity,
           e.total_scaled_borrow = r.total_scaled_borrow,
           r.borrow_index * e.liquidity_index <= e.borrow_index * r.liquidity_index
    PROVE  utilization(r) <= utilization(e)
<1>1. PICK s, t, li, bi, l1, b1 \in Nat :
         /\ s = r.total_scaled_liquidity /\ t = r.total_scaled_borrow
         /\ li = r.liquidity_index /\ bi = r.borrow_index
         /\ l1 = e.liquidity_index /\ b1 = e.borrow_index
  BY DEF Reserve, Atomics, Amount
<1>2. li > 0 /\ l1 > 0 /\ bi * l1 <= b1 * li
  BY <1>1 DEF Sound
<1>3. /\ total_liquidity(r) = s * li /\ total_liquidity(e) = s * l1
      /\ total_borrow(r) = t * bi /\ total_borrow(e) = t * b1
  BY <1>1 DEF total_liquidity, total_borrow
<1>4. CASE s = 0
  <2>1. s * li = 0 /\ s * l1 = 0
    BY <1>4
  <2> QED
    BY <1>3, <2>1 DEF utilization
<1>5. CASE s > 0
  <2>1. PICK L, M \in Nat \ {0} : L = s * li /\ M = s * l1
    BY <1>2, <1>5
  <2>2. PICK a, c \in Nat : a = (t * bi) * ONE /\ c = (t * b1) * ONE
    BY OneAssumption
  <2>3. PICK k \in Nat : k = (t * s) * ONE
    BY OneAssumption
  <2>4. PICK x, y \in Nat : x = bi * l1 /\ y = b1 * li
    OBVIOUS
  <2>5. k * x <= k * y
    BY <1>2, <2>4, ProductMonotone
  <2>6. a * M = k * x /\ c * L = k * y
    BY <2>1, <2>2, <2>3, <2>4, OneAssumption
  <2>7. a \div L <= c \div M
    BY <2>5, <2>6, QuotientMonotone
  <2>8. utilization(r) = a \div L /\ utilization(e) = c \div M
    BY <1>3, <2>1, <2>2 DEF utilization, checked_div
  <2> QED
    BY <2>7, <2>8
<1> QED
  BY <1>4, <1>5

\* Debts worth the liquidity or more are a utilization of 1 or more.
LEMMA FullUtilization ==
    ASSUME NEW r \in Reserve, total_liquidity(r) > 0, total_liquidity(r) <= total_borrow(r)
    PROVE  utilization(r) >= ONE
<1>1. PICK L, B \in Nat : L = total_liquidity(r) /\ B = total_borrow(r) /\ L > 0 /\ L <= B
  BY UtilizationType
<1>2. ONE * L <= B * ONE /\ B * ONE \in Nat
  BY <1>1, OneAssumption, ProductMonotone
<1>3. (B * ONE) \div L >= ONE
  BY <1>1, <1>2, OneAssumption, FloorReaches
<1> QED
  BY <1>1, <1>3 DEF utilization, checked_div

\* Lenders whose index grows by the larger factor leave debts that were worth
\* more than the liquidity worth it still, but for an atomic of the borrow index.
LEMMA FullStaysFull ==
    ASSUME NEW r \in Reserve, Sound(r), utilization(r) > ONE, NEW gl \in Nat, NEW gb \in Nat,
           ONE * gl <= utilization(r) * gb
    PROVE  r.total_scaled_liquidity * checked_mul(r.liquidity_index, gl)
              <= r.total_scaled_borrow * (checked_mul(r.borrow_index, gb) + 1)
<1>1. PICK s, t, li, bi, u \in Nat :
         /\ s = r.total_scaled_liquidity /\ t = r.total_scaled_borrow
         /\ li = r.liquidity_index /\ bi = r.borrow_index /\ u = utilization(r)
  BY UtilizationType DEF Reserve, Atomics, Amount
<1>2. li \in Nat /\ bi >= ONE
  BY <1>1 DEF Sound
<1>3. PICK l1, b1 \in Nat :
         /\ l1 = checked_mul(li, gl) /\ b1 = checked_mul(bi, gb)
         /\ ONE * l1 <= li * gl /\ bi * gb <= ONE * (b1 + 1)
  <2>1. /\ checked_mul(li, gl) \in Nat /\ checked_mul(bi, gb) \in Nat
        /\ ONE * checked_mul(li, gl) <= li * gl
        /\ bi * gb <= ONE * (checked_mul(bi, gb) + 1)
    BY <1>2, IndexesGrowTogether
  <2> QED
    BY <2>1
<1>4. PICK L, B \in Nat : L = s * li /\ B = t * bi
  OBVIOUS
<1>5. u * L <= B * ONE
  <2>1. L > 0 /\ u = (B * ONE) \div L
    BY <1>1, <1>4, OneAssumption DEF utilization, checked_div, total_liquidity, total_borrow
  <2>2. B * ONE \in Nat
    BY OneAssumption
  <2> QED
    BY <2>1, <2>2, DivisionBounds
\* ONE^2 * (s * l1) <= ONE * (L * gl) <= L * (u * gb) <= ONE * (B * gb) <= ONE^2 * (t * (b1 + 1)).
<1>6. ONE * (s * l1) <= L * gl
  <2>1. PICK x, y \in Nat : x = ONE * l1 /\ y = li * gl
    BY OneAssumption
  <2>2. s * x <= s * y
    BY <1>3, <2>1, ProductMonotone
  <2> QED
    BY <1>4, <2>1, <2>2, OneAssumption
<1>7. ONE * (L * gl) <= (u * L) * gb
  <2>1. PICK x, y \in Nat : x = ONE * gl /\ y = u * gb
    BY OneAssumption
  <2>2. L * x <= L * y
    BY <1>1, <2>1, ProductMonotone
  <2> QED
    BY <2>1, <2>2, OneAssumption
<1>8. (u * L) * gb <= ONE * (B * gb)
  <2>1. PICK x, y \in Nat : x = u * L /\ y = B * ONE
    BY OneAssumption
  <2>2. x * gb <= y * gb
    BY <1>5, <2>1, ProductMonotone
  <2> QED
    BY <2>1, <2>2, OneAssumption
<1>9. B * gb <= ONE * (t * (b1 + 1))
  <2>1. PICK x, y \in Nat : x = bi * gb /\ y = ONE * (b1 + 1)
    BY OneAssumption
  <2>2. t * x <= t * y
    BY <1>3, <2>1, ProductMonotone
  <2> QED
    BY <1>4, <2>1, <2>2, OneAssumption
<1>10. L * gl \in Nat /\ B * gb \in Nat /\ (u * L) * gb \in Nat /\ t * (b1 + 1) \in Nat /\ s * l1 \in Nat
  OBVIOUS
<1>11. L * gl <= B * gb
  <2>1. PICK x, y \in Nat : x = L * gl /\ y = B * gb
    BY <1>10
  <2>2. ONE * x <= ONE * y
    BY <1>7, <1>8, <1>10, <2>1, OneAssumption
  <2> QED
    BY <2>1, <2>2, OneAssumption, Cancel
<1>12. s * l1 <= t * (b1 + 1)
  <2>1. PICK x, y \in Nat : x = s * l1 /\ y = t * (b1 + 1)
    BY <1>10
  <2>2. ONE * x <= ONE * y
    BY <1>6, <1>9, <1>10, <1>11, <2>1, OneAssumption
  <2> QED
    BY <2>1, <2>2, OneAssumption, Cancel
<1> QED
  BY <1>1, <1>3, <1>12

\* The rate charged in a state of the pool, and the one shown.
LEMMA ChargedIsShown ==
    ASSUME Inv
    PROVE  NoDearerThanShown
<1> DEFINE p       == contract.rate_params
           elapsed == time_elapsed(reserve.last_updated_at, now)
           br      == borrower_rate(reserve, p)
           lr      == lender_rate(reserve, p)
           gl      == index_growth_factor(lr, elapsed)
           gb      == index_growth_factor(br, elapsed)
           up      == [accrued EXCEPT !.borrow_index = @ + 1]
           u       == utilization(reserve)
<1>1. /\ reserve \in Reserve /\ Sound(reserve) /\ now \in Nat
      /\ p \in RateParams /\ valid_rate_params(p)
  BY DEF Inv, TypeOK, Config
<1>2. /\ accrued \in Reserve /\ Sound(accrued)
      /\ accrued.total_scaled_liquidity = reserve.total_scaled_liquidity
      /\ accrued.total_scaled_borrow = reserve.total_scaled_borrow
  BY <1>1, AccrualKeepsReserve DEF accrued
<1>3. /\ up \in Reserve /\ Sound(up)
      /\ up.liquidity_index = accrued.liquidity_index
      /\ up.borrow_index = accrued.borrow_index + 1
      /\ up.total_scaled_liquidity = reserve.total_scaled_liquidity
      /\ up.total_scaled_borrow = reserve.total_scaled_borrow
  BY <1>2, OneAssumption DEF Reserve, Sound, Atomics
<1>4. elapsed \in Nat
  BY <1>1, DecimalTypes DEF time_elapsed, Reserve
<1>5. u \in Nat /\ utilization(accrued) \in Nat /\ utilization(up) \in Nat
  BY <1>1, <1>2, <1>3, UtilizationType
<1>6. br \in Nat /\ lr \in Nat /\ ONE * lr <= br * u
  BY <1>1, RateTypes, LendersEarnAShare
<1>7. gl \in Nat /\ gb \in Nat
  BY <1>4, <1>6, GrowthFactor
<1>8. reserve.liquidity_index \in Nat /\ reserve.borrow_index \in Nat /\ reserve.borrow_index >= ONE
  BY <1>1 DEF Sound, Reserve, Atomics
<1>9. br = borrower_rate_from_utilization(p, u)
  BY DEF borrower_rate
<1> HIDE DEF p, elapsed, br, lr, gl, gb, up, u
<1>10. /\ br <= borrower_rate(up, p) + 1
       /\ gl < gb => br <= borrower_rate(accrued, p)
  <2>1. CASE elapsed = 0
    <3>1. accrued = reserve
      BY <2>1 DEF accrued, compute_effective_reserve, elapsed
    <3>2. reserve.borrow_index * up.liquidity_index <= up.borrow_index * reserve.liquidity_index
      BY <1>3, <1>8, <3>1
    <3>3. u <= utilization(up)
      BY <1>1, <1>3, <3>2, UtilizationRises DEF u
    <3>4. br <= borrower_rate(up, p)
      BY <1>1, <1>5, <1>9, <3>3, CurveIsMonotone DEF borrower_rate
    <3>5. borrower_rate(up, p) \in Nat
      BY <1>1, <1>3, RateTypes
    <3> QED
      BY <1>6, <3>1, <3>4, <3>5 DEF br
  <2>2. CASE elapsed # 0
    <3>1. PICK l1, b1 \in Nat :
             /\ l1 = checked_mul(reserve.liquidity_index, gl)
             /\ b1 = checked_mul(reserve.borrow_index, gb)
             /\ gl <= gb => reserve.borrow_index * l1 <= (b1 + 1) * reserve.liquidity_index
             /\ gl < gb => reserve.borrow_index * l1 <= b1 * reserve.liquidity_index
      BY <1>7, <1>8, IndexesGrowTogether
    <3>2. accrued.liquidity_index = l1 /\ accrued.borrow_index = b1
      BY <1>1, <2>2, <3>1
      DEF accrued, compute_effective_reserve, elapsed, gl, gb, lr, br, p, Reserve
    <3>3. gl < gb => br <= borrower_rate(accrued, p)
      <4>1. SUFFICES ASSUME gl < gb PROVE br <= borrower_rate(accrued, p)
        OBVIOUS
      <4>2. u <= utilization(accrued)
        BY <1>1, <1>2, <3>1, <3>2, <4>1, UtilizationRises DEF u
      <4> QED
        BY <1>1, <1>5, <1>9, <4>2, CurveIsMonotone DEF borrower_rate
    <3>4. borrower_rate(up, p) \in Nat
      BY <1>1, <1>3, RateTypes
    <3>5. CASE gl <= gb
      <4>1. u <= utilization(up)
        BY <1>1, <1>3, <3>1, <3>2, <3>5, UtilizationRises DEF u
      <4>2. br <= borrower_rate(up, p)
        BY <1>1, <1>5, <1>9, <4>1, CurveIsMonotone DEF borrower_rate
      <4> QED
        BY <1>6, <3>3, <3>4, <4>2
    <3>6. CASE gb < gl
      <4>1. u > ONE /\ ONE * gl <= u * gb
        <5>1. (u <= ONE => gl <= gb) /\ (u > ONE => ONE * gl <= u * gb)
          BY <1>4, <1>5, <1>6, GrowthIsShared DEF gl, gb
        <5> QED
          BY <1>5, <1>7, <3>6, <5>1, OneAssumption
      <4>2. total_liquidity(up) <= total_borrow(up)
        BY <1>1, <1>3, <1>7, <3>1, <3>2, <4>1, FullStaysFull DEF u, total_liquidity, total_borrow
      <4>3. total_liquidity(up) > 0
        <5>1. PICK s \in Nat : s = reserve.total_scaled_liquidity
          BY <1>1 DEF Reserve, Amount
        <5>2. s # 0
          <6>1. CASE s = 0
            <7>1. total_liquidity(reserve) = 0
              BY <1>8, <5>1, <6>1 DEF total_liquidity
            <7> QED
              BY <4>1, <7>1, OneAssumption DEF u, utilization
          <6> QED
            BY <6>1
        <5>3. up.liquidity_index \in Nat /\ up.liquidity_index > 0
          BY <1>3 DEF Sound, Reserve, Atomics
        <5> QED
          BY <1>3, <5>1, <5>2, <5>3 DEF total_liquidity
      <4>4. utilization(up) >= ONE
        BY <1>3, <4>2, <4>3, FullUtilization
      <4>5. br <= borrower_rate(up, p) + 1
        BY <1>1, <1>5, <1>9, <4>4, CurveEndsAtMaximum DEF borrower_rate
      <4> QED
        BY <3>3, <4>5
    <3> QED
      BY <1>7, <3>5, <3>6
  <2> QED
    BY <2>1, <2>2
<1> QED
  BY <1>10 DEF NoDearerThanShown, query_reserve, p, elapsed, br, lr, gl, gb, up

\* Time that has passed is never charged at a higher rate than the pool shows,
\* by more than truncation takes of the figure shown.
THEOREM ChargesAreShown == Spec => []NoDearerThanShown
<1>1. Inv => NoDearerThanShown
  BY ChargedIsShown
<1> QED
  BY <1>1, InvIsInvariant, PTL

-----------------------------------------------------------------------------
\* Solvency over a whole history.

\* While time passes nothing else happens.
LEMMA TimeAlone ==
    ASSUME Inv, [Next]_vars, now' # now
    PROVE  bank' = bank
<1>1. CASE LenderStep
  <2>1. ASSUME UNCHANGED world_vars PROVE now' = now
    BY <2>1 DEF world_vars
  <2>2. ASSUME NEW l \in Lenders, NEW x \in Inputs.lends, Lend(l, x) PROVE UNCHANGED world_vars
    BY <2>2 DEF Lend
  <2>3. ASSUME NEW s \in Operators, NEW l \in Lenders, NEW x \in Inputs.redemptions,
               NEW c \in Inputs.commits, Withdraw(s, l, x, c)
        PROVE  UNCHANGED world_vars
    BY <2>3 DEF Withdraw
  <2>4. ASSUME NEW l \in Lenders, NEW u \in Inputs.units, NEW c \in Inputs.commits,
               WithdrawExact(l, u, c)
        PROVE  UNCHANGED world_vars
    BY <2>4 DEF WithdrawExact, WithdrawUnits
  <2>5. ASSUME NEW l \in Lenders, NEW u \in Inputs.units, NEW x \in Inputs.requests,
               NEW c \in Inputs.commits, WithdrawCw20(l, u, x, c)
        PROVE  UNCHANGED world_vars
    BY <2>5 DEF WithdrawCw20, WithdrawUnits
  <2>6. ASSUME NEW l \in Lenders, NEW u \in Inputs.units, NEW m \in Inputs.recipients,
               TransferExact(l, u, m)
        PROVE  UNCHANGED world_vars
    BY <2>6 DEF TransferExact, ForwardUnits
  <2>7. ASSUME NEW l \in Lenders, NEW u \in Inputs.units, NEW m \in Inputs.recipients,
               NEW x \in Inputs.requests, TransferCw20(l, u, m, x)
        PROVE  UNCHANGED world_vars
    BY <2>7 DEF TransferCw20, ForwardUnits
  <2> QED
    BY <1>1, <2>1, <2>2, <2>3, <2>4, <2>5, <2>6, <2>7 DEF LenderStep
<1>2. CASE BorrowerStep
  BY <1>2 DEF BorrowerStep, Borrow, Repay, AddCollateral, RemoveCollateral,
              AdjustDirectedCollateralSale, world_vars
<1>3. CASE LiquidationStep
  BY <1>3 DEF LiquidationStep, Liquidate, world_vars
<1>4. CASE ReserveStep
  BY <1>4 DEF ReserveStep, EliminateDeficitFromReserve, EliminateDeficitFromBank,
              SocializeDeficit, WithdrawReserve, UpdateRateParams, Donate, world_vars
<1>5. CASE GovernanceStep
  BY <1>5 DEF GovernanceStep, UpdateContractConfig, UpdateSupportedCollateral,
              SetOperationalState, SetLenderRequiredAttrs, SetBorrowerRequiredAttrs,
              SetLenderRequireCommitOnExit, SetBorrowerRequireCommit, TransferOwnership,
              AcceptOwnership, ChangeContract, ChangeOwnership, BooksUnchanged, world_vars
<1>6. CASE WorldStep
  BY <1>6 DEF WorldStep, Tick, PostPrice
<1> QED
  BY <1>1, <1>2, <1>3, <1>4, <1>5, <1>6 DEF Next, vars

\* What the stored reserve and the coins leave over is never negative by more
\* than what accruals and loans have lost so far.
SolvencyInv ==
    /\ Inv
    /\ spent \in Nat
    /\ margin(reserve, bank[LENDING]) + spent >= 0

\* The figures that record a loss are naturals, and the margins integers.
LEMMA SolvencyTypes ==
    ASSUME Inv
    PROVE  /\ accrual_cost \in Nat /\ loan_cost \in Nat
           /\ margin(reserve, bank[LENDING]) \in Int /\ Margin \in Int
<1>1. /\ reserve \in Reserve /\ accrued \in Reserve /\ bank[LENDING] \in Nat
      /\ accrued.borrow_index - 1 \in Nat /\ ONE \in Nat \ {0}
  BY AccruedFacts, OneAssumption DEF Inv, TypeOK, Amount, Denoms
<1>2. /\ reserve.total_scaled_borrow \in Nat /\ total_borrow(reserve) \in Nat
  BY <1>1, UtilizationType DEF Reserve, Amount
<1>3. total_borrow(reserve) \div ONE \in Nat /\ (accrued.borrow_index - 1) \div ONE \in Nat
  BY <1>1, <1>2, DivisionBounds
<1>4. margin(reserve, bank[LENDING]) \in Int /\ margin(accrued, bank[LENDING]) \in Int
  BY <1>1, MarginChange
<1> QED
  BY <1>1, <1>2, <1>3, <1>4 DEF accrual_cost, loan_cost, Margin

\* The same margins after a step.
LEMMA MarginsAfter ==
    ASSUME Inv'
    PROVE  margin(reserve', bank'[LENDING]) \in Int /\ Margin' \in Int
<1>1. /\ reserve' \in Reserve /\ Sound(reserve') /\ now' \in Nat /\ bank'[LENDING] \in Nat
      /\ contract'.rate_params \in RateParams /\ valid_rate_params(contract'.rate_params)
  BY DEF Inv, TypeOK, Config, Amount, Denoms, Sound
<1>2. PICK q \in Reserve, d \in Nat, at \in Nat, p \in RateParams :
          q = reserve' /\ d = bank'[LENDING] /\ at = now' /\ p = contract'.rate_params
  BY <1>1
<1>3. PICK e : e = compute_effective_reserve(q, at, p)
  OBVIOUS
<1>4. e \in Reserve
  BY <1>1, <1>2, <1>3, AccrualKeepsReserve DEF Sound
<1>5. margin(q, d) \in Int /\ margin(e, d) \in Int
  BY <1>4, MarginChange
<1>6. Margin' = margin(e, d)
  BY <1>2, <1>3 DEF Margin, accrued
<1> QED
  BY <1>2, <1>5, <1>6

\* What accrual costs, in atomics.
LEMMA AccrualIsRecorded ==
    ASSUME Inv
    PROVE  margin(reserve, bank[LENDING]) - Margin <= accrual_cost
<1>1. /\ reserve \in Reserve /\ Sound(reserve) /\ now \in Nat /\ bank[LENDING] \in Nat
      /\ contract.rate_params \in RateParams /\ valid_rate_params(contract.rate_params)
      /\ ONE \in Nat \ {0}
  BY OneAssumption DEF Inv, TypeOK, Config, Amount, Denoms
<1>2. /\ reserve.total_scaled_borrow \in Nat /\ total_borrow(reserve) \in Nat
      /\ margin(reserve, bank[LENDING]) \in Int /\ Margin \in Int
      /\ reserve.last_updated_at \in Nat
  BY <1>1, SolvencyTypes, UtilizationType DEF Reserve, Amount
<1>3. CASE reserve.last_updated_at < now
  <2>1. PICK m \in Int : m = margin(reserve, bank[LENDING]) - Margin
    BY <1>2
  <2>2. PICK s, owed, q \in Nat : /\ s = reserve.total_scaled_borrow
                                  /\ owed = total_borrow(reserve) /\ q = owed \div ONE
    BY <1>1, <1>2, DivisionBounds
  <2>3. ONE * m <= ONE * s + owed
    BY <1>1, <2>1, <2>2, AccrualCost DEF Margin, accrued
  <2>4. owed < ONE * q + ONE
    BY <1>1, <2>2, DivisionBounds
  <2>5. ONE * m < ONE * (s + q + 1)
    <3>1. ONE * (s + q + 1) = ONE * s + ONE * q + ONE
      BY <1>1
    <3>2. ONE * s \in Nat /\ ONE * q \in Nat /\ ONE * m \in Int
      BY <1>1
    <3> QED
      BY <1>1, <2>2, <2>3, <2>4, <3>1, <3>2
  <2>6. m <= s + q
    <3>1. SUFFICES ASSUME m >= s + q + 1 PROVE FALSE
      OBVIOUS
    <3>2. s + q + 1 \in Nat /\ m \in Nat
      BY <3>1
    <3>3. ONE * (s + q + 1) <= ONE * m
      BY <1>1, <3>1, <3>2, ProductMonotone
    <3>4. ONE * (s + q + 1) \in Nat /\ ONE * m \in Nat
      BY <1>1, <3>2
    <3> QED
      BY <2>5, <3>3, <3>4
  <2> QED
    BY <1>3, <2>1, <2>2, <2>6 DEF accrual_cost
<1>4. CASE ~(reserve.last_updated_at < now)
  <2>1. accrued = reserve
    BY <1>1, <1>2, <1>4, AccrualIsIdempotent DEF accrued
  <2> QED
    BY <1>2, <1>4, <2>1 DEF accrual_cost, Margin
<1> QED
  BY <1>3, <1>4

\* What a loan costs, in atomics.
LEMMA LoanIsRecorded ==
    ASSUME Inv, [Next]_vars, now' = now
    PROVE  Margin - Margin' <= loan_cost
<1>1. Margin \in Int /\ Margin' \in Int /\ loan_cost \in Nat
  BY NextInv, SolvencyTypes, MarginsAfter
<1>2. CASE Margin' >= Margin
  <2>1. PICK m, n, k \in Int : m = Margin /\ n = Margin' /\ k = loan_cost
    BY <1>1
  <2>2. n >= m /\ k >= 0
    BY <1>1, <1>2, <2>1
  <2>3. m - n <= k
    BY <2>2
  <2> QED
    BY <2>1, <2>3
<1>3. CASE /\ \E b \in Borrowers, x \in Inputs.borrows : Borrow(b, x)
           /\ ONE * (Margin - Margin') < accrued.borrow_index
  <2>1. PICK m \in Int : m = Margin - Margin'
    <3>1. PICK u, v \in Int : u = Margin /\ v = Margin'
      BY <1>1
    <3>2. u - v \in Int
      OBVIOUS
    <3> QED
      BY <3>1, <3>2
  <2>2. accrued.borrow_index - 1 \in Nat /\ accrued.borrow_index \in Nat /\ ONE \in Nat \ {0}
    BY AccruedFacts, OneAssumption
  <2>3. PICK q \in Nat : q = (accrued.borrow_index - 1) \div ONE
    BY <2>2, DivisionBounds
  <2>4. accrued.borrow_index - 1 < ONE * q + ONE
    BY <2>2, <2>3, DivisionBounds
  <2>5. m <= q
    <3>1. SUFFICES ASSUME m >= q + 1 PROVE FALSE
      OBVIOUS
    <3>2. m \in Nat /\ q + 1 \in Nat
      BY <3>1
    <3>3. ONE * (q + 1) <= ONE * m
      BY <2>2, <3>1, <3>2, ProductMonotone
    <3>4. ONE * (q + 1) = ONE * q + ONE /\ ONE * q \in Nat /\ ONE * m \in Nat
      BY <2>2, <3>2
    <3> QED
      BY <1>3, <2>1, <2>2, <2>4, <3>3, <3>4
  <2> QED
    BY <1>3, <2>1, <2>3, <2>5 DEF loan_cost
<1> QED
  BY <1>2, <1>3, MarginStep

\* Every step keeps the pool solvent up to what it has recorded.
LEMMA SolvencyStep ==
    ASSUME SolvencyInv, [SolvencyNext]_solvency_vars
    PROVE  SolvencyInv'
<1> DEFINE stored == margin(reserve, bank[LENDING])
<1>1. /\ Inv /\ Inv' /\ [Next]_vars
  BY NextInv DEF SolvencyInv, SolvencyNext, solvency_vars
<1>2. /\ accrual_cost \in Nat /\ loan_cost \in Nat /\ spent \in Nat
      /\ stored \in Int /\ stored' \in Int /\ Margin \in Int /\ Margin' \in Int
      /\ reserve \in Reserve /\ accrued \in Reserve /\ now \in Nat /\ now' \in Nat
      /\ bank[LENDING] \in Nat /\ bank'[LENDING] \in Nat
      /\ stored + spent >= 0
  BY <1>1, SolvencyTypes, MarginsAfter, AccruedFacts
  DEF SolvencyInv, Inv, TypeOK, Amount, Denoms
<1>3. CASE UNCHANGED solvency_vars
  <2>1. UNCHANGED vars /\ spent' = spent
    BY <1>3 DEF solvency_vars
  <2>2. stored' = stored
    BY <2>1 DEF vars
  <2> QED
    BY <1>1, <1>2, <2>1, <2>2 DEF SolvencyInv
<1>4. CASE SolvencyNext
  <2>1. spent' = spent + loan_cost + (IF reserve' = reserve THEN 0 ELSE accrual_cost)
    BY <1>4 DEF SolvencyNext
  <2>2. spent' \in Nat
    BY <1>2, <2>1
  <2>3. CASE now' # now
    <3>1. reserve' = reserve /\ bank' = bank
      BY <1>1, <2>3, StepKind, TimeAlone DEF Accrues, Waits
    <3>2. stored' = stored
      BY <3>1
    <3> QED
      BY <1>1, <1>2, <2>1, <2>2, <3>1, <3>2 DEF SolvencyInv
  <2>4. CASE now' = now /\ reserve' = reserve /\ contract'.rate_params = contract.rate_params
    <3>1. accrued' = accrued
      BY <2>4, AccruedUnmoved
    <3>2. /\ stored' - stored = (bank'[LENDING] - bank[LENDING]) * ONE
          /\ Margin' - Margin = (bank'[LENDING] - bank[LENDING]) * ONE
      <4>1. PICK c, d \in Nat : c = bank[LENDING] /\ d = bank'[LENDING]
        BY <1>2
      <4>2. \A r \in Reserve : margin(r, d) - margin(r, c) = (d - c) * ONE
        <5>1. TAKE r \in Reserve
        <5>2. /\ total_borrow(r) \in Nat /\ total_liquidity(r) \in Nat
              /\ r.deficit_underlying \in Nat /\ r.accrued_reserve \in Nat
              /\ ONE \in Nat /\ (d - c) * ONE \in Int
          BY UtilizationType, OneAssumption DEF Reserve, Amount
        <5>3. margin(r, d) - margin(r, c) =
                  (d - c) * ONE + (total_borrow(r) - total_borrow(r))
                + (r.deficit_underlying - r.deficit_underlying) * ONE
                - (total_liquidity(r) - total_liquidity(r))
                - (r.accrued_reserve - r.accrued_reserve) * ONE
          BY ONLY MarginChange, r \in Reserve, c \in Nat, d \in Nat
        <5>4. /\ (r.deficit_underlying - r.deficit_underlying) * ONE = 0
              /\ (r.accrued_reserve - r.accrued_reserve) * ONE = 0
          BY ONLY <5>2
        <5> QED
          BY ONLY <5>2, <5>3, <5>4
      <4> QED
        BY <1>2, <2>4, <3>1, <4>1, <4>2 DEF Margin
    <3>3. Margin - Margin' <= loan_cost
      BY <1>1, <2>4, LoanIsRecorded
    <3>4. stored' - stored = Margin' - Margin
      BY <3>2
    <3>5. stored' + spent' >= 0
      <4>1. PICK m, n, u, v \in Int : m = stored /\ n = stored' /\ u = Margin /\ v = Margin'
        BY <1>2
      <4>2. PICK k, z \in Nat : k = loan_cost /\ z = spent
        BY <1>2
      <4>3. spent' = z + k
        BY <2>1, <2>4, <4>2
      <4>4. m + z >= 0 /\ u - v <= k /\ n - m = v - u
        BY <1>2, <3>3, <3>4, <4>1, <4>2
      <4>5. n + (z + k) >= 0
        BY <4>4
      <4> QED
        BY <4>1, <4>3, <4>5
    <3> QED
      BY <1>1, <2>2, <3>5 DEF SolvencyInv, stored
  <2>5. CASE Accrues
    <3>1. now' = now /\ reserve'.last_updated_at = accrued.last_updated_at
      BY <2>5 DEF Accrues
    <3>2. accrued' = reserve'
      BY <1>1, <3>1, AccruedAfter
    <3>3. Margin' = stored'
      BY <3>2 DEF Margin
    <3>4. Margin - Margin' <= loan_cost /\ stored - Margin <= accrual_cost
      BY <1>1, <3>1, LoanIsRecorded, AccrualIsRecorded
    <3>5. reserve' = reserve => stored = Margin
      <4>1. SUFFICES ASSUME reserve' = reserve PROVE stored = Margin
        OBVIOUS
      <4>2. reserve.last_updated_at >= now
        BY <1>1, <3>1, <4>1, AccruedFacts
      <4>3. accrued = reserve
        BY <1>2, <4>2, AccrualIsIdempotent DEF accrued
      <4> QED
        BY <4>3 DEF Margin
    <3>6. stored' + spent' >= 0
      <4>1. PICK m, n, u \in Int : m = stored /\ n = stored' /\ u = Margin
        BY <1>2
      <4>2. PICK k, h, z \in Nat : k = loan_cost /\ h = accrual_cost /\ z = spent
        BY <1>2
      <4>3. m + z >= 0 /\ u - n <= k /\ m - u <= h /\ (reserve' = reserve => m = u)
        BY <1>2, <3>3, <3>4, <3>5, <4>1, <4>2
      <4>4. n + (z + k + 0) >= 0 \/ (reserve' # reserve /\ n + (z + k + h) >= 0)
        BY <4>3
      <4>5. CASE reserve' = reserve
        <5>1. spent' = z + k + 0
          BY <2>1, <4>2, <4>5
        <5> QED
          BY <4>1, <4>4, <4>5, <5>1
      <4>6. CASE reserve' # reserve
        <5>1. spent' = z + k + h
          BY <2>1, <4>2, <4>6
        <5>2. n + (z + k + h) >= 0
          BY <4>3
        <5> QED
          BY <4>1, <5>1, <5>2
      <4> QED
        BY <4>5, <4>6
    <3> QED
      BY <1>1, <2>2, <3>6 DEF SolvencyInv, stored
  <2> QED
    BY <1>1, <2>3, <2>4, <2>5, StepKind DEF Waits
<1> QED
  BY <1>3, <1>4 DEF SolvencyNext

\* A new pool owns nothing and owes nothing.
LEMMA SolvencyInitially == SolvencyInit => SolvencyInv
<1>1. SUFFICES ASSUME Init, spent = 0 PROVE SolvencyInv
  BY DEF SolvencyInit
<1>2. Inv
  BY <1>1, InitInv
<1>3. margin(reserve, bank[LENDING]) = 0
  BY <1>1, OneAssumption DEF Init, margin, total_borrow, total_liquidity, Denoms
<1> QED
  BY <1>1, <1>2, <1>3 DEF SolvencyInv

\* In every state, accruing included.
LEMMA SolvencyHolds ==
    ASSUME SolvencyInv
    PROVE  SolventUpToTruncation
<1>1. /\ accrual_cost \in Nat /\ margin(reserve, bank[LENDING]) \in Int /\ Margin \in Int
      /\ margin(reserve, bank[LENDING]) - Margin <= accrual_cost
      /\ spent \in Nat /\ margin(reserve, bank[LENDING]) + spent >= 0
  BY SolvencyTypes, AccrualIsRecorded DEF SolvencyInv
<1> QED
  BY <1>1 DEF SolventUpToTruncation

\* The pool is solvent for its whole life but for truncation, which is counted:
\* an atomic per scaled unit of debt and a part in ONE of the debt for each
\* accrual, less than a scaled unit's worth for each loan, and nothing else.
THEOREM PoolStaysSolvent == SolvencySpec => []SolventUpToTruncation
<1>1. SolvencyInit => SolvencyInv
  BY SolvencyInitially
<1>2. SolvencyInv /\ [SolvencyNext]_solvency_vars => SolvencyInv'
  BY SolvencyStep
<1>3. SolvencyInv => SolventUpToTruncation
  BY SolvencyHolds
<1> QED
  BY <1>1, <1>2, <1>3, PTL DEF SolvencySpec

\* As long as the fees booked for the protocol exceed what truncation has cost,
\* coins, loans and booked losses cover the claims of every lender, which is
\* when no payout of cash that the handlers compute can fail at the bank.
THEOREM FeesCoverTruncation ==
    SolvencySpec => [](spent + accrual_cost <= accrued.accrued_reserve * ONE
                          => ClaimsAreCovered)
<1>1. SolvencyInit => SolvencyInv
  BY SolvencyInitially
<1>2. SolvencyInv /\ [SolvencyNext]_solvency_vars => SolvencyInv'
  BY SolvencyStep
<1>3. ASSUME SolvencyInv, spent + accrual_cost <= accrued.accrued_reserve * ONE
      PROVE  ClaimsAreCovered
  <2>1. /\ accrued \in Reserve /\ bank[LENDING] \in Nat /\ ONE \in Nat
        /\ accrual_cost \in Nat /\ spent \in Nat
    BY <1>3, AccruedFacts, SolvencyTypes, OneAssumption
    DEF SolvencyInv, Inv, TypeOK, Amount, Denoms
  <2>2. PICK coins, deficit, fees, claims, owed, lost \in Nat :
            /\ coins = bank[LENDING] /\ deficit = accrued.deficit_underlying
            /\ fees = accrued.accrued_reserve /\ claims = total_liquidity(accrued)
            /\ owed = total_borrow(accrued) /\ lost = spent + accrual_cost
    BY <2>1, UtilizationType DEF Reserve, Amount
  <2>3. coins * ONE + owed + deficit * ONE - claims - fees * ONE + lost >= 0
    <3>1. Margin = coins * ONE + owed + deficit * ONE - claims - fees * ONE
      BY <2>2 DEF Margin, margin
    <3>2. Margin + spent + accrual_cost = Margin + lost
      BY <1>3, <2>1, <2>2, SolvencyTypes DEF SolvencyInv
    <3> QED
      BY <1>3, <3>1, <3>2, SolvencyHolds DEF SolventUpToTruncation
  <2>4. lost <= fees * ONE
    BY <1>3, <2>2
  <2>5. (coins + deficit) * ONE = coins * ONE + deficit * ONE
    BY <2>1
  <2>6. coins * ONE \in Nat /\ deficit * ONE \in Nat /\ fees * ONE \in Nat
    BY <2>1
  <2>7. claims <= (coins + deficit) * ONE + owed
    BY <2>3, <2>4, <2>5, <2>6
  <2> QED
    BY <2>2, <2>7 DEF ClaimsAreCovered
<1> QED
  BY <1>1, <1>2, <1>3, PTL DEF SolvencySpec
=============================================================================
