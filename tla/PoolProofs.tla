------------------------------ MODULE PoolProofs ------------------------------
(***************************************************************************)
(* The inductive invariant of the pool and what follows from it, for any   *)
(* accounts, denoms, amounts, rates, prices and settings.                  *)
(*                                                                         *)
(* TypeOK is not inductive by itself: that a deduction leaves a natural    *)
(* rests on the reserve and the token agreeing on the supply, that a       *)
(* conversion yields a natural on the indexes being positive, and that the *)
(* indexes never shrink on the curve in force being an accepted one.       *)
(*                                                                         *)
(* The first part is about the arithmetic alone: truncation, the curve and *)
(* its two fee models, accrual, the conversions and the haircut.           *)
(***************************************************************************)
EXTENDS PoolProperties, TLAPS

\* Division of naturals, as the provers need it: the quotient and its bounds.
LEMMA DivisionBounds ==
    ASSUME NEW a \in Nat, NEW b \in Nat \ {0}
    PROVE  /\ a \div b \in Nat
           /\ b * (a \div b) <= a
           /\ a < b * (a \div b) + b
    OBVIOUS

\* A larger dividend has no smaller quotient.
LEMMA DivisionMonotone ==
    ASSUME NEW a \in Nat, NEW c \in Nat, NEW b \in Nat \ {0}, a <= c
    PROVE  a \div b <= c \div b
    OBVIOUS

\* Products of naturals are naturals and grow with their factors.
LEMMA ProductMonotone ==
    ASSUME NEW a \in Nat, NEW c \in Nat, NEW b \in Nat, a <= c
    PROVE  /\ a * b \in Nat
           /\ a * b <= c * b
           /\ b * a <= b * c
    OBVIOUS

-----------------------------------------------------------------------------
\* Every decimal operation on naturals yields a natural.
LEMMA DecimalTypes ==
    ASSUME NEW x \in Nat, NEW y \in Nat
    PROVE  /\ checked_mul(x, y) \in Nat
           /\ y > 0 => checked_div(x, y) \in Nat
           /\ y > 0 => from_ratio(x, y) \in Nat
           /\ floor_to_u128(x) \in Nat
           /\ ceil_to_u128(x) \in Nat
           /\ saturating_sub(x, y) \in Nat
           /\ lesser(x, y) \in Nat
<1>1. x * y \in Nat /\ x * ONE \in Nat
  BY OneAssumption
<1>2. (x * y) \div ONE \in Nat
  BY <1>1, OneAssumption, DivisionBounds
<1>3. y > 0 => (x * ONE) \div y \in Nat
  BY <1>1, DivisionBounds
<1>4. x \div ONE \in Nat
  BY OneAssumption, DivisionBounds
<1>5. ceil_to_u128(x) \in Nat
  BY <1>4 DEF ceil_to_u128
<1> QED
  BY <1>2, <1>3, <1>4, <1>5
  DEF checked_mul, checked_div, from_ratio, floor_to_u128, saturating_sub, lesser

\* Multiplying by at least ONE loses nothing; a larger factor gives no less.
LEMMA MulByAtLeastOne ==
    ASSUME NEW x \in Nat, NEW y \in Nat, y >= ONE
    PROVE  checked_mul(x, y) >= x
<1>1. x * ONE <= x * y
  BY OneAssumption, ProductMonotone
<1>2. (x * ONE) \div ONE = x
  BY OneAssumption
<1>3. x * ONE \in Nat /\ x * y \in Nat
  BY OneAssumption
<1> QED
  BY <1>1, <1>2, <1>3, OneAssumption, DivisionMonotone DEF checked_mul

\* A fixed-point product does not shrink when its second factor grows.
LEMMA MulMonotone ==
    ASSUME NEW x \in Nat, NEW y \in Nat, NEW z \in Nat, y <= z
    PROVE  checked_mul(x, y) <= checked_mul(x, z)
<1>1. x * y <= x * z /\ x * y \in Nat /\ x * z \in Nat
  BY ProductMonotone
<1> QED
  BY <1>1, OneAssumption, DivisionMonotone DEF checked_mul

-----------------------------------------------------------------------------
\* The borrower rate of an accepted curve is a natural and never below the
\* minimum, at any utilization.
LEMMA BorrowerRateType ==
    ASSUME NEW p \in RateParams, valid_rate_params(p), NEW u \in Nat
    PROVE  /\ borrower_rate_from_utilization(p, u) \in Nat
           /\ borrower_rate_from_utilization(p, u) >= p.min_rate
<1>1. /\ p.min_rate \in Nat /\ p.target_rate \in Nat /\ p.max_rate \in Nat
      /\ p.kink_utilization \in Nat
      /\ p.min_rate <= p.target_rate /\ p.target_rate <= p.max_rate
      /\ 0 < p.kink_utilization /\ p.kink_utilization < ONE
  BY DEF RateParams, valid_rate_params, Atomics
<1>2. CASE u <= p.kink_utilization
  <2>1. p.target_rate - p.min_rate \in Nat
    BY <1>1
  <2>2. checked_mul(checked_div(p.target_rate - p.min_rate, p.kink_utilization), u) \in Nat
    BY <1>1, <2>1, DecimalTypes
  <2> QED
    BY <1>1, <1>2, <2>2 DEF borrower_rate_from_utilization, below_kink_rate
<1>3. CASE ~(u <= p.kink_utilization)
  <2>1. /\ p.max_rate - p.target_rate \in Nat
        /\ ONE - p.kink_utilization \in Nat /\ ONE - p.kink_utilization > 0
        /\ u - p.kink_utilization \in Nat
    BY <1>1, <1>3, OneAssumption
  <2>2. checked_div(p.max_rate - p.target_rate, ONE - p.kink_utilization) \in Nat
    BY <2>1, DecimalTypes
  <2>3. checked_mul(checked_div(p.max_rate - p.target_rate, ONE - p.kink_utilization),
                    u - p.kink_utilization) \in Nat
    BY <2>1, <2>2, DecimalTypes
  <2> QED
    BY <1>1, <1>3, <2>3 DEF borrower_rate_from_utilization, above_kink_rate, lesser
<1> QED
  BY <1>2, <1>3

\* Both totals and the utilization are naturals.
LEMMA UtilizationType ==
    ASSUME NEW r \in Reserve
    PROVE  /\ total_liquidity(r) \in Nat
           /\ total_borrow(r) \in Nat
           /\ utilization(r) \in Nat
<1>1. total_liquidity(r) \in Nat /\ total_borrow(r) \in Nat
  BY DEF Reserve, Atomics, Amount, total_liquidity, total_borrow
<1>2. CASE total_liquidity(r) = 0
  BY <1>1, <1>2 DEF utilization
<1>3. CASE total_liquidity(r) # 0
  <2>1. total_liquidity(r) > 0
    BY <1>1, <1>3
  <2>2. checked_div(total_borrow(r), total_liquidity(r)) \in Nat
    BY <1>1, <2>1, DecimalTypes
  <2> QED
    BY <1>1, <1>3, <2>2 DEF utilization
<1> QED
  BY <1>2, <1>3

\* Both of the rates paid out of the borrower rate are naturals.
LEMMA RateTypes ==
    ASSUME NEW r \in Reserve, NEW p \in RateParams, valid_rate_params(p)
    PROVE  /\ borrower_rate(r, p) \in Nat
           /\ lender_rate(r, p) \in Nat
           /\ protocol_fee_rate(p, borrower_rate(r, p)) \in Nat
<1> DEFINE u  == utilization(r)
           br == borrower_rate(r, p)
<1>1. u \in Nat
  BY UtilizationType
<1>2. br \in Nat /\ br >= p.min_rate
  BY <1>1, BorrowerRateType DEF borrower_rate
<1>3. /\ p.min_rate \in Nat /\ p.reserve_factor \in Nat /\ p.flat_fee_apr \in Nat
      /\ p.reserve_factor < ONE
      /\ p.fee_model \in {ReserveFactor, FlatBorrowSpread}
      /\ p.fee_model = FlatBorrowSpread => p.flat_fee_apr <= p.min_rate
  BY DEF RateParams, valid_rate_params, Atomics
<1> HIDE DEF u, br
<1>4. protocol_fee_rate(p, br) \in Nat
  BY <1>2, <1>3, DecimalTypes DEF protocol_fee_rate
<1>5. lender_rate_from_utilization(p, u, br) \in Nat
  <2>1. CASE p.fee_model = ReserveFactor
    <3>1. ONE - p.reserve_factor \in Nat
      BY <1>3, OneAssumption
    <3>2. checked_mul(u, ONE - p.reserve_factor) \in Nat
      BY <1>1, <3>1, DecimalTypes
    <3> QED
      BY <1>2, <2>1, <3>2, DecimalTypes DEF lender_rate_from_utilization
  <2>2. CASE p.fee_model # ReserveFactor
    <3>1. br - p.flat_fee_apr \in Nat
      BY <1>2, <1>3, <2>2
    <3> QED
      BY <1>1, <2>2, <3>1, DecimalTypes DEF lender_rate_from_utilization
  <2> QED
    BY <2>1, <2>2
<1> QED
  BY <1>2, <1>4, <1>5 DEF lender_rate, u, br

\* An index grows by a factor of at least 1, and by no less over a longer time.
LEMMA GrowthFactor ==
    ASSUME NEW rate \in Nat, NEW e \in Nat, NEW later \in Nat, e <= later
    PROVE  /\ index_growth_factor(rate, e) \in Nat
           /\ index_growth_factor(rate, e) >= ONE
           /\ index_growth_factor(rate, e) <= index_growth_factor(rate, later)
<1>1. e * ONE <= later * ONE /\ e * ONE \in Nat /\ later * ONE \in Nat
  BY OneAssumption, ProductMonotone
<1>2. /\ time_fraction(e) \in Nat /\ time_fraction(later) \in Nat
      /\ time_fraction(e) <= time_fraction(later)
  BY <1>1, YearAssumption, DivisionBounds, DivisionMonotone DEF time_fraction, from_ratio
<1>3. /\ checked_mul(rate, time_fraction(e)) \in Nat
      /\ checked_mul(rate, time_fraction(later)) \in Nat
      /\ checked_mul(rate, time_fraction(e)) <= checked_mul(rate, time_fraction(later))
  BY <1>2, DecimalTypes, MulMonotone
<1> QED
  BY <1>3, OneAssumption DEF index_growth_factor

-----------------------------------------------------------------------------
\* A reserve whose indexes mean something.
Sound(r) == r.liquidity_index > 0 /\ r.borrow_index >= ONE

\* Accrual keeps a sound reserve sound, lowers neither index nor the fees, and
\* touches neither the scaled totals nor the deficit.
LEMMA AccrualKeepsReserve ==
    ASSUME NEW r \in Reserve, Sound(r), NEW at \in Nat,
           NEW p \in RateParams, valid_rate_params(p)
    PROVE  LET e == compute_effective_reserve(r, at, p)
           IN  /\ e \in Reserve
               /\ Sound(e)
               /\ e.liquidity_index >= r.liquidity_index
               /\ e.borrow_index >= r.borrow_index
               /\ e.accrued_reserve >= r.accrued_reserve
               /\ e.total_scaled_liquidity = r.total_scaled_liquidity
               /\ e.total_scaled_borrow = r.total_scaled_borrow
               /\ e.deficit_underlying = r.deficit_underlying
               /\ e.last_updated_at >= at
<1> DEFINE elapsed == time_elapsed(r.last_updated_at, at)
           li  == checked_mul(r.liquidity_index, index_growth_factor(lender_rate(r, p), elapsed))
           bi  == checked_mul(r.borrow_index, index_growth_factor(borrower_rate(r, p), elapsed))
           fee == protocol_fee(r, p, elapsed)
<1>1. /\ r.liquidity_index \in Nat /\ r.borrow_index \in Nat /\ r.last_updated_at \in Nat
      /\ r.accrued_reserve \in Nat
  BY DEF Reserve, Atomics, Amount
<1>2. elapsed \in Nat
  BY <1>1, DecimalTypes DEF time_elapsed
<1>3. /\ index_growth_factor(lender_rate(r, p), elapsed) \in Nat
      /\ index_growth_factor(lender_rate(r, p), elapsed) >= ONE
      /\ index_growth_factor(borrower_rate(r, p), elapsed) \in Nat
      /\ index_growth_factor(borrower_rate(r, p), elapsed) >= ONE
  BY <1>2, RateTypes, GrowthFactor
<1>4. li \in Nat /\ li >= r.liquidity_index /\ bi \in Nat /\ bi >= r.borrow_index
  BY <1>1, <1>3, DecimalTypes, MulByAtLeastOne
<1>5. fee \in Nat
  <2>1. time_fraction(elapsed) \in Nat
    BY <1>2, OneAssumption, YearAssumption, DivisionBounds DEF time_fraction, from_ratio
  <2>2. checked_mul(total_borrow(r), protocol_fee_rate(p, borrower_rate(r, p))) \in Nat
    BY RateTypes, UtilizationType, DecimalTypes
  <2>3. checked_mul(checked_mul(total_borrow(r), protocol_fee_rate(p, borrower_rate(r, p))),
                    time_fraction(elapsed)) \in Nat
    BY <2>1, <2>2, DecimalTypes
  <2> QED
    BY <2>3, DecimalTypes DEF protocol_fee
<1>6. CASE elapsed = 0
  <2>1. compute_effective_reserve(r, at, p) = r
    BY <1>6 DEF compute_effective_reserve
  <2>2. r.last_updated_at >= at
    BY <1>1, <1>6 DEF time_elapsed, saturating_sub
  <2> QED
    BY <1>1, <2>1, <2>2 DEF Sound, Reserve, Atomics, Amount
<1>7. CASE elapsed # 0
  <2>1. compute_effective_reserve(r, at, p)
          = [r EXCEPT !.liquidity_index = li, !.borrow_index = bi,
                      !.last_updated_at = at, !.accrued_reserve = @ + fee]
    BY <1>7 DEF compute_effective_reserve
  <2> HIDE DEF li, bi, fee, elapsed
  <2> DEFINE e == compute_effective_reserve(r, at, p)
  <2>2. e \in Reserve
    <3>1. [r EXCEPT !.liquidity_index = li] \in Reserve
      BY <1>4 DEF Reserve, Atomics
    <3>2. [r EXCEPT !.liquidity_index = li, !.borrow_index = bi] \in Reserve
      BY <1>4, <3>1 DEF Reserve, Atomics
    <3>3. [r EXCEPT !.liquidity_index = li, !.borrow_index = bi,
                    !.last_updated_at = at] \in Reserve
      BY <3>2 DEF Reserve
    <3>4. r.accrued_reserve + fee \in Amount
      BY <1>1, <1>5 DEF Amount
    <3> QED
      BY <2>1, <3>3, <3>4 DEF Reserve
  <2>3. /\ e.liquidity_index = li /\ e.borrow_index = bi
        /\ e.accrued_reserve = r.accrued_reserve + fee
        /\ e.last_updated_at = at
        /\ e.total_scaled_liquidity = r.total_scaled_liquidity
        /\ e.total_scaled_borrow = r.total_scaled_borrow
        /\ e.deficit_underlying = r.deficit_underlying
    BY <2>1 DEF Reserve
  <2> HIDE DEF e
  <2>4. Sound(e)
    BY <1>1, <1>4, <2>3, OneAssumption DEF Sound
  <2> QED
    BY <1>1, <1>4, <1>5, <2>2, <2>3, <2>4 DEF e
<1> QED
  BY <1>6, <1>7

\* Accruing what is already accrued to that time changes nothing.
LEMMA AccrualIsIdempotent ==
    ASSUME NEW r \in Reserve, NEW at \in Nat, NEW p, r.last_updated_at >= at
    PROVE  compute_effective_reserve(r, at, p) = r
<1>1. time_elapsed(r.last_updated_at, at) = 0
  BY DEF time_elapsed, saturating_sub, Reserve
<1> QED
  BY <1>1 DEF compute_effective_reserve

\* Waiting longer never lowers an index.
LEMMA AccrualIsMonotone ==
    ASSUME NEW r \in Reserve, Sound(r), NEW at \in Nat, NEW later \in Nat, at <= later,
           NEW p \in RateParams, valid_rate_params(p)
    PROVE  /\ compute_effective_reserve(r, at, p).borrow_index
                <= compute_effective_reserve(r, later, p).borrow_index
           /\ compute_effective_reserve(r, at, p).liquidity_index
                <= compute_effective_reserve(r, later, p).liquidity_index
<1> DEFINE e == time_elapsed(r.last_updated_at, at)
           f == time_elapsed(r.last_updated_at, later)
           ll == lender_rate(r, p)
           bb == borrower_rate(r, p)
<1>1. r.liquidity_index \in Nat /\ r.borrow_index \in Nat /\ r.last_updated_at \in Nat
  BY DEF Reserve, Atomics
<1>2. e \in Nat /\ f \in Nat /\ e <= f
  BY <1>1 DEF time_elapsed, saturating_sub
<1>3. CASE e = 0
  <2>1. compute_effective_reserve(r, at, p) = r
    BY <1>3 DEF compute_effective_reserve
  <2> QED
    BY <2>1, AccrualKeepsReserve
<1>4. CASE e # 0
  <2>1. f # 0
    BY <1>2, <1>4
  <2>2. /\ index_growth_factor(ll, e) \in Nat /\ index_growth_factor(ll, f) \in Nat
        /\ index_growth_factor(ll, e) <= index_growth_factor(ll, f)
        /\ index_growth_factor(bb, e) \in Nat /\ index_growth_factor(bb, f) \in Nat
        /\ index_growth_factor(bb, e) <= index_growth_factor(bb, f)
    BY <1>2, RateTypes, GrowthFactor
  <2>3. /\ checked_mul(r.liquidity_index, index_growth_factor(ll, e))
             <= checked_mul(r.liquidity_index, index_growth_factor(ll, f))
        /\ checked_mul(r.borrow_index, index_growth_factor(bb, e))
             <= checked_mul(r.borrow_index, index_growth_factor(bb, f))
    BY <1>1, <2>2, MulMonotone
  <2>4. /\ compute_effective_reserve(r, at, p).liquidity_index
             = checked_mul(r.liquidity_index, index_growth_factor(ll, e))
        /\ compute_effective_reserve(r, at, p).borrow_index
             = checked_mul(r.borrow_index, index_growth_factor(bb, e))
        /\ compute_effective_reserve(r, later, p).liquidity_index
             = checked_mul(r.liquidity_index, index_growth_factor(ll, f))
        /\ compute_effective_reserve(r, later, p).borrow_index
             = checked_mul(r.borrow_index, index_growth_factor(bb, f))
    BY <1>4, <2>1 DEF compute_effective_reserve, Reserve
  <2> QED
    BY <2>3, <2>4
<1> QED
  BY <1>3, <1>4

-----------------------------------------------------------------------------
\* Every conversion at a positive index yields a natural.
LEMMA ConversionTypes ==
    ASSUME NEW x \in Nat, NEW index \in Nat, index > 0
    PROVE  /\ underlying_to_scaled_liquidity(x, index) \in Nat
           /\ underlying_to_scaled_borrow(x, index) \in Nat
           /\ underlying_to_scaled_borrow_ceil(x, index) \in Nat
           /\ scaled_to_underlying_liquidity(x, index) \in Nat
           /\ scaled_to_underlying_borrow(x, index) \in Nat
           /\ scaled_to_underlying_borrow_ceil(x, index) \in Nat
<1>1. x * ONE \in Nat
  BY OneAssumption
<1>2. checked_div(x * ONE, index) \in Nat /\ checked_mul(x * ONE, index) \in Nat
  BY <1>1, DecimalTypes
<1> QED
  BY <1>2, DecimalTypes
  DEF underlying_to_scaled_liquidity, underlying_to_scaled_borrow,
      underlying_to_scaled_borrow_ceil, scaled_to_underlying_liquidity,
      scaled_to_underlying_borrow, scaled_to_underlying_borrow_ceil

\* A haircut that does not fail leaves a sound reserve, which differs only in
\* its liquidity index.
LEMMA HaircutKeepsReserve ==
    ASSUME NEW r \in Reserve, Sound(r), NEW forgone \in Nat, ~haircut_fails(r, forgone)
    PROVE  LET h == apply_pro_rata_liquidity_index_haircut(r, forgone)
           IN  /\ h \in Reserve
               /\ Sound(h)
               /\ h = [r EXCEPT !.liquidity_index = h.liquidity_index]
<1>1. CASE forgone = 0
  BY <1>1 DEF apply_pro_rata_liquidity_index_haircut, Reserve
<1>2. CASE forgone # 0
  <2>1. forgone > 0 /\ total_liquidity(r) > forgone * ONE /\ haircut_index(r, forgone) # 0
    BY <1>2, UtilizationType, OneAssumption DEF haircut_fails
  <2>2. total_liquidity(r) - forgone * ONE \in Nat
    BY <2>1, UtilizationType, OneAssumption
  <2>3. r.total_scaled_liquidity \in Nat /\ r.liquidity_index \in Nat
    BY DEF Reserve, Amount, Atomics
  <2>4. r.total_scaled_liquidity # 0
    <3>1. forgone * ONE >= 0
      BY OneAssumption, <1>2
    <3>2. r.total_scaled_liquidity * r.liquidity_index > 0
      BY <2>1, <3>1, UtilizationType, OneAssumption DEF total_liquidity
    <3> QED
      BY <2>3, <3>2
  <2>5. r.total_scaled_liquidity * ONE \in Nat /\ r.total_scaled_liquidity * ONE > 0
    BY <2>3, <2>4, OneAssumption
  <2>6. haircut_index(r, forgone) \in Nat
    BY <2>2, <2>5, DecimalTypes DEF haircut_index
  <2>7. apply_pro_rata_liquidity_index_haircut(r, forgone)
          = [r EXCEPT !.liquidity_index = haircut_index(r, forgone)]
    BY <1>2 DEF apply_pro_rata_liquidity_index_haircut
  <2> QED
    BY <2>1, <2>6, <2>7 DEF Reserve, Atomics, Sound
<1> QED
  BY <1>1, <1>2

-----------------------------------------------------------------------------
\* Which way the conversions of rates.rs round.  Scaled units minted, or
\* debt removed, are worth no more than the coins paid for them.
LEMMA ScaledIsCovered ==
    ASSUME NEW x \in Nat, NEW index \in Nat \ {0}
    PROVE  /\ underlying_to_scaled_liquidity(x, index) \in Nat
           /\ underlying_to_scaled_liquidity(x, index) * index <= x * ONE
           /\ underlying_to_scaled_borrow(x, index) = underlying_to_scaled_liquidity(x, index)
<1> DEFINE q == (x * ONE * ONE) \div index
           s == q \div ONE
<1>1. q \in Nat /\ index * q <= x * ONE * ONE
  BY OneAssumption, DivisionBounds
<1>2. s \in Nat /\ ONE * s <= q
  BY <1>1, OneAssumption, DivisionBounds
<1>3. underlying_to_scaled_liquidity(x, index) = s
  BY DEF underlying_to_scaled_liquidity, checked_div, floor_to_u128
<1>4. (s * index) * ONE <= (x * ONE) * ONE
  <2> HIDE DEF q, s
  <2>1. index * (ONE * s) <= index * q
    BY <1>1, <1>2, OneAssumption, ProductMonotone
  <2>2. index * (ONE * s) = (s * index) * ONE
    BY <1>2, OneAssumption
  <2> QED
    BY <1>1, <1>2, <2>1, <2>2, OneAssumption
<1> HIDE DEF q, s
<1>5. ASSUME NEW m \in Nat, NEW n \in Nat, m * ONE <= n * ONE PROVE m <= n
  BY <1>5, OneAssumption
<1>6. s * index <= x * ONE
  BY <1>2, <1>4, <1>5, OneAssumption
<1> QED
  BY <1>2, <1>3, <1>6 DEF underlying_to_scaled_borrow, underlying_to_scaled_liquidity

\* What is paid out for scaled units is no more than their worth, and a full
\* payoff no less than the debt's.
LEMMA UnderlyingIsCovered ==
    ASSUME NEW s \in Nat, NEW index \in Nat
    PROVE  /\ scaled_to_underlying_liquidity(s, index) \in Nat
           /\ scaled_to_underlying_liquidity(s, index) * ONE <= s * index
           /\ scaled_to_underlying_borrow(s, index) = scaled_to_underlying_liquidity(s, index)
           /\ scaled_to_underlying_borrow_ceil(s, index) \in Nat
           /\ scaled_to_underlying_borrow_ceil(s, index) * ONE >= s * index
<1> DEFINE w == s * index
<1>1. w \in Nat /\ (s * ONE) * index = w * ONE
  BY OneAssumption
<1>2. checked_mul(s * ONE, index) = w
  <2> HIDE DEF w
  <2> QED
    BY <1>1, OneAssumption DEF checked_mul
<1>3. /\ scaled_to_underlying_liquidity(s, index) = w \div ONE
      /\ scaled_to_underlying_borrow(s, index) = w \div ONE
      /\ scaled_to_underlying_borrow_ceil(s, index)
           = (w \div ONE) + (IF w % ONE = 0 THEN 0 ELSE 1)
  BY <1>2 DEF scaled_to_underlying_liquidity, scaled_to_underlying_borrow,
              scaled_to_underlying_borrow_ceil, floor_to_u128, ceil_to_u128
<1> HIDE DEF w
<1>4. /\ w \div ONE \in Nat /\ ONE * (w \div ONE) <= w /\ w < ONE * (w \div ONE) + ONE
      /\ w % ONE = w - ONE * (w \div ONE)
  BY <1>1, OneAssumption, DivisionBounds
<1> DEFINE q == w \div ONE
<1> HIDE DEF q
<1>5. q \in Nat /\ ONE * q <= w /\ w < ONE * q + ONE /\ (w % ONE = 0 => w = ONE * q)
  BY <1>1, <1>4, OneAssumption DEF q
<1>6. q * ONE = ONE * q /\ (q + 1) * ONE = ONE * q + ONE /\ ONE * q \in Nat
  BY <1>5, OneAssumption
<1>7. /\ scaled_to_underlying_liquidity(s, index) = q
      /\ scaled_to_underlying_borrow(s, index) = q
      /\ scaled_to_underlying_borrow_ceil(s, index) = IF w % ONE = 0 THEN q ELSE q + 1
  BY <1>3, <1>5 DEF q
<1> QED
  BY <1>1, <1>5, <1>6, <1>7, OneAssumption DEF w

\* The debt a loan adds falls short of the loan by less than one atomic of the
\* index: the quotient is truncated before it is rounded up.
LEMMA DebtIsNearlyCovered ==
    ASSUME NEW x \in Nat, NEW index \in Nat \ {0}
    PROVE  /\ underlying_to_scaled_borrow_ceil(x, index) \in Nat
           /\ ONE * (x * ONE - underlying_to_scaled_borrow_ceil(x, index) * index) < index
<1> DEFINE q == (x * ONE * ONE) \div index
           d == (q \div ONE) + (IF q % ONE = 0 THEN 0 ELSE 1)
<1>1. q \in Nat /\ x * ONE * ONE < index * q + index
  BY OneAssumption, DivisionBounds
<1>2. underlying_to_scaled_borrow_ceil(x, index) = d
  BY DEF underlying_to_scaled_borrow_ceil, checked_div, ceil_to_u128
<1>3. d \in Nat /\ ONE * d >= q
  <2> HIDE DEF q
  <2>1. /\ q \div ONE \in Nat /\ ONE * (q \div ONE) <= q /\ q < ONE * (q \div ONE) + ONE
        /\ q % ONE = q - ONE * (q \div ONE)
    BY <1>1, OneAssumption, DivisionBounds
  <2> DEFINE h == q \div ONE
  <2>2. ONE * (h + 1) = ONE * h + ONE /\ h \in Nat /\ ONE * h \in Nat
    BY <2>1, OneAssumption
  <2>3. q < ONE * h + ONE /\ q % ONE = q - ONE * h /\ d = IF q % ONE = 0 THEN h ELSE h + 1
    BY <2>1
  <2> HIDE DEF h, d
  <2> QED
    BY <1>1, <2>2, <2>3, OneAssumption
<1> HIDE DEF q, d
<1>4. index * q <= index * (ONE * d)
  BY <1>1, <1>3, OneAssumption, ProductMonotone
<1>5. index * (ONE * d) = ONE * (d * index) /\ ONE * (x * ONE) = x * ONE * ONE
  BY <1>3, OneAssumption
<1>6. /\ ONE * (x * ONE - d * index) = ONE * (x * ONE) - ONE * (d * index)
      /\ index * q \in Nat /\ ONE * (d * index) \in Nat /\ ONE * (x * ONE) \in Nat
  BY <1>1, <1>3, OneAssumption
<1> QED
  BY <1>1, <1>2, <1>3, <1>4, <1>5, <1>6

\* A haircut lowers what the lenders are owed by the loss, or more.
LEMMA HaircutTakesTheLoss ==
    ASSUME NEW r \in Reserve, NEW forgone \in Nat, ~haircut_fails(r, forgone)
    PROVE  total_liquidity(apply_pro_rata_liquidity_index_haircut(r, forgone))
               <= total_liquidity(r) - forgone * ONE
<1> DEFINE h == apply_pro_rata_liquidity_index_haircut(r, forgone)
<1>1. total_liquidity(r) \in Nat /\ forgone * ONE \in Nat
  BY UtilizationType, OneAssumption
<1>2. CASE forgone = 0
  <2>1. h = r /\ forgone * ONE = 0
    BY <1>2, OneAssumption DEF apply_pro_rata_liquidity_index_haircut
  <2> QED
    BY <1>1, <2>1
<1>3. CASE forgone > 0
  <2>1. total_liquidity(r) > forgone * ONE
    BY <1>1, <1>3 DEF haircut_fails
  <2> DEFINE left == total_liquidity(r) - forgone * ONE
             tsl  == r.total_scaled_liquidity
             q    == (left * ONE) \div (tsl * ONE)
  <2>2. left \in Nat /\ tsl \in Nat
    BY <1>1, <2>1 DEF Reserve, Amount
  <2>3. tsl # 0
    <3>1. r.liquidity_index \in Nat /\ total_liquidity(r) > 0
      BY <1>1, <2>1 DEF Reserve, Atomics
    <3> QED
      BY <3>1 DEF total_liquidity
  <2>4. h = [r EXCEPT !.liquidity_index = q]
    BY <1>3 DEF apply_pro_rata_liquidity_index_haircut, haircut_index, checked_div
  <2>5. total_liquidity(h) = tsl * q
    BY <2>4 DEF total_liquidity, Reserve
  <2> HIDE DEF h
  <2>6. tsl * ONE \in Nat \ {0} /\ left * ONE \in Nat
    BY <2>2, <2>3, OneAssumption
  <2>7. q \in Nat /\ (tsl * ONE) * q <= left * ONE
    <3> HIDE DEF left, tsl
    <3> QED
      BY <2>6, DivisionBounds
  <2> HIDE DEF q, left, tsl
  <2>8. (tsl * q) * ONE <= left * ONE
    BY <2>2, <2>7, OneAssumption
  <2>9. ASSUME NEW m \in Nat, NEW n \in Nat, m * ONE <= n * ONE PROVE m <= n
    BY <2>9, OneAssumption
  <2>10. tsl * q <= left
    BY <2>2, <2>7, <2>8, <2>9
  <2> QED
    BY <2>5, <2>10 DEF left, h
<1> QED
  BY <1>2, <1>3

\* So it never raises their index.
LEMMA HaircutLowersTheIndex ==
    ASSUME NEW r \in Reserve, Sound(r), NEW forgone \in Nat, ~haircut_fails(r, forgone)
    PROVE  apply_pro_rata_liquidity_index_haircut(r, forgone).liquidity_index
               <= r.liquidity_index
<1>1. PICK h : h = apply_pro_rata_liquidity_index_haircut(r, forgone)
  OBVIOUS
<1>2. /\ h \in Reserve
      /\ h = [r EXCEPT !.liquidity_index = h.liquidity_index]
      /\ total_liquidity(h) <= total_liquidity(r) - forgone * ONE
  BY <1>1, HaircutKeepsReserve, HaircutTakesTheLoss
<1>3. CASE forgone = 0
  BY <1>1, <1>3 DEF apply_pro_rata_liquidity_index_haircut, Reserve, Atomics
<1>4. CASE forgone > 0
  <2>1. PICK s, i, j \in Nat : /\ s = r.total_scaled_liquidity
                               /\ i = r.liquidity_index /\ j = h.liquidity_index
    BY <1>2 DEF Reserve, Atomics, Amount
  <2>2. total_liquidity(r) = s * i /\ total_liquidity(h) = s * j
    BY <1>2, <2>1 DEF total_liquidity, Reserve
  <2>3. s * j < s * i
    <3>1. forgone * ONE \in Nat /\ forgone * ONE > 0 /\ s * i \in Nat /\ s * j \in Nat
      BY <1>4, OneAssumption
    <3> QED
      BY ONLY <1>2, <2>2, <3>1
  <2>4. j < i
    <3>1. SUFFICES ASSUME i <= j PROVE FALSE
      OBVIOUS
    <3>2. s * i <= s * j
      BY ONLY <3>1, s \in Nat, i \in Nat, j \in Nat, ProductMonotone
    <3>3. s * i \in Nat /\ s * j \in Nat
      OBVIOUS
    <3> QED
      BY ONLY <2>3, <3>2, <3>3
  <2> QED
    BY <1>1, <2>1, <2>4
<1> QED
  BY <1>3, <1>4

-----------------------------------------------------------------------------
\* Accrual pays for itself.  A common factor cancels; a bound carries over a
\* product.
LEMMA CancelOne ==
    ASSUME NEW m \in Nat, NEW n \in Nat, ONE * m <= ONE * n
    PROVE  m <= n
  BY OneAssumption

\* A share of a product, truncated in two steps, is no more than the share of
\* the exact product.
LEMMA TruncatedShare ==
    ASSUME NEW a \in Nat, NEW b \in Nat, NEW w \in Nat
    PROVE  /\ checked_mul(a, b) \in Nat
           /\ ONE * (w * checked_mul(a, b)) <= w * (a * b)
<1> DEFINE q == checked_mul(a, b)
<1>1. a * b \in Nat
  OBVIOUS
<1>2. q \in Nat /\ ONE * q <= a * b
  <2> DEFINE c == a * b
  <2> HIDE DEF c
  <2>1. c \div ONE \in Nat /\ ONE * (c \div ONE) <= c
    BY <1>1, OneAssumption, DivisionBounds DEF c
  <2> QED
    BY <2>1 DEF c, checked_mul
<1> HIDE DEF q
<1>3. w * (ONE * q) <= w * (a * b)
  <2> DEFINE c == a * b
             d == ONE * q
  <2>1. c \in Nat /\ d \in Nat /\ d <= c
    BY <1>2, OneAssumption
  <2> HIDE DEF c, d
  <2>2. w * d <= w * c
    BY <2>1, ProductMonotone
  <2> QED
    BY <2>2 DEF c, d
<1>4. w * (ONE * q) = ONE * (w * q)
  BY <1>2, OneAssumption
<1> QED
  BY <1>2, <1>3, <1>4 DEF q

\* What lenders earn and the fee on the debt come out of what borrowers are
\* charged, under either fee model and at any utilization.
LEMMA RatesAreFunded ==
    ASSUME NEW r \in Reserve, NEW p \in RateParams, valid_rate_params(p)
    PROVE  LET br == borrower_rate(r, p)
           IN  total_liquidity(r) * lender_rate(r, p) + total_borrow(r) * protocol_fee_rate(p, br)
                 <= total_borrow(r) * br
<1> DEFINE L  == total_liquidity(r)
           B  == total_borrow(r)
           u  == utilization(r)
           br == borrower_rate(r, p)
           lr == lender_rate(r, p)
           fr == protocol_fee_rate(p, br)
           rf == p.reserve_factor
           ff == p.flat_fee_apr
<1>1. L \in Nat /\ B \in Nat /\ u \in Nat /\ br \in Nat /\ lr \in Nat /\ fr \in Nat
  BY UtilizationType, RateTypes
<1>2. L * u <= ONE * B
  <2>1. CASE L = 0
    BY <1>1, <2>1, OneAssumption
  <2>2. CASE L # 0
    <3>1. u = (B * ONE) \div L
      BY <2>2 DEF utilization, checked_div
    <3> HIDE DEF L, B, u
    <3>2. L \in Nat \ {0} /\ B * ONE \in Nat /\ B * ONE = ONE * B
      BY <1>1, <2>2, OneAssumption
    <3> QED
      BY <3>1, <3>2, DivisionBounds
  <2> QED
    BY <2>1, <2>2
<1>3. br >= p.min_rate
  BY <1>1, BorrowerRateType DEF borrower_rate
<1>4. /\ rf \in Nat /\ ff \in Nat /\ rf < ONE /\ p.min_rate \in Nat
      /\ p.fee_model \in {ReserveFactor, FlatBorrowSpread}
      /\ p.fee_model = FlatBorrowSpread => ff <= p.min_rate
  BY DEF RateParams, valid_rate_params, Atomics
<1>5. CASE p.fee_model = ReserveFactor
  <2> DEFINE k == ONE - rf
             w == checked_mul(u, k)
  <2>1. k \in Nat /\ ONE = k + rf
    BY <1>4, OneAssumption
  <2>2. lr = checked_mul(br, w) /\ fr = checked_mul(br, rf)
    BY <1>5 DEF lender_rate, lender_rate_from_utilization, protocol_fee_rate
  <2> HIDE DEF k, L, B, u, br, lr, fr, rf
  <2>3. w \in Nat /\ ONE * ((L * br) * w) <= (L * br) * (u * k)
    <3>1. L * br \in Nat
      BY <1>1
    <3> QED
      BY <1>1, <2>1, <3>1, TruncatedShare
  <2> HIDE DEF w
  <2>4. ONE * (L * lr) <= L * (br * w)
    BY <1>1, <2>2, <2>3, TruncatedShare
  <2>5. ONE * (B * fr) <= B * (br * rf)
    BY <1>1, <1>4, <2>2, TruncatedShare DEF rf
  <2>6. (br * k) * (L * u) <= (br * k) * (ONE * B)
    <3> DEFINE m == L * u
               n == ONE * B
               h == br * k
    <3>1. m \in Nat /\ n \in Nat /\ h \in Nat /\ m <= n
      BY <1>1, <1>2, <2>1, OneAssumption
    <3> HIDE DEF m, n, h
    <3>2. h * m <= h * n
      BY <3>1, ProductMonotone
    <3> QED
      BY <3>2 DEF m, n, h
  <2>7. ONE * (L * (br * w)) <= ONE * (B * (br * k))
    <3>1. ONE * ((L * br) * w) = ONE * (L * (br * w))
      BY <1>1, <2>3, OneAssumption
    <3>2. (L * br) * (u * k) = (br * k) * (L * u)
      BY <1>1, <2>1
    <3>3. (br * k) * (ONE * B) = ONE * (B * (br * k))
      BY <1>1, <2>1, OneAssumption
    <3>4. /\ ONE * ((L * br) * w) \in Nat /\ (br * k) * (L * u) \in Nat
          /\ (br * k) * (ONE * B) \in Nat
      BY <1>1, <2>1, <2>3, OneAssumption
    <3> DEFINE m == ONE * ((L * br) * w)
               n == (br * k) * (L * u)
               o == (br * k) * (ONE * B)
    <3>5. m <= n /\ n <= o /\ m \in Nat /\ n \in Nat /\ o \in Nat
      BY <2>3, <2>6, <3>2, <3>4
    <3>6. m = ONE * (L * (br * w)) /\ o = ONE * (B * (br * k))
      BY <3>1, <3>3
    <3> HIDE DEF m, n, o
    <3> QED
      BY <3>5, <3>6
  <2>8. L * (br * w) <= B * (br * k)
    <3>1. L * (br * w) \in Nat /\ B * (br * k) \in Nat
      BY <1>1, <2>1, <2>3
    <3> QED
      BY <2>7, <3>1, CancelOne
  <2>9. ONE * (L * lr + B * fr) <= ONE * (B * br)
    <3> DEFINE m == L * lr
               n == B * fr
               o == L * (br * w)
               x == B * (br * k)
               y == B * (br * rf)
    <3>1. /\ m \in Nat /\ n \in Nat /\ o \in Nat /\ x \in Nat /\ y \in Nat
      BY <1>1, <1>4, <2>1, <2>3 DEF rf
    <3>2. ONE * (B * br) = x + y
      <4>1. (k + rf) * (B * br) = B * (br * k) + B * (br * rf)
        BY <1>1, <1>4, <2>1 DEF rf
      <4> QED
        BY <2>1, <4>1
    <3>3. ONE * m <= o /\ ONE * n <= y /\ o <= x
      BY <2>4, <2>5, <2>8
    <3> HIDE DEF m, n, o, x, y
    <3>4. ONE * (m + n) = ONE * m + ONE * n /\ ONE * m \in Nat /\ ONE * n \in Nat
      BY <3>1, OneAssumption
    <3>5. ONE * (m + n) <= x + y
      BY <3>1, <3>3, <3>4
    <3> QED
      BY <3>2, <3>5 DEF m, n
  <2>10. L * lr + B * fr \in Nat /\ B * br \in Nat
    BY <1>1
  <2>11. L * lr + B * fr <= B * br
    BY <2>9, <2>10, CancelOne
  <2> QED
    BY <2>11 DEF L, B, br, lr, fr
<1>6. CASE p.fee_model = FlatBorrowSpread
  <2> DEFINE k == br - ff
  <2>1. k \in Nat /\ br = k + ff
    BY <1>1, <1>3, <1>4, <1>6
  <2>2. lr = checked_mul(k, u) /\ fr = ff
    BY <1>6 DEF lender_rate, lender_rate_from_utilization, protocol_fee_rate,
                ReserveFactor, FlatBorrowSpread
  <2> HIDE DEF k, L, B, u, br, lr, fr, ff
  <2>3. ONE * (L * lr) <= L * (k * u)
    BY <1>1, <2>1, <2>2, TruncatedShare
  <2>4. k * (L * u) <= k * (ONE * B)
    <3> DEFINE m == L * u
               n == ONE * B
    <3>1. m \in Nat /\ n \in Nat /\ m <= n
      BY <1>1, <1>2, OneAssumption
    <3> HIDE DEF m, n
    <3>2. k * m <= k * n
      BY <2>1, <3>1, ProductMonotone
    <3> QED
      BY <3>2 DEF m, n
  <2>5. ONE * (L * lr) <= ONE * (B * k)
    <3>1. L * (k * u) = k * (L * u) /\ k * (ONE * B) = ONE * (B * k)
      BY <1>1, <2>1, OneAssumption
    <3>2. ONE * (L * lr) \in Nat /\ k * (L * u) \in Nat /\ ONE * (B * k) \in Nat
      BY <1>1, <2>1, OneAssumption
    <3> DEFINE m == ONE * (L * lr)
               n == k * (L * u)
               o == ONE * (B * k)
    <3>3. m <= n /\ n <= o
      BY <2>3, <2>4, <3>1
    <3>4. m \in Nat /\ n \in Nat /\ o \in Nat
      BY <3>2
    <3> HIDE DEF m, n, o
    <3>5. m <= o
      BY <3>3, <3>4
    <3> QED
      BY <3>5 DEF m, o
  <2>6. L * lr <= B * k
    <3>1. L * lr \in Nat /\ B * k \in Nat
      BY <1>1, <2>1
    <3> QED
      BY <2>5, <3>1, CancelOne
  <2>7. B * br = B * k + B * ff /\ L * lr \in Nat /\ B * k \in Nat /\ B * ff \in Nat
    <3>1. ff \in Nat
      BY <1>4 DEF ff
    <3>2. B * (k + ff) = B * k + B * ff
      BY <1>1, <2>1, <3>1
    <3> QED
      BY <1>1, <2>1, <3>1, <3>2
  <2>8. L * lr + B * fr <= B * br
    BY <2>2, <2>6, <2>7
  <2> QED
    BY <2>8 DEF L, B, br, lr, fr
<1> QED
  BY <1>4, <1>5, <1>6

\* The interest credited to lenders and the fee booked, over the time elapsed,
\* against the interest charged: at most one part in ONE of the debt is lost.
LEMMA InterestIsFunded ==
    ASSUME NEW r \in Reserve, NEW p \in RateParams, valid_rate_params(p), NEW e \in Nat
    PROVE  LET gl == checked_mul(lender_rate(r, p), time_fraction(e))
               gb == checked_mul(borrower_rate(r, p), time_fraction(e))
           IN  /\ gl \in Nat /\ gb \in Nat /\ protocol_fee(r, p, e) \in Nat
               /\ total_liquidity(r) * gl + ONE * (ONE * protocol_fee(r, p, e))
                    <= total_borrow(r) * gb + total_borrow(r)
<1> DEFINE L   == total_liquidity(r)
           B   == total_borrow(r)
           br  == borrower_rate(r, p)
           lr  == lender_rate(r, p)
           fr  == protocol_fee_rate(p, br)
           t   == time_fraction(e)
           gl  == checked_mul(lr, t)
           gb  == checked_mul(br, t)
           y   == checked_mul(B, fr)
           z   == checked_mul(y, t)
           fee == protocol_fee(r, p, e)
<1>1. L \in Nat /\ B \in Nat /\ br \in Nat /\ lr \in Nat /\ fr \in Nat
  BY UtilizationType, RateTypes
<1>2. t \in Nat
  <2>1. e * ONE \in Nat
    BY OneAssumption
  <2> QED
    BY <2>1, YearAssumption, DivisionBounds DEF time_fraction, from_ratio
<1>3. L * lr + B * fr <= B * br
  BY RatesAreFunded
<1>4. fee = z \div ONE
  BY DEF protocol_fee, floor_to_u128
<1> HIDE DEF L, B, br, lr, fr, t, fee
<1>5. gl \in Nat /\ ONE * (L * gl) <= L * (lr * t)
  BY <1>1, <1>2, TruncatedShare
<1>6. gb \in Nat /\ br * t < ONE * gb + ONE
  <2> DEFINE c == br * t
  <2>1. c \in Nat /\ gb = c \div ONE
    BY <1>1, <1>2 DEF checked_mul
  <2> HIDE DEF c, gb
  <2>2. c \div ONE \in Nat /\ c < ONE * (c \div ONE) + ONE
    BY <2>1, OneAssumption, DivisionBounds
  <2>3. gb \in Nat /\ c < ONE * gb + ONE
    BY <2>1, <2>2
  <2> QED
    BY <2>3 DEF c
<1>7. y \in Nat /\ ONE * (t * y) <= t * (B * fr)
  BY <1>1, <1>2, TruncatedShare
<1> HIDE DEF gl, gb, y
<1>8. z \in Nat /\ ONE * z <= y * t
  <2>1. z \in Nat /\ ONE * (1 * z) <= 1 * (y * t)
    BY <1>2, <1>7, TruncatedShare
  <2>2. y * t \in Nat
    BY <1>2, <1>7
  <2> HIDE DEF z
  <2> QED
    BY <2>1, <2>2, OneAssumption
<1>9. fee \in Nat /\ ONE * fee <= z
  <2> HIDE DEF z
  <2> QED
    BY <1>4, <1>8, OneAssumption, DivisionBounds
<1> HIDE DEF z
<1>10. ONE * (ONE * (ONE * fee)) <= t * (B * fr)
  <2>1. ONE * (ONE * fee) <= ONE * z
    <3> DEFINE m == ONE * fee
    <3>1. m \in Nat /\ m <= z
      BY <1>9, OneAssumption
    <3> HIDE DEF m
    <3>2. ONE * m <= ONE * z
      BY <1>8, <3>1, OneAssumption, ProductMonotone
    <3> QED
      BY <3>2 DEF m
  <2> DEFINE m == ONE * (ONE * fee)
             n == t * y
             o == t * (B * fr)
  <2>2. /\ m \in Nat /\ n \in Nat /\ o \in Nat /\ m <= n /\ ONE * n <= o
    <3>1. m \in Nat /\ n \in Nat /\ o \in Nat /\ y * t = n /\ ONE * z \in Nat
      BY <1>1, <1>2, <1>7, <1>8, <1>9, OneAssumption
    <3>2. m <= ONE * z /\ ONE * z <= y * t /\ ONE * n <= o
      BY <1>7, <1>8, <2>1
    <3> HIDE DEF m, n, o
    <3> QED
      BY <3>1, <3>2
  <2> HIDE DEF m, n, o
  <2>3. ONE * m <= ONE * n /\ ONE * m \in Nat /\ ONE * n \in Nat
    BY <2>2, OneAssumption, ProductMonotone
  <2>4. ONE * m <= o
    BY <2>2, <2>3
  <2> QED
    BY <2>4 DEF m, o
<1>11. t * (L * lr + B * fr) <= t * (B * br)
  <2> DEFINE m == L * lr + B * fr
             n == B * br
  <2>1. m \in Nat /\ n \in Nat /\ m <= n
    BY <1>1, <1>3
  <2> HIDE DEF m, n
  <2>2. t * m <= t * n
    BY <1>2, <2>1, ProductMonotone
  <2> QED
    BY <2>2 DEF m, n
<1>12. B * (br * t) <= B * (ONE * gb + ONE)
  <2> DEFINE m == br * t
             n == ONE * gb + ONE
  <2>1. m \in Nat /\ n \in Nat /\ m <= n
    BY <1>1, <1>2, <1>6, OneAssumption
  <2> HIDE DEF m, n
  <2>2. B * m <= B * n
    BY <1>1, <2>1, ProductMonotone
  <2> QED
    BY <2>2 DEF m, n
<1>13. ONE * (L * gl + ONE * (ONE * fee)) <= ONE * (B * gb + B)
  <2> DEFINE a == ONE * (L * gl)
             b == ONE * (ONE * (ONE * fee))
             c == L * (lr * t)
             d == t * (B * fr)
             f == t * (B * br)
             g == B * (ONE * gb + ONE)
  <2>1. a <= c /\ b <= d
    BY <1>5, <1>10
  <2>2. c + d <= f
    <3>1. t * (L * lr + B * fr) = L * (lr * t) + t * (B * fr)
      BY <1>1, <1>2
    <3> QED
      BY <1>11, <3>1
  <2>3. f <= g
    <3>1. t * (B * br) = B * (br * t)
      BY <1>1, <1>2
    <3> QED
      BY <1>12, <3>1
  <2>4. a \in Nat /\ b \in Nat /\ c \in Nat /\ d \in Nat /\ f \in Nat /\ g \in Nat
    BY <1>1, <1>2, <1>5, <1>6, <1>9, OneAssumption
  <2>5. ONE * (L * gl + ONE * (ONE * fee)) = a + b
    <3> DEFINE m == L * gl
               n == ONE * (ONE * fee)
    <3>1. m \in Nat /\ n \in Nat
      BY <1>1, <1>5, <1>9, OneAssumption
    <3> HIDE DEF m, n
    <3>2. ONE * (m + n) = ONE * m + ONE * n
      BY <3>1, OneAssumption
    <3> QED
      BY <3>2 DEF m, n
  <2>6. ONE * (B * gb + B) = g
    BY <1>1, <1>6, OneAssumption
  <2> HIDE DEF a, b, c, d, f, g
  <2>7. a + b <= g
    BY <2>1, <2>2, <2>3, <2>4
  <2> QED
    BY <2>5, <2>6, <2>7
<1>14. L * gl + ONE * (ONE * fee) \in Nat /\ B * gb + B \in Nat
  BY <1>1, <1>5, <1>6, <1>9, OneAssumption
<1>15. L * gl + ONE * (ONE * fee) <= B * gb + B
  BY <1>13, <1>14, CancelOne
<1> QED
  BY <1>5, <1>6, <1>9, <1>15 DEF L, B, gl, gb, fee, br, lr, t

-----------------------------------------------------------------------------

SupplyAgrees == reserve.total_scaled_liquidity = token.total_supply

Inv ==
    /\ TypeOK
    /\ valid_rate_params(contract.rate_params)
    /\ Sound(reserve)
    /\ SupplyAgrees

\* What every handler that leaves the configuration alone has to show.
BookOK ==
    /\ reserve \in Reserve /\ Sound(reserve)
    /\ token \in [ balances : [Accounts \cup {POOL} -> Amount], total_supply : Amount ]
    /\ SupplyAgrees
    /\ bank \in [Denoms -> Amount]

-----------------------------------------------------------------------------
\* The initial state.
LEMMA InitInv == Init => Inv
<1> SUFFICES ASSUME Init PROVE Inv
  OBVIOUS
<1>1. TypeOK
  <2>1. ownership \in [ owner : Accounts, pending_owner : Accounts \cup {NO_ONE},
                        pending_expiry : Nat ]
    BY AddressAssumption DEF Init, initialize_owner, NEVER
  <2>2. reserve \in Reserve
    BY OneAssumption, InitialConfigAssumption DEF Init, Reserve, Atomics, Amount
  <2>3. token \in [ balances : [Accounts \cup {POOL} -> Amount], total_supply : Amount ]
    BY DEF Init, Amount
  <2>4. directed_sale \in [Borrowers -> Offers]
    BY DEF Init, NoOffer, NoCollateral, Offers, Amount
  <2>5. /\ bank \in [Denoms -> Amount]
        /\ scaled_borrow \in [Borrowers -> Amount]
        /\ borrower_collateral \in [Borrowers -> [Collaterals -> Amount]]
        /\ total_collateral \in [Collaterals -> Amount]
        /\ directed_sale_version \in [Borrowers -> Nat]
    BY DEF Init, NoCollateral, Amount
  <2> QED
    BY <2>1, <2>2, <2>3, <2>4, <2>5, InitialConfigAssumption DEF Init, TypeOK
<1>2. Sound(reserve)
  BY OneAssumption DEF Init, Sound
<1> QED
  BY <1>1, <1>2, InitialConfigAssumption DEF Init, Inv, SupplyAgrees

-----------------------------------------------------------------------------
\* What a handler works with: the accrued reserve, a natural for every row.
LEMMA AccruedFacts ==
    ASSUME Inv
    PROVE  /\ accrued \in Reserve
           /\ Sound(accrued)
           /\ accrued.total_scaled_liquidity = token.total_supply
           /\ accrued.total_scaled_borrow = reserve.total_scaled_borrow
           /\ accrued.deficit_underlying = reserve.deficit_underlying
           /\ accrued.liquidity_index \in Nat /\ accrued.liquidity_index > 0
           /\ accrued.borrow_index \in Nat /\ accrued.borrow_index >= ONE
           /\ accrued.borrow_index > 0
           /\ accrued.last_updated_at >= now
           /\ accrued.total_scaled_liquidity \in Nat
           /\ accrued.total_scaled_borrow \in Nat
           /\ accrued.accrued_reserve \in Nat
           /\ accrued.deficit_underlying \in Nat
<1>1. /\ reserve \in Reserve /\ Sound(reserve) /\ now \in Nat
      /\ contract.rate_params \in RateParams
      /\ valid_rate_params(contract.rate_params)
  BY DEF Inv, TypeOK, Config
<1>2. /\ accrued \in Reserve
      /\ Sound(accrued)
      /\ accrued.total_scaled_liquidity = reserve.total_scaled_liquidity
      /\ accrued.total_scaled_borrow = reserve.total_scaled_borrow
      /\ accrued.deficit_underlying = reserve.deficit_underlying
      /\ accrued.last_updated_at >= now
  BY <1>1, AccrualKeepsReserve DEF accrued
<1>3. accrued.total_scaled_liquidity = token.total_supply
  BY <1>2 DEF Inv, SupplyAgrees
<1> QED
  BY <1>2, <1>3, OneAssumption DEF Sound, Reserve, Atomics, Amount

\* A handler that leaves time, quotes, settings, positions and offers alone
\* keeps the invariant if it keeps the book.
LEMMA BookSuffices ==
    ASSUME Inv, BookOK',
           UNCHANGED <<world_vars, config_vars, position_vars, sale_vars>>
    PROVE  Inv'
BY DEF Inv, TypeOK, BookOK, SupplyAgrees, Sound, world_vars, config_vars,
       position_vars, sale_vars

\* Minted, burned and moved units leave the ledger a ledger.
Token == [ balances : [Accounts \cup {POOL} -> Amount], total_supply : Amount ]

\* Minting keeps a ledger of naturals.
LEMMA MintType ==
    ASSUME NEW t \in Token, NEW a \in Accounts \cup {POOL}, NEW n \in Nat
    PROVE  /\ mint(t, a, n) \in Token
           /\ mint(t, a, n).total_supply = t.total_supply + n
BY DEF mint, Token, Amount

\* Burning what an account holds keeps a ledger of naturals.
LEMMA BurnType ==
    ASSUME NEW t \in Token, NEW a \in Accounts \cup {POOL}, NEW n \in Nat,
           t.balances[a] >= n, t.total_supply >= n
    PROVE  /\ apply_burn(t, a, n) \in Token
           /\ apply_burn(t, a, n).total_supply = t.total_supply - n
           /\ apply_burn(t, a, n).balances[a] = t.balances[a] - n
BY DEF apply_burn, Token, Amount

\* Moving what an account holds keeps a ledger of naturals.
LEMMA MoveType ==
    ASSUME NEW t \in Token, NEW a \in Accounts \cup {POOL}, NEW b \in Accounts \cup {POOL},
           NEW n \in Nat, t.balances[a] >= n, a # b
    PROVE  /\ move(t, a, b, n) \in Token
           /\ move(t, a, b, n).total_supply = t.total_supply
           /\ move(t, a, b, n).balances[b] = t.balances[b] + n
           /\ move(t, a, b, n).balances[a] = t.balances[a] - n
<1> DEFINE debited  == [t.balances EXCEPT ![a] = @ - n]
           credited == [debited EXCEPT ![b] = @ + n]
<1>1. /\ t.balances \in [Accounts \cup {POOL} -> Nat] /\ t.total_supply \in Nat
      /\ t.balances[a] \in Nat /\ t.balances[b] \in Nat
  BY DEF Token, Amount
<1>2. move(t, a, b, n) = [t EXCEPT !.balances = credited]
  BY DEF move
<1>3. debited \in [Accounts \cup {POOL} -> Nat]
  BY <1>1
<1>4. credited \in [Accounts \cup {POOL} -> Nat]
  BY <1>3
<1>5. credited[b] = t.balances[b] + n /\ credited[a] = t.balances[a] - n
  BY <1>1
<1> HIDE DEF credited
<1>6. /\ [t EXCEPT !.balances = credited].balances = credited
      /\ [t EXCEPT !.balances = credited].total_supply = t.total_supply
      /\ [t EXCEPT !.balances = credited] \in Token
  BY <1>4 DEF Token, Amount
<1> QED
  BY <1>2, <1>5, <1>6

-----------------------------------------------------------------------------
\* The lender side.
LEMMA LendInv ==
    ASSUME Inv, NEW l \in Lenders, NEW x \in Nat, Lend(l, x)
    PROVE  Inv'
<1> DEFINE scaled == underlying_to_scaled_liquidity(x, accrued.liquidity_index)
<1>1. scaled \in Nat
  BY AccruedFacts, ConversionTypes
<1>2. token \in Token /\ l \in Accounts \cup {POOL} /\ LENDING \in Denoms
  BY DEF Inv, TypeOK, Token, Accounts, Denoms
<1>3. /\ reserve' = [accrued EXCEPT !.total_scaled_liquidity = @ + scaled]
      /\ token' = mint(token, l, scaled)
      /\ bank' = [bank EXCEPT ![LENDING] = @ + x]
      /\ UNCHANGED <<world_vars, config_vars, position_vars, sale_vars>>
  BY DEF Lend
<1> HIDE DEF scaled
<1>4. reserve' \in Reserve /\ Sound(reserve')
  BY <1>1, <1>3, AccruedFacts DEF Reserve, Sound, Amount
<1>5. token' \in Token /\ token'.total_supply = token.total_supply + scaled
  BY <1>1, <1>2, <1>3, MintType
<1>6. reserve'.total_scaled_liquidity = accrued.total_scaled_liquidity + scaled
  BY <1>3, AccruedFacts DEF Reserve
<1>7. bank' \in [Denoms -> Amount]
  BY <1>2, <1>3 DEF Inv, TypeOK, Amount
<1>8. BookOK'
  BY <1>4, <1>5, <1>6, <1>7, AccruedFacts DEF BookOK, Token, SupplyAgrees, Sound
<1> QED
  BY <1>3, <1>8, BookSuffices

\* A payout takes units off a supply that has them and coins off the bank.
LEMMA PayOutInv ==
    ASSUME Inv, NEW scaled \in Nat, NEW underlying \in Nat,
           PayOutLiquidity(accrued, scaled, underlying),
           token' \in Token, token'.total_supply = token.total_supply - scaled,
           UNCHANGED <<world_vars, config_vars, position_vars, sale_vars>>
    PROVE  Inv'
<1>1. /\ accrued.total_scaled_liquidity >= scaled
      /\ bank[LENDING] >= underlying
      /\ reserve' = [accrued EXCEPT !.total_scaled_liquidity = @ - scaled]
      /\ bank' = [bank EXCEPT ![LENDING] = @ - underlying]
  BY DEF PayOutLiquidity, can_send
<1>2. reserve' \in Reserve /\ Sound(reserve')
  BY <1>1, AccruedFacts DEF Reserve, Sound, Amount
<1>3. reserve'.total_scaled_liquidity = accrued.total_scaled_liquidity - scaled
  BY <1>1, AccruedFacts DEF Reserve
<1>4. bank' \in [Denoms -> Amount]
  BY <1>1 DEF Inv, TypeOK, Amount, Denoms
<1>5. BookOK'
  BY <1>2, <1>3, <1>4, AccruedFacts DEF BookOK, Token, SupplyAgrees, Sound
<1> QED
  BY <1>5, BookSuffices

\* A withdrawal, through the pool.
LEMMA WithdrawInv ==
    ASSUME Inv, NEW s \in Operators, NEW l \in Lenders, NEW x \in Nat, NEW c \in BOOLEAN,
           Withdraw(s, l, x, c)
    PROVE  Inv'
<1> DEFINE li     == accrued.liquidity_index
           scaled == IF x = 0 THEN token.balances[l]
                     ELSE underlying_to_scaled_liquidity(x, li)
<1>1. token \in Token /\ l \in Accounts \cup {POOL} /\ token.balances[l] \in Nat
  BY DEF Inv, TypeOK, Token, Accounts, Amount
<1>2. scaled \in Nat
  BY <1>1, AccruedFacts, ConversionTypes
<1>3. scaled_to_underlying_liquidity(scaled, li) \in Nat
  BY <1>2, AccruedFacts, ConversionTypes
<1>4. /\ token.balances[l] >= scaled
      /\ token' = apply_burn(token, l, scaled)
      /\ PayOutLiquidity(accrued, scaled, scaled_to_underlying_liquidity(scaled, li))
      /\ UNCHANGED <<world_vars, config_vars, position_vars, sale_vars>>
  BY DEF Withdraw, can_burn
<1> HIDE DEF scaled, li
<1>5. token.total_supply >= scaled
  BY <1>4, AccruedFacts DEF PayOutLiquidity
<1>6. token' \in Token /\ token'.total_supply = token.total_supply - scaled
  BY <1>1, <1>2, <1>4, <1>5, BurnType
<1> QED
  BY <1>2, <1>3, <1>4, <1>6, PayOutInv

\* A Send to the pool, of which the pool burns what it needs and returns the rest.
LEMMA LedgerAfterBurnType ==
    ASSUME Inv, NEW l \in Lenders, NEW received \in Nat, NEW burned \in Nat,
           token.balances[l] >= received, received >= burned,
           token.total_supply >= burned
    PROVE  /\ ledger_after_burn(l, received, burned) \in Token
           /\ ledger_after_burn(l, received, burned).total_supply
                = token.total_supply - burned
<1> DEFINE at_pool == move(token, l, POOL, received)
           left    == apply_burn(at_pool, POOL, burned)
           back    == move(left, POOL, l, received - burned)
<1>1. token \in Token /\ l \in Accounts \cup {POOL} /\ POOL \in Accounts \cup {POOL} /\ l # POOL
  BY AddressAssumption DEF Inv, TypeOK, Token, Accounts
<1>2. token.balances[POOL] \in Nat
  BY <1>1 DEF Token, Amount
<1>3. /\ at_pool \in Token /\ at_pool.total_supply = token.total_supply
      /\ at_pool.balances[POOL] = token.balances[POOL] + received
  BY <1>1, MoveType
<1> HIDE DEF at_pool
<1>4. at_pool.balances[POOL] >= burned /\ at_pool.total_supply >= burned
  BY <1>2, <1>3
<1>5. /\ left \in Token /\ left.total_supply = at_pool.total_supply - burned
      /\ left.balances[POOL] = at_pool.balances[POOL] - burned
  BY <1>1, <1>3, <1>4, BurnType
<1> HIDE DEF left
<1>6. received - burned \in Nat /\ left.balances[POOL] >= received - burned
  BY <1>2, <1>3, <1>5
<1>7. back \in Token /\ back.total_supply = left.total_supply
  BY <1>1, <1>5, <1>6, MoveType
<1> HIDE DEF back
<1>8. ledger_after_burn(l, received, burned) = IF received > burned THEN back ELSE left
  BY DEF ledger_after_burn, back, left, at_pool
<1> QED
  BY <1>3, <1>5, <1>7, <1>8

\* Redeeming units: what comes back of the units received and what is burned.
LEMMA WithdrawUnitsInv ==
    ASSUME Inv, NEW l \in Lenders, NEW received \in Nat, NEW scaled \in Nat, NEW c \in BOOLEAN,
           received >= scaled, WithdrawUnits(accrued, l, received, scaled, c)
    PROVE  Inv'
<1>1. /\ token.balances[l] >= received
      /\ token' = ledger_after_burn(l, received, scaled)
      /\ PayOutLiquidity(accrued, scaled,
             scaled_to_underlying_liquidity(scaled, accrued.liquidity_index))
      /\ UNCHANGED <<world_vars, config_vars, position_vars, sale_vars>>
  BY DEF WithdrawUnits, can_move
<1>2. token.total_supply >= scaled
  BY <1>1, AccruedFacts DEF PayOutLiquidity
<1>3. token' \in Token /\ token'.total_supply = token.total_supply - scaled
  BY <1>1, <1>2, LedgerAfterBurnType
<1>4. scaled_to_underlying_liquidity(scaled, accrued.liquidity_index) \in Nat
  BY AccruedFacts, ConversionTypes
<1> QED
  BY <1>1, <1>3, <1>4, PayOutInv

\* An exact withdrawal, and one that starts at the token contract.
LEMMA WithdrawCw20Inv ==
    ASSUME Inv, NEW l \in Lenders, NEW u \in Nat, NEW x \in Nat, NEW c \in BOOLEAN,
           WithdrawExact(l, u, c) \/ WithdrawCw20(l, u, x, c)
    PROVE  Inv'
<1>1. CASE WithdrawExact(l, u, c)
  <2>1. WithdrawUnits(accrued, l, u, u, c)
    BY <1>1 DEF WithdrawExact
  <2> QED
    BY <2>1, WithdrawUnitsInv
<1>2. CASE WithdrawCw20(l, u, x, c)
  <2> DEFINE scaled == underlying_to_scaled_liquidity(x, accrued.liquidity_index)
  <2>1. scaled \in Nat
    BY AccruedFacts, ConversionTypes
  <2>2. u >= scaled /\ WithdrawUnits(accrued, l, u, scaled, c)
    BY <1>2 DEF WithdrawCw20
  <2> QED
    BY <2>1, <2>2, WithdrawUnitsInv
<1> QED
  BY <1>1, <1>2

\* Forwarding moves units and nothing else.
LEMMA ForwardUnitsInv ==
    ASSUME Inv, NEW l \in Lenders, NEW m \in Lenders, NEW received \in Nat, NEW scaled \in Nat,
           received >= scaled, ForwardUnits(l, received, m, scaled)
    PROVE  Inv'
<1> DEFINE at_pool   == move(token, l, POOL, received)
           forwarded == move(at_pool, POOL, m, scaled)
           back      == move(forwarded, POOL, l, received - scaled)
<1>1. /\ token \in Token
      /\ l \in Accounts \cup {POOL} /\ m \in Accounts \cup {POOL} /\ POOL \in Accounts \cup {POOL}
      /\ l # POOL /\ m # POOL
  BY AddressAssumption DEF Inv, TypeOK, Token, Accounts
<1>2. token.balances[POOL] \in Nat
  BY <1>1 DEF Token, Amount
<1>3. /\ token.balances[l] >= received
      /\ token' = IF received > scaled THEN back ELSE forwarded
      /\ UNCHANGED <<world_vars, config_vars, reserve, bank, position_vars, sale_vars>>
  BY DEF ForwardUnits, can_move
<1>4. /\ at_pool \in Token /\ at_pool.total_supply = token.total_supply
      /\ at_pool.balances[POOL] = token.balances[POOL] + received
  BY <1>1, <1>3, MoveType
<1> HIDE DEF at_pool
<1>5. at_pool.balances[POOL] >= scaled
  BY <1>2, <1>4
<1>6. /\ forwarded \in Token /\ forwarded.total_supply = at_pool.total_supply
      /\ forwarded.balances[POOL] = at_pool.balances[POOL] - scaled
  BY <1>1, <1>4, <1>5, MoveType
<1> HIDE DEF forwarded
<1>7. received - scaled \in Nat /\ forwarded.balances[POOL] >= received - scaled
  BY <1>2, <1>4, <1>6
<1>8. back \in Token /\ back.total_supply = forwarded.total_supply
  BY <1>1, <1>6, <1>7, MoveType
<1>9. token' \in Token /\ token'.total_supply = token.total_supply
  BY <1>3, <1>4, <1>6, <1>8
<1>10. BookOK'
  BY <1>3, <1>9 DEF Inv, TypeOK, BookOK, Token, SupplyAgrees, Sound
<1> QED
  BY <1>3, <1>10, BookSuffices

\* A transfer of units between lenders.
LEMMA TransferInv ==
    ASSUME Inv, NEW l \in Lenders, NEW m \in Lenders, NEW u \in Nat, NEW x \in Nat,
           TransferExact(l, u, m) \/ TransferCw20(l, u, m, x)
    PROVE  Inv'
<1>1. CASE TransferExact(l, u, m)
  BY <1>1, ForwardUnitsInv DEF TransferExact
<1>2. CASE TransferCw20(l, u, m, x)
  <2> DEFINE scaled == underlying_to_scaled_liquidity(x, accrued.liquidity_index)
  <2>1. scaled \in Nat
    BY AccruedFacts, ConversionTypes
  <2>2. u >= scaled /\ ForwardUnits(l, u, m, scaled)
    BY <1>2 DEF TransferCw20
  <2> QED
    BY <2>1, <2>2, ForwardUnitsInv
<1> QED
  BY <1>1, <1>2

\* Every message of a lender.
LEMMA LenderInv ==
    ASSUME Inv, LenderStep
    PROVE  Inv'
<1>1. /\ Inputs.lends \subseteq Nat /\ Inputs.redemptions \subseteq Nat
      /\ Inputs.units \subseteq Nat /\ Inputs.requests \subseteq Nat
      /\ Inputs.recipients \subseteq Lenders /\ Inputs.commits \subseteq BOOLEAN
  BY InputsAssumption DEF Amount
<1>2. CASE \E l \in Lenders, x \in Inputs.lends : Lend(l, x)
  BY <1>1, <1>2, LendInv
<1>3. CASE \E s \in Operators, l \in Lenders, x \in Inputs.redemptions, c \in Inputs.commits :
               Withdraw(s, l, x, c)
  BY <1>1, <1>3, WithdrawInv
<1>4. CASE \E l \in Lenders, u \in Inputs.units, c \in Inputs.commits : WithdrawExact(l, u, c)
  BY <1>1, <1>4, WithdrawCw20Inv
<1>5. CASE \E l \in Lenders, u \in Inputs.units, x \in Inputs.requests, c \in Inputs.commits :
               WithdrawCw20(l, u, x, c)
  BY <1>1, <1>5, WithdrawCw20Inv
<1>6. CASE \E l \in Lenders, u \in Inputs.units, m \in Inputs.recipients : TransferExact(l, u, m)
  BY <1>1, <1>6, TransferInv
<1>7. CASE \E l \in Lenders, u \in Inputs.units, m \in Inputs.recipients, x \in Inputs.requests :
               TransferCw20(l, u, m, x)
  BY <1>1, <1>7, TransferInv
<1> QED
  BY <1>2, <1>3, <1>4, <1>5, <1>6, <1>7 DEF LenderStep

-----------------------------------------------------------------------------
\* The borrower side.  What a handler that also changes positions and offers
\* has to show.
PositionsOK ==
    /\ scaled_borrow \in [Borrowers -> Amount]
    /\ borrower_collateral \in [Borrowers -> [Collaterals -> Amount]]
    /\ total_collateral \in [Collaterals -> Amount]
    /\ directed_sale \in [Borrowers -> Offers]
    /\ directed_sale_version \in [Borrowers -> Nat]

\* A handler that leaves the configuration alone and the positions well typed
\* keeps the invariant.
LEMMA PositionsSuffice ==
    ASSUME Inv, BookOK', PositionsOK', UNCHANGED <<world_vars, config_vars>>
    PROVE  Inv'
BY DEF Inv, TypeOK, BookOK, PositionsOK, SupplyAgrees, Sound, world_vars, config_vars

\* A step that sets one borrower's debt, the total debt and the bank.
LEMMA DebtChangeInv ==
    ASSUME Inv, NEW b \in Borrowers, NEW debt \in Nat, NEW total \in Nat, NEW coins \in Nat,
           scaled_borrow' = [scaled_borrow EXCEPT ![b] = debt],
           reserve' = [accrued EXCEPT !.total_scaled_borrow = total],
           bank' = [bank EXCEPT ![LENDING] = coins],
           UNCHANGED <<world_vars, config_vars, token, borrower_collateral,
                       total_collateral, sale_vars>>
    PROVE  Inv'
<1>1. /\ reserve' \in Reserve /\ Sound(reserve')
      /\ reserve'.total_scaled_liquidity = accrued.total_scaled_liquidity
  BY AccruedFacts DEF Reserve, Sound, Amount
<1>2. bank' \in [Denoms -> Amount]
  BY DEF Inv, TypeOK, Amount
<1>3. BookOK'
  BY <1>1, <1>2, AccruedFacts DEF Inv, TypeOK, BookOK, SupplyAgrees, Sound
<1>4. scaled_borrow' \in [Borrowers -> Amount]
  BY DEF Inv, TypeOK, Amount
<1>5. PositionsOK'
  BY <1>4 DEF Inv, TypeOK, PositionsOK, sale_vars
<1> QED
  BY <1>3, <1>5, PositionsSuffice

\* The types of one borrower's rows.
LEMMA StoredTypes ==
    ASSUME Inv, NEW b \in Borrowers
    PROVE  /\ scaled_borrow[b] \in Nat
           /\ borrower_collateral[b] \in [Collaterals -> Nat]
           /\ bank[LENDING] \in Nat
           /\ \A a \in Collaterals : bank[a] \in Nat /\ total_collateral[a] \in Nat
BY DEF Inv, TypeOK, Amount, Denoms

\* Borrowing.
LEMMA BorrowInv ==
    ASSUME Inv, NEW b \in Borrowers, NEW x \in Nat, Borrow(b, x)
    PROVE  Inv'
<1> DEFINE delta == underlying_to_scaled_borrow_ceil(x, accrued.borrow_index)
           debt  == debt_after_borrow(scaled_borrow[b], x, accrued.borrow_index)
<1>1. delta \in Nat
  BY AccruedFacts, ConversionTypes
<1>2. debt.scaled_delta = delta /\ debt.new_scaled = scaled_borrow[b] + delta
  BY DEF debt_after_borrow
<1>3. /\ bank[LENDING] >= x
      /\ scaled_borrow' = [scaled_borrow EXCEPT ![b] = debt.new_scaled]
      /\ reserve' = [accrued EXCEPT !.total_scaled_borrow = @ + debt.scaled_delta]
      /\ bank' = [bank EXCEPT ![LENDING] = @ - x]
      /\ UNCHANGED <<world_vars, config_vars, token, borrower_collateral,
                     total_collateral, sale_vars>>
  BY DEF Borrow, can_send
<1> HIDE DEF delta, debt
<1>4. /\ scaled_borrow[b] + delta \in Nat
      /\ accrued.total_scaled_borrow + delta \in Nat
      /\ bank[LENDING] - x \in Nat
  BY <1>1, <1>3, AccruedFacts, StoredTypes
<1>5. /\ reserve' = [accrued EXCEPT !.total_scaled_borrow = accrued.total_scaled_borrow + delta]
      /\ bank' = [bank EXCEPT ![LENDING] = bank[LENDING] - x]
  BY <1>2, <1>3
<1> QED
  BY <1>2, <1>3, <1>4, <1>5, DebtChangeInv

\* The payoff, what is taken of a payment and the units it repays are
\* naturals.
LEMMA PayoffTypes ==
    ASSUME Inv, NEW scaled \in Nat, NEW sent \in Nat
    PROVE  LET payoff == scaled_to_underlying_borrow_ceil(scaled, accrued.borrow_index)
               repaid == lesser(sent, payoff)
           IN  /\ payoff \in Nat
               /\ repaid \in Nat
               /\ scaled_repaid(scaled, repaid, payoff, accrued.borrow_index) \in Nat
<1> DEFINE payoff == scaled_to_underlying_borrow_ceil(scaled, accrued.borrow_index)
           repaid == lesser(sent, payoff)
<1>1. payoff \in Nat
  BY AccruedFacts, ConversionTypes
<1>2. repaid \in Nat
  BY <1>1 DEF lesser
<1>3. underlying_to_scaled_borrow(repaid, accrued.borrow_index) \in Nat
  BY <1>2, AccruedFacts, ConversionTypes
<1> QED
  BY <1>1, <1>2, <1>3 DEF scaled_repaid

\* Repaying.
LEMMA RepayInv ==
    ASSUME Inv, NEW b \in Borrowers, NEW x \in Nat, Repay(b, x)
    PROVE  Inv'
<1> DEFINE payoff == scaled_to_underlying_borrow_ceil(scaled_borrow[b], accrued.borrow_index)
           repaid == lesser(x, payoff)
           scaled == scaled_repaid(scaled_borrow[b], repaid, payoff, accrued.borrow_index)
<1>1. repaid \in Nat /\ scaled \in Nat
  BY StoredTypes, PayoffTypes
<1>2. /\ scaled_borrow[b] >= scaled
      /\ accrued.total_scaled_borrow >= scaled
      /\ scaled_borrow' = [scaled_borrow EXCEPT ![b] = @ - scaled]
      /\ reserve' = [accrued EXCEPT !.total_scaled_borrow = @ - scaled]
      /\ bank' = [bank EXCEPT ![LENDING] = @ + repaid]
      /\ UNCHANGED <<world_vars, config_vars, token, borrower_collateral,
                     total_collateral, sale_vars>>
  BY DEF Repay, can_repay
<1> HIDE DEF payoff, repaid, scaled
<1>3. /\ scaled_borrow[b] - scaled \in Nat
      /\ accrued.total_scaled_borrow - scaled \in Nat
      /\ bank[LENDING] + repaid \in Nat
  BY <1>1, <1>2, AccruedFacts, StoredTypes
<1>4. /\ scaled_borrow' = [scaled_borrow EXCEPT ![b] = scaled_borrow[b] - scaled]
      /\ reserve' = [accrued EXCEPT !.total_scaled_borrow = accrued.total_scaled_borrow - scaled]
      /\ bank' = [bank EXCEPT ![LENDING] = bank[LENDING] + repaid]
  BY <1>2
<1>5. UNCHANGED <<world_vars, config_vars, token, borrower_collateral,
                  total_collateral, sale_vars>>
  BY <1>2
<1> QED
  BY ONLY Inv, b \in Borrowers, <1>3, <1>4, <1>5, DebtChangeInv

\* Adding collateral.
LEMMA AddCollateralInv ==
    ASSUME Inv, NEW b \in Borrowers, NEW coins \in [Collaterals -> Nat], AddCollateral(b, coins)
    PROVE  Inv'
<1> DEFINE sent == held_types(coins)
<1>1. /\ borrower_collateral' = [borrower_collateral EXCEPT ![b] =
             [a \in Collaterals |-> borrower_collateral[b][a] + coins[a]]]
      /\ total_collateral' = [a \in Collaterals |-> total_collateral[a] + coins[a]]
      /\ bank' = [d \in Denoms |-> IF d \in sent THEN bank[d] + coins[d] ELSE bank[d]]
      /\ UNCHANGED <<world_vars, config_vars, reserve, token, scaled_borrow, sale_vars>>
  BY DEF AddCollateral
<1>2. \A a \in sent : a \in Collaterals
  BY DEF held_types
<1> HIDE DEF sent
<1>3. bank' \in [Denoms -> Amount]
  BY <1>1, <1>2 DEF Inv, TypeOK, Amount
<1>4. BookOK'
  BY <1>1, <1>3 DEF Inv, TypeOK, BookOK, SupplyAgrees, Sound
<1>5. /\ borrower_collateral' \in [Borrowers -> [Collaterals -> Amount]]
      /\ total_collateral' \in [Collaterals -> Amount]
  BY <1>1 DEF Inv, TypeOK, Amount
<1>6. PositionsOK'
  BY <1>1, <1>5 DEF Inv, TypeOK, PositionsOK, sale_vars
<1> QED
  BY <1>1, <1>4, <1>6, PositionsSuffice

\* Removing collateral.
LEMMA RemoveCollateralInv ==
    ASSUME Inv, NEW b \in Borrowers, NEW coins \in [Collaterals -> Nat],
           RemoveCollateral(b, coins)
    PROVE  Inv'
<1> DEFINE removed == held_types(coins)
           left    == [a \in Collaterals |-> saturating_sub(borrower_collateral[b][a], coins[a])]
<1>1. /\ \A a \in removed : bank[a] >= coins[a]
      /\ reserve' = accrued
      /\ borrower_collateral' = [borrower_collateral EXCEPT ![b] = left]
      /\ total_collateral' = [a \in Collaterals |-> saturating_sub(total_collateral[a], coins[a])]
      /\ bank' = [d \in Denoms |-> IF d \in removed THEN bank[d] - coins[d] ELSE bank[d]]
      /\ UNCHANGED <<world_vars, config_vars, token, scaled_borrow, sale_vars>>
  BY DEF RemoveCollateral, can_remove_collateral, left_after
<1>2. \A a \in removed : a \in Collaterals
  BY DEF held_types
<1>3. left \in [Collaterals -> Amount]
  BY StoredTypes DEF Amount, saturating_sub
<1> HIDE DEF removed, left
<1>4. bank' \in [Denoms -> Amount]
  BY <1>1, <1>2 DEF Inv, TypeOK, Amount
<1>5. BookOK'
  BY <1>1, <1>4, AccruedFacts DEF Inv, TypeOK, BookOK, SupplyAgrees, Sound
<1>6. /\ borrower_collateral' \in [Borrowers -> [Collaterals -> Amount]]
      /\ total_collateral' \in [Collaterals -> Amount]
  BY <1>1, <1>3 DEF Inv, TypeOK, Amount, saturating_sub
<1>7. PositionsOK'
  BY <1>1, <1>6 DEF Inv, TypeOK, PositionsOK, sale_vars
<1> QED
  BY <1>1, <1>5, <1>7, PositionsSuffice

\* What is stored of an offer is an offer.
LEMMA StoredOfferType ==
    ASSUME NEW amounts \in [Collaterals -> Nat], NEW t \in Nat
    PROVE  stored_offer(amounts, t) \in Offers
BY DEF stored_offer, NoOffer, NoCollateral, Offers, Amount

\* Adjusting a directed sale.
LEMMA AdjustInv ==
    ASSUME Inv, NEW b \in Borrowers, NEW delta \in [Collaterals -> Int], NEW t \in Nat,
           NEW v \in Nat, AdjustDirectedCollateralSale(b, delta, t, v)
    PROVE  Inv'
<1> DEFINE offer    == directed_sale[b]
           deadline == offer_deadline(offer, is_increase(delta), t)
           amounts  == adjusted_amounts(offer.amounts, delta)
           stored   == IF \A a \in Collaterals : delta[a] = 0 THEN NoOffer
                       ELSE stored_offer(amounts, deadline)
<1>1. offer.amounts \in [Collaterals -> Nat] /\ offer.expires_at \in Nat
  BY DEF Inv, TypeOK, Offers, Amount
<1>2. amounts \in [Collaterals -> Nat]
  <2>1. \A a \in Collaterals : offer.amounts[a] \in Nat /\ delta[a] \in Int
    BY <1>1
  <2> HIDE DEF offer
  <2> QED
    BY <2>1 DEF adjusted_amounts, saturating_sub
<1>3. deadline \in Nat
  BY <1>1 DEF offer_deadline
<1>4. stored_offer(amounts, deadline) \in Offers
  BY <1>2, <1>3, StoredOfferType
<1>5. NoOffer \in Offers
  BY DEF NoOffer, NoCollateral, Offers, Amount
<1>6. stored \in Offers
  BY <1>4, <1>5
<1>7. /\ directed_sale' = [directed_sale EXCEPT ![b] = stored]
      /\ directed_sale_version' = [directed_sale_version EXCEPT ![b] = v]
      /\ UNCHANGED <<world_vars, config_vars, reserve, token, bank, position_vars>>
  BY DEF AdjustDirectedCollateralSale
<1> HIDE DEF stored
<1>8. BookOK'
  BY <1>7 DEF Inv, TypeOK, BookOK, SupplyAgrees, Sound
<1>9. PositionsOK'
  BY <1>6, <1>7 DEF Inv, TypeOK, PositionsOK, position_vars
<1> QED
  BY <1>7, <1>8, <1>9, PositionsSuffice

\* Every message of a borrower.
LEMMA BorrowerInv ==
    ASSUME Inv, BorrowerStep
    PROVE  Inv'
<1>1. /\ Inputs.borrows \subseteq Nat /\ Inputs.repayments \subseteq Nat
      /\ Inputs.deposits \subseteq [Collaterals -> Nat]
      /\ Inputs.removals \subseteq [Collaterals -> Nat]
      /\ Inputs.sales \subseteq [Collaterals -> Int]
      /\ Inputs.deadlines \subseteq Nat
  BY InputsAssumption DEF Amount
<1>2. CASE \E b \in Borrowers, x \in Inputs.borrows : Borrow(b, x)
  BY <1>1, <1>2, BorrowInv
<1>3. CASE \E b \in Borrowers, x \in Inputs.repayments : Repay(b, x)
  BY <1>1, <1>3, RepayInv
<1>4. CASE \E b \in Borrowers, coins \in Inputs.deposits : AddCollateral(b, coins)
  BY <1>1, <1>4, AddCollateralInv
<1>5. CASE \E b \in Borrowers, coins \in Inputs.removals : RemoveCollateral(b, coins)
  BY <1>1, <1>5, RemoveCollateralInv
<1>6. CASE \E b \in Borrowers, delta \in Inputs.sales, t \in Inputs.deadlines,
               v \in 1 .. MaxVersion : AdjustDirectedCollateralSale(b, delta, t, v)
  <2>1. PICK b \in Borrowers, delta \in Inputs.sales, t \in Inputs.deadlines,
             v \in 1 .. MaxVersion : AdjustDirectedCollateralSale(b, delta, t, v)
    BY <1>6
  <2>2. v \in Nat
    BY <2>1 DEF AdjustDirectedCollateralSale, Inv, TypeOK
  <2> QED
    BY <1>1, <2>1, <2>2, AdjustInv
<1> QED
  BY <1>2, <1>3, <1>4, <1>5, <1>6 DEF BorrowerStep

-----------------------------------------------------------------------------
\* Liquidation.  The figures it works with are naturals when its checks pass.
LEMMA FiguresFacts ==
    ASSUME Inv, NEW b \in Borrowers, NEW seize \in [Collaterals -> Nat], NEW sent \in Nat
    PROVE  LET f == figures(b, seize, sent)
           IN  /\ f.r = accrued
               /\ f.held = borrower_collateral[b]
               /\ f.seize = seize
               /\ f.scaled = scaled_borrow[b]
               /\ f.residue = f.scaled - f.removed
               /\ f.scaled \in Nat /\ f.payoff \in Nat /\ f.repaid \in Nat /\ f.removed \in Nat
               /\ f.bad_debt \in BOOLEAN
               /\ outgoing(f) \in [Collaterals -> Nat]
<1> DEFINE payoff == scaled_to_underlying_borrow_ceil(scaled_borrow[b], accrued.borrow_index)
           repaid == lesser(sent, payoff)
           removed == scaled_repaid(scaled_borrow[b], repaid, payoff, accrued.borrow_index)
           f == figures(b, seize, sent)
<1>1. scaled_borrow[b] \in Nat /\ payoff \in Nat /\ repaid \in Nat /\ removed \in Nat
  BY StoredTypes, PayoffTypes
<1>2. /\ f.r = accrued
      /\ f.held = borrower_collateral[b]
      /\ f.seize = seize
      /\ f.scaled = scaled_borrow[b]
      /\ f.payoff = payoff
      /\ f.repaid = repaid
      /\ f.removed = removed
      /\ f.residue = f.scaled - f.removed
      /\ f.bad_debt \in BOOLEAN
  BY DEF figures
<1> HIDE DEF f, payoff, repaid, removed
<1>3. outgoing(f) \in [Collaterals -> Nat]
  BY <1>2, StoredTypes DEF outgoing
<1> QED
  BY <1>1, <1>2, <1>3 DEF f

\* Whether a haircut fails depends on the supply alone.
LEMMA HaircutIgnoresDebt ==
    ASSUME NEW r \in Reserve, NEW n, NEW x
    PROVE  haircut_fails([r EXCEPT !.total_scaled_borrow = n], x) = haircut_fails(r, x)
<1> DEFINE c == [r EXCEPT !.total_scaled_borrow = n]
<1>1. c.liquidity_index = r.liquidity_index /\ c.total_scaled_liquidity = r.total_scaled_liquidity
  BY DEF Reserve
<1> HIDE DEF c
<1>2. total_liquidity(c) = total_liquidity(r)
  BY <1>1 DEF total_liquidity
<1>3. haircut_index(c, x) = haircut_index(r, x)
  BY <1>1, <1>2 DEF haircut_index
<1>4. haircut_fails(c, x) = haircut_fails(r, x)
  BY <1>2, <1>3 DEF haircut_fails
<1> QED
  BY <1>4 DEF c

\* The books after a liquidation are sound and leave the supply as it was.
LEMMA BooksAfterFacts ==
    ASSUME NEW f, f.r \in Reserve, Sound(f.r),
           f.scaled \in Nat, f.removed \in Nat, f.residue \in Nat, f.bad_debt \in BOOLEAN,
           f.residue = f.scaled - f.removed,
           (IF f.bad_debt THEN f.scaled ELSE f.removed) <= f.r.total_scaled_borrow,
           f.bad_debt /\ contract.bad_debt_loss_allocation = ImmediateLiquidityIndexHaircut
               => ~haircut_fails(f.r, loss(f)),
           contract.bad_debt_loss_allocation
               \in {DeferredToDeficit, ImmediateLiquidityIndexHaircut}
    PROVE  /\ books_after(f) \in Reserve
           /\ Sound(books_after(f))
           /\ books_after(f).total_scaled_liquidity = f.r.total_scaled_liquidity
           /\ books_after(f).borrow_index = f.r.borrow_index
           /\ books_after(f).last_updated_at = f.r.last_updated_at
           /\ books_after(f).total_scaled_borrow <= f.r.total_scaled_borrow
           /\ books_after(f).total_scaled_borrow
                = f.r.total_scaled_borrow - (IF f.bad_debt THEN f.scaled ELSE f.removed)
           /\ ~(f.bad_debt /\ contract.bad_debt_loss_allocation = ImmediateLiquidityIndexHaircut)
                => books_after(f).liquidity_index = f.r.liquidity_index
           /\ books_after(f).liquidity_index <= f.r.liquidity_index
           /\ books_after(f).accrued_reserve = f.r.accrued_reserve
           /\ ~(f.bad_debt /\ contract.bad_debt_loss_allocation = DeferredToDeficit)
                => books_after(f).deficit_underlying = f.r.deficit_underlying
<1>1. /\ f.r.total_scaled_borrow \in Nat /\ f.r.borrow_index \in Nat
      /\ f.r.borrow_index > 0 /\ f.r.deficit_underlying \in Nat
      /\ f.r.liquidity_index \in Nat /\ f.r.accrued_reserve \in Nat
  BY OneAssumption DEF Reserve, Sound, Amount, Atomics
<1>2. loss(f) \in Nat
  BY <1>1, ConversionTypes DEF loss
<1>3. CASE ~f.bad_debt
  <2>1. f.r.total_scaled_borrow - f.removed \in Nat
    BY <1>1
  <2>2. books_after(f) = [f.r EXCEPT !.total_scaled_borrow = f.r.total_scaled_borrow - f.removed]
    BY <1>3 DEF books_after
  <2> QED
    BY <1>1, <1>3, <2>1, <2>2 DEF Reserve, Sound, Amount
<1>4. CASE f.bad_debt
  <2> DEFINE rest    == f.r.total_scaled_borrow - (f.removed + f.residue)
             cleared == [f.r EXCEPT !.total_scaled_borrow = rest]
  <2>1. /\ rest \in Nat /\ rest <= f.r.total_scaled_borrow
        /\ rest = f.r.total_scaled_borrow - f.scaled
    BY <1>1, <1>4
  <2> HIDE DEF rest
  <2>2. /\ cleared \in Reserve /\ Sound(cleared)
        /\ cleared.total_scaled_liquidity = f.r.total_scaled_liquidity
        /\ cleared.borrow_index = f.r.borrow_index
        /\ cleared.liquidity_index = f.r.liquidity_index
        /\ cleared.last_updated_at = f.r.last_updated_at
        /\ cleared.total_scaled_borrow <= f.r.total_scaled_borrow
        /\ cleared.total_scaled_borrow = f.r.total_scaled_borrow - f.scaled
        /\ cleared.deficit_underlying = f.r.deficit_underlying
        /\ cleared.accrued_reserve = f.r.accrued_reserve
    BY <2>1 DEF Reserve, Sound, Amount
  <2>3. CASE contract.bad_debt_loss_allocation = DeferredToDeficit
    <3>1. books_after(f) = [cleared EXCEPT !.deficit_underlying =
                                cleared.deficit_underlying + loss(f)]
      BY <1>4, <2>3 DEF books_after, rest
    <3> HIDE DEF cleared
    <3>2. cleared.deficit_underlying + loss(f) \in Nat
      BY <1>1, <1>2, <2>2
    <3> QED
      BY <1>1, <1>4, <2>2, <2>3, <3>1, <3>2 DEF Reserve, Sound, Amount
  <2>4. CASE contract.bad_debt_loss_allocation = ImmediateLiquidityIndexHaircut
    <3>1. books_after(f) = apply_pro_rata_liquidity_index_haircut(cleared, loss(f))
      BY <1>4, <2>4 DEF books_after, rest, DeferredToDeficit, ImmediateLiquidityIndexHaircut
    <3>2. ~haircut_fails(cleared, loss(f))
      BY <1>4, <2>4, HaircutIgnoresDebt
    <3> HIDE DEF cleared
    <3>3. /\ books_after(f) \in Reserve /\ Sound(books_after(f))
          /\ books_after(f) = [cleared EXCEPT !.liquidity_index = books_after(f).liquidity_index]
          /\ books_after(f).liquidity_index <= cleared.liquidity_index
      BY <1>2, <2>2, <3>1, <3>2, HaircutKeepsReserve, HaircutLowersTheIndex
    <3> QED
      BY <1>4, <2>2, <2>4, <3>3 DEF Reserve
  <2> QED
    BY <2>3, <2>4
<1> QED
  BY <1>3, <1>4

\* A liquidation, with the write-off it may end in.
LEMMA LiquidateInv ==
    ASSUME Inv, NEW s \in Operators, NEW b \in Borrowers,
           NEW seize \in [Collaterals -> Nat], NEW sent \in Nat,
           Liquidate(s, b, seize, sent)
    PROVE  Inv'
<1> DEFINE f   == figures(b, seize, sent)
           out == outgoing(f)
<1>1. /\ f.r = accrued
      /\ f.scaled \in Nat /\ f.repaid \in Nat /\ f.removed \in Nat
      /\ f.residue = f.scaled - f.removed
      /\ f.bad_debt \in BOOLEAN
      /\ out \in [Collaterals -> Nat]
      /\ f.seize = seize
  BY FiguresFacts
<1>2. /\ f.residue >= 0
      /\ books_balance(f)
      /\ \A a \in Collaterals : bank[a] >= out[a]
      /\ scaled_borrow' = [scaled_borrow EXCEPT ![b] = IF f.bad_debt THEN 0 ELSE f.residue]
      /\ reserve' = books_after(f)
      /\ borrower_collateral' = [borrower_collateral EXCEPT ![b] =
             [a \in Collaterals |-> saturating_sub(@[a], out[a])]]
      /\ total_collateral' = [a \in Collaterals |-> saturating_sub(total_collateral[a], out[a])]
      /\ bank' = [d \in Denoms |-> IF d = LENDING THEN bank[d] + f.repaid ELSE bank[d] - out[d]]
      /\ directed_sale' = [directed_sale EXCEPT ![b] = sale_after(b, f)]
      /\ UNCHANGED <<world_vars, config_vars, token, directed_sale_version>>
  BY DEF Liquidate, can_liquidate
<1> HIDE DEF f, out
<1>3. f.residue \in Nat
  BY <1>1, <1>2
<1>4. /\ reserve' \in Reserve /\ Sound(reserve')
      /\ reserve'.total_scaled_liquidity = accrued.total_scaled_liquidity
  <2>1. contract.bad_debt_loss_allocation
          \in {DeferredToDeficit, ImmediateLiquidityIndexHaircut}
    BY DEF Inv, TypeOK, Config
  <2>2. /\ (IF f.bad_debt THEN f.scaled ELSE f.removed) <= f.r.total_scaled_borrow
        /\ f.bad_debt /\ contract.bad_debt_loss_allocation = ImmediateLiquidityIndexHaircut
               => ~haircut_fails(f.r, loss(f))
    BY <1>1, <1>2 DEF books_balance
  <2>3. accrued \in Reserve /\ Sound(accrued)
    BY AccruedFacts
  <2> QED
    BY <1>1, <1>2, <1>3, <2>1, <2>2, <2>3, BooksAfterFacts
<1>5. bank' \in [Denoms -> Amount]
  BY <1>1, <1>2 DEF Inv, TypeOK, Amount, Denoms
<1>6. BookOK'
  BY <1>2, <1>4, <1>5, AccruedFacts DEF Inv, TypeOK, BookOK, SupplyAgrees
<1>7. /\ borrower_collateral' \in [Borrowers -> [Collaterals -> Amount]]
      /\ total_collateral' \in [Collaterals -> Amount]
  BY <1>1, <1>2 DEF Inv, TypeOK, Amount, saturating_sub
<1>8. scaled_borrow' \in [Borrowers -> Amount]
  BY <1>2, <1>3 DEF Inv, TypeOK, Amount
<1>9. sale_after(b, f) \in Offers
  <2>1. /\ directed_sale[b] \in Offers
        /\ directed_sale[b].amounts \in [Collaterals -> Nat]
        /\ directed_sale[b].expires_at \in Nat
    BY DEF Inv, TypeOK, Offers, Amount
  <2>2. subtract_seize(directed_sale[b].amounts, f.seize) \in [Collaterals -> Nat]
    BY <1>1, <2>1 DEF subtract_seize, saturating_sub
  <2> QED
    BY <2>1, <2>2, StoredOfferType DEF sale_after
<1>10. PositionsOK'
  BY <1>2, <1>7, <1>8, <1>9 DEF Inv, TypeOK, PositionsOK
<1> QED
  BY <1>2, <1>6, <1>10, PositionsSuffice

-----------------------------------------------------------------------------

\* A liquidation's arguments are coins.
LEMMA LiquidationInv ==
    ASSUME Inv, LiquidationStep
    PROVE  Inv'
<1>1. Inputs.seizures \subseteq [Collaterals -> Nat] /\ Inputs.payments \subseteq Nat
  BY InputsAssumption DEF Amount
<1> QED
  BY <1>1, LiquidateInv DEF LiquidationStep

-----------------------------------------------------------------------------
\* The reserve.  A step that sets the losses and fees of the accrued reserve,
\* and the bank, to naturals.
LEMMA ReserveChangeInv ==
    ASSUME Inv, NEW fees \in Nat, NEW deficit \in Nat, NEW coins \in Nat,
           reserve' = [accrued EXCEPT !.accrued_reserve = fees,
                                      !.deficit_underlying = deficit],
           bank' = [bank EXCEPT ![LENDING] = coins],
           UNCHANGED <<world_vars, config_vars, token, position_vars, sale_vars>>
    PROVE  Inv'
<1>1. /\ reserve' \in Reserve /\ Sound(reserve')
      /\ reserve'.total_scaled_liquidity = accrued.total_scaled_liquidity
  BY AccruedFacts DEF Reserve, Sound, Amount
<1>2. bank' \in [Denoms -> Amount]
  BY DEF Inv, TypeOK, Amount
<1>3. BookOK'
  BY <1>1, <1>2, AccruedFacts DEF Inv, TypeOK, BookOK, SupplyAgrees, Sound
<1> QED
  BY <1>3, BookSuffices

\* Covering the deficit from the fees.
LEMMA EliminateFromReserveInv ==
    ASSUME Inv, NEW s \in Operators, NEW x \in Nat, EliminateDeficitFromReserve(s, x)
    PROVE  Inv'
<1> DEFINE clear == lesser(lesser(accrued.deficit_underlying, x), accrued.accrued_reserve)
<1>1. /\ clear \in Nat
      /\ accrued.deficit_underlying - clear \in Nat
      /\ accrued.accrued_reserve - clear \in Nat
  BY AccruedFacts DEF lesser
<1>2. /\ reserve' = [accrued EXCEPT !.deficit_underlying = @ - clear,
                                    !.accrued_reserve = @ - clear]
      /\ UNCHANGED <<world_vars, config_vars, token, bank, position_vars, sale_vars>>
  BY DEF EliminateDeficitFromReserve
<1> HIDE DEF clear
<1>3. reserve' = [accrued EXCEPT !.accrued_reserve = accrued.accrued_reserve - clear,
                                 !.deficit_underlying = accrued.deficit_underlying - clear]
  BY <1>2, AccruedFacts DEF Reserve
<1>4. bank[LENDING] \in Nat /\ bank' = [bank EXCEPT ![LENDING] = bank[LENDING]]
  BY <1>2 DEF Inv, TypeOK, Amount, Denoms
<1> QED
  BY <1>1, <1>2, <1>3, <1>4, ReserveChangeInv

\* Covering the deficit with coins sent.
LEMMA EliminateFromBankInv ==
    ASSUME Inv, NEW s \in Operators, NEW x \in Nat, NEW y \in Nat,
           EliminateDeficitFromBank(s, x, y)
    PROVE  Inv'
<1> DEFINE applied == lesser(lesser(accrued.deficit_underlying, x), y)
<1>1. applied \in Nat /\ accrued.deficit_underlying - applied \in Nat
  BY AccruedFacts DEF lesser
<1>2. /\ reserve' = [accrued EXCEPT !.deficit_underlying = @ - applied]
      /\ bank' = [bank EXCEPT ![LENDING] = @ + applied]
      /\ UNCHANGED <<world_vars, config_vars, token, position_vars, sale_vars>>
  BY DEF EliminateDeficitFromBank
<1> HIDE DEF applied
<1>3. reserve' = [accrued EXCEPT !.accrued_reserve = accrued.accrued_reserve,
                                 !.deficit_underlying = accrued.deficit_underlying - applied]
  BY <1>2, AccruedFacts DEF Reserve
<1>4. bank[LENDING] + applied \in Nat /\ bank' = [bank EXCEPT ![LENDING] = bank[LENDING] + applied]
  BY <1>1, <1>2 DEF Inv, TypeOK, Amount, Denoms
<1> QED
  BY <1>1, <1>2, <1>3, <1>4, AccruedFacts, ReserveChangeInv

\* Sharing a slice of the deficit among the lenders.
LEMMA SocializeInv ==
    ASSUME Inv, NEW s \in Operators, NEW x \in Nat, SocializeDeficit(s, x)
    PROVE  Inv'
<1> DEFINE amount == lesser(x, accrued.deficit_underlying)
           h == apply_pro_rata_liquidity_index_haircut(accrued, amount)
<1>1. amount \in Nat /\ accrued.deficit_underlying - amount \in Nat
  BY AccruedFacts DEF lesser
<1>2. /\ ~haircut_fails(accrued, amount)
      /\ reserve' = [h EXCEPT !.deficit_underlying = @ - amount]
      /\ UNCHANGED <<world_vars, config_vars, token, bank, position_vars, sale_vars>>
  BY DEF SocializeDeficit
<1> HIDE DEF amount
<1>3. /\ h \in Reserve /\ Sound(h)
      /\ h = [accrued EXCEPT !.liquidity_index = h.liquidity_index]
  BY <1>1, <1>2, AccruedFacts, HaircutKeepsReserve
<1> HIDE DEF h
<1>4. /\ h.deficit_underlying = accrued.deficit_underlying
      /\ h.total_scaled_liquidity = accrued.total_scaled_liquidity
  BY <1>3, AccruedFacts DEF Reserve
<1>5. /\ reserve' \in Reserve /\ Sound(reserve')
      /\ reserve'.total_scaled_liquidity = accrued.total_scaled_liquidity
  BY <1>1, <1>2, <1>3, <1>4 DEF Reserve, Sound, Amount
<1>6. BookOK'
  BY <1>2, <1>5, AccruedFacts DEF Inv, TypeOK, BookOK, SupplyAgrees, Sound
<1> QED
  BY <1>2, <1>6, BookSuffices

\* Withdrawing the fees.
LEMMA WithdrawReserveInv ==
    ASSUME Inv, NEW s \in Operators, WithdrawReserve(s)
    PROVE  Inv'
<1> DEFINE free   == saturating_sub(bank[LENDING] + borrow_u128(accrued), liquidity_u128(accrued))
           backed == lesser(accrued.accrued_reserve, free)
           pay    == lesser(backed, bank[LENDING])
<1>1. bank[LENDING] \in Nat /\ borrow_u128(accrued) \in Nat /\ liquidity_u128(accrued) \in Nat
  BY AccruedFacts, ConversionTypes
  DEF borrow_u128, liquidity_u128, Inv, TypeOK, Amount, Denoms
<1>2. free \in Nat
  BY <1>1 DEF saturating_sub
<1> HIDE DEF free
<1>3. backed \in Nat
  BY <1>2, AccruedFacts DEF lesser
<1> HIDE DEF backed
<1>4. pay \in Nat /\ backed - pay \in Nat /\ bank[LENDING] - pay \in Nat
  BY <1>1, <1>3 DEF lesser
<1>5. /\ reserve' = [accrued EXCEPT !.accrued_reserve = backed - pay]
      /\ bank' = [bank EXCEPT ![LENDING] = @ - pay]
      /\ UNCHANGED <<world_vars, config_vars, token, position_vars, sale_vars>>
  BY DEF WithdrawReserve, free, backed
<1> HIDE DEF pay
<1>6. reserve' = [accrued EXCEPT !.accrued_reserve = backed - pay,
                                 !.deficit_underlying = accrued.deficit_underlying]
  BY <1>5, AccruedFacts DEF Reserve
<1>7. bank' = [bank EXCEPT ![LENDING] = bank[LENDING] - pay]
  BY <1>5
<1> QED
  BY <1>4, <1>5, <1>6, <1>7, AccruedFacts, ReserveChangeInv

\* The accepted curve replaces the old one; the reserve is the accrued one.
LEMMA UpdateRateParamsInv ==
    ASSUME Inv, NEW s \in Operators, NEW p \in RateParams, UpdateRateParams(s, p)
    PROVE  Inv'
<1>1. /\ valid_rate_params(p)
      /\ reserve' = accrued
      /\ contract' = [contract EXCEPT !.rate_params = p]
      /\ UNCHANGED <<world_vars, ownership, lender_require_commit,
                     borrower_require_commit, token, bank, position_vars, sale_vars>>
  BY DEF UpdateRateParams
<1>2. contract' \in Config /\ contract'.rate_params = p
  BY <1>1 DEF Inv, TypeOK, Config
<1>3. reserve' \in Reserve /\ Sound(reserve') /\ SupplyAgrees'
  BY <1>1, AccruedFacts DEF Sound, SupplyAgrees
<1>4. TypeOK'
  BY <1>1, <1>2, <1>3 DEF Inv, TypeOK, world_vars, position_vars, sale_vars
<1> QED
  BY <1>1, <1>2, <1>3, <1>4 DEF Inv, Sound

\* Coins that reach the pool by a plain bank send.
LEMMA DonateInv ==
    ASSUME Inv, NEW x \in Nat, Donate(x)
    PROVE  Inv'
<1>1. /\ bank' = [bank EXCEPT ![LENDING] = @ + x]
      /\ UNCHANGED <<world_vars, config_vars, reserve, token, position_vars, sale_vars>>
  BY DEF Donate
<1>2. bank' \in [Denoms -> Amount]
  BY <1>1 DEF Inv, TypeOK, Amount, Denoms
<1>3. BookOK'
  BY <1>1, <1>2 DEF Inv, TypeOK, BookOK, SupplyAgrees, Sound
<1> QED
  BY <1>1, <1>3, BookSuffices

\* Every message about the reserve.
LEMMA ReserveInv ==
    ASSUME Inv, ReserveStep
    PROVE  Inv'
<1>1. /\ Inputs.reliefs \subseteq Nat /\ Inputs.donations \subseteq Nat
      /\ Inputs.curves \subseteq RateParams
  BY InputsAssumption DEF Amount
<1>2. CASE \E s \in Operators, x \in Inputs.reliefs : EliminateDeficitFromReserve(s, x)
  BY <1>1, <1>2, EliminateFromReserveInv
<1>3. CASE \E s \in Operators, x \in Inputs.reliefs, y \in Inputs.reliefs :
               EliminateDeficitFromBank(s, x, y)
  BY <1>1, <1>3, EliminateFromBankInv
<1>4. CASE \E s \in Operators, x \in Inputs.reliefs : SocializeDeficit(s, x)
  BY <1>1, <1>4, SocializeInv
<1>5. CASE \E s \in Operators : WithdrawReserve(s)
  BY <1>5, WithdrawReserveInv
<1>6. CASE \E s \in Operators, p \in Inputs.curves : UpdateRateParams(s, p)
  BY <1>1, <1>6, UpdateRateParamsInv
<1>7. CASE \E x \in Inputs.donations : Donate(x)
  BY <1>1, <1>7, DonateInv
<1> QED
  BY <1>2, <1>3, <1>4, <1>5, <1>6, <1>7 DEF ReserveStep

-----------------------------------------------------------------------------
\* Governance.  A message that changes the settings only keeps the invariant
\* if what it stores is a configuration with the curve in force.
LEMMA ConfigSuffices ==
    ASSUME Inv, BooksUnchanged,
           contract' \in Config, contract'.rate_params = contract.rate_params,
           ownership' \in [ owner : Accounts, pending_owner : Accounts \cup {NO_ONE},
                            pending_expiry : Nat ],
           lender_require_commit' \subseteq Lenders,
           borrower_require_commit' \subseteq Borrowers
    PROVE  Inv'
BY DEF Inv, TypeOK, SupplyAgrees, Sound, BooksUnchanged, world_vars, position_vars, sale_vars

\* An update that gives fields of a configuration gives them to any other.
LEMMA UpdatedConfigType ==
    ASSUME NEW c \in Config, NEW u \in Inputs.updates
    PROVE  /\ updated_config(c, u) \in Config
           /\ updated_config(c, u).rate_params = c.rate_params
<1> DEFINE i == updated_config(InitialConfig, u)
<1>1. i \in Config /\ InitialConfig \in Config
  BY InputsAssumption, InitialConfigAssumption
<1>2. /\ i.margin_rate = given(u, "margin_rate", InitialConfig.margin_rate)
      /\ i.liquidation_rate = given(u, "liquidation_rate", InitialConfig.liquidation_rate)
      /\ i.liquidation_bonus_rate =
            given(u, "liquidation_bonus_rate", InitialConfig.liquidation_bonus_rate)
      /\ i.min_lend = given(u, "min_lend", InitialConfig.min_lend)
      /\ i.min_borrow = given(u, "min_borrow", InitialConfig.min_borrow)
      /\ i.max_borrower_collateral_types =
            given(u, "max_borrower_collateral_types", InitialConfig.max_borrower_collateral_types)
      /\ i.commit_market_configured =
            given(u, "commit_market_configured", InitialConfig.commit_market_configured)
      /\ i.bad_debt_loss_allocation =
            given(u, "bad_debt_loss_allocation", InitialConfig.bad_debt_loss_allocation)
      /\ i.custodian = given(u, "custodian", InitialConfig.custodian)
      /\ i.liquidator = given(u, "liquidator", InitialConfig.liquidator)
      /\ i.max_liquidation_staleness_seconds =
            given(u, "max_liquidation_staleness_seconds",
                  InitialConfig.max_liquidation_staleness_seconds)
      /\ i.liquidation_access =
            given(u, "liquidation_access", InitialConfig.liquidation_access)
  BY <1>1 DEF updated_config, Config
<1> HIDE DEF i
<1>3. /\ given(u, "margin_rate", c.margin_rate) \in Atomics
      /\ given(u, "liquidation_rate", c.liquidation_rate) \in Atomics
      /\ given(u, "liquidation_bonus_rate", c.liquidation_bonus_rate) \in Atomics
      /\ given(u, "min_lend", c.min_lend) \in Amount
      /\ given(u, "min_borrow", c.min_borrow) \in Amount
      /\ given(u, "max_borrower_collateral_types", c.max_borrower_collateral_types) \in Nat
  BY <1>1, <1>2 DEF given, Config
<1>4. /\ given(u, "commit_market_configured", c.commit_market_configured) \in BOOLEAN
      /\ given(u, "bad_debt_loss_allocation", c.bad_debt_loss_allocation)
            \in {DeferredToDeficit, ImmediateLiquidityIndexHaircut}
      /\ given(u, "custodian", c.custodian) \in Accounts \cup {NO_ONE}
      /\ given(u, "liquidator", c.liquidator) \in Accounts \cup {NO_ONE}
      /\ given(u, "max_liquidation_staleness_seconds",
               c.max_liquidation_staleness_seconds) \in Nat
      /\ given(u, "liquidation_access", c.liquidation_access)
            \in {LiquidatorOnly, Permissionless}
  BY <1>1, <1>2 DEF given, Config
<1>5. updated_config(c, u) \in Config
  BY <1>3, <1>4 DEF updated_config, Config
<1>6. updated_config(c, u).rate_params = c.rate_params
  BY DEF updated_config, Config
<1> QED
  BY <1>5, <1>6

\* A change of settings that keeps the curve.
LEMMA ContractChangeInv ==
    ASSUME Inv, NEW c \in Config, c.rate_params = contract.rate_params, ChangeContract(c)
    PROVE  Inv'
BY ConfigSuffices DEF ChangeContract, Inv, TypeOK

\* Every message of the owner.
LEMMA GovernanceInv ==
    ASSUME Inv, GovernanceStep
    PROVE  Inv'
<1>1. contract \in Config
  BY DEF Inv, TypeOK
<1>2. CASE \E s \in Operators, u \in Inputs.updates : UpdateContractConfig(s, u)
  <2>1. PICK u \in Inputs.updates : ChangeContract(updated_config(contract, u))
    BY <1>2 DEF UpdateContractConfig
  <2> QED
    BY <1>1, <2>1, UpdatedConfigType, ContractChangeInv
<1>3. CASE \E s \in Operators, l \in Inputs.listings :
               UpdateSupportedCollateral(s, l.to_update, l.to_remove)
  <2>1. PICK s \in Operators, l \in Inputs.listings :
                 UpdateSupportedCollateral(s, l.to_update, l.to_remove)
    BY <1>3
  <2> DEFINE supported == [a \in Collaterals |->
                 IF a \in DOMAIN l.to_update THEN l.to_update[a] ELSE contract.supported[a]]
             dropped   == {a \in l.to_remove : supported[a] > 0}
             kept      == [a \in Collaterals |-> IF a \in dropped THEN 0 ELSE supported[a]]
             c         == [contract EXCEPT !.supported = kept]
  <2>2. \A a \in DOMAIN l.to_update : l.to_update[a] \in Atomics
    BY <2>1, InputsAssumption
  <2>3. contract.supported \in [Collaterals -> Atomics]
    BY <1>1 DEF Config
  <2>4. supported \in [Collaterals -> Atomics]
    BY <2>2, <2>3
  <2>5. ChangeContract(c)
    BY <2>1 DEF UpdateSupportedCollateral
  <2> HIDE DEF supported, dropped
  <2>6. kept \in [Collaterals -> Atomics]
    BY <2>4 DEF Atomics
  <2> HIDE DEF kept
  <2>7. c \in Config /\ c.rate_params = contract.rate_params
    BY <1>1, <2>6 DEF Config
  <2> HIDE DEF c
  <2> QED
    BY <2>5, <2>7, ContractChangeInv
<1>4. CASE \E s \in Operators, x \in Inputs.states : SetOperationalState(s, x)
  <2>1. PICK x \in Inputs.states : ChangeContract([contract EXCEPT !.operational_state = x])
    BY <1>4 DEF SetOperationalState
  <2>2. /\ [contract EXCEPT !.operational_state = x] \in Config
        /\ [contract EXCEPT !.operational_state = x].rate_params = contract.rate_params
    BY <1>1, InputsAssumption DEF Config
  <2> QED
    BY <2>1, <2>2, ContractChangeInv
<1>5. CASE \E s \in Operators, x \in Inputs.attrs : SetLenderRequiredAttrs(s, x)
  <2>1. PICK x \in Inputs.attrs : ChangeContract([contract EXCEPT !.lender_required_attrs = x])
    BY <1>5 DEF SetLenderRequiredAttrs
  <2>2. /\ [contract EXCEPT !.lender_required_attrs = x] \in Config
        /\ [contract EXCEPT !.lender_required_attrs = x].rate_params = contract.rate_params
    BY <1>1, InputsAssumption DEF Config
  <2> QED
    BY <2>1, <2>2, ContractChangeInv
<1>6. CASE \E s \in Operators, x \in Inputs.attrs : SetBorrowerRequiredAttrs(s, x)
  <2>1. PICK x \in Inputs.attrs : ChangeContract([contract EXCEPT !.borrower_required_attrs = x])
    BY <1>6 DEF SetBorrowerRequiredAttrs
  <2>2. /\ [contract EXCEPT !.borrower_required_attrs = x] \in Config
        /\ [contract EXCEPT !.borrower_required_attrs = x].rate_params = contract.rate_params
    BY <1>1, InputsAssumption DEF Config
  <2> QED
    BY <2>1, <2>2, ContractChangeInv
<1>7. CASE \E s \in Operators, a \in Lenders, f \in Inputs.flags :
               SetLenderRequireCommitOnExit(s, a, f)
  BY <1>1, <1>7, ConfigSuffices DEF SetLenderRequireCommitOnExit, Inv, TypeOK
<1>8. CASE \E s \in Operators, a \in Borrowers, f \in Inputs.flags :
               SetBorrowerRequireCommit(s, a, f)
  BY <1>1, <1>8, ConfigSuffices DEF SetBorrowerRequireCommit, Inv, TypeOK
<1>9. CASE \E s \in Operators, a \in Inputs.heirs, t \in Inputs.deadlines :
               TransferOwnership(s, a, t)
  <2>1. PICK a \in Inputs.heirs, t \in Inputs.deadlines :
                 ChangeOwnership([ownership EXCEPT !.pending_owner = a, !.pending_expiry = t])
    BY <1>9 DEF TransferOwnership, transfer_ownership
  <2>2. a \in Accounts /\ t \in Nat
    BY InputsAssumption
  <2>3. [ownership EXCEPT !.pending_owner = a, !.pending_expiry = t]
          \in [ owner : Accounts, pending_owner : Accounts \cup {NO_ONE}, pending_expiry : Nat ]
    BY <2>2 DEF Inv, TypeOK
  <2> QED
    BY <1>1, <2>1, <2>3, ConfigSuffices DEF ChangeOwnership, Inv, TypeOK
<1>10. CASE \E s \in Accounts : AcceptOwnership(s)
  <2>1. PICK s \in Accounts : AcceptOwnership(s)
    BY <1>10
  <2>2. initialize_owner(ownership.pending_owner)
          \in [ owner : Accounts, pending_owner : Accounts \cup {NO_ONE}, pending_expiry : Nat ]
    BY <2>1 DEF AcceptOwnership, can_accept_ownership, initialize_owner, NEVER
  <2> QED
    BY <1>1, <2>1, <2>2, ConfigSuffices
    DEF AcceptOwnership, accept_ownership, ChangeOwnership, Inv, TypeOK
<1> QED
  BY <1>2, <1>3, <1>4, <1>5, <1>6, <1>7, <1>8, <1>9, <1>10 DEF GovernanceStep

-----------------------------------------------------------------------------
\* The world: time and quotes touch nothing the pool stores.
LEMMA WorldInv ==
    ASSUME Inv, WorldStep
    PROVE  Inv'
<1>1. CASE \E seconds \in Inputs.steps : Tick(seconds)
  <2>1. now' \in Nat
    BY <1>1, InputsAssumption DEF Tick, Inv, TypeOK
  <2> QED
    BY <1>1, <2>1 DEF Tick, Inv, TypeOK, SupplyAgrees, Sound, config_vars,
                      position_vars, sale_vars
<1>2. CASE \E p \in Inputs.prices, t \in Inputs.lifetimes : PostPrice(p[1], p[2], t)
  <2>1. PICK p \in Inputs.prices, t \in Inputs.lifetimes : PostPrice(p[1], p[2], t)
    BY <1>2
  <2>2. p[2] \in Atomics /\ now + t \in Nat
    BY <2>1, InputsAssumption DEF PostPrice, Inv, TypeOK
  <2>3. [usd |-> p[2], expiration |-> now + t] \in Quotes
    BY <2>2 DEF Quotes
  <2>4. quotes' \in [Denoms -> Quotes]
    BY <2>1, <2>3 DEF PostPrice, Inv, TypeOK
  <2> QED
    BY <2>1, <2>4 DEF PostPrice, Inv, TypeOK, SupplyAgrees, Sound, config_vars,
                      position_vars, sale_vars
<1> QED
  BY <1>1, <1>2 DEF WorldStep

\* A step that changes nothing.
LEMMA StutterInv ==
    ASSUME Inv, UNCHANGED vars
    PROVE  Inv'
BY DEF Inv, TypeOK, SupplyAgrees, Sound, vars

\* Every step keeps the invariant.
LEMMA NextInv ==
    ASSUME Inv, [Next]_vars
    PROVE  Inv'
BY LenderInv, BorrowerInv, LiquidationInv, ReserveInv, GovernanceInv, WorldInv, StutterInv
DEF Next

-----------------------------------------------------------------------------
\* Every reachable state satisfies the invariant, and so its parts.
THEOREM InvIsInvariant == Spec => []Inv
<1>1. Init => Inv
  BY InitInv
<1>2. Inv /\ [Next]_vars => Inv'
  BY NextInv
<1> QED
  BY <1>1, <1>2, PTL DEF Spec

\* Type correctness: no handler stores a value its row cannot hold, whatever
\* the order of messages; the checked subtractions of the code never go
\* negative unseen.
THEOREM TypeCorrect == Spec => []TypeOK
<1>1. Inv => TypeOK
  BY DEF Inv
<1> QED
  BY <1>1, InvIsInvariant, PTL
=============================================================================
