------------------------------ MODULE Accrual ------------------------------
(***************************************************************************)
(* utils/rates.rs, model/rate_params.rs: the kinked interest-rate model    *)
(* and the accrual every state-changing handler performs first.            *)
(*                                                                         *)
(* Accrual is linear in the elapsed time and computed lazily: a handler    *)
(* that runs at time t first moves both indexes and the protocol's accrued *)
(* reserve from last_updated_at to t with the parameters then in force.    *)
(***************************************************************************)
EXTENDS Conversions

CONSTANT
    SECONDS_PER_YEAR

ASSUME YearAssumption == SECONDS_PER_YEAR \in Nat \ {0}

ReserveFactor    == "ReserveFactor"
FlatBorrowSpread == "FlatBorrowSpread"

RateParams ==
    [ min_rate         : Atomics,
      target_rate      : Atomics,
      max_rate         : Atomics,
      kink_utilization : Atomics,
      fee_model        : {ReserveFactor, FlatBorrowSpread},
      reserve_factor   : Atomics,
      flat_fee_apr     : Atomics ]

\* RateParamsV1::validate.
valid_rate_params(p) ==
    /\ p.min_rate <= p.target_rate
    /\ p.target_rate <= p.max_rate
    /\ p.max_rate <= ONE
    /\ 0 < p.kink_utilization /\ p.kink_utilization < ONE
    /\ p.reserve_factor < ONE
    /\ p.flat_fee_apr < ONE
    /\ p.fee_model = FlatBorrowSpread =>
          p.flat_fee_apr <= p.min_rate /\ p.reserve_factor = 0
    /\ p.fee_model = ReserveFactor => p.flat_fee_apr = 0

-----------------------------------------------------------------------------
below_kink_rate(p, u) ==
    p.min_rate
      + checked_mul(checked_div(p.target_rate - p.min_rate, p.kink_utilization), u)

\* Slip: the steeper slope starts from the minimum.
above_kink_rate_from_min(p, u) ==
    lesser(p.min_rate
             + checked_mul(checked_div(p.max_rate - p.target_rate,
                                       ONE - p.kink_utilization),
                           u - p.kink_utilization),
           p.max_rate)

\* Above the kink the slope is capped at max_rate, since u can exceed 1.
above_kink_rate(p, u) ==
    lesser(p.target_rate
             + checked_mul(checked_div(p.max_rate - p.target_rate,
                                       ONE - p.kink_utilization),
                           u - p.kink_utilization),
           p.max_rate)

borrower_rate_from_utilization(p, u) ==
    IF u <= p.kink_utilization THEN below_kink_rate(p, u) ELSE above_kink_rate(p, u)

\* Slip: lenders get the protocol's share as well.
lender_rate_gross(p, u, borrower_rate) == checked_mul(borrower_rate, u)

lender_rate_from_utilization(p, u, borrower_rate) ==
    IF p.fee_model = ReserveFactor
    THEN checked_mul(borrower_rate, checked_mul(u, ONE - p.reserve_factor))
    ELSE checked_mul(borrower_rate - p.flat_fee_apr, u)

protocol_fee_rate(p, borrower_rate) ==
    IF p.fee_model = ReserveFactor
    THEN checked_mul(borrower_rate, p.reserve_factor)
    ELSE p.flat_fee_apr

time_elapsed(from, to) == saturating_sub(to, from)

time_fraction(elapsed) == from_ratio(elapsed, SECONDS_PER_YEAR)

index_growth_factor(rate, elapsed) == ONE + checked_mul(rate, time_fraction(elapsed))

-----------------------------------------------------------------------------
borrower_rate(r, p) == borrower_rate_from_utilization(p, utilization(r))
lender_rate(r, p) ==
    lender_rate_from_utilization(p, utilization(r), borrower_rate(r, p))

\* The protocol's share of the interest, taken from the borrow side and floored.
protocol_fee(r, p, elapsed) ==
    floor_to_u128(checked_mul(checked_mul(total_borrow(r),
                                          protocol_fee_rate(p, borrower_rate(r, p))),
                              time_fraction(elapsed)))

\* compute_effective_reserve; update_reserve_indexes also stores the result.
compute_effective_reserve(r, at, p) ==
    LET elapsed == time_elapsed(r.last_updated_at, at)
    IN  IF elapsed = 0 THEN r
        ELSE [r EXCEPT
               !.liquidity_index =
                   checked_mul(@, index_growth_factor(lender_rate(r, p), elapsed)),
               !.borrow_index =
                   checked_mul(@, index_growth_factor(borrower_rate(r, p), elapsed)),
               !.last_updated_at = at,
               !.accrued_reserve = @ + protocol_fee(r, p, elapsed)]
=============================================================================
