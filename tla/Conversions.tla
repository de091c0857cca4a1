---------------------------- MODULE Conversions ----------------------------
(***************************************************************************)
(* utils/rates.rs, model/reserve.rs: the conversions between underlying    *)
(* coins and scaled balances, and the totals of the reserve.               *)
(*                                                                         *)
(* A lender's claim is  scaled * liquidity_index  and a borrower's debt is *)
(* scaled * borrow_index.  Each conversion rounds in a direction that the  *)
(* comments of rates.rs justify; the directions are what keeps the pool    *)
(* solvent, so each is modelled exactly.  The zero-index guards of the     *)
(* code never fire: Sound, in PoolProofs, is part of the invariant         *)
(* proved of the pool, and it keeps both indexes positive.                 *)
(***************************************************************************)
EXTENDS Decimal

\* ReserveStateV1, model/reserve.rs.
Reserve ==
    [ liquidity_index        : Atomics,
      borrow_index           : Atomics,
      last_updated_at        : Nat,
      total_scaled_liquidity : Amount,
      total_scaled_borrow    : Amount,
      accrued_reserve        : Amount,
      deficit_underlying     : Amount ]

-----------------------------------------------------------------------------
\* Floor: scaled units a lend mints, or a withdrawal deducts.
underlying_to_scaled_liquidity(underlying, index) ==
    floor_to_u128(checked_div(underlying * ONE, index))

\* Floor: scaled debt a repayment removes.
underlying_to_scaled_borrow(underlying, index) ==
    floor_to_u128(checked_div(underlying * ONE, index))

\* Slip: new debt rounded down.
underlying_to_scaled_borrow_floor(underlying, index) ==
    floor_to_u128(checked_div(underlying * ONE, index))

\* Ceil: scaled debt a borrow adds.  The quotient is truncated to atomics
\* before the remainder is tested, as in the code.
underlying_to_scaled_borrow_ceil(underlying, index) ==
    ceil_to_u128(checked_div(underlying * ONE, index))

\* Floor: what a scaled balance is worth, and what a scaled debt is quoted at.
scaled_to_underlying_liquidity(scaled, index) ==
    floor_to_u128(checked_mul(scaled * ONE, index))

scaled_to_underlying_borrow(scaled, index) ==
    floor_to_u128(checked_mul(scaled * ONE, index))

\* Ceil: what closing a scaled debt in full costs.
scaled_to_underlying_borrow_ceil(scaled, index) ==
    ceil_to_u128(checked_mul(scaled * ONE, index))

\* debt_after_borrow: scaled added, scaled total, floored total.
debt_after_borrow(current_scaled, amount, index) ==
    LET delta == underlying_to_scaled_borrow_ceil(amount, index)
    IN  [ scaled_delta |-> delta,
          new_scaled   |-> current_scaled + delta,
          debt_after   |-> scaled_to_underlying_borrow(current_scaled + delta, index) ]

-----------------------------------------------------------------------------
\* ReserveStateV1::total_liquidity and ::total_borrow, exact decimals.
total_liquidity(r) == r.total_scaled_liquidity * r.liquidity_index
total_borrow(r)    == r.total_scaled_borrow * r.borrow_index

\* ReserveStateV1::utilization.
utilization(r) ==
    IF total_liquidity(r) = 0 THEN 0
    ELSE checked_div(total_borrow(r), total_liquidity(r))

\* reserve_totals_and_cash_u128: floored totals; cash saturates twice.
liquidity_u128(r) ==
    scaled_to_underlying_liquidity(r.total_scaled_liquidity, r.liquidity_index)
borrow_u128(r) ==
    scaled_to_underlying_borrow(r.total_scaled_borrow, r.borrow_index)
reserve_cash(r) ==
    saturating_sub(saturating_sub(liquidity_u128(r), borrow_u128(r)),
                   r.deficit_underlying)

\* apply_pro_rata_liquidity_index_haircut: suppliers absorb a loss by a lower
\* index.  It fails, and the transaction with it, on a loss of L or more.
haircut_index(r, loss) ==
    checked_div(total_liquidity(r) - loss * ONE, r.total_scaled_liquidity * ONE)

haircut_fails(r, loss) ==
    /\ loss > 0
    /\ \/ total_liquidity(r) <= loss * ONE
       \/ haircut_index(r, loss) = 0

apply_pro_rata_liquidity_index_haircut(r, loss) ==
    IF loss = 0 THEN r
    ELSE [r EXCEPT !.liquidity_index = haircut_index(r, loss)]
=============================================================================
