------------------------------ MODULE Quoting ------------------------------
(***************************************************************************)
(* packages/lib/src/price_oracle/model/price.rs and utils/math.rs: how     *)
(* many units of an asset are worth a value, which is value_usd and the    *)
(* haircut of Health inverted.  Both truncate, so the inverse rounds up    *)
(* twice.                                                                  *)
(***************************************************************************)
EXTENDS Health

CONSTANT
    MAX_AMOUNT      \* u128::MAX

ASSUME MaxAmountAssumption == MAX_AMOUNT \in Nat

\* ceil_div; the callers pass a positive denominator.
ceil_div(numerator, denominator) ==
    (numerator \div denominator) + (IF numerator % denominator = 0 THEN 0 ELSE 1)

\* checked_div_ceil: the decimal quotient, one atomic more when multiplying
\* back, which truncates, does not give x.
checked_div_ceil(x, y) ==
    LET quotient == checked_div(x, y)
    IN  IF checked_mul(quotient, y) = x THEN quotient ELSE quotient + 1

\* AssetPriceResponseV1::amount_from_usd: the least amount worth value.
amount_from_usd(prices, a, value) == ceil_div(value * UNIT[a], prices[a])

\* Slip: the haircut divided out with a truncation.
amount_from_usd_over_haircut(prices, a, value, haircut) ==
    amount_from_usd(prices, a, checked_div(value, haircut))

\* AssetPriceResponseV1::amount_from_usd_haircutted: the least amount worth
\* value after the haircut.
amount_from_usd_haircutted(prices, a, value, haircut) ==
    amount_from_usd(prices, a, ceil_div(value * ONE, haircut))

\* AmountNotRepresentable.
representable(amount) == amount <= MAX_AMOUNT

\* What amount units of a are worth as collateral: one term of
\* calculate_total_collateral_value_usd.
haircutted_value(prices, a, amount, haircut) ==
    checked_mul(value_usd(prices, a, amount), haircut)
=============================================================================
