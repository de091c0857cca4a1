------------------------------- MODULE Health -------------------------------
(***************************************************************************)
(* utils/health.rs, model/collateral.rs: loan-to-value and the health of a *)
(* borrower.  A configuration c carries margin_rate, liquidation_rate and  *)
(* supported, the haircut of each supported collateral (0 = unsupported).  *)
(***************************************************************************)
EXTENDS Pricing, FiniteSetsExt

Healthy      == "Healthy"
Unhealthy    == "Unhealthy"
Liquidatable == "Liquidatable"

\* haircut_percentage: 100% for an asset that is not on the list.
haircut_percentage(c, a) == IF c.supported[a] > 0 THEN c.supported[a] ELSE ONE

\* Haircutted collateral value, each asset truncated on its own.
calculate_total_collateral_value_usd(c, prices, held) ==
    SumFunction([a \in Collaterals |->
        checked_mul(value_usd(prices, a, held[a]), haircut_percentage(c, a))])

calculate_borrow_value_usd(prices, debt) == value_usd(prices, LENDING, debt)

\* Slip: no collateral value counts as no debt.
calculate_ltv_lenient(c, prices, held, debt) ==
    LET pledged == calculate_total_collateral_value_usd(c, prices, held)
    IN  IF pledged = 0 THEN 0
        ELSE checked_div(calculate_borrow_value_usd(prices, debt), pledged)

\* Debt against collateral worth nothing counts as LTV 1, which the config
\* keeps at or above liquidation_rate.
calculate_ltv(c, prices, held, debt) ==
    LET borrowed == calculate_borrow_value_usd(prices, debt)
        pledged  == calculate_total_collateral_value_usd(c, prices, held)
    IN  IF pledged = 0 THEN (IF borrowed = 0 THEN 0 ELSE ONE)
        ELSE checked_div(borrowed, pledged)

get_health_from_ltv(c, ltv) ==
    IF ltv >= c.liquidation_rate THEN Liquidatable
    ELSE IF ltv > c.margin_rate THEN Unhealthy
    ELSE Healthy

get_borrower_health(c, prices, held, debt) ==
    get_health_from_ltv(c, calculate_ltv(c, prices, held, debt))

\* Market value: the seizure band's measure, without haircut.
market_value_usd(prices, amounts) ==
    SumFunction([a \in Collaterals |-> value_usd(prices, a, amounts[a])])
=============================================================================
