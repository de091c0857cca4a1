---------------------------- MODULE PoolQueries ----------------------------
(***************************************************************************)
(* contracts/pool_v2/src/query: what the pool tells a user who is about to *)
(* borrow, or to liquidate.  Queries run between transactions, accrue to   *)
(* the block time without storing, and value debt and collateral in code   *)
(* of their own; what they say has to agree with what the handlers do.     *)
(*                                                                         *)
(* A price of 0 is an absent one, since the oracle stores no other, so the *)
(* health "unknown" never occurs.                                          *)
(***************************************************************************)
EXTENDS PoolProperties, Quoting

NoCollateralHealth == "NoCollateral"

fresh_prices == borrower_prices(quotes, now)

\* Held denoms that a price map leaves out.
omitted(prices, held) == {a \in held_types(held) : prices[a] = 0}

-----------------------------------------------------------------------------
\* query_collateral_requirements, for a borrower or for nobody in particular.
Asking == Borrowers \cup {NO_ONE}

held_by(b)   == IF b = NO_ONE THEN NoCollateral ELSE borrower_collateral[b]
scaled_of(b) == IF b = NO_ONE THEN 0 ELSE scaled_borrow[b]

\* Nothing to cover needs no oracle; anything else a fresh lending price.
requirements_answered(b, loan) ==
    (b = NO_ONE /\ loan = 0) \/ fresh(quotes, now, LENDING)

\* Slip: the loan added to the debt, without the scaled round trip.
debt_to_cover_by_sum(b, loan) ==
    scaled_to_underlying_borrow(scaled_of(b), accrued.borrow_index) + loan

\* The debt Borrow would record in this block.
debt_to_cover(b, loan) ==
    IF loan = 0 THEN scaled_to_underlying_borrow(scaled_of(b), accrued.borrow_index)
    ELSE debt_after_borrow(scaled_of(b), loan, accrued.borrow_index).debt_after

required_collateral_value_usd(b, loan) ==
    checked_div_ceil(calculate_borrow_value_usd(fresh_prices, debt_to_cover(b, loan)),
                     contract.margin_rate)

additional_collateral_value_usd(b, loan) ==
    saturating_sub(required_collateral_value_usd(b, loan),
                   calculate_total_collateral_value_usd(contract, fresh_prices, held_by(b)))

\* The amount of one asset that would do, and whether there is one.
quote_for(a, value) ==
    LET amount == amount_from_usd_haircutted(fresh_prices, a, value,
                                             haircut_percentage(contract, a))
    IN  IF value = 0 THEN [amount |-> 0, satisfiable |-> TRUE]
        ELSE IF fresh_prices[a] > 0 /\ representable(amount)
             THEN [amount |-> amount, satisfiable |-> TRUE]
             ELSE [amount |-> 0, satisfiable |-> FALSE]

query_collateral_requirements(b, loan) ==
    [ required_collateral_value_usd   |-> required_collateral_value_usd(b, loan),
      additional_collateral_value_usd |-> additional_collateral_value_usd(b, loan),
      required |-> [a \in Collaterals |->
                       quote_for(a, additional_collateral_value_usd(b, loan))],
      unpriceable_collateral |-> omitted(fresh_prices, held_by(b)) ]

-----------------------------------------------------------------------------
\* query_borrower_position.  Without collateral it answers without the oracle.
position_answered(b) ==
    is_empty(borrower_collateral[b]) \/ fresh(quotes, now, LENDING)

\* Slip: the debt at the stored index.
stored_debt(b) == scaled_to_underlying_borrow(scaled_borrow[b], reserve.borrow_index)

underlying_debt(b) == scaled_to_underlying_borrow(scaled_borrow[b], accrued.borrow_index)

\* health_from_prices, or the answer for an empty collateral map.
shown_health(b, prices) ==
    IF ~is_empty(borrower_collateral[b])
    THEN get_borrower_health(contract, prices, borrower_collateral[b], underlying_debt(b))
    ELSE IF underlying_debt(b) = 0 THEN Healthy ELSE NoCollateralHealth

shown_ltv(b, prices) ==
    IF is_empty(borrower_collateral[b]) THEN 0
    ELSE calculate_ltv(contract, prices, borrower_collateral[b], underlying_debt(b))

query_borrower_position(b) ==
    LET held == borrower_collateral[b]
    IN  [ scaled_borrow   |-> scaled_borrow[b],
          underlying_debt |-> underlying_debt(b),
          collateral      |-> [a \in held_types(held) |->
                                  [amount |-> held[a], satisfiable |-> fresh_prices[a] > 0]],
          unpriceable_collateral |-> omitted(fresh_prices, held),
          collateral_value_usd   |->
              calculate_total_collateral_value_usd(contract, fresh_prices, held),
          loan_to_value      |-> shown_ltv(b, fresh_prices),
          health             |-> shown_health(b, fresh_prices),
          liquidation_ltv    |-> shown_ltv(b, acted_on_prices),
          liquidation_health |-> shown_health(b, acted_on_prices),
          liquidation_unpriceable_collateral |->
              unpriceable(quotes, now, contract.max_liquidation_staleness_seconds, held),
          directed_sale_offer   |-> directed_sale[b],
          directed_sale_version |-> directed_sale_version[b] ]

-----------------------------------------------------------------------------
\* query_reserve: rates at the utilization the accrued reserve has now.
query_reserve ==
    [ reserve               |-> accrued,
      total_liquidity       |-> total_liquidity(accrued),
      total_borrow          |-> total_borrow(accrued),
      current_borrower_rate |-> borrower_rate(accrued, contract.rate_params),
      current_lender_rate   |-> lender_rate(accrued, contract.rate_params),
      utilization           |-> utilization(accrued) ]

\* query_state: what is held of each asset on the list.
query_state ==
    [ reserve |-> accrued,
      supported_collateral  |-> contract.supported,
      total_collateral_held |-> [a \in {c \in Collaterals : contract.supported[c] > 0} |->
                                    total_collateral[a]] ]

query_borrower_status(b) == [require_commit |-> b \in borrower_require_commit]
query_lender_status(l)   == [require_commit_on_exit |-> l \in lender_require_commit]

-----------------------------------------------------------------------------
\* What must be true of the answers.

\* A quote is exact.  The amount quoted of an asset is worth the value still
\* to be covered after both truncations of the health check, and one unit less
\* is not: nobody is told too little, or to lock up more than needed
\* (amount_from_usd_haircutted, price.rs 180-194).
QuotesAreLeast ==
    \A b \in Asking, loan \in Inputs.borrows \cup {0}, a \in Collaterals :
        LET value == additional_collateral_value_usd(b, loan)
            quote == quote_for(a, value)
            worth(amount) == haircutted_value(fresh_prices, a, amount,
                                              haircut_percentage(contract, a))
        IN  quote.satisfiable =>
                /\ worth(quote.amount) >= value
                /\ quote.amount > 0 => worth(quote.amount - 1) < value

\* A quote is sufficient for a Borrow in the same block
\* (collateral_requirements.rs 11-12): with the quoted amount of any one asset
\* added to what the borrower holds, the health check of Borrow passes for the
\* debt it would record, and so for no new loan at all.
QuotesAreEnough ==
    \A b \in Borrowers, loan \in Inputs.borrows \cup {0}, a \in Collaterals :
        LET quote == query_collateral_requirements(b, loan).required[a]
            held  == [borrower_collateral[b] EXCEPT ![a] = @ + quote.amount]
        IN  requirements_answered(b, loan) /\ quote.satisfiable =>
                healthy_at_fresh_prices(held,
                    debt_after_borrow(scaled_borrow[b], loan, accrued.borrow_index).debt_after)

\* The handlers keep to what the position shows.  A borrower who has just taken
\* a loan or collateral out against one is shown Healthy, to liquidators as
\* well; and collateral nobody offered for sale is seized only while the
\* position says Liquidatable, or cannot be asked for.
PositionShownIsTheOneJudged ==
    [][ \A b \in Borrowers :
          /\ /\ scaled_borrow'[b] > 0
             /\ \/ scaled_borrow'[b] > scaled_borrow[b]
                \/ /\ scaled_borrow'[b] = scaled_borrow[b]
                   /\ \E a \in Collaterals : taken(b)[a] > 0
             => /\ position_answered(b)'
                /\ query_borrower_position(b)'.health = Healthy
                /\ query_borrower_position(b)'.liquidation_health = Healthy
          /\ seized_from(b) /\ is_empty(directed_sale[b].amounts) /\ position_answered(b)
             => query_borrower_position(b).liquidation_health = Liquidatable ]_vars

\* Collateral in use is never delisted, so the state query, which goes through
\* the supported list alone, hides none of it: what it shows of an asset covers
\* what any borrower holds (update_supported_collateral.rs 72-83, state.rs 15-30).
StateShowsAllCollateral ==
    \A b \in Borrowers : \A a \in held_types(borrower_collateral[b]) :
        /\ a \in DOMAIN query_state.total_collateral_held
        /\ query_state.total_collateral_held[a] >= borrower_collateral[b][a]

\* Borrowers are not charged, for the time since the last message, a higher rate
\* than the reserve query shows, since utilization does not fall while it
\* accrues.  Lenders earn the borrow rate on what is utilized, so their index
\* grows faster only above utilization 1; it then does not carry utilization
\* below 1, where the curve is at its maximum.  What truncation can take of the
\* rate shown is an atomic of the borrow index and one of the rate, and nothing
\* when the borrow index grows by the larger factor.
NoDearerThanShown ==
    LET p            == contract.rate_params
        growth(rate) == index_growth_factor(rate, time_elapsed(reserve.last_updated_at, now))
        charged      == borrower_rate(reserve, p)
        rounded_up   == [accrued EXCEPT !.borrow_index = @ + 1]
    IN  /\ charged <= borrower_rate(rounded_up, p) + 1
        /\ growth(lender_rate(reserve, p)) < growth(charged) =>
              charged <= query_reserve.current_borrower_rate
=============================================================================
