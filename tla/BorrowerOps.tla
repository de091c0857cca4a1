---------------------------- MODULE BorrowerOps ----------------------------
(***************************************************************************)
(* execute/borrow.rs, repay.rs, add_collateral.rs, remove_collateral.rs    *)
(* and adjust_directed_collateral_sale.rs: the borrower side.              *)
(***************************************************************************)
EXTENDS PoolState

CONSTANTS
    MaxHeld,            \* bound on a borrower's units of one collateral
    MaxVersion          \* bound on the version of a directed sale

held_types(held) == {a \in Collaterals : held[a] > 0}

\* Slip: credit up to the liquidation rate.
not_liquidatable_at_fresh_prices(held, debt) ==
    /\ fresh(quotes, now, LENDING)
    /\ get_borrower_health(contract, borrower_prices(quotes, now), held, debt) # Liquidatable

\* Healthy at the fresh prices; fails when the lending denom has none.
healthy_at_fresh_prices(held, debt) ==
    /\ fresh(quotes, now, LENDING)
    /\ get_borrower_health(contract, borrower_prices(quotes, now), held, debt) = Healthy

\* borrow: debt is added rounded up, and judged on what is then on file.
Borrow(sender, amount) ==
    LET r    == accrued
        debt == debt_after_borrow(scaled_borrow[sender], amount, r.borrow_index)
        held == borrower_collateral[sender]
    IN  /\ Open
        /\ amount > 0
        /\ amount >= contract.min_borrow
        /\ has_attrs(sender, contract.borrower_required_attrs)
        /\ amount <= reserve_cash(r)
        /\ held_types(held) # {}
        /\ healthy_at_fresh_prices(held, debt.debt_after)
        /\ can_send(amount)
        /\ commit_possible(sender \in borrower_require_commit)
        /\ scaled_borrow' = [scaled_borrow EXCEPT ![sender] = debt.new_scaled]
        /\ reserve' = [r EXCEPT !.total_scaled_borrow = @ + debt.scaled_delta]
        /\ bank' = [bank EXCEPT ![LENDING] = @ - amount]
        /\ UNCHANGED <<world_vars, config_vars, token, borrower_collateral,
                       total_collateral, sale_vars>>

\* A full payoff removes every scaled unit; less than that, a floor of them.
scaled_repaid(scaled_debt, repaid, payoff, index) ==
    IF repaid >= payoff THEN scaled_debt ELSE underlying_to_scaled_borrow(repaid, index)

\* repay refuses a payment that cancels nothing, or no debt.
can_repay(sender, amount) ==
    LET r      == accrued
        debt   == scaled_borrow[sender]
        payoff == scaled_to_underlying_borrow_ceil(debt, r.borrow_index)
        repaid == lesser(amount, payoff)
        scaled == scaled_repaid(debt, repaid, payoff, r.borrow_index)
    IN  /\ NotPaused
        /\ amount >= 1
        /\ debt > 0
        /\ scaled > 0
        /\ debt >= scaled
        /\ r.total_scaled_borrow >= scaled
        /\ amount > repaid => commit_possible(sender \in borrower_require_commit)
        /\ bank[LENDING] + repaid <= MaxCash

\* repay: a close costs the debt rounded up; the excess is sent back.
Repay(sender, amount) ==
    LET r      == accrued
        debt   == scaled_borrow[sender]
        payoff == scaled_to_underlying_borrow_ceil(debt, r.borrow_index)
        repaid == lesser(amount, payoff)
        scaled == scaled_repaid(debt, repaid, payoff, r.borrow_index)
    IN  /\ can_repay(sender, amount)
        /\ scaled_borrow' = [scaled_borrow EXCEPT ![sender] = @ - scaled]
        /\ reserve' = [r EXCEPT !.total_scaled_borrow = @ - scaled]
        /\ bank' = [bank EXCEPT ![LENDING] = @ + repaid]
        /\ UNCHANGED <<world_vars, config_vars, token, borrower_collateral,
                       total_collateral, sale_vars>>

-----------------------------------------------------------------------------
\* add_collateral: only denoms the borrower does not hold yet need a fresh
\* quote.  It neither accrues nor looks at the debt.
AddCollateral(sender, coins) ==
    LET held == borrower_collateral[sender]
        sent == held_types(coins)
    IN  /\ NotPaused
        /\ has_attrs(sender, contract.borrower_required_attrs)
        /\ sent # {}
        /\ \A a \in sent : contract.supported[a] > 0
        /\ \A a \in sent \ held_types(held) : fresh(quotes, now, a)
        /\ Cardinality(sent \cup held_types(held)) <= contract.max_borrower_collateral_types
        /\ \A a \in sent : held[a] + coins[a] <= MaxHeld
        /\ borrower_collateral' =
               [borrower_collateral EXCEPT ![sender] = [a \in Collaterals |-> held[a] + coins[a]]]
        /\ total_collateral' = [a \in Collaterals |-> total_collateral[a] + coins[a]]
        /\ bank' = [d \in Denoms |-> IF d \in sent THEN bank[d] + coins[d] ELSE bank[d]]
        /\ UNCHANGED <<world_vars, config_vars, reserve, token, scaled_borrow, sale_vars>>

\* What a borrower keeps of a holding.
left_after(held, to_remove) ==
    [a \in Collaterals |-> saturating_sub(held[a], to_remove[a])]

\* remove_collateral: what is left must carry the accrued debt.
can_remove_collateral(sender, to_remove) ==
    LET held    == borrower_collateral[sender]
        removed == held_types(to_remove)
        debt    == scaled_to_underlying_borrow(scaled_borrow[sender], accrued.borrow_index)
    IN  /\ NotPaused
        /\ has_attrs(sender, contract.borrower_required_attrs)
        /\ removed # {}
        /\ \A a \in removed : contract.supported[a] > 0 /\ held[a] >= to_remove[a]
        /\ debt > 0 => healthy_at_fresh_prices(left_after(held, to_remove), debt)
        /\ \A a \in removed : total_collateral[a] >= to_remove[a] /\ bank[a] >= to_remove[a]
        /\ commit_possible(sender \in borrower_require_commit)

RemoveCollateral(sender, to_remove) ==
    LET held    == borrower_collateral[sender]
        removed == held_types(to_remove)
    IN  /\ can_remove_collateral(sender, to_remove)
        /\ reserve' = accrued
        /\ borrower_collateral' =
               [borrower_collateral EXCEPT ![sender] = left_after(held, to_remove)]
        /\ total_collateral' = left_after(total_collateral, to_remove)
        /\ bank' = [d \in Denoms |-> IF d \in removed THEN bank[d] - to_remove[d] ELSE bank[d]]
        /\ UNCHANGED <<world_vars, config_vars, token, scaled_borrow, sale_vars>>

-----------------------------------------------------------------------------

\* Slip: a decrease sets the deadline too.
offer_deadline_requested(offer, increase, requested) == requested

\* adjust_directed_collateral_sale: signed changes to the outstanding offer.
\* Naming nothing cancels it.  An increase gives the whole offer the new
\* deadline, amounts left over from an expired one included.
offer_deadline(offer, increase, requested) ==
    IF increase THEN requested ELSE offer.expires_at

AdjustDirectedCollateralSale(sender, delta, expires_at, version) ==
    LET offer    == directed_sale[sender]
        held     == borrower_collateral[sender]
        increase == is_increase(delta)
        cancel   == \A a \in Collaterals : delta[a] = 0
        amounts  == adjusted_amounts(offer.amounts, delta)
    IN  /\ NotPaused
        /\ version = directed_sale_version[sender] + 1
        /\ version <= MaxVersion
        /\ increase => expires_at > now /\ scaled_borrow[sender] > 0
        /\ increases_are_covered(contract, held, offer.amounts, delta)
        /\ directed_sale' =
               [directed_sale EXCEPT ![sender] =
                   IF cancel THEN NoOffer
                   ELSE stored_offer(amounts, offer_deadline(offer, increase, expires_at))]
        /\ directed_sale_version' = [directed_sale_version EXCEPT ![sender] = version]
        /\ UNCHANGED <<world_vars, config_vars, reserve, token, bank, position_vars>>
=============================================================================
