------------------------------ MODULE PoolExits ------------------------------
(***************************************************************************)
(* What nobody's message may take away: the messages that end a position   *)
(* stay open to those who need them, in every state the pool can be        *)
(* brought to.  A handler guarded by many checks of state written by       *)
(* others can end up with no argument that passes them all, and then coins *)
(* or collateral stay where they are for ever.                             *)
(***************************************************************************)
EXTENDS PoolProperties

\* The borrower is still accredited, and their commit can be made.
in_good_standing(b) ==
    /\ has_attrs(b, contract.borrower_required_attrs)
    /\ commit_possible(b \in borrower_require_commit)

\* The bound on the model's coins leaves room for the payoff.
within_bound(b) == bank[LENDING] + payoff_of(b) <= MaxCash

\* A borrower can leave whenever the pool is not paused: pay off the debt to
\* the last scaled unit, without a quote and frozen or not, and then take out
\* all that is held in one message.  A lowered number of collateral types, a
\* changed list, a dead feed, a live offer or the liquidation of others does
\* not stand in the way (repay.rs 28-68, remove_collateral.rs 36-115).
BorrowersCanLeave ==
    NotPaused => \A b \in Borrowers :
        /\ scaled_borrow[b] > 0 /\ within_bound(b) => can_repay(b, payoff_of(b))
        /\ scaled_borrow[b] = 0 /\ ~is_empty(borrower_collateral[b]) /\ in_good_standing(b)
               => can_remove_collateral(b, borrower_collateral[b])

-----------------------------------------------------------------------------
\* The account that no access rule keeps from liquidating.
authorized_liquidator ==
    IF contract.liquidation_access = LiquidatorOnly THEN contract.liquidator
    ELSE ownership.owner

\* Everything of b's that has a price.
priced_holding(b) ==
    [a \in Collaterals |-> IF acted_on_prices[a] > 0 THEN borrower_collateral[b][a] ELSE 0]

\* Payments short of the debt that cancel some of it and, with the bonus, are
\* worth everything b pledged.  Coins are paid whole, so within a unit of the
\* debt there may be none.
payments_for_all(b) ==
    LET index   == accrued.borrow_index
        payoff  == payoff_of(b)
        prices  == acted_on_prices
        pledged == market_value_usd(prices, borrower_collateral[b])
    IN  {x \in 1 .. debt_of(b) - 1 :
            /\ pledged <= checked_mul(value_usd(prices, LENDING, x),
                                      contract.liquidation_bonus_rate)
            /\ scaled_repaid(scaled_borrow[b], x, payoff, index) > 0}

is_underwater(b) ==
    /\ health_of(b) = Liquidatable
    /\ market_value_usd(acted_on_prices, borrower_collateral[b])
          < value_usd(acted_on_prices, LENDING, payoff_of(b))

\* No bad debt is stuck: while the lending denom has a price, a borrower whose
\* collateral no longer covers the debt can be closed out by the least payment
\* for everything of theirs that is priced, nothing if need be, whichever feeds
\* are dead and whoever may liquidate.  Only a loss that takes all the lenders
\* have stops it, under immediate allocation (liquidate.rs sections 2 to 8,
\* rates.rs 418).
BadDebtCanBeCleared ==
    NotPaused /\ acted_on_prices[LENDING] > 0 => \A b \in Borrowers :
        is_underwater(b) /\ within_bound(b) =>
            LET payments == payments_for_all(b)
            IN  payments # {} =>
                    \E f \in {figures(b, priced_holding(b), Min(payments))} :
                        ~books_balance(f) \/ can_liquidate(authorized_liquidator, f)
=============================================================================
