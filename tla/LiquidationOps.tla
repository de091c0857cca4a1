--------------------------- MODULE LiquidationOps ---------------------------
(***************************************************************************)
(* execute/liquidate.rs: a third party repays part of a debt and takes     *)
(* collateral for it.  The handler computes its figures in numbered        *)
(* sections, checks them in order and persists; here the figures are one   *)
(* record, each section's checks one operator over it, in source order.    *)
(***************************************************************************)
EXTENDS BorrowerOps

\* Sections 2 to 6: the accrued debt, the prices, what the repayment removes
\* and what the seizure would leave.
figures(b, seize, sent) ==
    LET r       == accrued
        held    == borrower_collateral[b]
        scaled  == scaled_borrow[b]
        payoff  == scaled_to_underlying_borrow_ceil(scaled, r.borrow_index)
        repaid  == lesser(sent, payoff)
        removed == scaled_repaid(scaled, repaid, payoff, r.borrow_index)
        left    == [a \in Collaterals |-> saturating_sub(held[a], seize[a])]
        prices  == liquidation_prices(quotes, now, contract.max_liquidation_staleness_seconds)
        dead    == unpriceable(quotes, now, contract.max_liquidation_staleness_seconds, held)
        residue == scaled - removed
    IN  [ r        |-> r,
          held     |-> held,
          scaled   |-> scaled,
          debt     |-> scaled_to_underlying_borrow(scaled, r.borrow_index),
          payoff   |-> payoff,
          seize    |-> seize,
          sent     |-> sent,
          repaid   |-> repaid,
          removed  |-> removed,
          residue  |-> residue,
          left     |-> left,
          prices   |-> prices,
          dead     |-> dead,
          directed |-> /\ is_live(directed_sale[b], now)
                       /\ is_seize_within_offer(directed_sale[b].amounts, seize),
          bad_debt |-> /\ residue > 0
                       /\ calculate_total_collateral_value_usd(contract, prices, left) = 0 ]

\* Section 2 and 4: a debt, collateral and a usable lending price.
has_position(f) ==
    /\ f.scaled > 0
    /\ f.debt > 0
    /\ ~is_empty(f.held)
    /\ f.prices[LENDING] > 0

\* Section 3: at or above the liquidation rate, unless the borrower invited it.
may_be_liquidated(f) ==
    f.directed \/ get_borrower_health(contract, f.prices, f.held, f.debt) = Liquidatable

\* Section 6: seizures are supported, held and priceable; an empty seizure
\* only against holdings none of which is priceable.
seizure_is_possible(f) ==
    /\ \A a \in held_types(f.seize) :
           contract.supported[a] > 0 /\ f.held[a] >= f.seize[a] /\ a \notin f.dead
    /\ is_empty(f.seize) => held_types(f.held) \subseteq f.dead

\* Slip: judged on the prices that leave the dead quotes out.
load_bearing_at_usable_prices(f) ==
    /\ f.dead # {}
    /\ \/ \E a \in f.dead : quotes[a].usd = 0
       \/ get_borrower_health(contract, f.prices, f.held, f.debt) # Liquidatable

\* unpriceable_is_load_bearing: did leaving out dead quotes make it liquidatable?
unpriceable_is_load_bearing(f) ==
    /\ f.dead # {}
    /\ \/ \E a \in f.dead : quotes[a].usd = 0
       \/ get_borrower_health(contract, prices_with_unpriceable_last_known(quotes),
                              f.held, f.debt) # Liquidatable

\* require_owner_for_unpriceable: a stranger may neither rely on dead quotes
\* nor sweep what they should have priced.
require_owner_for_unpriceable(f, sender) ==
    ( /\ contract.liquidation_access = Permissionless
      /\ \/ ~f.directed /\ unpriceable_is_load_bearing(f)
         \/ f.bad_debt /\ \E a \in f.dead : f.left[a] > 0 )
    => is_owner(sender)

\* Slip: any remainder may be written off.
writeoff_of_anything(f) == TRUE

\* Priced collateral that covers the payoff cannot be written off.
writeoff_is_insolvent(f) ==
    f.bad_debt =>
        market_value_usd(f.prices, f.held) < value_usd(f.prices, LENDING, f.payoff)

\* Slip: a write-off has to be worth its price too.
within_value_band_unwaived(f) ==
    LET repay_value  == value_usd(f.prices, LENDING, f.repaid)
        seized_value == market_value_usd(f.prices, f.seize)
    IN  /\ (f.residue = 0 /\ seized_value = 0) \/ seized_value >= repay_value
        /\ seized_value <= checked_mul(repay_value, contract.liquidation_bonus_rate)

\* Section 7: the seizure is worth 100% of the repayment up to the bonus cap.
within_value_band(f) ==
    LET repay_value  == value_usd(f.prices, LENDING, f.repaid)
        seized_value == market_value_usd(f.prices, f.seize)
    IN  /\ \/ f.bad_debt
           \/ f.residue = 0 /\ seized_value = 0
           \/ seized_value >= repay_value
        /\ seized_value <= checked_mul(repay_value, contract.liquidation_bonus_rate)

\* Section 7b: no write-off of a rounding unit; what remains is Healthy.
leaves_healthy_or_closed(f) ==
    /\ ~(f.bad_debt /\ f.sent >= f.debt /\ f.sent < f.payoff)
    /\ f.residue > 0 /\ ~f.bad_debt =>
           get_borrower_health(contract, f.prices, f.left,
               scaled_to_underlying_borrow(f.residue, f.r.borrow_index)) = Healthy

\* Section 8: the repaid and, on a write-off, the residual debt leave the
\* books; the loss goes to the lenders at once or to the deficit.
loss(f) == scaled_to_underlying_borrow_ceil(f.residue, f.r.borrow_index)

\* Slips: the written-off residue left in the total; the deferred loss taken
\* from the lenders as well; the loss not allocated at all.
books_with_residue(f) ==
    LET repaid == [f.r EXCEPT !.total_scaled_borrow = @ - f.removed]
    IN  IF f.bad_debt /\ contract.bad_debt_loss_allocation = DeferredToDeficit
        THEN [repaid EXCEPT !.deficit_underlying = @ + loss(f)] ELSE repaid

books_with_haircut(f) ==
    LET cleared == [f.r EXCEPT !.total_scaled_borrow = @ - (f.removed + f.residue)]
    IN  IF f.bad_debt THEN apply_pro_rata_liquidity_index_haircut(cleared, loss(f))
        ELSE [f.r EXCEPT !.total_scaled_borrow = @ - f.removed]

books_without_loss(f) == [f.r EXCEPT !.total_scaled_borrow =
                              @ - (IF f.bad_debt THEN f.scaled ELSE f.removed)]

books_after(f) ==
    IF ~f.bad_debt THEN [f.r EXCEPT !.total_scaled_borrow = @ - f.removed]
    ELSE LET cleared == [f.r EXCEPT !.total_scaled_borrow = @ - (f.removed + f.residue)]
         IN  IF contract.bad_debt_loss_allocation = DeferredToDeficit
             THEN [cleared EXCEPT !.deficit_underlying = @ + loss(f)]
             ELSE apply_pro_rata_liquidity_index_haircut(cleared, loss(f))

books_balance(f) ==
    /\ (IF f.bad_debt THEN f.removed + f.residue ELSE f.removed) <= f.r.total_scaled_borrow
    /\ f.bad_debt /\ contract.bad_debt_loss_allocation = ImmediateLiquidityIndexHaircut
           => ~haircut_fails(f.r, loss(f))

\* What leaves the contract: the seizure, and all the rest on a write-off.
outgoing(f) == IF f.bad_debt THEN f.held ELSE f.seize

\* A directed fill shrinks the offer; any other liquidation leaves it alone.
sale_after(b, f) ==
    IF f.directed
    THEN stored_offer(subtract_seize(directed_sale[b].amounts, f.seize),
                      directed_sale[b].expires_at)
    ELSE directed_sale[b]

\* The checks in the order of the handler.
can_liquidate(sender, f) ==
    LET out == outgoing(f)
    IN  /\ NotPaused
        /\ contract.liquidation_access = LiquidatorOnly => assert_liquidator(sender)
        /\ has_position(f)
        /\ may_be_liquidated(f)
        /\ f.sent >= 1
        /\ f.removed > 0
        /\ f.residue >= 0
        /\ seizure_is_possible(f)
        /\ require_owner_for_unpriceable(f, sender)
        /\ writeoff_is_insolvent(f)
        /\ within_value_band(f)
        /\ leaves_healthy_or_closed(f)
        /\ books_balance(f)
        /\ \A a \in Collaterals : total_collateral[a] >= out[a] /\ bank[a] >= out[a]
        /\ bank[LENDING] + f.repaid <= MaxCash

Liquidate(sender, b, seize, sent) ==
    LET f   == figures(b, seize, sent)
        out == outgoing(f)
    IN  /\ can_liquidate(sender, f)
        /\ scaled_borrow' = [scaled_borrow EXCEPT ![b] = IF f.bad_debt THEN 0 ELSE f.residue]
        /\ reserve' = books_after(f)
        /\ borrower_collateral' =
               [borrower_collateral EXCEPT ![b] =
                   [a \in Collaterals |-> saturating_sub(@[a], out[a])]]
        /\ total_collateral' = [a \in Collaterals |-> saturating_sub(total_collateral[a], out[a])]
        /\ bank' = [d \in Denoms |-> IF d = LENDING THEN bank[d] + f.repaid
                                     ELSE bank[d] - out[d]]
        /\ directed_sale' = [directed_sale EXCEPT ![b] = sale_after(b, f)]
        /\ UNCHANGED <<world_vars, config_vars, token, directed_sale_version>>
=============================================================================
