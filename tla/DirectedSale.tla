---------------------------- MODULE DirectedSale ----------------------------
(***************************************************************************)
(* model/directed_sale.rs: a borrower's published collateral sale.  An     *)
(* offer is a map of outstanding amounts (0 = not listed) with a deadline; *)
(* a cleared row is the map of zeros with deadline 0.                      *)
(***************************************************************************)
EXTENDS Health

NoCollateral == [a \in Collaterals |-> 0]
NoOffer      == [amounts |-> NoCollateral, expires_at |-> 0]
Offers       == [amounts : [Collaterals -> Amount], expires_at : Nat]

is_empty(amounts) == \A a \in Collaterals : amounts[a] = 0

\* A non-empty seizure, every amount of which the offer covers.
is_seize_within_offer(amounts, seize) ==
    /\ ~is_empty(seize)
    /\ \A a \in Collaterals : seize[a] <= amounts[a]

subtract_seize(amounts, seize) ==
    [a \in Collaterals |-> saturating_sub(amounts[a], seize[a])]

\* Slip: live at the deadline.
is_live_at_deadline(offer, at) == at <= offer.expires_at

\* Live strictly before the deadline.
is_live(offer, at) == at < offer.expires_at

\* clear_directed_sale_offer when nothing is left, set_directed_sale_offer otherwise.
stored_offer(amounts, expires_at) ==
    IF is_empty(amounts) THEN NoOffer
    ELSE [amounts |-> amounts, expires_at |-> expires_at]

-----------------------------------------------------------------------------
\* adjust_directed_collateral_sale: signed deltas, 0 for an asset not named.
is_increase(delta) == \E a \in Collaterals : delta[a] > 0

adjusted_amounts(amounts, delta) ==
    [a \in Collaterals |->
        IF delta[a] >= 0 THEN amounts[a] + delta[a]
        ELSE saturating_sub(amounts[a], -delta[a])]

\* Only an increase must be supported and covered by the collateral on file.
increases_are_covered(c, held, amounts, delta) ==
    \A a \in Collaterals :
        delta[a] > 0 => c.supported[a] > 0 /\ held[a] >= amounts[a] + delta[a]
=============================================================================
