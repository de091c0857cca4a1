---------------------------- MODULE MCPoolMessages ----------------------------
(***************************************************************************)
(* A small instance of PoolMessages for TLC: two lenders, one of whom may  *)
(* be flagged, an owner who withdraws for them, and a borrower whose       *)
(* interest moves the liquidity index off one.                             *)
(***************************************************************************)
EXTENDS MCPool, PoolMessages

MessagesInputs ==
    [NoInputs EXCEPT
        !.lends = {9}, !.redemptions = {0}, !.units = {9}, !.requests = {1, 4},
        !.recipients = Lenders, !.commits = {TRUE, FALSE}, !.borrows = {4},
        !.repayments = {15}, !.deposits = {Coins(20, 0)}, !.steps = {2}]
=============================================================================
