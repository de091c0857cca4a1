----------------------------- MODULE MCPoolExits -----------------------------
(***************************************************************************)
(* A small instance of PoolExits for TLC: permissionless liquidation of a  *)
(* borrower with two collaterals, whose quotes fall, go stale and die and  *)
(* whose offers are made, reduced, filled and left behind, while the       *)
(* access, the loss allocation, the list of collaterals, the number of     *)
(* types and the operational state change.                                 *)
(***************************************************************************)
EXTENDS PoolExits, MCPool

ExitsConfig ==
    [MCConfig EXCEPT !.bad_debt_loss_allocation = ImmediateLiquidityIndexHaircut,
                     !.liquidation_access = Permissionless]

ExitsInputs ==
    [NoInputs EXCEPT
        !.lends = {42}, !.borrows = {21}, !.deposits = {Coins(30, 36)},
        !.seizures = {Coins(0, 0), Coins(0, 16), Coins(30, 0)}, !.payments = {15, 21},
        !.updates = {[liquidation_access |-> LiquidatorOnly,
                      bad_debt_loss_allocation |-> DeferredToDeficit,
                      max_borrower_collateral_types |-> 1],
                     [bad_debt_loss_allocation |-> ImmediateLiquidityIndexHaircut]},
        !.listings = {[to_update |-> [a \in {} |-> 0], to_remove |-> {silver}]},
        !.states = {Frozen}, !.reliefs = {20}, !.steps = {1},
        !.sales = {Coins(0, 0), Coins(0, 16), Coins(0, -1)}, !.deadlines = {1, 2},
        !.prices = {<<gold, 30>>, <<gold, 77>>, <<silver, 0>>}, !.lifetimes = {0}]
=============================================================================
