---------------------------- MODULE MCPoolQueries ----------------------------
(***************************************************************************)
(* A small instance of PoolQueries for TLC: gold of ten units to a display *)
(* asset at prices that do not divide evenly, cheap silver at a haircut,   *)
(* quotes that go stale and dead, and a position that is opened, topped    *)
(* up, eroded, liquidated and repaid.                                      *)
(***************************************************************************)
EXTENDS MCPool, PoolQueries

TenToOne == [d \in Denoms |-> IF d = gold THEN 10 ELSE 1]

QueriesConfig == [MCConfig EXCEPT !.supported[gold] = 90,
                                   !.rate_params.min_rate = 25, !.rate_params.target_rate = 40,
                                   !.rate_params.kink_utilization = 70]

QueriesInputs ==
    [NoInputs EXCEPT
        !.lends = {12}, !.borrows = {3, 8}, !.repayments = {15},
        !.deposits = {Coins(120, 0), Coins(0, 30)}, !.removals = {Coins(20, 0)},
        !.seizures = {Coins(70, 0)}, !.payments = {5}, !.steps = {1},
        !.listings = {[to_update |-> [a \in {} |-> 0], to_remove |-> {silver}]},
        !.prices = {<<gold, 75>>, <<silver, 37>>}, !.lifetimes = {1}]
=============================================================================
