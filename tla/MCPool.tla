------------------------------- MODULE MCPool -------------------------------
(***************************************************************************)
(* Small instances of Pool for TLC.  ONE is 100, so that decimals truncate *)
(* after two places; a year is 3 seconds.  Each run has an Inputs record of *)
(* its own: the messages its question needs, the others disabled.          *)
(***************************************************************************)
EXTENDS PoolProperties, TLC

CONSTANTS
    l1, l2, b1, b2, admin, curator, keeper,     \* accounts
    lending, gold, silver                       \* denoms

Symmetry == Permutations(Lenders) \cup Permutations(Borrowers)

\* Everybody is accredited except the second lender.
Accredited == [a \in Accounts \cup {POOL} |-> {"kyc"}]
MCAttributes == [a \in Accounts \cup {POOL} |-> IF a = l2 THEN {} ELSE {"kyc"}]

OneToOne == [d \in Denoms |-> 1]

MCRates ==
    [ min_rate |-> 10, target_rate |-> 20, max_rate |-> 90, kink_utilization |-> 80,
      fee_model |-> ReserveFactor, reserve_factor |-> 50, flat_fee_apr |-> 0 ]

FlatRates ==
    [ min_rate |-> 20, target_rate |-> 30, max_rate |-> 90, kink_utilization |-> 50,
      fee_model |-> FlatBorrowSpread, reserve_factor |-> 0, flat_fee_apr |-> 15 ]

MCConfig ==
    [ operational_state |-> Active,
      rate_params |-> MCRates,
      supported |-> [a \in Collaterals |-> IF a = gold THEN 100 ELSE 50],
      margin_rate |-> 70, liquidation_rate |-> 80, liquidation_bonus_rate |-> 110,
      min_lend |-> 1, min_borrow |-> 1,
      max_borrower_collateral_types |-> 2,
      max_liquidation_staleness_seconds |-> 1,
      commit_market_configured |-> TRUE,
      bad_debt_loss_allocation |-> DeferredToDeficit,
      liquidation_access |-> LiquidatorOnly,
      custodian |-> curator, liquidator |-> keeper,
      lender_required_attrs |-> {}, borrower_required_attrs |-> {} ]

\* One dollar a unit, fresh for two ticks past the bound on time.
MCQuotes == [d \in Denoms |-> [usd |-> 100, expiration |-> MaxTime + 2]]

NoInputs ==
    [ lends |-> {}, redemptions |-> {}, units |-> {}, requests |-> {}, recipients |-> {},
      commits |-> {}, borrows |-> {}, repayments |-> {}, deposits |-> {}, removals |-> {},
      seizures |-> {}, payments |-> {}, sales |-> {}, deadlines |-> {}, reliefs |-> {},
      donations |-> {}, curves |-> {}, updates |-> {}, listings |-> {}, states |-> {},
      attrs |-> {}, flags |-> {}, heirs |-> {}, steps |-> {}, prices |-> {},
      lifetimes |-> {} ]

\* Amounts of gold and of silver.
Coins(g, s) == [a \in Collaterals |-> IF a = gold THEN g ELSE s]

-----------------------------------------------------------------------------
\* book: two lenders and a borrower share the book while interest and fees
\* accrue, in amounts large enough for truncated indexes to add up to whole
\* units between the fees booked and the coins that back them.
BookInputs ==
    [NoInputs EXCEPT
        !.lends = {900}, !.units = {900}, !.requests = {400},
        !.recipients = Lenders, !.commits = {FALSE}, !.borrows = {800},
        !.repayments = {300}, !.deposits = {Coins(2000, 0)}, !.donations = {200},
        !.steps = {1}]
BookConfig == [MCConfig EXCEPT !.rate_params.reserve_factor = 75]

\* liquidation: a price that falls and comes back under two borrowers, partial and
\* full seizures, write-offs into the deficit and what clears it.
LiquidationInputs ==
    [NoInputs EXCEPT
        !.lends = {12}, !.commits = {FALSE}, !.borrows = {5},
        !.deposits = {Coins(8, 0)}, !.removals = {Coins(1, 0), Coins(8, 0)},
        !.seizures = {Coins(3, 0), Coins(4, 0), Coins(8, 0)}, !.payments = {2, 3, 6},
        !.reliefs = {9}, !.steps = {1},
        !.prices = {<<gold, 20>>, <<gold, 75>>}, !.lifetimes = {2}]

\* governance: ownership, operational state, rate curve, required attributes and
\* commit flags change while lenders come, go and pass their units on.
GovernanceInputs ==
    [NoInputs EXCEPT
        !.lends = {4}, !.redemptions = {0, 3}, !.units = {4}, !.requests = {3},
        !.recipients = Lenders, !.commits = {TRUE, FALSE},
        !.deposits = {Coins(12, 0)}, !.borrows = {2},
        !.updates = {[commit_market_configured |-> TRUE]},
        !.curves = {FlatRates}, !.states = {Active, Frozen, Paused},
        !.attrs = {{}, {"kyc"}}, !.flags = {TRUE, FALSE},
        !.heirs = {keeper}, !.deadlines = {0, 2}, !.steps = {2}]
GovernanceConfig == [MCConfig EXCEPT !.commit_market_configured = FALSE]

\* full: a lender and a borrower at full utilization.
FullInputs ==
    [NoInputs EXCEPT
        !.lends = {12}, !.borrows = {12}, !.deposits = {Coins(30, 0)},
        !.removals = {Coins(5, 0)}, !.steps = {1}]
FullConfig ==
    [MCConfig EXCEPT !.rate_params.min_rate = 28, !.rate_params.target_rate = 28,
                     !.rate_params.max_rate = 28]

-----------------------------------------------------------------------------
\* What the theorems about secured debt ask of the prices holds in every run.
ASSUME PriceAssumption == LendingPricesCount
=============================================================================
