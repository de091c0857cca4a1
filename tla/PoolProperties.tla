--------------------------- MODULE PoolProperties ---------------------------
(***************************************************************************)
(* What contracts/pool_v2 must keep true whatever the order of messages.   *)
(* Unless it says "stored", a property is about the reserve as it stands   *)
(* after accrual to the block time (accrued), the one every handler uses.  *)
(***************************************************************************)
EXTENDS Pool

\* The type invariant: every stored value has the type its row declares.
TypeOK ==
    /\ now \in Nat
    /\ quotes \in [Denoms -> Quotes]
    /\ contract \in Config
    /\ ownership \in [ owner : Accounts, pending_owner : Accounts \cup {NO_ONE},
                       pending_expiry : Nat ]
    /\ lender_require_commit \subseteq Lenders
    /\ borrower_require_commit \subseteq Borrowers
    /\ reserve \in Reserve
    /\ token \in [ balances : [Accounts \cup {POOL} -> Amount], total_supply : Amount ]
    /\ bank \in [Denoms -> Amount]
    /\ scaled_borrow \in [Borrowers -> Amount]
    /\ borrower_collateral \in [Borrowers -> [Collaterals -> Amount]]
    /\ total_collateral \in [Collaterals -> Amount]
    /\ directed_sale \in [Borrowers -> Offers]
    /\ directed_sale_version \in [Borrowers -> Nat]

-----------------------------------------------------------------------------
\* The books agree.  Two contracts and four storage maps record the same
\* quantities, each updated by hand in every handler (lend.rs 44-62,
\* withdraw.rs 24-35, repay.rs 57-68, liquidate.rs 437-494,
\* remove_collateral.rs 112-115): the scaled supply is the repo token's supply
\* and the sum of its balances, none of it stranded at the pool; the scaled
\* debt is the sum of the borrowers'; the collateral total is the sum of the
\* maps and is in the bank.
BooksAgree ==
    /\ reserve.total_scaled_liquidity = token.total_supply
    /\ token.total_supply = SumFunctionOnSet(token.balances, Accounts)
    /\ token.balances[POOL] = 0
    /\ reserve.total_scaled_borrow = SumFunctionOnSet(scaled_borrow, Borrowers)
    /\ \A a \in Collaterals :
          /\ total_collateral[a] =
                SumFunction([b \in Borrowers |-> borrower_collateral[b][a]])
          /\ total_collateral[a] <= bank[a]

\* What the pool owns beyond what it owes, in atomics: coins, loans and
\* booked losses against the lenders' claims and the protocol's fees.
margin(r, coins) ==
    coins * ONE + total_borrow(r) + r.deficit_underlying * ONE
        - total_liquidity(r) - r.accrued_reserve * ONE

Margin == margin(accrued, bank[LENDING])

\* Coins, loans and booked losses of the pool cover the claims of its lenders.
ClaimsAreCovered ==
    total_liquidity(accrued)
        <= (bank[LENDING] + accrued.deficit_underlying) * ONE + total_borrow(accrued)

\* No transaction spends the margin.  Every conversion of rates.rs rounds for
\* the pool, so within a block no message, of whichever actor, leaves the pool
\* owning less against what it owes.  The one exception is Borrow, whose
\* rounded-up debt is computed from a quotient already truncated to atomics
\* (underlying_to_scaled_borrow_ceil): it may cost less than borrow_index / ONE
\* atomics.
MarginNeverSpent ==
    [][ now' = now =>
          \/ Margin' >= Margin
          \/ /\ \E b \in Borrowers, x \in Inputs.borrows : Borrow(b, x)
             /\ ONE * (Margin - Margin') < accrued.borrow_index ]_vars

\* Accrual pays for itself.  Interest credited to lenders and fees booked to
\* the protocol come out of the interest charged to borrowers, whatever the
\* curve and the utilization: accruing the stored reserve costs at most the
\* truncation of the borrow side, one atomic per scaled unit of debt and one
\* part in ONE of the debt (compute_effective_reserve).
AccrualIsFunded ==
    ONE * (margin(reserve, bank[LENDING]) - Margin)
        <= ONE * reserve.total_scaled_borrow + total_borrow(reserve)

\* Fees are never paid out of principal: when WithdrawReserve pays, coins and
\* loans still cover the lenders' claims (withdraw_reserve.rs 50-71 uses the
\* signed surplus; the saturated cash figure would misstate it).
FeesNeverEatPrincipal ==
    [][ accrued'.accrued_reserve < accrued.accrued_reserve /\ bank'[LENDING] < bank[LENDING]
          => bank'[LENDING] + borrow_u128(accrued)' >= liquidity_u128(accrued)' ]_vars

-----------------------------------------------------------------------------
\* The indexes, accrued to the block time.  The borrow index never falls below
\* 1 nor moves backwards, by a message, a new curve or waiting
\* (compute_effective_reserve, rates.rs).
BorrowIndexNeverFalls ==
    [][ accrued.borrow_index >= ONE /\ accrued'.borrow_index >= accrued.borrow_index ]_vars

\* No second is charged twice.  Nearly every message accrues first, several run
\* in one block and some store a new curve: as of the block time, which a
\* message does not move, none of them makes an index or the booked fees grow
\* (update_reserve_indexes stores the time with the indexes, rates.rs).
InterestNeedsTime ==
    [][ now' = now => /\ accrued'.borrow_index = accrued.borrow_index
                      /\ accrued'.liquidity_index <= accrued.liquidity_index
                      /\ accrued'.accrued_reserve <= accrued.accrued_reserve ]_vars

\* The lenders' index falls only in a transaction that shares out a loss: a
\* borrower written off where losses are taken at once, or a slice of the
\* deficit cleared that neither fees nor coins paid for (liquidate.rs,
\* socialize_deficit.rs).
written_off(b) ==
    /\ scaled_borrow[b] > 0 /\ scaled_borrow'[b] = 0
    /\ is_empty(borrower_collateral'[b])

socialized ==
    /\ reserve'.deficit_underlying < reserve.deficit_underlying
    /\ reserve'.accrued_reserve = accrued.accrued_reserve
    /\ bank' = bank

LenderValueFallsOnlyByLoss ==
    [][ accrued'.liquidity_index < accrued.liquidity_index =>
          \/ socialized
          \/ /\ contract.bad_debt_loss_allocation = ImmediateLiquidityIndexHaircut
             /\ \E b \in Borrowers : written_off(b) ]_vars

\* A new rate curve is not retroactive: the time before the change is charged
\* at the old curve, so changing it leaves the accrued reserve as it was
\* (update_rate_params.rs 30-34).
RateChangeIsNotRetroactive ==
    [][ contract'.rate_params # contract.rate_params => accrued' = accrued ]_vars

\* Loss allocation, deficit and access stay compatible over any order of
\* configuration updates, liquidations and deficit repayments: no deficit is
\* carried under immediate allocation, and permissionless liquidation has
\* immediate allocation and a short last-known bound.
LossModeIsCoherent ==
    /\ contract.bad_debt_loss_allocation = ImmediateLiquidityIndexHaircut
          => reserve.deficit_underlying = 0
    /\ permissionless_config_ok(contract, reserve.deficit_underlying)

-----------------------------------------------------------------------------
\* Debt is always secured: a borrower with any scaled debt holds collateral,
\* so every debt can still be liquidated or written off (liquidate.rs section 2
\* refuses a borrower with an empty map).
DebtIsAlwaysSecured ==
    \A b \in Borrowers : scaled_borrow[b] > 0 => ~is_empty(borrower_collateral[b])

\* What that rests on outside the pool: a posted price of the lending denom
\* is not so low that value_usd truncates one unit of debt to nothing.  A debt
\* worth nothing is Healthy whatever secures it, and no check of the pool or
\* of the oracle excludes such a price.
lending_price_counts(usd) == usd > 0 => usd >= UNIT[LENDING]
LendingPricesCount ==
    /\ lending_price_counts(InitialQuotes[LENDING].usd)
    /\ \A p \in Inputs.prices : p[1] = LENDING => lending_price_counts(p[2])

\* A debt as the queries and the health check see it.
debt_of(b) == scaled_to_underlying_borrow(scaled_borrow[b], accrued.borrow_index)

acted_on_prices ==
    liquidation_prices(quotes, now, contract.max_liquidation_staleness_seconds)

health_of(b) ==
    get_borrower_health(contract, acted_on_prices, borrower_collateral[b], debt_of(b))

\* Only time, prices and settings make a borrower unhealthy.  Within a block
\* no message takes a Healthy borrower out of health: not their own borrowing
\* or removal, not a directed fill by somebody else, not the lenders' or the
\* owner's business with the reserve.
HealthyStaysHealthy ==
    [][ /\ now' = now /\ quotes' = quotes /\ contract' = contract
        /\ acted_on_prices[LENDING] > 0
        => \A b \in Borrowers : health_of(b) = Healthy => health_of(b)' = Healthy ]_vars

\* A seizure is a step in which a borrower's debt and collateral both fall.
seized_from(b) ==
    /\ scaled_borrow'[b] < scaled_borrow[b]
    /\ borrower_collateral'[b] # borrower_collateral[b]

taken(b) == [a \in Collaterals |-> borrower_collateral[b][a] - borrower_collateral'[b][a]]

payoff_of(b) == scaled_to_underlying_borrow_ceil(scaled_borrow[b], accrued.borrow_index)

\* Collateral is seized only from a liquidatable borrower or on the terms of
\* that borrower's live offer.  What a directed fill takes beyond the offer is
\* only the sweep of a write-off, which leaves nothing behind.
SeizureHasCause ==
    [][ \A b \in Borrowers : seized_from(b) =>
          \/ health_of(b) = Liquidatable
          \/ /\ now < directed_sale[b].expires_at
             /\ \/ is_seize_within_offer(directed_sale[b].amounts, taken(b))
                \/ written_off(b) ]_vars

\* A seizure is paid for.  Short of a write-off the liquidator pays at least
\* the market value over the bonus, and receives at least what
\* they pay, unless they close the debt and what they take is worth nothing; a debt
\* that is closed without its full payoff had less priced collateral than that
\* payoff, and leaves the borrower with none.
SeizureIsPaidFor ==
    [][ \A b \in Borrowers : seized_from(b) =>
          LET paid       == bank'[LENDING] - bank[LENDING]
              paid_value == value_usd(acted_on_prices, LENDING, paid)
              forgiven   == scaled_borrow'[b] = 0 /\ paid < payoff_of(b)
          IN  IF forgiven
              THEN /\ is_empty(borrower_collateral'[b])
                   /\ market_value_usd(acted_on_prices, borrower_collateral[b])
                        < value_usd(acted_on_prices, LENDING, payoff_of(b))
              ELSE /\ \/ paid_value <= market_value_usd(acted_on_prices, taken(b))
                      \/ scaled_borrow'[b] = 0 /\ market_value_usd(acted_on_prices, taken(b)) = 0
                   /\ market_value_usd(acted_on_prices, taken(b))
                        <= checked_mul(paid_value, contract.liquidation_bonus_rate) ]_vars

\* A stranger never profits from a dead feed: under permissionless access only
\* the owner takes collateral that has no usable quote, and only the owner
\* liquidates a borrower who would be safe with the last-known quotes counted
\* (unless the borrower invited it).
StrangersRespectDeadQuotes ==
    [][ \A s \in Operators, b \in Borrowers, z \in Inputs.seizures, x \in Inputs.payments :
          /\ contract.liquidation_access = Permissionless
          /\ s # ownership.owner
          /\ seized_from(b)
          /\ Liquidate(s, b, z, x)
          => /\ \A a \in Collaterals : taken(b)[a] > 0 => acted_on_prices[a] > 0
             /\ ~(is_live(directed_sale[b], now)
                    /\ is_seize_within_offer(directed_sale[b].amounts, z))
                  => get_borrower_health(contract,
                         prices_with_unpriceable_last_known(quotes),
                         borrower_collateral[b], debt_of(b)) = Liquidatable ]_vars

-----------------------------------------------------------------------------
\* An offer grows only by its borrower's next version: no replayed adjustment,
\* fill, repayment or liquidation enlarges it, prolongs it or reuses a version.
OffersGrowOnlyByVersion ==
    [][ \A b \in Borrowers :
          /\ directed_sale_version'[b] >= directed_sale_version[b]
          /\ \/ directed_sale'[b].expires_at > directed_sale[b].expires_at
             \/ \E a \in Collaterals :
                    directed_sale'[b].amounts[a] > directed_sale[b].amounts[a]
             => /\ directed_sale_version'[b] = directed_sale_version[b] + 1
                /\ is_live(directed_sale'[b], now)
                /\ scaled_borrow[b] > 0 ]_vars

\* A flagged lender leaves only through a withdrawal: units of a lender with
\* require-commit set never reach another account.
FlaggedLendersDoNotTransfer ==
    [][ \A l \in lender_require_commit :
          token'.balances[l] < token.balances[l] =>
              /\ token'.total_supply < token.total_supply
              /\ \A m \in Accounts \ {l} : token'.balances[m] = token.balances[m] ]_vars

\* The operational state holds everything back: frozen, neither supply nor
\* debt grows; paused, no position, repo token or coin of the contract moves
\* out, though interest goes on accruing.
OperationalStateHolds ==
    [][ /\ contract.operational_state # Active =>
              /\ token'.total_supply <= token.total_supply
              /\ reserve'.total_scaled_borrow <= reserve.total_scaled_borrow
        /\ contract.operational_state = Paused =>
              /\ UNCHANGED <<token, position_vars, sale_vars>>
              /\ \A d \in Denoms : bank'[d] >= bank[d] ]_vars

\* The pool changes hands by rule: only by the acceptance of the account the
\* owner named, and in time.
OwnerIsReplacedByTheNamedHeir ==
    [][ ownership'.owner # ownership.owner =>
          /\ ownership'.owner = ownership.pending_owner
          /\ ~expired(ownership.pending_expiry, now) ]_vars

-----------------------------------------------------------------------------
\* The pool implements the book its users reason with: each message changes
\* the position of the one account it concerns, as LendingBook allows.
Book == INSTANCE LendingBook
            WITH Holders <- Accounts,
                 shares  <- [a \in Accounts |-> token.balances[a]],
                 debts   <- scaled_borrow,
                 pledged <- borrower_collateral

ImplementsLendingBook == Book!Spec

-----------------------------------------------------------------------------
\* Two statements of the repository that the code does not keep.

\* CODEBASE_WALKTHROUGH.md 48 and tests/reserve_invariant.rs 61-71: implied
\* cash, from the stored reserve, stays at or above 0.  The fee is floored
\* while the borrow side keeps its fraction, so at full utilization it does not.
ImpliedCashNonNegative ==
    liquidity_u128(reserve) + reserve.accrued_reserve
        >= borrow_u128(reserve) + reserve.deficit_underlying

\* The comment of underlying_to_scaled_borrow_ceil, rates.rs 274-276: the debt
\* a Borrow records is never less than what was lent.  The quotient is
\* truncated before it is rounded up, so it can be, by a fraction of a unit.
BorrowIsCovered ==
    [][ \A b \in Borrowers : scaled_borrow'[b] > scaled_borrow[b] =>
          (scaled_borrow'[b] - scaled_borrow[b]) * accrued.borrow_index
              >= (bank[LENDING] - bank'[LENDING]) * ONE ]_vars
=============================================================================
