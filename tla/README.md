# Democratized Prime: a TLA+ verification project

The repository implements a pooled lending market on Provenance as three
CosmWasm contracts and a shared library. Lenders lend one denom and receive
repo tokens; borrowers post collateral and borrow that denom; interest accrues
through two indexes; liquidators close unsafe positions; an owner, a custodian
and a liquidator run the pool; an oracle posts prices. This directory models
those contracts in TLA+, checks the models with TLC on small instances, and
proves the properties that carry the rest with TLAPS for every value of the
constants.

Contents: inventory, modules, runs, bounds, fairness, proofs, findings, limits,
plan.

## 1. Inventory

| Component | State it keeps | Operations | What makes it correct |
|---|---|---|---|
| **Reserve** (`pool_v2/src/model/reserve.rs`, `utils/rates.rs`) | liquidity and borrow index, last update, scaled totals, accrued fees, deficit | accrual, conversions, haircut | interest credited and fees booked never exceed interest charged; no rounding spends what backs the lenders; indexes fall only by a loss |
| **Lender messages** (`lend`, `withdraw`, `receive`, `transfer`) | scaled supply, coins, repo units in the token contract | Lend, Withdraw (owner), and by Send: Withdraw, WithdrawExact, Transfer, TransferExact | four records of one quantity agree; excess units return; flagged lenders leave only by withdrawal |
| **Borrower messages** (`borrow`, `repay`, `add_collateral`, `remove_collateral`) | scaled debt, collateral map, collateral totals | one each | no message of a healthy borrower, or of anybody else, makes them unhealthy; debt never outlives its collateral; a borrower can always leave |
| **Directed sales** (`adjust_directed_collateral_sale`, `model/directed_sale.rs`) | outstanding offer with deadline, version, per borrower | increase, decrease, cancel; fills by liquidate | an offer grows only by its borrower's next version |
| **Liquidation** (`liquidate`) | all of the above | partial and full seizure, directed fill, write-off with sweep, loss into the deficit or the index | seizures have a cause, are paid for, and cost lenders only what was lost; no bad debt is stuck |
| **Reserve operations** (`withdraw_reserve`, `eliminate_deficit`, `socialize_deficit`, `update_rate_params`) | fees, deficit, curve | one each | fees are never paid out of principal; a curve is not retroactive |
| **Configuration** (`update_contract_config`, `update_supported_collateral`, `set_*`, ownership) | `ContractStateV1`, flags, owner and heir | one each | loss mode, access and deficit stay compatible; held collateral stays listed; a paused pool stands still; the owner changes by acceptance |
| **Prices and health** (`utils/price.rs`, `utils/health.rs`, `lib/price_oracle`) | none; reads the oracle | fresh, last-known and unusable quotes; LTV; three health states | a dead feed is nobody's opportunity |
| **Pool queries** (`pool_v2/src/query`) | none; accrue without storing | collateral requirements, borrower position, reserve, state, the two status queries | what a user is told is what the handlers act on |
| **Repo token** (`repo_token_cw20`) | balances, supply, minter, pool, owner | Mint, Burn, BurnFrom, Transfer, Send with Receive, UpdateConfig, UpdateOwnership | supply is the sum of balances; holders cannot pay each other |
| **Messages between pool and token** (`utils/response_ext.rs`, the `Response` of each handler) | the messages a transaction has still to execute | burn, mint, transfer, bank send, commit, each of which may fail | a transaction is one step or none |
| **Price oracle** (`price_oracle`) | prices with `as_of`, asset mappings, owner | UpdateAssetPrices, UpdateAssetMappings, UpdateOwnership, GetPricesByAsset | lateness never makes a price fresh; in silence quotes go stale |
| **Deployment** (`pool_v2` instantiate and reply, `repo_token_cw20` instantiate and UpdateConfig) | which pool and which token name each other | an existing token or a new one by submessage, rewiring | no pool without a token; supply is what the pools have counted |
| **Migration** (`lib/common/migrate.rs`, the three `migrate` entry points) | stored name, version, legacy admin, roles | migrate, with backfills of roles and tags | the owner stays, each role is held |
| Attribute patterns, contents of commit messages, coin parsing | | | see *What is not modelled* |

**How they interact.** A pool message is one transaction. The handler reads
storage, queries the oracle, the bank and the attribute module, writes storage
and emits messages (token mint, burn, transfer; bank sends; exchange commits)
which run afterwards in the same transaction. If any fails, everything is
reverted. In the other direction the token's `Send` credits the pool and calls
its `Receive` inside the transaction. The contracts share no storage: the
scaled supply lives in the pool and again in the token, and agreement between
the two is a property of the whole.

**What is hard.** Nothing runs in parallel: the difficulty is in the order of
transactions of many independent actors, with time and prices moving in
between, and inside one transaction in the messages that follow the handler.

- *Rounding.* Every conversion rounds in a chosen direction; one wrong choice
  leaks a unit per call. Queries that invert a valuation round the other way.
- *Stale data.* Quotes pass from fresh to last-known to unusable, arrive late
  or dated ahead; offers survive repayments, seizures and price changes.
- *Many rows per message.* A liquidation updates six stored quantities by hand.
- *Settings under open positions.* Loss mode, access, listings, curves, limits
  and roles change while positions are open and deficits are booked; some
  order of them might leave a borrower, or a bad debt, with no way out.
- *Two contracts, one total*, with a callback between them, and several pools
  that may use one token in turn.

`PROJECT.json` lists every component with its status, and the hazards with the
line where each bites and the properties that watch it.

## 2. Modules

```
Decimal -> Conversions -> Accrual -> Pricing -> Health -> DirectedSale --.
                                        |      RepoTokenLedger ---------- PoolState
                                        |      Ownership ---------------'     |
     LenderOps   BorrowerOps -> LiquidationOps   ReserveOps   GovernanceOps --'
            \___________________________ Pool ______________________/
                                      |
                   PoolProperties (instantiates LendingBook)
            /            |             |            |          \
       MCPool  PoolMessages  PoolSolvency  PoolExits  PoolQueries <- Quoting <- Health
                    |             |            |            |
          MCPoolMessages  MCPoolSolvency  MCPoolExits  MCPoolQueries

Ownership -> PriceOracle (instantiates QuoteFeed) -> MCPriceOracle
RepoTokenLedger, Ownership -> RepoToken  -> MCRepoToken
RepoTokenLedger, Ownership -> Deployment -> MCDeployment
Ownership -> Migration -> MCMigration

PoolProperties -> PoolProofs -> PoolStepTheorems -> BooksTheorems -> QueryProofs    (of PoolQueries, PoolExits, PoolSolvency)
                                    SumTheorems ------'       `----> MessageProofs  (of PoolMessages)
RepoToken, Migration, SumTheorems    -> TokenMigrationProofs
Deployment, PriceOracle, SumTheorems -> DeploymentOracleProofs
```

| Module | Models |
|---|---|
| `Decimal` | `Decimal256` as integers in units of 1/ONE, truncating as the library does |
| `Conversions` | the conversions of `rates.rs`, reserve totals, cash, the pro-rata haircut |
| `Accrual` | the kinked curve, both fee models, `compute_effective_reserve` |
| `Pricing` | quotes with expirations; the fresh selection of borrower messages and the last-known selection of liquidation |
| `Quoting` | values turned back into amounts, with `checked_div_ceil` and both roundings |
| `Health` | haircut values, LTV, health |
| `DirectedSale` | offer arithmetic: increases, decreases, coverage, fills |
| `RepoTokenLedger` | mint, burn and move on balances and supply, shared by everything that has a token |
| `Ownership` | `cw_ownable` (external) as `lib/common/ownership.rs` admits it |
| `PoolState` | the pool's storage as variables, `Init`, configuration checks, the gates of `execute`, permissions |
| `LenderOps`, `BorrowerOps`, `LiquidationOps`, `ReserveOps`, `GovernanceOps` | one action per message, whole handler each |
| `Pool` | the dispatch: any message, by any account, in any order, with time, prices and plain bank sends between them |
| `PoolProperties` | what must hold, and the refinement of `LendingBook` |
| `LendingBook` | the abstract promise: each transaction concerns one account's position, or passes units between two |
| `PoolExits` | the ways out: leaving as a borrower, closing out a bad debt |
| `PoolSolvency` | the pool with an auxiliary variable, `spent`, that records what truncation may have cost so far |
| `PoolQueries` | the six queries, and their agreement with the handlers |
| `PoolMessages` | the lender side taken apart into the messages that pool, token, bank and exchange module exchange, each of which may fail; refines `Pool` |
| `RepoToken` | the token contract alone, with any minter, pool and owner and a nested `Receive` |
| `QuoteFeed` | what the pool takes for granted of an oracle |
| `PriceOracle` | the oracle contract; refines `QuoteFeed` |
| `Deployment` | several pools and tokens coming onto the chain, wired, used and rewired |
| `Migration` | contracts of old code migrated in any order |
| `MC*` | constants of the small instances |
| `SumTheorems`, `PoolProofs`, `PoolStepTheorems`, `BooksTheorems`, `QueryProofs`, `MessageProofs`, `TokenMigrationProofs`, `DeploymentOracleProofs` | theorems |

**State.** Variables carry the names of the storage rows. `reserve` is
`ReserveStateV1`, `contract` is `ContractStateV1`, `token` the balances and
supply of the other contract, `bank` the coins the bank module holds for the
pool, `quotes` what the oracle stores. Optional rows are total functions with 0
for an absent row: the code deletes a row exactly when it becomes zero or empty,
so the two mean the same. `accrued` is the reserve as `update_reserve_indexes`
returns it at the block time; handlers that store it set `reserve'` from it,
`ForwardUnits` reads it without storing, as `transfer.rs` does. The oracle's
`prices` and `mappings`, and `pools` and `tokens` of `Deployment`, are functions
on the keys they hold, since there absence means something.

**Actions.** In `Pool` each action is a handler with the messages it emits: its
guards are the handler's `ensure!`s together with the conditions under which an
emitted message would revert the transaction (a zero burn or send, a short
balance, a missing commit market). A refused message is a step that is not
taken. `Withdraw` and `Transfer` payloads include the `Send` that delivers them
and the refund of the excess. Where a property asks whether a message would be
accepted, its guards are an operator of their own (`can_repay`,
`can_remove_collateral`, `can_liquidate`; `can_mint`, `can_burn_units`,
`can_transfer`, `can_send_coins` of the token and the bank) and the property is
a state predicate without ENABLED.

That this is a fair summary of a transaction is itself checked, and proved, for
the messages that touch the token. In `PoolMessages` a handler only writes its
storage and appends messages to `pending`; the runtime executes those depth
first. `running` is the storage as the transaction in progress has it; `reserve`,
`token` and `bank` are what the chain keeps, and take over `running` when the
last message has been executed. `Revert` may strike at any message and drops
both. Handlers have there only the guards they have in the code; the token, the
bank and the exchange module have theirs. `ImplementsAtomicPool`, which is
`Pool`'s `Spec`, says that what the chain keeps behaves as `Pool`.

**Time and prices** are the environment's: `Tick` advances the block time by a
chosen step, `PostPrice` replaces a quote by any price with any remaining
lifetime, older news included. `QuoteFeed` states this assumption apart from
the pool, and `PriceOracle` is shown to keep it.

**Arguments** come from the constant record `Inputs`; an empty set switches a
message off. All messages are in `Next` in every run, and the runs between them
take every action.

Definitions introduced by a comment that begins with *Slip* are plausible
mistakes: each replaces the definition after it in a mutation run and must be
caught by the property named with it in `PROJECT.json`.

## 3. Runs

| Run | Question | Properties |
|---|---|---|
| `book` | Do the books survive every order of lending, borrowing, forwarding and accrual, with amounts in hundreds, so that truncated fees reach whole coins, and does anything but truncation cost the pool? Two lenders. | `TypeOK AccrualIsFunded SolventUpToTruncation FeesNeverEatPrincipal ImplementsLendingBook` |
| `liquidation` | A price falls and recovers under two borrowers: partial and full seizures, write-offs, the deficit and what clears it. | `BooksAgree DebtIsAlwaysSecured LenderValueFallsOnlyByLoss ImplementsLendingBook` |
| `exits` | Permissionless liquidation with immediate haircuts, offers made, reduced, filled and left behind, feeds that go stale and die, while access, loss mode, listings, limits and operational state change: what may a stranger take, and does a way out remain? | `BorrowersCanLeave BadDebtCanBeCleared LossModeIsCoherent HealthyStaysHealthy SeizureHasCause OffersGrowOnlyByVersion StrangersRespectDeadQuotes MarginNeverSpent SeizureIsPaidFor` |
| `governance` | Ownership with deadlines, operational states, curves, attributes and commit flags in any order, while lenders come, go and pass units on. | `RateChangeIsNotRetroactive OperationalStateHolds FlaggedLendersDoNotTransfer OwnerIsReplacedByTheNamedHeir` |
| `token` | The token alone, with a hook that returns, moves units or fails, and a minter and pool that change. | `SupplyIsSumOfBalances UnitsMoveOnlyThroughThePool` |
| `messages` | Pool and token exchange messages, each of which may fail, while holders write to both directly and forge the hook. | `TotalsDifferByWhatIsInFlight EmittedMessagesAreAccepted ImplementsAtomicPool UnitsDoNotStayAtThePool` |
| `oracle` | Posts dated back, now, ahead and too far ahead, under display names and aliases, mappings chained and removed. | `ImplementsQuoteFeed OnlyNewerPricesLiveLonger SilenceGoesStale` |
| `queries` | Do the queries say what the handlers do, under quotes that go stale and indexes nobody has stored? | `QuotesAreLeast QuotesAreEnough StateShowsAllCollateral NoDearerThanShown PositionShownIsTheOneJudged` |
| `deployment` | Pools and tokens in either order, submessages that fail, rewiring under live balances. | `NoPoolIsLeftUnbound SupplyIsWhatThePoolsCounted` |
| `migration` | Old contracts with any combination of the fields migrate looks for, any release handed to any of them. | `MigratedPoolsHaveTheirRoles OwnerSurvivesMigration` |
| `implied_cash` | Does implied cash stay at or above 0, as the walkthrough says? It does not. | `ImpliedCashNonNegative` (violated) |
| `rounded_debt` | Is recorded debt never less than what was lent, as the comment says? It can be. | `BorrowIsCovered` (violated) |

Every property is commented where it is stated: `PoolProperties`, `PoolExits`,
`PoolQueries`, `PoolSolvency`, `PoolMessages`, `PriceOracle`, `RepoToken`, `Deployment`,
`Migration`. The central ones:

- **`MarginNeverSpent`.** The margin is coins + loans + booked deficit - lender
  claims - booked fees, in atomics. Within a block no message lowers it: every
  rounding falls on the actor, not on the pool. `Borrow` is the exception the
  code really has (second finding) and the property states its exact bound.
- **`AccrualIsFunded`.** Between blocks, crediting lenders and booking fees
  costs at most the truncation of the borrow side.
- **`SolventUpToTruncation`** joins the two over a whole history. `spent` adds up
  the bounds that they give, at each accrual that is stored and at each loan, and
  the margin, accrued to now, is never further below 0 than `spent` and the
  accrual in progress. No order of seizures, write-offs, haircuts, donations and
  fee withdrawals adds to it. In `book`, which checks it, the margin does fall
  below 0; seizures and losses, which `book` does not have, are checked one by one
  with `MarginNeverSpent` in `exits`, and the theorem is about all of them.
- **`SeizureHasCause`, `SeizureIsPaidFor`, `HealthyStaysHealthy`** are the
  borrowers' side: collateral leaves only from a liquidatable borrower or on a
  live offer, at a price within the band, and nobody is made unhealthy by
  somebody's message. `LenderValueFallsOnlyByLoss` is the lenders' side: their
  index falls with a write-off, or with a slice of the deficit that neither fees
  nor coins paid for, and never otherwise.
- **`StrangersRespectDeadQuotes`** relates a seizure to the quotes that were
  dropped: a stranger neither takes what has no quote nor relies on its absence.
- **`BorrowersCanLeave`, `BadDebtCanBeCleared`** are about guards as a whole:
  each `ensure!` is reasonable alone, and together they must leave an argument
  that passes. They say of every reachable state which message is enabled:
  payoff and full removal for a borrower, and for a bad debt the least payment
  that takes everything priced. The exceptions they name are the code's: a
  pool that is paused, a borrower who lost the required attribute or whose
  commit has no market, a dead lending feed, and a haircut that would take all
  the lenders have (`rates.rs` 418).
- **`ImplementsLendingBook`** is refinement: with `shares`, `debts` and
  `pledged` mapped to the token balances, the scaled debts and the collateral
  maps, every pool step is a step of `LendingBook` or a stutter. A message that
  changes two borrowers, or a lender and a borrower, has no abstract step.
- **`ImplementsAtomicPool`** is refinement the other way: the two contracts,
  message by message and with failures, implement the pool that all other runs
  use. `TotalsDifferByWhatIsInFlight` is what holds in between, where the
  pool's count and the token's supply differ, and `EmittedMessagesAreAccepted`
  says that a handler which accepts does not then fail by its own messages,
  except where the code relies on the token to refuse (a zero amount, or the
  pool as the recipient of a forward). A payment may fail at the bank in one
  more case: cash is computed from totals rounded down (`reserve_totals_and_cash_u128`),
  and is in the bank for certain only while the lenders' claims are covered
  (`ClaimsAreCovered`), which they are as long as booked fees exceed what
  truncation has cost.
- **`ImplementsQuoteFeed`, `OnlyNewerPricesLiveLonger`.** The oracle stores
  whatever it is handed, so an older price may replace a newer one; what keeps
  that harmless is that its life is counted from its own date.
- **`QuotesAreLeast`, `QuotesAreEnough`.** The quote of collateral inverts a
  valuation that truncates twice and is for a debt `Borrow` has yet to round:
  it is enough, and one unit less is not.
- **`NoDearerThanShown`.** The time since the last message is charged at a rate
  computed from the stored totals, and shown is one computed from the accrued
  totals. The charge is not the higher, for utilization does not fall while it
  accrues and the curve is monotone across its kink. At utilization 1 and without
  a fee both indexes grow by the same factor and truncation decides, so the
  property grants one atomic of the borrow index and one of the rate there.

### Bounds, and why they are enough

- `ONE = 100` in place of 10^18. Coarse decimals make truncation *more*
  frequent and larger, so every rounding case is met with small numbers; the
  properties that speak of rounding are stated in atomics, independent of ONE.
- `SECONDS_PER_YEAR = 3`, time up to 2 in the pool: one step is a third of a year or
  more, so that interest is visible at two decimals. Two successive accruals
  with different utilization, before and after a change, fit in every run.
- Amounts: one or two of each kind per message, chosen so that a partial and a
  full repayment, an uncovered and an exact payoff, a seizure inside and outside
  the band, and a lend that is not a multiple of the index all happen. `book`
  works in hundreds, so that fees and fractions of the indexes add up to whole
  coins, and truncation to more than the margin; `queries` moves utilization from one side of the kink to the other and has prices that do not divide evenly, gold of ten base units
  to a display unit and a haircut on both.
- Actors: two lenders where units pass between them (`book`, `governance`,
  `messages`), two borrowers where the loss or the row of one might reach the
  other (`liquidation`), two collaterals where one has a price and the other
  none (`exits`, `queries`), one otherwise.
  `Operators` holds the owner, the custodian and the liquidator, so that each
  role's messages are also tried by the other two; only `AcceptOwnership` is
  open to all accounts.
- `MaxCash`, `MaxScaled`, `MaxHeld`, `MaxVersion`, `MaxTime`; in `PoolSolvency` `MaxSpent`, more than any behaviour of `book` reaches; in `RepoToken`
  and `Deployment` `MaxSupply`, and in `Deployment` `MaxOutside`; in
  `PriceOracle` `LastPost`, after which no message comes, and `LongestThreshold`;
  in `Quoting` `MAX_AMOUNT`, the largest amount that can be represented. All
  but the last bound what would grow for ever. They appear as guards of the
  actions that add (`Lend`, `Repay`, `AddCollateral`, ...) and are the only
  guards that are not in the code; `PoolExits!within_bound` exempts from the
  promises a payoff that `MaxCash` would refuse, and the bound is large enough
  that payoffs fit.
- Symmetry over lenders and over borrowers is used in `book` and
  `liquidation`, whose initial states and properties single out none of those
  that are alike and who all have the attributes asked for; over pools, tokens
  and accounts in `deployment`.
- Deadlock checking is off where the model stops because time has reached its
  bound and the inputs are exhausted, as the contracts do when nobody calls
  them. It is on in `migration`.

### Fairness

Nobody is obliged to send a message: a dead position may stay, and no property
says that a liquidation, repayment or price update must come. What has to
happen eventually happens by the machinery underneath, and fairness is assumed
of that alone:

- `PoolMessages!Runtime` is weak fairness of `Deliver \/ Revert`: the wasm
  runtime executes a transaction to its end, by carrying out the next message
  or by taking everything back, for gas is finite. `UnitsDoNotStayAtThePool`
  uses it: every transaction ends, and no unit is left with the pool. Sending
  a message (`SubmitAny`) is not fair.
- `PriceOracle!OracleSpec` has weak fairness of `Tick`: blocks keep coming.
  Under it, and with posts ending at `LastPost`, `SilenceGoesStale`.

## 4. Proofs

The proofs hold for all sets of accounts and collaterals, all amounts, prices
and time steps, every accepted configuration and every precision ONE > 0. They
rest on the named assumptions of the modules (`OneAssumption`,
`AddressAssumption`, `InitialConfigAssumption`, `InputsAssumption`,
`ContractAssumption`, `BoundAssumption`, ...), which say that constants
have their types, that the instantiate message passed its own checks, that
`POOL` is not a user and the contracts are distinct. `FiniteAssumption` says
that there are finitely many accounts and denoms, without which the sums in the
books mean nothing. TLC evaluates all of them.

One hypothesis is stated in the theorems themselves: `LendingPricesCount`, that
no positive price posted for the lending denom is so low that one unit of debt
truncates to a value of zero. `DebtStaysSecured` and what rests on it need it,
because a debt worth nothing is Healthy whatever secures it and neither pool
nor oracle refuses such a price; `MCPool` checks that the runs satisfy it.

### The invariants

**`Spec => []Inv`** (`PoolProofs!InvIsInvariant`), with

```
Inv == TypeOK /\ valid_rate_params(contract.rate_params)
              /\ Sound(reserve) /\ SupplyAgrees
```

`TypeOK` alone is not inductive: that burning leaves a natural number in the
pool *and* in the token needs `SupplyAgrees`; that a conversion is a number
needs positive indexes (`Sound`: borrow index at least ONE, liquidity index
above 0); that accrual keeps them so needs the curve in force to be one the
validation accepts. There is a lemma per message.

**`Spec => []BooksInv`** (`BooksTheorems`), with
`BooksInv == Inv /\ SettingsOK /\ BooksAgree`: the sums in the books match and
the settings stay such as the configuration checks admit. The proof first
classifies every step as a *turn* (`BookStep`): units minted, burned or passed
on for one lender, or one borrower's row changed together with the totals, and
then shows once per kind of turn that the sums move along.

**`Spec => []SecuredInv`** adds `DebtIsAlwaysSecured` and that the lending price
in force counts; **`Spec => []QueryInv`** adds to `BooksInv` that whatever is
held is on the list (`HeldIsListed`), which is what the state query relies on.
`TokenInv` (the ledger and the copy kept for the hook are both counted),
`Wiring` and `CountedInv` (which pool and token name each other while a
submessage is unanswered), and `MessageInv` (below) play this part for the
other components.

### The modules

- `SumTheorems`: the sum over a finite set, which the community modules define
  by recursion over subsets, has a value; one changed term changes it by the
  difference; sums of naturals, zeros and ordered terms. There is no induction
  over an operator here: a family of subsets that violates a law has a least
  member (`LeastSubset`), and that leads to a contradiction.
- `PoolProofs` works from division upwards: truncation lemmas, the type and
  sign of the rates for both fee models, the growth factor, and from these that
  accrual keeps a reserve sound (`AccrualKeepsReserve`) and is monotone in time
  (`AccrualIsMonotone`), and that a haircut which does not fail keeps it sound
  (`HaircutKeepsReserve`) and lowers the lenders' index (`HaircutLowersTheIndex`).
  Then `Inv` message by message: `InvIsInvariant`, `TypeCorrect`.
- `PoolStepTheorems` first shows that every step either *accrues* (works on the
  accrued reserve at the present time) or *waits* (leaves the stored reserve and
  the curve), lemma `StepKind`, and derives from it `BorrowIndexIsMonotone`,
  `LenderValueIsKept`, `InterestIsChargedOnce`, `RateChangesLookForward`, `LossModeStaysCoherent`.
  `OwnershipIsHandedOver`, `OperationalStateIsKept` and `OffersAreNotReplayed`
  go message by message. The solvency theorems are here as well: `MarginIsKept`
  (within a block only `Borrow` lowers the margin, by no more than the property
  names; every other rounding goes to the pool),
  `FeesAreNotPrincipal`, and `AccrualPaysForItself` (between blocks).
- `BooksTheorems`: `BooksAlwaysAgree`, `DebtStaysSecured`,
  `PoolImplementsLendingBook` (the refinement of the abstract book: a turn is a
  step of the book, all else stutters), `FlaggedLendersStay`, and the three on
  seizures: `SeizuresHaveCause`, `SeizuresArePaidFor`, `StrangersKeepOff`. The
  last need that a partial payment leaves a debt behind, which is again a fact
  about truncation (`PartialPaymentLeavesDebt`).
- `QueryProofs`: `CheckedDivCeilIsCeil` (`checked_div_ceil` is the ceiling of the
  exact quotient, although it looks for a remainder with a product that itself
  truncates) and from it `QuoteIsLeast`; with `QueryInv`,
  `StateHidesNoCollateral`, `QuotesAreExact`, `QuotesSuffice`. `HealthIsKept`
  rests on monotonicity: a message by anybody leaves a borrower untouched, with
  less debt or more collateral, without debt, or accepted by a health check that
  was made at the state it leaves. `PositionIsTheOneJudged` shows that the
  position query and those checks agree. `BadDebtIsNotStuck` takes the checks of
  `liquidate` in order and shows that the least payment that buys all priced
  collateral passes each of them, and `NobodyIsLockedIn` does the same for `repay`
  with the payoff and `remove_collateral` with all that is held. `ChargesAreShown`
  needs that the curve is monotone (`CurveIsMonotone`, across the kink and up to
  the cap at the maximum), that the lenders' growth factor is the smaller below
  utilization 1 (`LendersEarnAShare`, `GrowthIsShared`), that the two truncated
  indexes then grow in step (`IndexesGrowTogether`), and, above 1, that utilization
  does not come down below it (`FullStaysFull`). `PoolStaysSolvent` has the
  invariant `SolvencyInv`: the margin of the *stored* reserve and `spent` together
  are not negative. The margin at the accrued indexes cannot take its place: it
  falls as time passes, without a step of the pool that could be charged for it.
  With `MarginIsKept`, `AccrualPaysForItself` and `StepKind` every step
  keeps it, and `FeesCoverTruncation` draws the conclusion for `ClaimsAreCovered`.
- `MessageProofs`: `MessagesImplementPool`, `TotalsAlwaysAccounted` and
  `EmittedMessagesAreTaken`. `MessageInv`
  says which message the transaction began with and how far it has come
  (`Submitted`, `Lending`, `Received`, `Withdrawing`, `Redeeming...`,
  `Forwarding...`): what is left in the queue, how `running` differs from what
  the chain keeps, and which guards have been passed. Each delivered message
  goes from a stage to the next; the last one completes a step of `Pool`, whose
  guards are those collected on the way. In every stage at most the first
  message queued mints or burns, and each stage says enough for the receiving
  contract to accept what comes next.
- `TokenMigrationProofs`: `SupplyIsAlwaysCounted`, `UnitsPassTheirPool` for the
  token, `RolesAreAlwaysHeld`, `MigrationKeepsTheOwner`, `MigrationsAreNotUndone`
  for migration.
- `DeploymentOracleProofs`: `PoolsAreBound`, `SupplyIsCounted` for deployment;
  `OracleKeepsTheBargain` (refinement of `QuoteFeed`) and `LateNewsIsNoNews` for
  the oracle.

`BorrowIndexNeverFalls`, `InterestNeedsTime` and `VersionsOnlyGrow` are proved and
not run. `InterestNeedsTime` (theorem `InterestIsChargedOnce`) says of all messages
what idempotence says of the accrual alone: as of the block time, which no
message moves, none makes an index or the booked fees grow, however many run in
the block and whatever curve they store.

### Model-checked only

- `UnitsDoNotStayAtThePool` and `SilenceGoesStale` are liveness under fairness, which
  the prover does not reach.
- The findings' properties, which do not hold.

## 5. Findings

Both are statements of the repository that are slightly stronger than the code;
neither shows a loss.

1. *Implied cash.* `CODEBASE_WALKTHROUGH.md:48` and
   `tests/reserve_invariant.rs:62-71` require
   `floor(L) + fees >= floor(B) + deficit`. Fees are floored to whole coins when
   they are booked while B keeps its fraction: lend 12, borrow 12, accrue to
   L = 12.48 and B = 13.08 with a fee below one coin, booked as 0. `MarginNeverSpent`
   and `AccrualIsFunded` are the statements that do hold, in atomics.
2. *Recorded debt.* The comment at `rates.rs:274-276` says that the scaled debt
   of a Borrow is worth at least the coins paid out. The quotient is truncated
   to 18 places before it is rounded up, so when it exceeds an integer by less
   than one atomic it is rounded down: 12 coins at index 1.09 record 11 units,
   worth 11.99.

A third difference is one of names, and no run is needed to see it.
`CODEBASE_WALKTHROUGH.md:184` and `:311`, `msg/execute.rs:166` and the handler's
own comment say that `UpdateRateParams` is for the contract owner only;
`update_rate_params.rs:25` asks for the custodian, and refuses an owner who is
not. The same holds of `UpdateSupportedCollateral` and the required attributes
of lenders and borrowers; `SetOperationalState` takes the custodian besides the
owner. The model follows the code.

## 6. What is not modelled, and why

- *Integer width.* Every arithmetic operation of the handlers is checked and an
  overflow reverts the message. Amounts near 2^128 are refused, not wrapped.
  (`Quoting` does have the largest amount, since a quote beyond it is answered
  as not satisfiable.)
- *Asset precision and aliases in the pool.* A quote is dollars per base unit;
  `UNIT` scales it per denom. The oracle's side of both, the mappings, is in
  `PriceOracle`.
- *`GetPrices` and the listing queries of the oracle and the token*, which no
  contract calls.
- *Attribute patterns, contents of commit messages, coin parsing.* An account
  has an attribute or not; a commit needs a market and coins of the account;
  malformed maps and duplicate coins are excluded by the types of the inputs.
  Matching a wildcard against a name is text processing on one string.
- *Borrower messages in pieces.* Only the messages that touch the token are
  taken apart in `PoolMessages`; the others emit one bank send or commit after
  the last write, and stay one step.
- *Expiry by block height* of ownership transfers: times only.
- *Docs, schema, examples, tests*: read with the code.

## 7. Plan

Done: all components of the inventory but the last row, their runs, and every
safety and action property of a passing run proved; the two liveness properties
are checked.

What would add most next: a run with `FlatBorrowSpread` from the start (the
proofs are for both fee models already), and attribute patterns
(`utils/validation.rs`) as an operator on sequences of labels.
