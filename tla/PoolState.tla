----------------------------- MODULE PoolState -----------------------------
(***************************************************************************)
(* The storage of contracts/pool_v2 and what its handlers read around it:  *)
(* the block time, the coins the bank module holds for the contract, the   *)
(* repo token and the quotes of the price oracle.                          *)
(*                                                                         *)
(* One message is one transaction: the handler, the token and bank         *)
(* messages it emits and the Receive hook of the token run to the end or   *)
(* revert together, so each is one action.  Optional storage rows are      *)
(* total functions with 0 for an absent row.                               *)
(***************************************************************************)
EXTENDS DirectedSale, RepoTokenLedger, Ownership

CONSTANTS
    Lenders,            \* accounts that may lend or receive repo tokens
    Borrowers,          \* accounts that may hold collateral and debt
    Operators,          \* accounts that hold a role, or try to
    POOL,               \* the contract's own address
    AttributesOf,       \* AttributesOf[account]: its attributes on chain
    InitialOwner,
    InitialConfig,      \* the contract state the instantiate message asks for
    InitialQuotes,
    InitialTime,
    MaxCash             \* bound on the lending coins of the contract, for model checking

Accounts == Lenders \cup Borrowers \cup Operators

Active == "Active"
Frozen == "Frozen"
Paused == "Paused"

LiquidatorOnly == "LiquidatorOnly"
Permissionless == "Permissionless"

DeferredToDeficit             == "DeferredToDeficit"
ImmediateLiquidityIndexHaircut == "ImmediateLiquidityIndexHaircut"

\* ContractStateV1.  supported is its list of collateral assets, by haircut.
Config ==
    [ operational_state : {Active, Frozen, Paused},
      rate_params       : RateParams,
      supported         : [Collaterals -> Atomics],
      margin_rate       : Atomics,
      liquidation_rate  : Atomics,
      liquidation_bonus_rate : Atomics,
      min_lend   : Amount,
      min_borrow : Amount,
      max_borrower_collateral_types     : Nat,
      max_liquidation_staleness_seconds : Nat,
      commit_market_configured : BOOLEAN,
      bad_debt_loss_allocation : {DeferredToDeficit, ImmediateLiquidityIndexHaircut},
      liquidation_access       : {LiquidatorOnly, Permissionless},
      custodian  : Accounts \cup {NO_ONE},
      liquidator : Accounts \cup {NO_ONE},
      lender_required_attrs   : SUBSET STRING,
      borrower_required_attrs : SUBSET STRING ]

VARIABLES
    now,                    \* block time, in seconds
    quotes,                 \* what the price oracle has stored
    contract,               \* ContractStateV1
    ownership,              \* cw_ownable
    lender_require_commit,  \* lenders with require_commit_on_exit set
    borrower_require_commit,
    reserve,                \* ReserveStateV1
    token,                  \* the repo token's ledger
    bank,                   \* coins of the contract, by denom
    scaled_borrow,          \* scaled debt, by borrower
    borrower_collateral,    \* collateral map, by borrower
    total_collateral,       \* collateral of all borrowers, by denom
    directed_sale,          \* outstanding offer, by borrower
    directed_sale_version   \* last version used, by borrower

world_vars    == <<now, quotes>>
config_vars   == <<contract, ownership, lender_require_commit, borrower_require_commit>>
sale_vars     == <<directed_sale, directed_sale_version>>
position_vars == <<scaled_borrow, borrower_collateral, total_collateral>>
vars == <<now, quotes, contract, ownership, lender_require_commit,
          borrower_require_commit, reserve, token, bank, scaled_borrow,
          borrower_collateral, total_collateral, directed_sale,
          directed_sale_version>>

-----------------------------------------------------------------------------
\* Bounds and presets of the constants that the environment hands out.
CONSTANTS
    MAX_ALLOWED_LIQUIDATION_STALENESS,
    MAX_PERMISSIONLESS_LIQUIDATION_STALENESS

\* ensure_permissionless_config.
permissionless_config_ok(c, deficit) ==
    c.liquidation_access = Permissionless =>
        /\ c.max_liquidation_staleness_seconds <= MAX_PERMISSIONLESS_LIQUIDATION_STALENESS
        /\ c.bad_debt_loss_allocation = ImmediateLiquidityIndexHaircut
        /\ deficit = 0

\* The checks every configuration passes, at instantiation and after an update.
valid_config(c, deficit) ==
    /\ c.margin_rate > 0
    /\ c.liquidation_rate <= ONE
    /\ c.margin_rate < c.liquidation_rate
    /\ c.liquidation_bonus_rate > ONE
    /\ checked_mul(c.liquidation_bonus_rate, c.margin_rate) < ONE
    /\ c.max_liquidation_staleness_seconds <= MAX_ALLOWED_LIQUIDATION_STALENESS
    /\ permissionless_config_ok(c, deficit)

ASSUME AddressAssumption ==
    /\ POOL \notin Accounts
    /\ NO_ONE \notin Accounts
    /\ InitialOwner \in Accounts
    /\ AttributesOf \in [Accounts \cup {POOL} -> SUBSET STRING]

\* The accounts that ever send a message and the denoms are finitely many.
ASSUME FiniteAssumption ==
    /\ IsFiniteSet(Lenders) /\ IsFiniteSet(Borrowers) /\ IsFiniteSet(Operators)
    /\ IsFiniteSet(Collaterals)

\* The bound of the model is a number, as large as one likes.
ASSUME BoundAssumption == MaxCash \in Nat

ASSUME InitialConfigAssumption ==
    /\ InitialConfig \in Config
    /\ valid_config(InitialConfig, 0)
    /\ valid_rate_params(InitialConfig.rate_params)
    /\ InitialConfig.operational_state = Active
    /\ InitialConfig.min_lend > 0 /\ InitialConfig.min_borrow > 0
    /\ InitialQuotes \in [Denoms -> Quotes]
    /\ InitialTime \in Nat

\* instantiate_contract and its reply: both indexes 1, empty books.
Init ==
    /\ now = InitialTime
    /\ quotes = InitialQuotes
    /\ contract = InitialConfig
    /\ ownership = initialize_owner(InitialOwner)
    /\ lender_require_commit = {}
    /\ borrower_require_commit = {}
    /\ reserve = [ liquidity_index |-> ONE, borrow_index |-> ONE,
                   last_updated_at |-> InitialTime,
                   total_scaled_liquidity |-> 0, total_scaled_borrow |-> 0,
                   accrued_reserve |-> 0, deficit_underlying |-> 0 ]
    /\ token = [ balances |-> [a \in Accounts \cup {POOL} |-> 0], total_supply |-> 0 ]
    /\ bank = [d \in Denoms |-> 0]
    /\ scaled_borrow = [b \in Borrowers |-> 0]
    /\ borrower_collateral = [b \in Borrowers |-> NoCollateral]
    /\ total_collateral = NoCollateral
    /\ directed_sale = [b \in Borrowers |-> NoOffer]
    /\ directed_sale_version = [b \in Borrowers |-> 0]

-----------------------------------------------------------------------------
\* update_reserve_indexes: the reserve, accrued to the block time.
accrued == compute_effective_reserve(reserve, now, contract.rate_params)

\* Slip: the two gates swapped.
NotFrozen == contract.operational_state # Frozen

\* execute: a paused contract lets only configuration messages through, a
\* frozen one everything but Lend and Borrow.
NotPaused == contract.operational_state # Paused
Open      == contract.operational_state = Active

is_owner(sender)         == assert_owner(ownership, sender)
assert_custodian(sender) == sender = contract.custodian
assert_liquidator(sender) == sender = contract.liquidator
assert_owner_or_custodian(sender) == is_owner(sender) \/ assert_custodian(sender)

\* validate_lender_attrs, validate_borrower_attrs: all required, or none asked.
has_attrs(account, required) == required \subseteq AttributesOf[account]

\* new_commit_message fails unless a commit market is configured.
commit_possible(commit) == commit => contract.commit_market_configured

\* BankMsg::Send of the lending denom fails on zero and on a short balance.
can_send(amount) == amount > 0 /\ bank[LENDING] >= amount
=============================================================================
