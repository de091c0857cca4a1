--------------------------- MODULE GovernanceOps ---------------------------
(***************************************************************************)
(* The configuration messages: update_contract_config,                     *)
(* update_supported_collateral, set_operational_state, the required        *)
(* attributes, the require-commit flags and the ownership transfer.  None  *)
(* of them accrues, and a paused contract takes them all.                  *)
(***************************************************************************)
EXTENDS PoolState

\* What every configuration message leaves alone.
BooksUnchanged == UNCHANGED <<world_vars, reserve, token, bank, position_vars, sale_vars>>

ChangeContract(c) ==
    /\ contract' = c
    /\ UNCHANGED <<ownership, lender_require_commit, borrower_require_commit>>
    /\ BooksUnchanged

\* An update is a record of the fields the message gives.
given(update, field, old) == IF field \in DOMAIN update THEN update[field] ELSE old

updated_config(c, u) ==
    [c EXCEPT
        !.margin_rate            = given(u, "margin_rate", @),
        !.liquidation_rate       = given(u, "liquidation_rate", @),
        !.liquidation_bonus_rate = given(u, "liquidation_bonus_rate", @),
        !.min_lend               = given(u, "min_lend", @),
        !.min_borrow             = given(u, "min_borrow", @),
        !.max_borrower_collateral_types = given(u, "max_borrower_collateral_types", @),
        !.commit_market_configured      = given(u, "commit_market_configured", @),
        !.bad_debt_loss_allocation      = given(u, "bad_debt_loss_allocation", @),
        !.custodian              = given(u, "custodian", @),
        !.liquidator             = given(u, "liquidator", @),
        !.max_liquidation_staleness_seconds =
            given(u, "max_liquidation_staleness_seconds", @),
        !.liquidation_access     = given(u, "liquidation_access", @)]

\* Slip: no check of the deficit.
allocation_always_changes(c) == TRUE

\* The loss allocation changes only while there is no deficit.
allocation_may_change(c) ==
    c.bad_debt_loss_allocation # contract.bad_debt_loss_allocation
        => reserve.deficit_underlying = 0

\* update_contract_config.  A commit market can be set but not unset, and
\* the liquidation rate only rises.  The address of the oracle is left out:
\* the model has one oracle.
UpdateContractConfig(sender, update) ==
    LET c == updated_config(contract, update)
    IN  /\ assert_custodian(sender)
        /\ DOMAIN update # {}
        /\ c.liquidation_rate >= contract.liquidation_rate
        /\ c.min_lend > 0 /\ c.min_borrow > 0
        /\ c.max_borrower_collateral_types > 0
        /\ contract.commit_market_configured => c.commit_market_configured
        /\ allocation_may_change(c)
        /\ valid_config(c, reserve.deficit_underlying)
        /\ ChangeContract(c)

\* Slip: only collateral behind a debt counts.
is_collateral_asset_owed(a) == total_collateral[a] > 0 /\ reserve.total_scaled_borrow > 0

\* is_collateral_asset_in_use: some borrower holds it.
is_collateral_asset_in_use(a) == total_collateral[a] > 0

\* update_supported_collateral: haircuts to set, then assets to drop.  An
\* asset some borrower holds cannot be dropped.
UpdateSupportedCollateral(sender, to_update, to_remove) ==
    LET supported == [a \in Collaterals |->
                         IF a \in DOMAIN to_update THEN to_update[a] ELSE contract.supported[a]]
        dropped   == {a \in to_remove : supported[a] > 0}
    IN  /\ assert_custodian(sender)
        /\ DOMAIN to_update \cap to_remove = {}
        /\ \A a \in DOMAIN to_update : 0 < to_update[a] /\ to_update[a] <= ONE
        /\ \A a \in dropped : ~is_collateral_asset_in_use(a)
        /\ ChangeContract([contract EXCEPT !.supported =
               [a \in Collaterals |-> IF a \in dropped THEN 0 ELSE supported[a]]])

SetOperationalState(sender, state) ==
    /\ assert_owner_or_custodian(sender)
    /\ ChangeContract([contract EXCEPT !.operational_state = state])

SetLenderRequiredAttrs(sender, attrs) ==
    /\ assert_custodian(sender)
    /\ ChangeContract([contract EXCEPT !.lender_required_attrs = attrs])

SetBorrowerRequiredAttrs(sender, attrs) ==
    /\ assert_custodian(sender)
    /\ ChangeContract([contract EXCEPT !.borrower_required_attrs = attrs])

-----------------------------------------------------------------------------
\* A require-commit flag can be raised only with a commit market to use.
SetLenderRequireCommitOnExit(sender, account, require) ==
    /\ is_owner(sender)
    /\ commit_possible(require)
    /\ lender_require_commit' =
           IF require THEN lender_require_commit \cup {account}
           ELSE lender_require_commit \ {account}
    /\ UNCHANGED <<contract, ownership, borrower_require_commit>>
    /\ BooksUnchanged

SetBorrowerRequireCommit(sender, account, require) ==
    /\ is_owner(sender)
    /\ commit_possible(require)
    /\ borrower_require_commit' =
           IF require THEN borrower_require_commit \cup {account}
           ELSE borrower_require_commit \ {account}
    /\ UNCHANGED <<contract, ownership, lender_require_commit>>
    /\ BooksUnchanged

ChangeOwnership(o) ==
    /\ ownership' = o
    /\ UNCHANGED <<contract, lender_require_commit, borrower_require_commit>>
    /\ BooksUnchanged

\* Slip: the heir owns the pool without having accepted.
TransferOwnershipAtOnce(sender, new_owner, expiry) ==
    /\ can_transfer_ownership(ownership, sender, expiry, now)
    /\ ChangeOwnership(initialize_owner(new_owner))

TransferOwnership(sender, new_owner, expiry) ==
    /\ can_transfer_ownership(ownership, sender, expiry, now)
    /\ ChangeOwnership(transfer_ownership(ownership, new_owner, expiry))

AcceptOwnership(sender) ==
    /\ can_accept_ownership(ownership, sender, now)
    /\ ChangeOwnership(accept_ownership(ownership))
=============================================================================
