----------------------------- MODULE LenderOps -----------------------------
(***************************************************************************)
(* execute/lend.rs, withdraw.rs, transfer.rs, receive.rs: the lender side. *)
(* Withdrawals and transfers arrive as a CW20 Send: the token moves the    *)
(* units to the pool, the pool's Receive burns or forwards what it needs   *)
(* and sends the rest back, all in one transaction.                        *)
(***************************************************************************)
EXTENDS PoolState

CONSTANTS
    MaxScaled           \* bound on the scaled supply, for model checking

Lend(sender, amount) ==
    LET r      == accrued
        scaled == underlying_to_scaled_liquidity(amount, r.liquidity_index)
    IN  /\ Open
        /\ has_attrs(sender, contract.lender_required_attrs)
        /\ amount >= contract.min_lend
        /\ scaled > 0
        /\ r.total_scaled_liquidity + scaled <= MaxScaled
        /\ bank[LENDING] + amount <= MaxCash
        /\ reserve' = [r EXCEPT !.total_scaled_liquidity = @ + scaled]
        /\ token' = mint(token, sender, scaled)
        /\ bank' = [bank EXCEPT ![LENDING] = @ + amount]
        /\ UNCHANGED <<world_vars, config_vars, position_vars, sale_vars>>

-----------------------------------------------------------------------------
\* deduct_scaled_liquidity_and_save, and the underlying leaving the bank.
PayOutLiquidity(r, scaled, underlying) ==
    /\ r.total_scaled_liquidity >= scaled
    /\ can_send(underlying)
    /\ reserve' = [r EXCEPT !.total_scaled_liquidity = @ - scaled]
    /\ bank' = [bank EXCEPT ![LENDING] = @ - underlying]

\* execute_withdraw: the owner, on behalf of a lender; 0 asks for all of it.
\* The burned units, not the request, decide what is sent.
Withdraw(sender, lender, amount, commit) ==
    LET r       == accrued
        balance == token.balances[lender]
        supply  == scaled_to_underlying_liquidity(balance, r.liquidity_index)
        wanted  == IF amount = 0 THEN supply ELSE amount
        scaled  == IF amount = 0 THEN balance
                   ELSE underlying_to_scaled_liquidity(amount, r.liquidity_index)
    IN  /\ NotPaused
        /\ is_owner(sender)
        /\ balance > 0
        /\ wanted <= supply
        /\ wanted <= reserve_cash(r)
        /\ commit_possible(commit)
        /\ can_burn(token, lender, scaled)
        /\ token' = apply_burn(token, lender, scaled)
        /\ PayOutLiquidity(r, scaled, scaled_to_underlying_liquidity(scaled, r.liquidity_index))
        /\ UNCHANGED <<world_vars, config_vars, position_vars, sale_vars>>

\* The ledger after a Send of received units of which the pool burns some.
ledger_after_burn(sender, received, burned) ==
    LET at_pool == move(token, sender, POOL, received)
        left    == apply_burn(at_pool, POOL, burned)
    IN  IF received > burned THEN move(left, POOL, sender, received - burned) ELSE left

\* execute_withdraw_cw20, up to the units to burn.
WithdrawUnits(r, sender, received, scaled, commit) ==
    /\ NotPaused
    /\ can_move(token, sender, received)
    /\ sender \in lender_require_commit => commit
    /\ commit_possible(commit)
    /\ scaled > 0                       \* a zero Burn reverts
    /\ token' = ledger_after_burn(sender, received, scaled)
    /\ PayOutLiquidity(r, scaled, scaled_to_underlying_liquidity(scaled, r.liquidity_index))
    /\ UNCHANGED <<world_vars, config_vars, position_vars, sale_vars>>

\* WithdrawExact: every received unit is burned.
WithdrawExact(sender, received, commit) ==
    LET r == accrued
    IN  /\ scaled_to_underlying_liquidity(received, r.liquidity_index) <= reserve_cash(r)
        /\ WithdrawUnits(r, sender, received, received, commit)

\* Withdraw: as many units as the amount asks for; the excess is sent back.
WithdrawCw20(sender, received, amount, commit) ==
    LET r      == accrued
        scaled == underlying_to_scaled_liquidity(amount, r.liquidity_index)
    IN  /\ amount > 0
        /\ amount <= reserve_cash(r)
        /\ received >= scaled
        /\ WithdrawUnits(r, sender, received, scaled, commit)

-----------------------------------------------------------------------------

\* Slip: the sender's flag forgotten.
may_forward_flagged(sender, recipient) ==
    recipient # sender /\ has_attrs(recipient, contract.lender_required_attrs)

\* A flagged lender must withdraw; the recipient must be another, accredited account.
may_forward(sender, recipient) ==
    /\ sender \notin lender_require_commit
    /\ recipient # sender
    /\ has_attrs(recipient, contract.lender_required_attrs)

\* Slip: everything received is forwarded, and the excess returned as well.
ForwardUnitsTwice(sender, received, recipient, scaled) ==
    /\ NotPaused
    /\ can_move(token, sender, received)
    /\ may_forward(sender, recipient)
    /\ scaled > 0
    /\ LET forwarded == move(move(token, sender, POOL, received), POOL, recipient, received)
       IN  token' = move(forwarded, POOL, sender, received - scaled)
    /\ UNCHANGED <<world_vars, config_vars, reserve, bank, position_vars, sale_vars>>

\* execute_transfer_cw20: forwards units; the accrual it computes is not stored.
ForwardUnits(sender, received, recipient, scaled) ==
    /\ NotPaused
    /\ can_move(token, sender, received)
    /\ may_forward(sender, recipient)
    /\ scaled > 0                       \* a zero Transfer reverts
    /\ LET at_pool   == move(token, sender, POOL, received)
           forwarded == move(at_pool, POOL, recipient, scaled)
       IN  token' = IF received > scaled
                    THEN move(forwarded, POOL, sender, received - scaled)
                    ELSE forwarded
    /\ UNCHANGED <<world_vars, config_vars, reserve, bank, position_vars, sale_vars>>

TransferExact(sender, received, recipient) ==
    ForwardUnits(sender, received, recipient, received)

TransferCw20(sender, received, recipient, amount) ==
    LET scaled == underlying_to_scaled_liquidity(amount, accrued.liquidity_index)
    IN  /\ amount > 0
        /\ received >= scaled
        /\ ForwardUnits(sender, received, recipient, scaled)
=============================================================================
