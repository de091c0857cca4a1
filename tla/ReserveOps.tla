----------------------------- MODULE ReserveOps -----------------------------
(***************************************************************************)
(* execute/eliminate_deficit.rs, socialize_deficit.rs, withdraw_reserve.rs *)
(* and update_rate_params.rs: what the owner and the custodian do with the *)
(* reserve, plus coins anybody may send to the contract's address.         *)
(***************************************************************************)
EXTENDS PoolState

\* eliminate_deficit, AccruedReserve: fees already earned cover the loss.
EliminateDeficitFromReserve(sender, max) ==
    LET r     == accrued
        clear == lesser(lesser(r.deficit_underlying, max), r.accrued_reserve)
    IN  /\ NotPaused
        /\ is_owner(sender)
        /\ clear > 0
        /\ reserve' = [r EXCEPT !.deficit_underlying = @ - clear,
                                !.accrued_reserve = @ - clear]
        /\ UNCHANGED <<world_vars, config_vars, token, bank, position_vars, sale_vars>>

\* eliminate_deficit, Bank: anyone pays it in; the excess is sent back.
EliminateDeficitFromBank(sender, max, received) ==
    LET r       == accrued
        applied == lesser(lesser(r.deficit_underlying, max), received)
    IN  /\ NotPaused
        /\ applied > 0
        /\ bank[LENDING] + applied <= MaxCash
        /\ reserve' = [r EXCEPT !.deficit_underlying = @ - applied]
        /\ bank' = [bank EXCEPT ![LENDING] = @ + applied]
        /\ UNCHANGED <<world_vars, config_vars, token, position_vars, sale_vars>>

\* socialize_deficit: the lenders absorb a slice of the deficit.
SocializeDeficit(sender, max_amount) ==
    LET r      == accrued
        amount == lesser(max_amount, r.deficit_underlying)
    IN  /\ NotPaused
        /\ is_owner(sender)
        /\ amount > 0
        /\ ~haircut_fails(r, amount)
        /\ reserve' = [apply_pro_rata_liquidity_index_haircut(r, amount)
                          EXCEPT !.deficit_underlying = @ - amount]
        /\ UNCHANGED <<world_vars, config_vars, token, bank, position_vars, sale_vars>>

\* Slip: fees paid whether or not they are backed.
WithdrawReserveUnbacked(sender) ==
    LET r   == accrued
        pay == lesser(r.accrued_reserve, bank[LENDING])
    IN  /\ NotPaused
        /\ is_owner(sender)
        /\ r.deficit_underlying = 0
        /\ r.accrued_reserve > 0
        /\ can_send(pay)
        /\ reserve' = [r EXCEPT !.accrued_reserve = @ - pay]
        /\ bank' = [bank EXCEPT ![LENDING] = @ - pay]
        /\ UNCHANGED <<world_vars, config_vars, token, position_vars, sale_vars>>

\* withdraw_reserve: fees leave only as far as bank + B - L backs them; what
\* it does not back is written off, what the bank cannot pay yet stays booked.
WithdrawReserve(sender) ==
    LET r      == accrued
        free   == saturating_sub(bank[LENDING] + borrow_u128(r), liquidity_u128(r))
        backed == lesser(r.accrued_reserve, free)
        pay    == lesser(backed, bank[LENDING])
    IN  /\ NotPaused
        /\ is_owner(sender)
        /\ r.deficit_underlying = 0
        /\ r.accrued_reserve > 0
        /\ can_send(pay)
        /\ reserve' = [r EXCEPT !.accrued_reserve = backed - pay]
        /\ bank' = [bank EXCEPT ![LENDING] = @ - pay]
        /\ UNCHANGED <<world_vars, config_vars, token, position_vars, sale_vars>>

\* Slip: the new curve without accruing with the old one.
UpdateRateParamsUnaccrued(sender, rate_params) ==
    /\ assert_custodian(sender)
    /\ valid_rate_params(rate_params)
    /\ contract' = [contract EXCEPT !.rate_params = rate_params]
    /\ UNCHANGED <<world_vars, ownership, lender_require_commit, reserve,
                   borrower_require_commit, token, bank, position_vars, sale_vars>>

\* update_rate_params: accrue to now with the old curve, then replace it.
\* It is a configuration message, so a paused contract takes it too.
UpdateRateParams(sender, rate_params) ==
    /\ assert_custodian(sender)
    /\ valid_rate_params(rate_params)
    /\ reserve' = accrued
    /\ contract' = [contract EXCEPT !.rate_params = rate_params]
    /\ UNCHANGED <<world_vars, ownership, lender_require_commit,
                   borrower_require_commit, token, bank, position_vars, sale_vars>>

\* A bank send to the contract's address: no handler runs.
Donate(amount) ==
    /\ amount > 0
    /\ bank[LENDING] + amount <= MaxCash
    /\ bank' = [bank EXCEPT ![LENDING] = @ + amount]
    /\ UNCHANGED <<world_vars, config_vars, reserve, token, position_vars, sale_vars>>
=============================================================================
