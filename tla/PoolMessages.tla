---------------------------- MODULE PoolMessages ----------------------------
(***************************************************************************)
(* The pool and its repo token as the two contracts they are.  A handler   *)
(* writes its storage and returns messages; the runtime executes those     *)
(* depth first, in order, before anything else of the block, and takes the *)
(* whole transaction back when one fails or the gas runs out.              *)
(*                                                                         *)
(* running is what the transaction in progress sees, pending what it has   *)
(* still to execute; reserve, token and bank are what the chain keeps,     *)
(* written when a transaction completes.  The messages of the lender side  *)
(* are taken apart here; all others emit nothing to the token and stay one *)
(* step, as in Pool, between two transactions.                             *)
(***************************************************************************)
EXTENDS PoolProperties, Sequences

CONSTANTS
    TOKEN, BANK, EXCHANGE   \* the repo token, the bank and the exchange module

ASSUME ContractAssumption ==
    /\ TOKEN \notin {POOL, BANK, EXCHANGE}
    /\ BANK \notin {POOL, EXCHANGE}
    /\ EXCHANGE # POOL
    /\ Accounts \cap {TOKEN, BANK, EXCHANGE} = {}

VARIABLES
    pending,    \* messages still to execute, the next one first
    running     \* the books as the transaction in progress has them

message_vars == <<vars, pending, running>>

Books == [reserve |-> reserve, token |-> token, bank |-> bank]

\* update_reserve_indexes, in a handler of the transaction in progress.
running_accrued ==
    compute_effective_reserve(running.reserve, now, contract.rate_params)

-----------------------------------------------------------------------------
\* A message: who sends it to which contract, what for, about whom, how much.
Msg(from, to, kind, account, amount) ==
    [from |-> from, to |-> to, kind |-> kind, account |-> account, amount |-> amount,
     owner |-> NO_ONE, payload |-> "None", asked |-> 0, commit |-> FALSE]

\* The units of a holder, and what is to be done with them.
PayloadMsg(from, to, kind, owner, units, p) ==
    [ from |-> from, to |-> to, kind |-> kind, account |-> p.account, amount |-> units,
      owner |-> owner, payload |-> p.payload, asked |-> p.asked, commit |-> p.commit ]

Burn(amount) == Msg(POOL, TOKEN, "Burn", POOL, amount)

\* Slip: the pool burns units of its own for the lender it pays.
BurnForOwner(owner, amount) == Burn(amount)

BurnFrom(owner, amount) == Msg(POOL, TOKEN, "BurnFrom", owner, amount)

Mint(recipient, amount) == Msg(POOL, TOKEN, "Mint", recipient, amount)
TransferTo(recipient, amount) == Msg(POOL, TOKEN, "Transfer", recipient, amount)
bank_send_underlying(to, amount)  == Msg(POOL, BANK, "Send", to, amount)
new_commit_message(account, amount) == Msg(POOL, EXCHANGE, "Commit", account, amount)

-----------------------------------------------------------------------------
msg == Head(pending)

\* The next message has this destination and kind.
Running(to, kind) == pending # <<>> /\ msg.to = to /\ msg.kind = kind

Emit(messages) == pending' = messages \o Tail(pending)

\* Slip: the remainder of what was sent is not returned.
NoRefund(left, sender) == <<>>

Refund(left, sender) == IF left > 0 THEN <<TransferTo(sender, left)>> ELSE <<>>

CommitFunds(commit, account, amount) ==
    IF commit THEN <<new_commit_message(account, amount)>> ELSE <<>>

\* lend (lend.rs): the coins are credited before the handler runs, the units minted after.
ExecuteLend ==
    LET r      == running_accrued
        scaled == underlying_to_scaled_liquidity(msg.amount, r.liquidity_index)
    IN  /\ Running(POOL, "Lend")
        /\ Open
        /\ has_attrs(msg.from, contract.lender_required_attrs)
        /\ msg.amount >= contract.min_lend
        /\ scaled > 0
        /\ r.total_scaled_liquidity + scaled <= MaxScaled
        /\ running.bank[LENDING] + msg.amount <= MaxCash
        /\ running' = [running EXCEPT
              !.reserve = [r EXCEPT !.total_scaled_liquidity = @ + scaled],
              !.bank[LENDING] = @ + msg.amount]
        /\ Emit(<<Mint(msg.from, scaled)>>)

\* deduct_scaled_liquidity_and_save, then the messages of a withdrawal.
EmitWithdrawal(r, scaled, burn, lender, left) ==
    LET underlying == scaled_to_underlying_liquidity(scaled, r.liquidity_index)
    IN  /\ commit_possible(msg.commit)
        /\ r.total_scaled_liquidity >= scaled
        /\ running' = [running EXCEPT
              !.reserve = [r EXCEPT !.total_scaled_liquidity = @ - scaled]]
        /\ Emit(<<burn>> \o (<<bank_send_underlying(lender, underlying)>>
                  \o (CommitFunds(msg.commit, lender, underlying)
                  \o Refund(left, lender))))

\* execute_withdraw: the balance is a query of the token, answered as of now.
ExecuteWithdraw ==
    LET r       == running_accrued
        balance == running.token.balances[msg.account]
        supply  == scaled_to_underlying_liquidity(balance, r.liquidity_index)
        wanted  == IF msg.amount = 0 THEN supply ELSE msg.amount
        scaled  == IF msg.amount = 0 THEN balance
                   ELSE underlying_to_scaled_liquidity(msg.amount, r.liquidity_index)
    IN  /\ Running(POOL, "Withdraw")
        /\ NotPaused
        /\ is_owner(msg.from)
        /\ balance > 0
        /\ wanted <= supply
        /\ wanted <= reserve_cash(r)
        /\ EmitWithdrawal(r, scaled, BurnFrom(msg.account, scaled), msg.account, 0)

\* receive: only the repo token may call; owner is the holder who sent the units.
Receive(payloads) ==
    /\ Running(POOL, "Receive") /\ msg.payload \in payloads
    /\ msg.from = TOKEN
    /\ NotPaused
    /\ msg.amount > 0

\* execute_withdraw_cw20.
ReceiveWithdraw ==
    LET r     == running_accrued
        exact == msg.payload = "WithdrawExact"
        units == IF exact THEN msg.amount
                 ELSE underlying_to_scaled_liquidity(msg.asked, r.liquidity_index)
        asked == IF exact THEN scaled_to_underlying_liquidity(msg.amount, r.liquidity_index)
                 ELSE msg.asked
    IN  /\ Receive({"Withdraw", "WithdrawExact"})
        /\ msg.owner \in lender_require_commit => msg.commit
        /\ ~exact => msg.asked > 0
        /\ asked <= reserve_cash(r)
        /\ msg.amount >= units
        /\ EmitWithdrawal(r, units, Burn(units), msg.owner, msg.amount - units)

\* execute_transfer_cw20.
ReceiveTransfer ==
    LET exact == msg.payload = "TransferExact"
        units == IF exact THEN msg.amount
                 ELSE underlying_to_scaled_liquidity(msg.asked, running_accrued.liquidity_index)
    IN  /\ Receive({"Transfer", "TransferExact"})
        /\ may_forward(msg.owner, msg.account)
        /\ ~exact => msg.asked > 0
        /\ msg.amount >= units
        /\ Emit(<<TransferTo(msg.account, units)>> \o Refund(msg.amount - units, msg.owner))
        /\ UNCHANGED running

-----------------------------------------------------------------------------
\* The token, wired to this pool as its minter and its only contract.
\* Slip: anybody may mint.
only_minter_unchecked(from) == TRUE

only_minter(from) == from = POOL

can_mint ==
    /\ Running(TOKEN, "Mint")
    /\ only_minter(msg.from)
    /\ msg.amount > 0

MintUnits ==
    /\ can_mint
    /\ running' = [running EXCEPT !.token = mint(@, msg.account, msg.amount)]
    /\ Emit(<<>>)

\* Burn names the sender itself as the holder, BurnFrom any other.
can_burn_units ==
    /\ Running(TOKEN, "Burn") \/ Running(TOKEN, "BurnFrom")
    /\ only_minter(msg.from)
    /\ can_burn(running.token, msg.account, msg.amount)

BurnUnits ==
    /\ can_burn_units
    /\ running' = [running EXCEPT !.token = apply_burn(@, msg.account, msg.amount)]
    /\ Emit(<<>>)

\* Slip: holders may transfer, to the pool as well.
transfer_by_anyone(from, recipient) == TRUE

ensure_transfer_allowed(from, recipient) == from = POOL /\ recipient # POOL

can_transfer ==
    /\ Running(TOKEN, "Transfer")
    /\ ensure_transfer_allowed(msg.from, msg.account)
    /\ can_move(running.token, msg.from, msg.amount)

TransferUnits ==
    /\ can_transfer
    /\ running' = [running EXCEPT !.token = move(@, msg.from, msg.account, msg.amount)]
    /\ Emit(<<>>)

\* A Send to the pool (any other contract is refused) and its Receive hook.
SendUnits ==
    /\ Running(TOKEN, "Send")
    /\ can_move(running.token, msg.from, msg.amount)
    /\ running' = [running EXCEPT !.token = move(@, msg.from, POOL, msg.amount)]
    /\ Emit(<<PayloadMsg(TOKEN, POOL, "Receive", msg.from, msg.amount, msg)>>)

can_send_coins ==
    /\ Running(BANK, "Send")
    /\ msg.amount > 0
    /\ running.bank[LENDING] >= msg.amount

SendCoins ==
    /\ can_send_coins
    /\ running' = [running EXCEPT !.bank[LENDING] = @ - msg.amount]
    /\ Emit(<<>>)

\* The exchange module commits coins of the account, which are not the pool's.
CommitCoins ==
    /\ Running(EXCHANGE, "Commit")
    /\ Emit(<<>>)
    /\ UNCHANGED running

Handle == ExecuteLend \/ ExecuteWithdraw \/ ReceiveWithdraw \/ ReceiveTransfer
             \/ MintUnits \/ BurnUnits \/ TransferUnits \/ SendUnits
             \/ SendCoins \/ CommitCoins

-----------------------------------------------------------------------------
LendMsg(l, x) == Msg(l, POOL, "Lend", l, x)
WithdrawMsg(s, l, x, c) == [Msg(s, POOL, "Withdraw", l, x) EXCEPT !.commit = c]

\* Cw20ReceivePayload; a transfer names its recipient in account.
Cw20ReceivePayload ==
    LET payload(name, account, asked, commit) ==
            [payload |-> name, account |-> account, asked |-> asked, commit |-> commit]
        recipients == Inputs.recipients \cup {POOL}
    IN  {payload("Withdraw", NO_ONE, x, c) : x \in Inputs.requests, c \in Inputs.commits}
          \cup {payload("WithdrawExact", NO_ONE, 0, c) : c \in Inputs.commits}
          \cup {payload("Transfer", a, x, FALSE) : a \in recipients, x \in Inputs.requests}
          \cup {payload("TransferExact", a, 0, FALSE) : a \in recipients}

\* Units sent to the pool with a payload, and a call of its hook without units.
SendMsg(l, u, p)       == PayloadMsg(l, TOKEN, "Send", l, u, p)
ForgedReceive(l, u, p) == PayloadMsg(l, POOL, "Receive", l, u, p)

Submit(message) ==
    /\ pending = <<>>
    /\ pending' = <<message>>
    /\ UNCHANGED <<vars, running>>

\* Accounts write to the pool, and to the token, which refuses them all but the
\* Send; some forge a Receive, which the pool refuses.
SubmitAny ==
    \/ \E l \in Lenders, x \in Inputs.lends : Submit(LendMsg(l, x))
    \/ \E s \in Operators, l \in Lenders, x \in Inputs.redemptions, c \in Inputs.commits :
          Submit(WithdrawMsg(s, l, x, c))
    \/ \E l \in Lenders, u \in Inputs.units, p \in Cw20ReceivePayload :
          Submit(SendMsg(l, u, p)) \/ Submit(ForgedReceive(l, u, p))
    \/ \E s \in Lenders, a \in Lenders \cup {POOL}, u \in Inputs.units,
          kind \in {"Mint", "Burn", "BurnFrom", "Transfer"} : Submit(Msg(s, TOKEN, kind, a, u))

\* The next message runs; the last one completes the transaction, and the
\* chain keeps what it did.
Deliver ==
    /\ Handle
    /\ reserve' = IF pending' = <<>> THEN running'.reserve ELSE reserve
    /\ token' = IF pending' = <<>> THEN running'.token ELSE token
    /\ bank' = IF pending' = <<>> THEN running'.bank ELSE bank
    /\ UNCHANGED <<world_vars, config_vars, position_vars, sale_vars>>

\* A message is refused, or the gas runs out: everything is taken back.
Revert ==
    /\ pending # <<>>
    /\ pending' = <<>>
    /\ running' = Books
    /\ UNCHANGED vars

\* Every other message of the pool, and time, between transactions.
Otherwise ==
    /\ pending = <<>>
    /\ BorrowerStep \/ LiquidationStep \/ ReserveStep \/ GovernanceStep \/ WorldStep
    /\ running' = Books'
    /\ UNCHANGED pending

MessageInit == Init /\ pending = <<>> /\ running = Books

MessageNext == SubmitAny \/ Deliver \/ Revert \/ Otherwise

\* The runtime executes a transaction to its end; nobody has to send one.
Runtime == WF_message_vars(Deliver \/ Revert)

MessageSpec == MessageInit /\ [][MessageNext]_message_vars /\ Runtime

-----------------------------------------------------------------------------
\* What the chain keeps is a behaviour of Pool, in which each message is one
\* step: no order of the messages a handler emits, no failure among them and
\* no message sent past the pool leaves a state Pool does not allow.  Pool has
\* neither pending nor running; for it they are how a step comes about.
ImplementsAtomicPool == Spec

\* Units that messages of these kinds still have to mint or burn.
InFlight(kinds) ==
    LET due(message) == IF message.from = POOL /\ message.to = TOKEN /\ message.kind \in kinds
                        THEN message.amount ELSE 0
    IN  SumFunctionOnSet([i \in DOMAIN pending |-> due(pending[i])], DOMAIN pending)

\* The pool counts units before the token has minted or burned them; in between
\* the two totals differ by what is on its way, and by nothing else.
TotalsDifferByWhatIsInFlight ==
    running.reserve.total_scaled_liquidity + InFlight({"Burn", "BurnFrom"})
        = running.token.total_supply + InFlight({"Mint"})

\* The token, the bank or the exchange takes the message that is next.
Accepted ==
    can_mint \/ can_burn_units \/ can_transfer \/ can_send_coins \/ Running(EXCHANGE, "Commit")

\* A handler that accepts a message emits only messages the other side accepts:
\* as the pool is minter and sender, and holds what it burns and forwards, only
\* a zero amount or the pool as recipient is refused.  The cash it pays out of
\* is computed from rounded totals (reserve_totals_and_cash_u128), and is in
\* the bank as long as what rounding has cost has not eaten the booked fees.
EmittedMessagesAreAccepted ==
    (pending # <<>> /\ msg.from = POOL) =>
        \/ Accepted
        \/ msg.amount = 0
        \/ msg.kind = "Transfer" /\ msg.account = POOL
        \/ msg.to = BANK /\ ~ClaimsAreCovered

\* Every transaction comes to its end, and with it every unit the pool holds
\* while it decides is burned, forwarded or back with its holder.
UnitsDoNotStayAtThePool ==
    [](pending # <<>> => <>(pending = <<>> /\ token.balances[POOL] = 0))
=============================================================================
