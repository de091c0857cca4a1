---------------------------- MODULE MessageProofs ----------------------------
(***************************************************************************)
(* The pool and its token, exchanging messages that may fail, implement    *)
(* the pool in which every message is one step.                            *)
(*                                                                         *)
(* The invariant tells how far the transaction in progress has come: which *)
(* message of an account it is, which checks the handler has passed, what  *)
(* is still to execute and how running differs from what the chain keeps.  *)
(* Each delivered message moves from one stage to the next, and from the   *)
(* last to the step of Pool whose guards have been collected on the way.   *)
(***************************************************************************)
EXTENDS PoolMessages, BooksTheorems, SequenceTheorems

\* One message, which an account sent, and nothing done yet.
FromAccount(m) ==
    \/ \E l \in Lenders, x \in Inputs.lends : m = LendMsg(l, x)
    \/ \E s \in Operators, l \in Lenders, x \in Inputs.redemptions, c \in Inputs.commits :
          m = WithdrawMsg(s, l, x, c)
    \/ \E l \in Lenders, u \in Inputs.units, p \in Cw20ReceivePayload :
          m = SendMsg(l, u, p) \/ m = ForgedReceive(l, u, p)
    \/ \E s \in Lenders, a \in Lenders \cup {POOL}, u \in Inputs.units,
          kind \in {"Mint", "Burn", "BurnFrom", "Transfer"} : m = Msg(s, TOKEN, kind, a, u)

Submitted ==
    /\ Len(pending) = 1 /\ pending = <<Head(pending)>>
    /\ FromAccount(Head(pending))
    /\ running = Books

\* The pool has booked a supply, the token has still to mint it.
Lending(l, x) ==
    LET r      == accrued
        scaled == underlying_to_scaled_liquidity(x, r.liquidity_index)
    IN  /\ Open
        /\ has_attrs(l, contract.lender_required_attrs)
        /\ x >= contract.min_lend
        /\ scaled > 0
        /\ r.total_scaled_liquidity + scaled <= MaxScaled
        /\ bank[LENDING] + x <= MaxCash
        /\ pending = <<Mint(l, scaled)>>
        /\ running = [ reserve |-> [r EXCEPT !.total_scaled_liquidity = @ + scaled],
                       token   |-> token,
                       bank    |-> [bank EXCEPT ![LENDING] = @ + x] ]

\* The token has passed units to the pool and is calling its hook.
Received(l, u, p) ==
    /\ can_move(token, l, u)
    /\ pending = <<PayloadMsg(TOKEN, POOL, "Receive", l, u, p)>>
    /\ running = [reserve |-> reserve, token |-> move(token, l, POOL, u), bank |-> bank]

\* The pool has deducted scaled units, which it received from the lender with
\* left more if sent, and pays them out: what it has still to emit, in order.
Paying(sent, l, scaled, c, left) ==
    LET r      == accrued
        worth  == scaled_to_underlying_liquidity(scaled, r.liquidity_index)
        before == IF sent THEN move(token, l, POOL, scaled + left) ELSE token
        holder == IF sent THEN POOL ELSE l
        after  == apply_burn(before, holder, scaled)
        last   == CommitFunds(c, l, worth) \o Refund(left, l)
        less   == [r EXCEPT !.total_scaled_liquidity = @ - scaled]
        paid   == [bank EXCEPT ![LENDING] = @ - worth]
    IN  /\ r.total_scaled_liquidity >= scaled
        /\ \/ /\ pending = <<IF sent THEN Burn(scaled) ELSE BurnFrom(l, scaled)>>
                              \o (<<bank_send_underlying(l, worth)>> \o last)
              /\ running = [reserve |-> less, token |-> before, bank |-> bank]
           \/ /\ can_burn(before, holder, scaled)
              /\ pending = <<bank_send_underlying(l, worth)>> \o last
              /\ running = [reserve |-> less, token |-> after, bank |-> bank]
           \/ /\ can_burn(before, holder, scaled)
              /\ can_send(worth)
              /\ pending \in {last, Refund(left, l)} \ {<<>>}
              /\ running = [reserve |-> less, token |-> after, bank |-> paid]

\* What the owner's withdrawal has passed.
Withdrawing(s, l, x, c) ==
    LET r       == accrued
        balance == token.balances[l]
        supply  == scaled_to_underlying_liquidity(balance, r.liquidity_index)
        wanted  == IF x = 0 THEN supply ELSE x
        scaled  == IF x = 0 THEN balance
                   ELSE underlying_to_scaled_liquidity(x, r.liquidity_index)
    IN  /\ NotPaused
        /\ is_owner(s)
        /\ balance > 0
        /\ wanted <= supply
        /\ wanted <= reserve_cash(r)
        /\ commit_possible(c)
        /\ Paying(FALSE, l, scaled, c, 0)

\* What a withdrawal by Send has passed.
Redeeming(l, u, scaled, c) ==
    /\ NotPaused
    /\ can_move(token, l, u)
    /\ l \in lender_require_commit => c
    /\ commit_possible(c)
    /\ u >= scaled
    /\ Paying(TRUE, l, scaled, c, u - scaled)

RedeemingExact(l, u, c) ==
    /\ scaled_to_underlying_liquidity(u, accrued.liquidity_index) <= reserve_cash(accrued)
    /\ Redeeming(l, u, u, c)

RedeemingSome(l, u, x, c) ==
    /\ x > 0
    /\ x <= reserve_cash(accrued)
    /\ Redeeming(l, u, underlying_to_scaled_liquidity(x, accrued.liquidity_index), c)

\* The pool forwards units it received, and returns the rest.
Forwarding(l, u, m, scaled) ==
    LET at_pool == move(token, l, POOL, u)
        books(t) == [reserve |-> reserve, token |-> t, bank |-> bank]
    IN  /\ NotPaused
        /\ can_move(token, l, u)
        /\ may_forward(l, m)
        /\ u >= scaled
        /\ \/ /\ pending = <<TransferTo(m, scaled)>> \o Refund(u - scaled, l)
              /\ running = books(at_pool)
           \/ /\ m # POOL /\ scaled > 0
              /\ u > scaled
              /\ pending = Refund(u - scaled, l)
              /\ running = books(move(at_pool, POOL, m, scaled))

ForwardingSome(l, u, m, x) ==
    /\ x > 0
    /\ Forwarding(l, u, m, underlying_to_scaled_liquidity(x, accrued.liquidity_index))

Recipients == Inputs.recipients \cup {POOL}

InProgress ==
    \/ Submitted
    \/ \E l \in Lenders, x \in Inputs.lends : Lending(l, x)
    \/ \E l \in Lenders, u \in Inputs.units, p \in Cw20ReceivePayload : Received(l, u, p)
    \/ \E s \in Operators, l \in Lenders, x \in Inputs.redemptions, c \in Inputs.commits :
          Withdrawing(s, l, x, c)
    \/ \E l \in Lenders, u \in Inputs.units, c \in Inputs.commits : RedeemingExact(l, u, c)
    \/ \E l \in Lenders, u \in Inputs.units, x \in Inputs.requests, c \in Inputs.commits :
          RedeemingSome(l, u, x, c)
    \/ \E l \in Lenders, u \in Inputs.units, m \in Recipients : Forwarding(l, u, m, u)
    \/ \E l \in Lenders, u \in Inputs.units, m \in Recipients, x \in Inputs.requests :
          ForwardingSome(l, u, m, x)

MessageInv ==
    /\ BooksInv
    /\ IF pending = <<>> THEN running = Books ELSE InProgress

-----------------------------------------------------------------------------
\* Queues: what is at the front of one, and what is behind it.
LEMMA Popped ==
    ASSUME NEW S, NEW m \in S, NEW s \in Seq(S)
    PROVE  /\ <<m>> \o s \in Seq(S)
           /\ <<m>> \o s # <<>>
           /\ Head(<<m>> \o s) = m
           /\ Tail(<<m>> \o s) = s
           /\ Len(<<m>> \o s) = Len(s) + 1
<1> DEFINE q == <<m>> \o s
<1>1. <<m>> \in Seq(S) /\ Len(<<m>>) = 1 /\ <<m>>[1] = m
  OBVIOUS
<1>2. /\ q \in Seq(S) /\ Len(q) = Len(s) + 1
      /\ \A i \in 1 .. Len(s) + 1 : q[i] = IF i <= 1 THEN m ELSE s[i - 1]
  BY <1>1, ConcatProperties
<1>3. Len(s) \in Nat
  OBVIOUS
<1> HIDE DEF q
<1>4. q # <<>>
  BY <1>2, <1>3
<1>5. Head(q) = m
  BY <1>2, <1>3
<1>6. /\ Tail(q) \in Seq(S) /\ Len(Tail(q)) = Len(s)
      /\ \A i \in 1 .. Len(s) : Tail(q)[i] = s[i]
  BY <1>2, <1>3, <1>4, HeadTailProperties
<1>7. Tail(q) = s
  BY <1>6, SeqEqual
<1> QED
  BY <1>2, <1>4, <1>5, <1>7 DEF q

\* The handler that runs is the one the next message is for.
LEMMA HandledAs ==
    ASSUME Handle
    PROVE  /\ pending # <<>>
           /\ \/ msg.to = POOL /\ msg.kind = "Lend" /\ ExecuteLend
              \/ msg.to = POOL /\ msg.kind = "Withdraw" /\ ExecuteWithdraw
              \/ msg.to = POOL /\ msg.kind = "Receive" /\ (ReceiveWithdraw \/ ReceiveTransfer)
              \/ msg.to = TOKEN /\ msg.kind = "Mint" /\ MintUnits
              \/ msg.to = TOKEN /\ msg.kind \in {"Burn", "BurnFrom"} /\ BurnUnits
              \/ msg.to = TOKEN /\ msg.kind = "Transfer" /\ TransferUnits
              \/ msg.to = TOKEN /\ msg.kind = "Send" /\ SendUnits
              \/ msg.to = BANK /\ msg.kind = "Send" /\ SendCoins
              \/ msg.to = EXCHANGE /\ msg.kind = "Commit" /\ CommitCoins
BY DEF Handle, ExecuteLend, ExecuteWithdraw, ReceiveWithdraw, ReceiveTransfer, Receive,
       MintUnits, can_mint, BurnUnits, can_burn_units, TransferUnits, can_transfer, SendUnits,
       SendCoins, can_send_coins, CommitCoins, Running

\* What Deliver adds to a handler.
Completes ==
    /\ reserve' = IF pending' = <<>> THEN running'.reserve ELSE reserve
    /\ token' = IF pending' = <<>> THEN running'.token ELSE token
    /\ bank' = IF pending' = <<>> THEN running'.bank ELSE bank
    /\ UNCHANGED <<world_vars, config_vars, position_vars, sale_vars>>

\* A transaction that goes on leaves what the chain keeps, and all that is
\* computed from it.
LEMMA GoesOn ==
    ASSUME Completes, pending' # <<>>
    PROVE  UNCHANGED vars
BY DEF Completes, vars, world_vars, config_vars, position_vars, sale_vars

\* The last message of a supply.
LEMMA MintEnds ==
    ASSUME NEW l \in Lenders, NEW x \in Inputs.lends, Lending(l, x), Deliver
    PROVE  /\ pending' = <<>> /\ running' = Books'
           /\ Lend(l, x)
<1> DEFINE r      == accrued
           scaled == underlying_to_scaled_liquidity(x, r.liquidity_index)
<1>1. /\ pending = <<Mint(l, scaled)>>
      /\ running = [ reserve |-> [r EXCEPT !.total_scaled_liquidity = @ + scaled],
                     token   |-> token,
                     bank    |-> [bank EXCEPT ![LENDING] = @ + x] ]
  BY DEF Lending
<1>2. msg = Mint(l, scaled) /\ Tail(pending) = <<>>
  BY <1>1 DEF msg
<1>3. Handle /\ Completes
  BY DEF Deliver, Completes
<1>4. MintUnits
  BY <1>2, <1>3, HandledAs, ContractAssumption DEF Mint, Msg
<1>5. /\ pending' = <<>>
      /\ running' = [running EXCEPT !.token = mint(@, l, scaled)]
  BY <1>2, <1>4 DEF MintUnits, Emit, Mint, Msg
<1> HIDE DEF r, scaled
<1>6. running' = [ reserve |-> [r EXCEPT !.total_scaled_liquidity = @ + scaled],
                   token   |-> mint(token, l, scaled),
                   bank    |-> [bank EXCEPT ![LENDING] = @ + x] ]
  BY <1>1, <1>5
<1>7. /\ running'.reserve = [r EXCEPT !.total_scaled_liquidity = @ + scaled]
      /\ running'.token = mint(token, l, scaled)
      /\ running'.bank = [bank EXCEPT ![LENDING] = @ + x]
      /\ running' = [reserve |-> running'.reserve, token |-> running'.token, bank |-> running'.bank]
  BY <1>6
<1>8. reserve' = running'.reserve /\ token' = running'.token /\ bank' = running'.bank
  BY <1>3, <1>5 DEF Completes
<1>9. running' = Books'
  BY <1>7, <1>8 DEF Books
<1>10. /\ Open /\ has_attrs(l, contract.lender_required_attrs) /\ x >= contract.min_lend
       /\ scaled > 0 /\ r.total_scaled_liquidity + scaled <= MaxScaled
       /\ bank[LENDING] + x <= MaxCash
  BY DEF Lending, r, scaled
<1>11. UNCHANGED <<world_vars, config_vars, position_vars, sale_vars>>
  BY <1>3 DEF Completes
<1>12. Lend(l, x)
  BY <1>7, <1>8, <1>10, <1>11 DEF Lend, r, scaled
<1> QED
  BY <1>5, <1>9, <1>12

\* The chain takes over what the last message leaves.
LEMMA Ends ==
    ASSUME Completes, pending' = <<>>, NEW r, NEW t, NEW b,
           running' = [reserve |-> r, token |-> t, bank |-> b]
    PROVE  reserve' = r /\ token' = t /\ bank' = b /\ running' = Books'
BY DEF Completes, Books

\* What is left of the units when the burned ones and the rest are gone.
settled_token(sent, l, scaled, left) ==
    LET before == IF sent THEN move(token, l, POOL, scaled + left) ELSE token
        after  == apply_burn(before, IF sent THEN POOL ELSE l, scaled)
    IN  IF left > 0 THEN move(after, POOL, l, left) ELSE after

\* A payment goes on to the next of its messages, or has made them all.
LEMMA PayingStep ==
    ASSUME NEW sent \in BOOLEAN, NEW l, NEW scaled, NEW c \in BOOLEAN, NEW left \in Nat,
           Paying(sent, l, scaled, c, left), Deliver
    PROVE  LET worth  == scaled_to_underlying_liquidity(scaled, accrued.liquidity_index)
               before == IF sent THEN move(token, l, POOL, scaled + left) ELSE token
           IN  \/ /\ UNCHANGED vars /\ pending' # <<>>
                  /\ Paying(sent, l, scaled, c, left)'
               \/ /\ pending' = <<>> /\ running' = Books'
                  /\ can_burn(before, IF sent THEN POOL ELSE l, scaled)
                  /\ token' = settled_token(sent, l, scaled, left)
                  /\ PayOutLiquidity(accrued, scaled, worth)
                  /\ UNCHANGED <<world_vars, config_vars, position_vars, sale_vars>>
<1> DEFINE r      == accrued
           worth  == scaled_to_underlying_liquidity(scaled, r.liquidity_index)
           before == IF sent THEN move(token, l, POOL, scaled + left) ELSE token
           holder == IF sent THEN POOL ELSE l
           after  == apply_burn(before, holder, scaled)
           commit == CommitFunds(c, l, worth)
           rest   == Refund(left, l)
           last   == commit \o rest
           less   == [r EXCEPT !.total_scaled_liquidity = @ - scaled]
           paid   == [bank EXCEPT ![LENDING] = @ - worth]
           burn   == IF sent THEN Burn(scaled) ELSE BurnFrom(l, scaled)
           send   == bank_send_underlying(l, worth)
           S      == {burn, send, new_commit_message(l, worth), TransferTo(l, left)}
<1>1. /\ rest \in Seq(S) /\ commit \in Seq(S) /\ last \in Seq(S)
      /\ burn \in S /\ send \in S
      /\ ~c => last = rest
      /\ c => last = <<new_commit_message(l, worth)>> \o rest
      /\ left = 0 <=> rest = <<>>
      /\ left > 0 => rest = <<TransferTo(l, left)>>
  <2>1. new_commit_message(l, worth) \in S /\ TransferTo(l, left) \in S /\ burn \in S /\ send \in S
    OBVIOUS
  <2> HIDE DEF S, burn, send, worth
  <2>2. /\ rest \in Seq(S) /\ (left = 0 <=> rest = <<>>)
        /\ left > 0 => rest = <<TransferTo(l, left)>>
    BY <2>1 DEF Refund
  <2>3. commit = IF c THEN <<new_commit_message(l, worth)>> ELSE <<>>
    BY DEF CommitFunds
  <2>4. commit \in Seq(S)
    BY <2>1, <2>3
  <2>5. last \in Seq(S)
    BY <2>2, <2>4, ConcatProperties
  <2>6. ~c => last = rest
    BY <2>2, <2>3, ConcatEmptySeq
  <2> QED
    BY <2>1, <2>2, <2>3, <2>4, <2>5, <2>6
<1>2. Handle /\ Completes
  BY DEF Deliver, Completes
<1>3. accrued.total_scaled_liquidity >= scaled
  BY DEF Paying
<1>4. \/ /\ pending = <<burn>> \o (<<send>> \o last)
         /\ running = [reserve |-> less, token |-> before, bank |-> bank]
      \/ /\ can_burn(before, holder, scaled)
         /\ pending = <<send>> \o last
         /\ running = [reserve |-> less, token |-> after, bank |-> bank]
      \/ /\ can_burn(before, holder, scaled)
         /\ can_send(worth)
         /\ pending \in {last, rest} \ {<<>>}
         /\ running = [reserve |-> less, token |-> after, bank |-> paid]
  BY DEF Paying
<1>5. ASSUME UNCHANGED vars,
             \/ /\ can_burn(before, holder, scaled)
                /\ pending' = <<send>> \o last
                /\ running' = [reserve |-> less, token |-> after, bank |-> bank]
             \/ /\ can_burn(before, holder, scaled)
                /\ can_send(worth)
                /\ pending' \in {last, rest} \ {<<>>}
                /\ running' = [reserve |-> less, token |-> after, bank |-> paid]
      PROVE  Paying(sent, l, scaled, c, left)'
  <2>1. accrued' = accrued /\ token' = token /\ bank' = bank
    BY <1>5 DEF accrued, vars
  <2> QED
    BY <1>3, <1>5, <2>1 DEF Paying, can_send
<1> HIDE DEF S
<1>6. /\ <<send>> \o last \in Seq(S) /\ <<send>> \o last # <<>>
      /\ Head(<<send>> \o last) = send /\ Tail(<<send>> \o last) = last
  BY <1>1, Popped
<1> HIDE DEF last, rest
<1>7. CASE /\ pending = <<burn>> \o (<<send>> \o last)
           /\ running = [reserve |-> less, token |-> before, bank |-> bank]
  <2>1. msg = burn /\ Tail(pending) = <<send>> \o last
    <3> DEFINE next == <<send>> \o last
    <3>1. burn \in S /\ next \in Seq(S)
      BY <1>1, <1>6
    <3> HIDE DEF burn, next
    <3>2. Head(<<burn>> \o next) = burn /\ Tail(<<burn>> \o next) = next
      BY <3>1, Popped
    <3> QED
      BY <1>7, <3>2 DEF msg, next
  <2>2. /\ msg.to = TOKEN /\ msg.kind \in {"Burn", "BurnFrom"}
        /\ msg.account = holder /\ msg.amount = scaled
    BY <2>1 DEF Burn, BurnFrom, Msg
  <2>3. BurnUnits
    BY <1>2, <2>2, HandledAs, ContractAssumption
  <2> HIDE DEF burn, send, before, holder, less, after
  <2>4. /\ pending' = <<send>> \o last
        /\ can_burn(running.token, holder, scaled)
        /\ running' = [running EXCEPT !.token = apply_burn(@, holder, scaled)]
    BY <1>6, <2>1, <2>2, <2>3, ConcatEmptySeq DEF BurnUnits, can_burn_units, Emit
  <2>5. /\ can_burn(before, holder, scaled)
        /\ running' = [reserve |-> less, token |-> after, bank |-> bank]
    BY <1>7, <2>4 DEF after
  <2>6. UNCHANGED vars /\ pending' # <<>>
    BY <1>2, <1>6, <2>4, GoesOn
  <2> QED
    BY <1>5, <2>4, <2>5, <2>6
<1>8. ASSUME NEW t, pending' = <<>>, can_burn(before, holder, scaled), can_send(worth),
             running' = [reserve |-> less, token |-> t, bank |-> paid],
             t = settled_token(sent, l, scaled, left)
      PROVE  /\ running' = Books'
             /\ token' = settled_token(sent, l, scaled, left)
             /\ PayOutLiquidity(accrued, scaled, worth)
             /\ UNCHANGED <<world_vars, config_vars, position_vars, sale_vars>>
  <2> HIDE DEF less, paid
  <2>1. reserve' = less /\ token' = t /\ bank' = paid /\ running' = Books'
    BY <1>2, <1>8, Ends
  <2>2. PayOutLiquidity(accrued, scaled, worth)
    BY <1>3, <1>8, <2>1 DEF PayOutLiquidity, less, paid
  <2> QED
    BY <1>2, <1>8, <2>1, <2>2 DEF Completes
<1>9. CASE /\ can_burn(before, holder, scaled)
           /\ pending = <<send>> \o last
           /\ running = [reserve |-> less, token |-> after, bank |-> bank]
  <2>1. msg = send /\ Tail(pending) = last
    BY <1>6, <1>9 DEF msg
  <2>2. msg.to = BANK /\ msg.kind = "Send" /\ msg.amount = worth
    BY <2>1 DEF bank_send_underlying, Msg
  <2>3. SendCoins
    BY <1>2, <2>2, HandledAs, ContractAssumption
  <2> HIDE DEF burn, send, before, holder, less, after, worth
  <2>4. /\ pending' = last
        /\ worth > 0 /\ running.bank[LENDING] >= worth
        /\ running' = [running EXCEPT !.bank[LENDING] = @ - worth]
    BY <1>1, <2>1, <2>2, <2>3, ConcatEmptySeq DEF SendCoins, can_send_coins, Emit
  <2>5. /\ can_send(worth)
        /\ running' = [reserve |-> less, token |-> after, bank |-> paid]
    BY <1>9, <2>4 DEF can_send
  <2>6. CASE last # <<>>
    <3>1. UNCHANGED vars
      BY <1>2, <2>4, <2>6, GoesOn
    <3> QED
      BY <1>5, <1>9, <2>4, <2>5, <2>6, <3>1
  <2>7. CASE last = <<>>
    <3>1. left = 0
      BY <1>1, <2>7, Popped
    <3>2. after = settled_token(sent, l, scaled, left)
      BY <3>1 DEF settled_token, after, before, holder
    <3> QED
      BY <1>8, <1>9, <2>4, <2>5, <2>7, <3>2 DEF before, holder, worth
  <2> QED
    BY <2>6, <2>7
<1>10. CASE /\ can_burn(before, holder, scaled)
            /\ can_send(worth)
            /\ pending \in {last, rest} \ {<<>>}
            /\ running = [reserve |-> less, token |-> after, bank |-> paid]
  <2>1. CASE c /\ pending = last
    <3>1. msg = new_commit_message(l, worth) /\ Tail(pending) = rest
      BY <1>1, <2>1, Popped DEF msg, S
    <3>2. msg.to = EXCHANGE
      BY <3>1 DEF new_commit_message, Msg
    <3>3. CommitCoins
      BY <1>2, <3>2, HandledAs, ContractAssumption
    <3> HIDE DEF burn, send, before, holder, less, after, worth, paid
    <3>4. pending' = rest /\ running' = running
      BY <1>1, <3>1, <3>3, ConcatEmptySeq DEF CommitCoins, Emit
    <3>5. CASE rest # <<>>
      <4>1. UNCHANGED vars
        BY <1>2, <3>4, <3>5, GoesOn
      <4> QED
        BY <1>5, <1>10, <3>4, <3>5, <4>1
    <3>6. CASE rest = <<>>
      <4>1. after = settled_token(sent, l, scaled, left)
        BY <1>1, <3>6 DEF settled_token, after, before, holder
      <4> QED
        BY <1>8, <1>10, <3>4, <3>6, <4>1 DEF before, holder, worth
    <3> QED
      BY <3>5, <3>6
  <2>2. CASE pending = rest
    <3>1. left > 0 /\ pending = <<TransferTo(l, left)>>
      BY <1>1, <1>10, <2>2
    <3>2. /\ msg = TransferTo(l, left) /\ Tail(pending) = <<>>
      BY <3>1 DEF msg
    <3>3. /\ msg.to = TOKEN /\ msg.kind = "Transfer" /\ msg.from = POOL
          /\ msg.account = l /\ msg.amount = left
      BY <3>2 DEF TransferTo, Msg
    <3>4. TransferUnits
      BY <1>2, <3>3, HandledAs, ContractAssumption
    <3> HIDE DEF burn, send, before, holder, less, after, worth, paid
    <3>5. /\ pending' = <<>>
          /\ running' = [running EXCEPT !.token = move(@, POOL, l, left)]
      BY <3>2, <3>3, <3>4 DEF TransferUnits, Emit
    <3>6. running' = [reserve |-> less, token |-> move(after, POOL, l, left), bank |-> paid]
      BY <1>10, <3>5
    <3>7. move(after, POOL, l, left) = settled_token(sent, l, scaled, left)
      BY <3>1 DEF settled_token, after, before, holder
    <3> QED
      BY <1>8, <1>10, <3>5, <3>6, <3>7 DEF before, holder, worth
  <2> QED
    BY <1>1, <1>10, <2>1, <2>2
<1> QED
  BY <1>4, <1>7, <1>9, <1>10

\* A forward goes on to the return of the rest, or has made both.
LEMMA ForwardingStep ==
    ASSUME NEW l, NEW m, NEW u \in Nat, NEW scaled \in Nat,
           Forwarding(l, u, m, scaled), Deliver
    PROVE  \/ /\ UNCHANGED vars /\ pending' # <<>>
              /\ Forwarding(l, u, m, scaled)'
           \/ /\ pending' = <<>> /\ running' = Books'
              /\ m # POOL
              /\ ForwardUnits(l, u, m, scaled)
<1> DEFINE at_pool   == move(token, l, POOL, u)
           forwarded == move(at_pool, POOL, m, scaled)
           rest      == Refund(u - scaled, l)
           S         == {TransferTo(m, scaled), TransferTo(l, u - scaled)}
<1>1. /\ NotPaused /\ can_move(token, l, u) /\ may_forward(l, m) /\ u >= scaled
      /\ \/ /\ pending = <<TransferTo(m, scaled)>> \o rest
            /\ running = [reserve |-> reserve, token |-> at_pool, bank |-> bank]
         \/ /\ m # POOL /\ scaled > 0 /\ u > scaled
            /\ pending = rest
            /\ running = [reserve |-> reserve, token |-> forwarded, bank |-> bank]
  BY DEF Forwarding
<1>2. /\ rest \in Seq(S) /\ TransferTo(m, scaled) \in S
      /\ rest = IF u > scaled THEN <<TransferTo(l, u - scaled)>> ELSE <<>>
  <2>1. TransferTo(m, scaled) \in S /\ TransferTo(l, u - scaled) \in S
    OBVIOUS
  <2> HIDE DEF S
  <2>2. rest = IF u > scaled THEN <<TransferTo(l, u - scaled)>> ELSE <<>>
    <3>1. u - scaled > 0 <=> u > scaled
      OBVIOUS
    <3> QED
      BY <3>1 DEF Refund
  <2> HIDE DEF rest
  <2>3. rest \in Seq(S)
    BY <2>1, <2>2
  <2> QED
    BY <2>1, <2>2, <2>3
<1>3. Handle /\ Completes
  BY DEF Deliver, Completes
<1>4. ASSUME pending' = <<>>, m # POOL, scaled > 0,
             running' = [ reserve |-> reserve, bank |-> bank,
                          token |-> IF u > scaled THEN move(forwarded, POOL, l, u - scaled)
                                    ELSE forwarded ]
      PROVE  running' = Books' /\ ForwardUnits(l, u, m, scaled)
  <2> DEFINE t == IF u > scaled THEN move(forwarded, POOL, l, u - scaled) ELSE forwarded
  <2>1. running' = [reserve |-> reserve, token |-> t, bank |-> bank]
    BY <1>4
  <2> HIDE DEF t
  <2>2. reserve' = reserve /\ token' = t /\ bank' = bank /\ running' = Books'
    BY <1>3, <1>4, <2>1, Ends
  <2>3. UNCHANGED <<world_vars, config_vars, position_vars, sale_vars>>
    BY <1>3 DEF Completes
  <2> QED
    BY <1>1, <1>4, <2>2, <2>3 DEF ForwardUnits, t
<1> HIDE DEF S
<1>5. CASE /\ pending = <<TransferTo(m, scaled)>> \o rest
           /\ running = [reserve |-> reserve, token |-> at_pool, bank |-> bank]
  <2>1. msg = TransferTo(m, scaled) /\ Tail(pending) = rest
    <3> HIDE DEF rest
    <3> QED
      BY <1>2, <1>5, Popped DEF msg
  <2>2. /\ msg.to = TOKEN /\ msg.kind = "Transfer" /\ msg.from = POOL
        /\ msg.account = m /\ msg.amount = scaled
    BY <2>1 DEF TransferTo, Msg
  <2>3. TransferUnits
    BY <1>3, <2>2, HandledAs, ContractAssumption
  <2> HIDE DEF at_pool, rest
  <2>4. /\ pending' = rest
        /\ m # POOL /\ scaled > 0
        /\ running' = [running EXCEPT !.token = move(@, POOL, m, scaled)]
    BY <1>2, <2>1, <2>2, <2>3, ConcatEmptySeq
    DEF TransferUnits, can_transfer, Emit, ensure_transfer_allowed, can_move
  <2>5. running' = [reserve |-> reserve, token |-> forwarded, bank |-> bank]
    BY <1>5, <2>4
  <2>6. CASE u > scaled
    <3>1. pending' # <<>>
      BY <1>2, <2>4, <2>6
    <3>2. UNCHANGED vars
      BY <1>3, <3>1, GoesOn
    <3>3. token' = token /\ reserve' = reserve /\ bank' = bank
          /\ contract' = contract /\ lender_require_commit' = lender_require_commit
      BY <3>2 DEF vars
    <3>4. NotPaused' /\ may_forward(l, m)'
      BY <1>1, <3>3 DEF NotPaused, may_forward
    <3> QED
      BY <1>1, <2>4, <2>5, <2>6, <3>1, <3>2, <3>3, <3>4 DEF Forwarding, rest, at_pool
  <2>7. CASE ~ (u > scaled)
    BY <1>2, <1>4, <2>4, <2>5, <2>7
  <2> QED
    BY <2>6, <2>7
<1>6. CASE /\ m # POOL /\ scaled > 0 /\ u > scaled
           /\ pending = rest
           /\ running = [reserve |-> reserve, token |-> forwarded, bank |-> bank]
  <2>1. pending = <<TransferTo(l, u - scaled)>>
    BY <1>2, <1>6
  <2>2. msg = TransferTo(l, u - scaled) /\ Tail(pending) = <<>>
    BY <2>1 DEF msg
  <2>3. /\ msg.to = TOKEN /\ msg.kind = "Transfer" /\ msg.from = POOL
        /\ msg.account = l /\ msg.amount = u - scaled
    BY <2>2 DEF TransferTo, Msg
  <2>4. TransferUnits
    BY <1>3, <2>3, HandledAs, ContractAssumption
  <2> HIDE DEF forwarded
  <2>5. /\ pending' = <<>>
        /\ running' = [running EXCEPT !.token = move(@, POOL, l, u - scaled)]
    BY <2>2, <2>3, <2>4 DEF TransferUnits, Emit
  <2>6. running' = [reserve |-> reserve, token |-> move(forwarded, POOL, l, u - scaled),
                    bank |-> bank]
    BY <1>6, <2>5
  <2> QED
    BY <1>4, <1>6, <2>5, <2>6
<1> QED
  BY <1>1, <1>5, <1>6

-----------------------------------------------------------------------------
\* The message of an account reaches the contract it is for.
LEMMA SupplyBegins ==
    ASSUME NEW l \in Lenders, NEW x \in Inputs.lends,
           pending = <<LendMsg(l, x)>>, running = Books, Deliver
    PROVE  UNCHANGED vars /\ pending' # <<>> /\ Lending(l, x)'
<1> DEFINE r      == accrued
           scaled == underlying_to_scaled_liquidity(x, r.liquidity_index)
<1>1. msg = LendMsg(l, x) /\ Tail(pending) = <<>>
  BY DEF msg
<1>2. msg.to = POOL /\ msg.kind = "Lend" /\ msg.from = l /\ msg.amount = x
  BY <1>1 DEF LendMsg, Msg
<1>3. Handle /\ Completes
  BY DEF Deliver, Completes
<1>4. ExecuteLend
  BY <1>2, <1>3, HandledAs, ContractAssumption
<1>5. running_accrued = accrued /\ running.bank = bank /\ running.token = token
  BY DEF running_accrued, accrued, Books
<1>6. /\ Open /\ has_attrs(l, contract.lender_required_attrs) /\ x >= contract.min_lend
      /\ scaled > 0 /\ r.total_scaled_liquidity + scaled <= MaxScaled
      /\ bank[LENDING] + x <= MaxCash
      /\ pending' = <<Mint(l, scaled)>>
      /\ running' = [running EXCEPT !.reserve = [r EXCEPT !.total_scaled_liquidity = @ + scaled],
                                    !.bank[LENDING] = @ + x]
  BY <1>1, <1>2, <1>4, <1>5 DEF ExecuteLend, Emit
<1> HIDE DEF r, scaled
<1>7. running' = [ reserve |-> [r EXCEPT !.total_scaled_liquidity = @ + scaled],
                   token   |-> token,
                   bank    |-> [bank EXCEPT ![LENDING] = @ + x] ]
  BY <1>6 DEF Books
<1>8. UNCHANGED vars /\ pending' # <<>>
  BY <1>3, <1>6, GoesOn
<1>9. accrued' = accrued /\ contract' = contract /\ bank' = bank /\ token' = token
  BY <1>8 DEF vars, accrued
<1>10. Open' /\ has_attrs(l, contract.lender_required_attrs)'
  BY <1>6, <1>9 DEF Open, has_attrs
<1> QED
  BY <1>6, <1>7, <1>8, <1>9, <1>10 DEF Lending, r, scaled

\* Both withdrawals emit their messages alike.
LEMMA PaymentBegins ==
    ASSUME NEW sent \in BOOLEAN, NEW l, NEW scaled, NEW left \in Nat, NEW c \in BOOLEAN,
           NEW before, NEW burn,
           before = IF sent THEN move(token, l, POOL, scaled + left) ELSE token,
           burn = IF sent THEN Burn(scaled) ELSE BurnFrom(l, scaled),
           running = [reserve |-> reserve, token |-> before, bank |-> bank],
           Tail(pending) = <<>>, msg.commit = c, Completes,
           EmitWithdrawal(accrued, scaled, burn, l, left)
    PROVE  /\ commit_possible(c)
           /\ UNCHANGED vars /\ pending' # <<>>
           /\ Paying(sent, l, scaled, c, left)'
<1> DEFINE r      == accrued
           worth  == scaled_to_underlying_liquidity(scaled, r.liquidity_index)
           less   == [r EXCEPT !.total_scaled_liquidity = @ - scaled]
           send   == bank_send_underlying(l, worth)
           commit == CommitFunds(c, l, worth)
           rest   == Refund(left, l)
           S      == {burn, send, new_commit_message(l, worth), TransferTo(l, left)}
<1>1. burn \in S /\ send \in S /\ commit \in Seq(S) /\ rest \in Seq(S)
  <2>1. new_commit_message(l, worth) \in S /\ TransferTo(l, left) \in S /\ burn \in S /\ send \in S
    OBVIOUS
  <2> HIDE DEF S, send, worth
  <2>2. rest = IF left > 0 THEN <<TransferTo(l, left)>> ELSE <<>>
    BY DEF Refund
  <2>3. commit = IF c THEN <<new_commit_message(l, worth)>> ELSE <<>>
    BY DEF CommitFunds
  <2> HIDE DEF rest, commit
  <2>4. rest \in Seq(S)
    BY <2>1, <2>2
  <2>5. commit \in Seq(S)
    BY <2>1, <2>3
  <2> QED
    BY <2>1, <2>4, <2>5
<1>2. /\ commit_possible(c)
      /\ r.total_scaled_liquidity >= scaled
      /\ running' = [running EXCEPT !.reserve = less]
      /\ pending' = (<<burn>> \o (<<send>> \o (commit \o rest))) \o <<>>
  BY DEF EmitWithdrawal, Emit
<1>3. running' = [reserve |-> less, token |-> before, bank |-> bank]
  <2> HIDE DEF less
  <2> QED
    BY <1>2
<1> HIDE DEF S, send, commit, rest
<1>4. pending' = <<burn>> \o (<<send>> \o (commit \o rest))
  <2> DEFINE last == commit \o rest
  <2>1. last \in Seq(S)
    BY <1>1, ConcatProperties
  <2>2. pending' = (<<burn>> \o (<<send>> \o last)) \o <<>>
    BY <1>2
  <2> HIDE DEF last
  <2> DEFINE next == <<send>> \o last
  <2>3. next \in Seq(S)
    BY <1>1, <2>1, Popped
  <2> HIDE DEF next
  <2>4. <<burn>> \o next \in Seq(S)
    BY <1>1, <2>3, Popped
  <2> DEFINE whole == <<burn>> \o next
  <2>5. pending' = whole \o <<>>
    BY <2>2 DEF next
  <2> HIDE DEF whole
  <2>6. pending' = whole
    BY <2>4, <2>5, ConcatEmptySeq DEF whole
  <2> QED
    BY <2>6 DEF whole, next, last
<1>5. pending' # <<>>
  <2> DEFINE last == commit \o rest
  <2>1. last \in Seq(S)
    BY <1>1, ConcatProperties
  <2> HIDE DEF last
  <2>2. <<send>> \o last \in Seq(S)
    BY <1>1, <2>1, Popped
  <2> DEFINE next == <<send>> \o last
  <2> HIDE DEF next
  <2>3. <<burn>> \o next # <<>>
    BY <1>1, <2>2, Popped DEF next
  <2> QED
    BY <1>4, <2>3 DEF next, last
<1>6. UNCHANGED vars
  BY <1>5, GoesOn
<1>7. accrued' = accrued /\ bank' = bank /\ token' = token
  BY <1>6 DEF vars, accrued
<1> QED
  BY <1>2, <1>3, <1>4, <1>5, <1>6, <1>7 DEF Paying, send, commit, rest

\* The owner's withdrawal passes its checks and emits its messages.
LEMMA WithdrawalBegins ==
    ASSUME NEW s, NEW l \in Lenders, NEW x \in Nat, NEW c \in BOOLEAN,
           pending = <<WithdrawMsg(s, l, x, c)>>, running = Books, Deliver
    PROVE  UNCHANGED vars /\ pending' # <<>> /\ Withdrawing(s, l, x, c)'
<1> DEFINE r       == accrued
           balance == token.balances[l]
           supply  == scaled_to_underlying_liquidity(balance, r.liquidity_index)
           wanted  == IF x = 0 THEN supply ELSE x
           scaled  == IF x = 0 THEN balance
                      ELSE underlying_to_scaled_liquidity(x, r.liquidity_index)
<1>1. msg = WithdrawMsg(s, l, x, c) /\ Tail(pending) = <<>>
  BY DEF msg
<1>2. /\ msg.to = POOL /\ msg.kind = "Withdraw" /\ msg.from = s
      /\ msg.account = l /\ msg.amount = x /\ msg.commit = c
  BY <1>1 DEF WithdrawMsg, Msg
<1>3. Handle /\ Completes
  BY DEF Deliver, Completes
<1>4. ExecuteWithdraw
  BY <1>2, <1>3, HandledAs, ContractAssumption
<1>5. running_accrued = accrued /\ running.bank = bank /\ running.token = token
  BY DEF running_accrued, accrued, Books
<1>6. /\ NotPaused /\ is_owner(s) /\ balance > 0
      /\ wanted <= supply /\ wanted <= reserve_cash(r)
      /\ EmitWithdrawal(r, scaled, BurnFrom(l, scaled), l, 0)
  BY <1>2, <1>4, <1>5 DEF ExecuteWithdraw
<1>7. /\ running = [reserve |-> reserve, token |-> token, bank |-> bank]
      /\ Tail(pending) = <<>> /\ msg.commit = c
  BY <1>1, <1>2 DEF Books
<1>8. PICK n : n = scaled
  OBVIOUS
<1> HIDE DEF scaled
<1>9. /\ commit_possible(c)
      /\ UNCHANGED vars /\ pending' # <<>>
      /\ Paying(FALSE, l, n, c, 0)'
  <2>1. /\ BurnFrom(l, n) = IF FALSE THEN Burn(n) ELSE BurnFrom(l, n)
        /\ token = IF FALSE THEN move(token, l, POOL, n + 0) ELSE token
    OBVIOUS
  <2>2. EmitWithdrawal(accrued, n, BurnFrom(l, n), l, 0)
    BY <1>6, <1>8
  <2> QED
    BY <1>3, <1>7, <2>1, <2>2, PaymentBegins
<1>10. accrued' = accrued /\ contract' = contract /\ ownership' = ownership
       /\ token' = token /\ now' = now
  BY <1>9 DEF vars, accrued
<1>11. NotPaused' /\ is_owner(s)' /\ commit_possible(c)'
  BY <1>6, <1>9, <1>10 DEF NotPaused, is_owner, commit_possible
<1>12. scaled' = n
  BY <1>8, <1>10 DEF scaled
<1> QED
  BY <1>6, <1>9, <1>10, <1>11, <1>12 DEF Withdrawing, scaled

\* Units reach the pool before its hook is called.
LEMMA SendBegins ==
    ASSUME NEW l, NEW u, NEW p,
           pending = <<SendMsg(l, u, p)>>, running = Books, Deliver
    PROVE  UNCHANGED vars /\ pending' # <<>> /\ Received(l, u, p)'
<1>1. msg = SendMsg(l, u, p) /\ Tail(pending) = <<>>
  BY DEF msg
<1>2. msg.to = TOKEN /\ msg.kind = "Send" /\ msg.from = l /\ msg.amount = u
  BY <1>1 DEF SendMsg, PayloadMsg
<1>3. Handle /\ Completes
  BY DEF Deliver, Completes
<1>4. SendUnits
  BY <1>2, <1>3, HandledAs, ContractAssumption
<1>5. /\ can_move(token, l, u)
      /\ running' = [running EXCEPT !.token = move(@, l, POOL, u)]
      /\ pending' = <<PayloadMsg(TOKEN, POOL, "Receive", l, u, msg)>>
  BY <1>1, <1>2, <1>4 DEF SendUnits, Emit, Books
<1>6. PayloadMsg(TOKEN, POOL, "Receive", l, u, msg)
         = PayloadMsg(TOKEN, POOL, "Receive", l, u, p)
  BY <1>1 DEF SendMsg, PayloadMsg
<1>7. running' = [reserve |-> reserve, token |-> move(token, l, POOL, u), bank |-> bank]
  BY <1>5 DEF Books
<1>8. UNCHANGED vars /\ pending' # <<>>
  BY <1>3, <1>5, GoesOn
<1>9. reserve' = reserve /\ token' = token /\ bank' = bank
  BY <1>8 DEF vars
<1> QED
  BY <1>5, <1>6, <1>7, <1>8, <1>9 DEF Received

\* No handler takes what accounts send past the pool.
LEMMA OthersAreRefused ==
    ASSUME NEW s \in Lenders, NEW m, pending = <<m>>, Handle,
           \/ \E u, p : m = ForgedReceive(s, u, p)
           \/ \E a, u, kind : /\ kind \in {"Mint", "Burn", "BurnFrom", "Transfer"}
                               /\ m = Msg(s, TOKEN, kind, a, u)
    PROVE  FALSE
<1>1. msg = m
  BY DEF msg
<1>2. s # POOL /\ s # TOKEN
  BY AddressAssumption, ContractAssumption DEF Accounts
<1>3. CASE \E u, p : m = ForgedReceive(s, u, p)
  <2>1. msg.to = POOL /\ msg.kind = "Receive" /\ msg.from = s
    BY <1>1, <1>3 DEF ForgedReceive, PayloadMsg
  <2>2. ReceiveWithdraw \/ ReceiveTransfer
    BY <2>1, HandledAs, ContractAssumption
  <2> QED
    BY <1>2, <2>1, <2>2 DEF ReceiveWithdraw, ReceiveTransfer, Receive
<1>4. CASE \E a, u, kind : /\ kind \in {"Mint", "Burn", "BurnFrom", "Transfer"}
                            /\ m = Msg(s, TOKEN, kind, a, u)
  <2>1. /\ msg.to = TOKEN /\ msg.from = s
        /\ msg.kind \in {"Mint", "Burn", "BurnFrom", "Transfer"}
    BY <1>1, <1>4 DEF Msg
  <2>2. MintUnits \/ BurnUnits \/ TransferUnits
    BY <2>1, HandledAs, ContractAssumption
  <2> QED
    BY <1>2, <2>1, <2>2
    DEF MintUnits, can_mint, BurnUnits, can_burn_units, TransferUnits, can_transfer,
        only_minter, ensure_transfer_allowed
<1> QED
  BY <1>3, <1>4

\* What the payloads ask for.
LEMMA PayloadParts ==
    ASSUME NEW p \in Cw20ReceivePayload
    PROVE  /\ p.payload \in {"Withdraw", "WithdrawExact"} => p.commit \in Inputs.commits
           /\ p.payload = "Withdraw" => p.asked \in Inputs.requests
           /\ p.payload \in {"Transfer", "TransferExact"} => p.account \in Recipients
           /\ p.payload = "Transfer" => p.asked \in Inputs.requests
<1> DEFINE payload(name, account, asked, commit) ==
               [payload |-> name, account |-> account, asked |-> asked, commit |-> commit]
<1>1. \/ \E x \in Inputs.requests, c \in Inputs.commits : p = payload("Withdraw", NO_ONE, x, c)
      \/ \E c \in Inputs.commits : p = payload("WithdrawExact", NO_ONE, 0, c)
      \/ \E a \in Recipients, x \in Inputs.requests : p = payload("Transfer", a, x, FALSE)
      \/ \E a \in Recipients : p = payload("TransferExact", a, 0, FALSE)
  BY DEF Cw20ReceivePayload, Recipients
<1> QED
  BY <1>1

\* Both forwards emit their messages alike.
LEMMA ForwardingBegins ==
    ASSUME NEW l, NEW m, NEW u \in Nat, NEW scaled \in Nat,
           NotPaused, can_move(token, l, u), may_forward(l, m), u >= scaled,
           running = [reserve |-> reserve, token |-> move(token, l, POOL, u), bank |-> bank],
           Tail(pending) = <<>>, Completes, UNCHANGED running,
           Emit(<<TransferTo(m, scaled)>> \o Refund(u - scaled, l))
    PROVE  /\ UNCHANGED vars /\ pending' # <<>>
           /\ Forwarding(l, u, m, scaled)'
<1> DEFINE first == TransferTo(m, scaled)
           rest  == Refund(u - scaled, l)
           S     == {first, TransferTo(l, u - scaled)}
<1>1. first \in S /\ rest \in Seq(S)
  <2>1. first \in S /\ TransferTo(l, u - scaled) \in S
    OBVIOUS
  <2> HIDE DEF first, S
  <2>2. rest = IF u - scaled > 0 THEN <<TransferTo(l, u - scaled)>> ELSE <<>>
    BY DEF Refund
  <2> HIDE DEF rest
  <2>3. rest \in Seq(S)
    BY <2>1, <2>2
  <2> QED
    BY <2>1, <2>3
<1>2. pending' = (<<first>> \o rest) \o <<>>
  BY DEF Emit
<1> HIDE DEF first, rest, S
<1>3. <<first>> \o rest \in Seq(S) /\ <<first>> \o rest # <<>>
  BY <1>1, Popped
<1>4. pending' = <<first>> \o rest
  <2> DEFINE whole == <<first>> \o rest
  <2>1. pending' = whole \o <<>>
    BY <1>2
  <2> HIDE DEF whole
  <2>2. pending' = whole
    BY <1>3, <2>1, ConcatEmptySeq DEF whole
  <2> QED
    BY <2>2 DEF whole
<1>5. UNCHANGED vars
  BY <1>3, <1>4, GoesOn
<1>6. /\ token' = token /\ reserve' = reserve /\ bank' = bank
      /\ contract' = contract /\ lender_require_commit' = lender_require_commit
  BY <1>5 DEF vars
<1>7. NotPaused' /\ may_forward(l, m)'
  BY <1>6 DEF NotPaused, may_forward
<1>8. can_move(token, l, u)'
  BY <1>6
<1> QED
  BY <1>3, <1>4, <1>5, <1>6, <1>7, <1>8 DEF Forwarding, first, rest

\* The hook decides which of the four requests the units came with.
LEMMA ReceivedGoesOn ==
    ASSUME Inv, NEW l \in Lenders, NEW u \in Inputs.units, NEW p \in Cw20ReceivePayload,
           Received(l, u, p), Deliver
    PROVE  /\ UNCHANGED vars /\ pending' # <<>>
           /\ \/ p.payload = "WithdrawExact" /\ RedeemingExact(l, u, p.commit)'
              \/ p.payload = "Withdraw" /\ RedeemingSome(l, u, p.asked, p.commit)'
              \/ p.payload = "TransferExact" /\ Forwarding(l, u, p.account, u)'
              \/ p.payload = "Transfer" /\ ForwardingSome(l, u, p.account, p.asked)'
<1>1. /\ can_move(token, l, u)
      /\ pending = <<PayloadMsg(TOKEN, POOL, "Receive", l, u, p)>>
      /\ running = [reserve |-> reserve, token |-> move(token, l, POOL, u), bank |-> bank]
  BY DEF Received
<1>2. msg = PayloadMsg(TOKEN, POOL, "Receive", l, u, p) /\ Tail(pending) = <<>>
  BY <1>1 DEF msg
<1>3. /\ msg.to = POOL /\ msg.kind = "Receive" /\ msg.amount = u /\ msg.owner = l
      /\ msg.payload = p.payload /\ msg.asked = p.asked /\ msg.account = p.account
      /\ msg.commit = p.commit
  BY <1>2 DEF PayloadMsg
<1>4. Handle /\ Completes
  BY DEF Deliver, Completes
<1>5. ReceiveWithdraw \/ ReceiveTransfer
  BY <1>3, <1>4, HandledAs, ContractAssumption
<1>6. running_accrued = accrued
  BY <1>1 DEF running_accrued, accrued
<1>7. u \in Nat /\ Inputs.requests \subseteq Nat /\ Inputs.commits \subseteq BOOLEAN
  BY InputsAssumption DEF Amount
<1>8. accrued.liquidity_index \in Nat /\ accrued.liquidity_index > 0
  BY AccruedFacts
<1>9. CASE ReceiveWithdraw /\ p.payload = "WithdrawExact"
  <2>1. /\ NotPaused
        /\ l \in lender_require_commit => p.commit
        /\ scaled_to_underlying_liquidity(u, accrued.liquidity_index) <= reserve_cash(accrued)
        /\ EmitWithdrawal(accrued, u, Burn(u), l, u - u)
    BY <1>3, <1>6, <1>9 DEF ReceiveWithdraw, Receive
  <2>2. u + (u - u) = u /\ u - u \in Nat /\ u >= u /\ p.commit \in BOOLEAN
    BY <1>7, <1>9, PayloadParts
  <2>3. /\ Burn(u) = IF TRUE THEN Burn(u) ELSE BurnFrom(l, u)
        /\ move(token, l, POOL, u)
             = IF TRUE THEN move(token, l, POOL, u + (u - u)) ELSE token
    BY <2>2
  <2>4. /\ commit_possible(p.commit)
        /\ UNCHANGED vars /\ pending' # <<>>
        /\ Paying(TRUE, l, u, p.commit, u - u)'
    BY <1>1, <1>2, <1>3, <1>4, <2>1, <2>2, <2>3, PaymentBegins
  <2>5. /\ accrued' = accrued /\ contract' = contract /\ token' = token
        /\ lender_require_commit' = lender_require_commit
    BY <2>4 DEF vars, accrued
  <2>6. NotPaused' /\ commit_possible(p.commit)'
    BY <2>1, <2>4, <2>5 DEF NotPaused, commit_possible
  <2>7. RedeemingExact(l, u, p.commit)'
    BY <1>1, <2>1, <2>2, <2>4, <2>5, <2>6 DEF RedeemingExact, Redeeming
  <2> QED
    BY <1>9, <2>4, <2>7
<1>10. CASE ReceiveWithdraw /\ p.payload # "WithdrawExact"
  <2>1. PICK n : n = underlying_to_scaled_liquidity(p.asked, accrued.liquidity_index)
    OBVIOUS
  <2>2. /\ NotPaused /\ p.payload = "Withdraw"
        /\ l \in lender_require_commit => p.commit
        /\ p.asked > 0
        /\ p.asked <= reserve_cash(accrued)
        /\ u >= n
        /\ EmitWithdrawal(accrued, n, Burn(n), l, u - n)
    BY <1>3, <1>6, <1>10, <2>1 DEF ReceiveWithdraw, Receive
  <2>3. p.commit \in BOOLEAN /\ p.asked \in Nat /\ n \in Nat
    BY <1>7, <1>8, <2>1, <2>2, PayloadParts, ConversionTypes
  <2>4. n + (u - n) = u /\ u - n \in Nat
    BY <1>7, <2>2, <2>3
  <2>5. /\ Burn(n) = IF TRUE THEN Burn(n) ELSE BurnFrom(l, n)
        /\ move(token, l, POOL, u)
             = IF TRUE THEN move(token, l, POOL, n + (u - n)) ELSE token
    BY <2>4
  <2>6. /\ commit_possible(p.commit)
        /\ UNCHANGED vars /\ pending' # <<>>
        /\ Paying(TRUE, l, n, p.commit, u - n)'
    BY <1>1, <1>2, <1>3, <1>4, <2>2, <2>3, <2>4, <2>5, PaymentBegins
  <2>7. /\ accrued' = accrued /\ contract' = contract /\ token' = token
        /\ lender_require_commit' = lender_require_commit
    BY <2>6 DEF vars, accrued
  <2>8. NotPaused' /\ commit_possible(p.commit)'
    BY <2>2, <2>6, <2>7 DEF NotPaused, commit_possible
  <2>9. Redeeming(l, u, n, p.commit)'
    BY <1>1, <2>2, <2>6, <2>7, <2>8 DEF Redeeming
  <2>10. RedeemingSome(l, u, p.asked, p.commit)'
    BY <2>1, <2>2, <2>7, <2>9 DEF RedeemingSome
  <2> QED
    BY <2>2, <2>6, <2>10
<1>11. CASE ReceiveTransfer /\ p.payload = "TransferExact"
  <2>1. /\ NotPaused /\ may_forward(l, p.account)
        /\ UNCHANGED running
        /\ Emit(<<TransferTo(p.account, u)>> \o Refund(u - u, l))
    BY <1>3, <1>11 DEF ReceiveTransfer, Receive
  <2>2. u >= u
    BY <1>7
  <2>3. /\ UNCHANGED vars /\ pending' # <<>>
        /\ Forwarding(l, u, p.account, u)'
    BY <1>1, <1>2, <1>4, <1>7, <2>1, <2>2, ForwardingBegins
  <2> QED
    BY <1>11, <2>3
<1>12. CASE ReceiveTransfer /\ p.payload # "TransferExact"
  <2>1. PICK n : n = underlying_to_scaled_liquidity(p.asked, accrued.liquidity_index)
    OBVIOUS
  <2>2. /\ NotPaused /\ may_forward(l, p.account) /\ p.payload = "Transfer"
        /\ p.asked > 0 /\ u >= n
        /\ UNCHANGED running
        /\ Emit(<<TransferTo(p.account, n)>> \o Refund(u - n, l))
    BY <1>3, <1>6, <1>12, <2>1 DEF ReceiveTransfer, Receive
  <2>3. n \in Nat
    BY <1>7, <1>8, <2>1, <2>2, PayloadParts, ConversionTypes
  <2>4. /\ UNCHANGED vars /\ pending' # <<>>
        /\ Forwarding(l, u, p.account, n)'
    BY <1>1, <1>2, <1>4, <1>7, <2>2, <2>3, ForwardingBegins
  <2>5. accrued' = accrued
    BY <2>4 DEF vars, accrued
  <2>6. ForwardingSome(l, u, p.account, p.asked)'
    BY <2>1, <2>2, <2>4, <2>5 DEF ForwardingSome
  <2> QED
    BY <2>2, <2>4, <2>6
<1> QED
  BY <1>5, <1>9, <1>10, <1>11, <1>12

-----------------------------------------------------------------------------
\* The owner's withdrawal: one message further, or done.
LEMMA WithdrawingStep ==
    ASSUME NEW s, NEW l, NEW x \in Nat, NEW c \in BOOLEAN,
           Withdrawing(s, l, x, c), Deliver
    PROVE  \/ UNCHANGED vars /\ pending' # <<>> /\ Withdrawing(s, l, x, c)'
           \/ pending' = <<>> /\ running' = Books' /\ Withdraw(s, l, x, c)
<1> DEFINE r       == accrued
           balance == token.balances[l]
           supply  == scaled_to_underlying_liquidity(balance, r.liquidity_index)
           wanted  == IF x = 0 THEN supply ELSE x
           scaled  == IF x = 0 THEN balance
                      ELSE underlying_to_scaled_liquidity(x, r.liquidity_index)
<1>1. PICK n : n = scaled
  OBVIOUS
<1>2. /\ NotPaused /\ is_owner(s) /\ balance > 0
      /\ wanted <= supply /\ wanted <= reserve_cash(r)
      /\ commit_possible(c)
      /\ Paying(FALSE, l, n, c, 0)
  BY <1>1 DEF Withdrawing
<1>3. \/ /\ UNCHANGED vars /\ pending' # <<>>
         /\ Paying(FALSE, l, n, c, 0)'
      \/ /\ pending' = <<>> /\ running' = Books'
         /\ can_burn(token, l, n)
         /\ token' = settled_token(FALSE, l, n, 0)
         /\ PayOutLiquidity(accrued, n, scaled_to_underlying_liquidity(n, accrued.liquidity_index))
         /\ UNCHANGED <<world_vars, config_vars, position_vars, sale_vars>>
  BY <1>2, PayingStep
<1>4. CASE UNCHANGED vars /\ pending' # <<>> /\ Paying(FALSE, l, n, c, 0)'
  <2>1. accrued' = accrued /\ contract' = contract /\ ownership' = ownership
        /\ token' = token /\ now' = now
    BY <1>4 DEF vars, accrued
  <2>2. NotPaused' /\ is_owner(s)' /\ commit_possible(c)'
    BY <1>2, <2>1 DEF NotPaused, is_owner, commit_possible
  <2>3. scaled' = n
    BY <1>1, <2>1
  <2> HIDE DEF scaled
  <2>4. Withdrawing(s, l, x, c)'
    BY <1>2, <1>4, <2>1, <2>2, <2>3 DEF Withdrawing, scaled
  <2> QED
    BY <1>4, <2>4
<1>5. CASE /\ pending' = <<>> /\ running' = Books'
           /\ can_burn(token, l, n)
           /\ token' = settled_token(FALSE, l, n, 0)
           /\ PayOutLiquidity(accrued, n,
                              scaled_to_underlying_liquidity(n, accrued.liquidity_index))
           /\ UNCHANGED <<world_vars, config_vars, position_vars, sale_vars>>
  <2>1. settled_token(FALSE, l, n, 0) = apply_burn(token, l, n)
    BY DEF settled_token
  <2> HIDE DEF scaled
  <2>2. Withdraw(s, l, x, c)
    BY <1>1, <1>2, <1>5, <2>1 DEF Withdraw, scaled
  <2> QED
    BY <1>5, <2>2
<1> QED
  BY <1>3, <1>4, <1>5

\* A withdrawal by Send: one message further, or done.
LEMMA RedeemingStep ==
    ASSUME NEW l, NEW u \in Nat, NEW n \in Nat, NEW c \in BOOLEAN,
           Redeeming(l, u, n, c), Deliver
    PROVE  \/ UNCHANGED vars /\ pending' # <<>> /\ Redeeming(l, u, n, c)'
           \/ pending' = <<>> /\ running' = Books' /\ u >= n /\ WithdrawUnits(accrued, l, u, n, c)
<1>1. /\ NotPaused /\ can_move(token, l, u)
      /\ l \in lender_require_commit => c
      /\ commit_possible(c)
      /\ u >= n
      /\ Paying(TRUE, l, n, c, u - n)
  BY DEF Redeeming
<1>2. PICK left \in Nat : left = u - n /\ n + left = u /\ (left > 0 <=> u > n)
  BY <1>1
<1> DEFINE worth == scaled_to_underlying_liquidity(n, accrued.liquidity_index)
<1>3. \/ /\ UNCHANGED vars /\ pending' # <<>>
         /\ Paying(TRUE, l, n, c, left)'
      \/ /\ pending' = <<>> /\ running' = Books'
         /\ can_burn(move(token, l, POOL, n + left), POOL, n)
         /\ token' = settled_token(TRUE, l, n, left)
         /\ PayOutLiquidity(accrued, n, worth)
         /\ UNCHANGED <<world_vars, config_vars, position_vars, sale_vars>>
  BY <1>1, <1>2, PayingStep
<1>4. CASE UNCHANGED vars /\ pending' # <<>> /\ Paying(TRUE, l, n, c, left)'
  <2>1. contract' = contract /\ token' = token /\ lender_require_commit' = lender_require_commit
    BY <1>4 DEF vars
  <2>2. NotPaused' /\ commit_possible(c)'
    BY <1>1, <2>1 DEF NotPaused, commit_possible
  <2>3. Redeeming(l, u, n, c)'
    BY <1>1, <1>2, <1>4, <2>1, <2>2 DEF Redeeming
  <2> QED
    BY <1>4, <2>3
<1>5. CASE /\ pending' = <<>> /\ running' = Books'
           /\ can_burn(move(token, l, POOL, n + left), POOL, n)
           /\ token' = settled_token(TRUE, l, n, left)
           /\ PayOutLiquidity(accrued, n, worth)
           /\ UNCHANGED <<world_vars, config_vars, position_vars, sale_vars>>
  <2>1. n > 0
    BY <1>5 DEF can_burn
  <2>2. settled_token(TRUE, l, n, left) = ledger_after_burn(l, u, n)
    BY <1>2 DEF settled_token, ledger_after_burn
  <2> HIDE DEF worth
  <2>3. WithdrawUnits(accrued, l, u, n, c)
    BY <1>1, <1>5, <2>1, <2>2 DEF WithdrawUnits, worth
  <2> QED
    BY <1>1, <1>5, <2>3
<1> QED
  BY <1>3, <1>4, <1>5

\* A transaction goes on, or makes the step of the pool that it stands for.
LEMMA InProgressStep ==
    ASSUME Inv, InProgress, Deliver
    PROVE  \/ UNCHANGED vars /\ pending' # <<>> /\ InProgress'
           \/ pending' = <<>> /\ running' = Books' /\ LenderStep
<1>1. /\ Inputs.redemptions \subseteq Nat /\ Inputs.units \subseteq Nat
      /\ Inputs.requests \subseteq Nat /\ Inputs.commits \subseteq BOOLEAN
  BY InputsAssumption DEF Amount
<1>2. accrued.liquidity_index \in Nat /\ accrued.liquidity_index > 0
  BY AccruedFacts
<1>3. CASE Submitted
  <2>1. PICK m : pending = <<m>> /\ FromAccount(m) /\ running = Books
    BY <1>3 DEF Submitted
  <2>2. CASE \E l \in Lenders, x \in Inputs.lends : m = LendMsg(l, x)
    BY <2>1, <2>2, SupplyBegins DEF InProgress
  <2>3. CASE \E s \in Operators, l \in Lenders, x \in Inputs.redemptions, c \in Inputs.commits :
                m = WithdrawMsg(s, l, x, c)
    <3>1. PICK s \in Operators, l \in Lenders, x \in Inputs.redemptions, c \in Inputs.commits :
             m = WithdrawMsg(s, l, x, c)
      BY <2>3
    <3>2. UNCHANGED vars /\ pending' # <<>> /\ Withdrawing(s, l, x, c)'
      BY <1>1, <2>1, <3>1, WithdrawalBegins
    <3> QED
      BY <3>2 DEF InProgress
  <2>4. CASE \E l \in Lenders, u \in Inputs.units, p \in Cw20ReceivePayload : m = SendMsg(l, u, p)
    <3>1. PICK l \in Lenders, u \in Inputs.units, p \in Cw20ReceivePayload : m = SendMsg(l, u, p)
      BY <2>4
    <3>2. UNCHANGED vars /\ pending' # <<>> /\ Received(l, u, p)'
      BY <2>1, <3>1, SendBegins
    <3> QED
      BY <3>2 DEF InProgress
  <2>5. CASE \E l \in Lenders, u \in Inputs.units, p \in Cw20ReceivePayload : m = ForgedReceive(l, u, p)
    <3>1. PICK l \in Lenders : \E u, p : m = ForgedReceive(l, u, p)
      BY <2>5
    <3>2. Handle
      BY DEF Deliver
    <3> QED
      BY <2>1, <3>1, <3>2, OthersAreRefused
  <2>6. CASE \E s \in Lenders, a \in Lenders \cup {POOL}, u \in Inputs.units,
               kind \in {"Mint", "Burn", "BurnFrom", "Transfer"} : m = Msg(s, TOKEN, kind, a, u)
    <3>1. PICK s \in Lenders : \E a, u, kind : /\ kind \in {"Mint", "Burn", "BurnFrom", "Transfer"}
                           /\ m = Msg(s, TOKEN, kind, a, u)
      BY <2>6
    <3>2. Handle
      BY DEF Deliver
    <3> QED
      BY <2>1, <3>1, <3>2, OthersAreRefused
  <2>7. FromAccount(m)
    BY <2>1
  <2> QED
    BY <2>2, <2>3, <2>4, <2>5, <2>6, <2>7 DEF FromAccount
<1>4. CASE \E l \in Lenders, x \in Inputs.lends : Lending(l, x)
  BY <1>4, MintEnds DEF LenderStep
<1>5. CASE \E l \in Lenders, u \in Inputs.units, p \in Cw20ReceivePayload : Received(l, u, p)
  <2>1. PICK l \in Lenders, u \in Inputs.units, p \in Cw20ReceivePayload : Received(l, u, p)
    BY <1>5
  <2>2. /\ UNCHANGED vars /\ pending' # <<>>
        /\ \/ p.payload = "WithdrawExact" /\ RedeemingExact(l, u, p.commit)'
           \/ p.payload = "Withdraw" /\ RedeemingSome(l, u, p.asked, p.commit)'
           \/ p.payload = "TransferExact" /\ Forwarding(l, u, p.account, u)'
           \/ p.payload = "Transfer" /\ ForwardingSome(l, u, p.account, p.asked)'
    BY <2>1, ReceivedGoesOn
  <2>3. InProgress'
    BY <2>2, PayloadParts DEF InProgress
  <2> QED
    BY <2>2, <2>3
<1>6. CASE \E s \in Operators, l \in Lenders, x \in Inputs.redemptions, c \in Inputs.commits :
              Withdrawing(s, l, x, c)
  <2>1. PICK s \in Operators, l \in Lenders, x \in Inputs.redemptions, c \in Inputs.commits :
           Withdrawing(s, l, x, c)
    BY <1>6
  <2>2. \/ UNCHANGED vars /\ pending' # <<>> /\ Withdrawing(s, l, x, c)'
        \/ pending' = <<>> /\ running' = Books' /\ Withdraw(s, l, x, c)
    BY <1>1, <2>1, WithdrawingStep
  <2> QED
    BY <2>2 DEF InProgress, LenderStep
<1>7. CASE \E l \in Lenders, u \in Inputs.units, c \in Inputs.commits : RedeemingExact(l, u, c)
  <2>1. PICK l \in Lenders, u \in Inputs.units, c \in Inputs.commits : RedeemingExact(l, u, c)
    BY <1>7
  <2>2. /\ scaled_to_underlying_liquidity(u, accrued.liquidity_index) <= reserve_cash(accrued)
        /\ Redeeming(l, u, u, c)
    BY <2>1 DEF RedeemingExact
  <2>3. \/ UNCHANGED vars /\ pending' # <<>> /\ Redeeming(l, u, u, c)'
        \/ pending' = <<>> /\ running' = Books' /\ WithdrawUnits(accrued, l, u, u, c)
    BY <1>1, <2>2, RedeemingStep
  <2>4. UNCHANGED vars => accrued' = accrued
    BY DEF vars, accrued
  <2>5. \/ UNCHANGED vars /\ pending' # <<>> /\ RedeemingExact(l, u, c)'
        \/ pending' = <<>> /\ running' = Books' /\ WithdrawExact(l, u, c)
    BY <2>2, <2>3, <2>4 DEF RedeemingExact, WithdrawExact
  <2> QED
    BY <2>5 DEF InProgress, LenderStep
<1>8. CASE \E l \in Lenders, u \in Inputs.units, x \in Inputs.requests, c \in Inputs.commits :
              RedeemingSome(l, u, x, c)
  <2>1. PICK l \in Lenders, u \in Inputs.units, x \in Inputs.requests, c \in Inputs.commits :
           RedeemingSome(l, u, x, c)
    BY <1>8
  <2>2. PICK n \in Nat : n = underlying_to_scaled_liquidity(x, accrued.liquidity_index)
    BY <1>1, <1>2, ConversionTypes
  <2>3. x > 0 /\ x <= reserve_cash(accrued) /\ Redeeming(l, u, n, c)
    BY <2>1, <2>2 DEF RedeemingSome
  <2>4. \/ UNCHANGED vars /\ pending' # <<>> /\ Redeeming(l, u, n, c)'
        \/ pending' = <<>> /\ running' = Books' /\ u >= n /\ WithdrawUnits(accrued, l, u, n, c)
    BY <1>1, <2>3, RedeemingStep
  <2>5. UNCHANGED vars => accrued' = accrued
    BY DEF vars, accrued
  <2>6. \/ UNCHANGED vars /\ pending' # <<>> /\ RedeemingSome(l, u, x, c)'
        \/ pending' = <<>> /\ running' = Books' /\ WithdrawCw20(l, u, x, c)
    BY <2>2, <2>3, <2>4, <2>5 DEF RedeemingSome, WithdrawCw20
  <2> QED
    BY <2>6 DEF InProgress, LenderStep
<1>9. CASE \E l \in Lenders, u \in Inputs.units, m \in Recipients : Forwarding(l, u, m, u)
  <2>1. PICK l \in Lenders, u \in Inputs.units, m \in Recipients : Forwarding(l, u, m, u)
    BY <1>9
  <2>2. \/ UNCHANGED vars /\ pending' # <<>> /\ Forwarding(l, u, m, u)'
        \/ pending' = <<>> /\ running' = Books' /\ m # POOL /\ TransferExact(l, u, m)
    BY <1>1, <2>1, ForwardingStep DEF TransferExact
  <2> QED
    BY <2>2 DEF InProgress, LenderStep, Recipients
<1>10. CASE \E l \in Lenders, u \in Inputs.units, m \in Recipients, x \in Inputs.requests :
               ForwardingSome(l, u, m, x)
  <2>1. PICK l \in Lenders, u \in Inputs.units, m \in Recipients, x \in Inputs.requests :
           ForwardingSome(l, u, m, x)
    BY <1>10
  <2>2. PICK n \in Nat : n = underlying_to_scaled_liquidity(x, accrued.liquidity_index)
    BY <1>1, <1>2, ConversionTypes
  <2>3. x > 0 /\ Forwarding(l, u, m, n)
    BY <2>1, <2>2 DEF ForwardingSome
  <2>4. \/ UNCHANGED vars /\ pending' # <<>> /\ Forwarding(l, u, m, n)'
        \/ pending' = <<>> /\ running' = Books' /\ m # POOL /\ ForwardUnits(l, u, m, n)
    BY <1>1, <2>3, ForwardingStep
  <2>5. UNCHANGED vars => accrued' = accrued
    BY DEF vars, accrued
  <2>6. u >= n
    BY <2>3 DEF Forwarding
  <2>7. \/ UNCHANGED vars /\ pending' # <<>> /\ ForwardingSome(l, u, m, x)'
        \/ pending' = <<>> /\ running' = Books' /\ m # POOL /\ TransferCw20(l, u, m, x)
    BY <2>2, <2>3, <2>4, <2>5, <2>6 DEF ForwardingSome, TransferCw20
  <2> QED
    BY <2>7 DEF InProgress, LenderStep, Recipients
<1> QED
  BY <1>3, <1>4, <1>5, <1>6, <1>7, <1>8, <1>9, <1>10 DEF InProgress

\* What an account sends is the first message of a transaction.
LEMMA SubmissionStep ==
    ASSUME pending = <<>>, running = Books, SubmitAny
    PROVE  UNCHANGED vars /\ pending' # <<>> /\ InProgress'
<1>1. \A m : FromAccount(m) /\ Submit(m) => UNCHANGED vars /\ pending' # <<>> /\ Submitted'
  <2> SUFFICES ASSUME NEW m, FromAccount(m), Submit(m)
               PROVE  UNCHANGED vars /\ pending' # <<>> /\ Submitted'
    OBVIOUS
  <2>1. pending' = <<m>> /\ UNCHANGED vars /\ running' = running
    BY DEF Submit
  <2>2. Books' = Books
    BY <2>1 DEF vars, Books
  <2>3. FromAccount(m)'
    BY DEF FromAccount
  <2> QED
    BY <2>1, <2>2, <2>3 DEF Submitted
<1>2. \E m : FromAccount(m) /\ Submit(m)
  BY DEF SubmitAny, FromAccount
<1> QED
  BY <1>1, <1>2 DEF InProgress

\* A stage is one of what the chain, the queue and the running books are.
LEMMA UnmovedInProgress ==
    ASSUME InProgress, UNCHANGED message_vars
    PROVE  InProgress'
<1>1. /\ pending' = pending /\ running' = running
      /\ reserve' = reserve /\ token' = token /\ bank' = bank
      /\ contract' = contract /\ ownership' = ownership /\ now' = now
      /\ lender_require_commit' = lender_require_commit
  BY DEF message_vars, vars
<1>2. accrued' = accrued /\ Books' = Books
  BY <1>1 DEF accrued, Books
<1>3. Submitted => Submitted'
  BY <1>1, <1>2 DEF Submitted, FromAccount
<1>4. \A l, x : Lending(l, x) => Lending(l, x)'
  BY <1>1, <1>2 DEF Lending, Open, has_attrs
<1>5. \A l, u, p : Received(l, u, p) => Received(l, u, p)'
  BY <1>1 DEF Received
<1>6. \A sent, l, n, c, left : Paying(sent, l, n, c, left) => Paying(sent, l, n, c, left)'
  BY <1>1, <1>2 DEF Paying, can_send
<1>7. /\ NotPaused => NotPaused'
      /\ \A s : is_owner(s) => is_owner(s)'
      /\ \A c : commit_possible(c) => commit_possible(c)'
      /\ \A l, m : may_forward(l, m) => may_forward(l, m)'
  BY <1>1 DEF NotPaused, is_owner, commit_possible, may_forward
<1>8. \A s, l, x, c : Withdrawing(s, l, x, c) => Withdrawing(s, l, x, c)'
  <2> SUFFICES ASSUME NEW s, NEW l, NEW x, NEW c, Withdrawing(s, l, x, c)
               PROVE  Withdrawing(s, l, x, c)'
    OBVIOUS
  <2> DEFINE n == IF x = 0 THEN token.balances[l]
                  ELSE underlying_to_scaled_liquidity(x, accrued.liquidity_index)
  <2>1. NotPaused' /\ is_owner(s)' /\ commit_possible(c)'
    BY <1>7 DEF Withdrawing
  <2>2. Paying(FALSE, l, n, c, 0)'
    <3>1. n' = n
      BY <1>1, <1>2
    <3>2. Paying(FALSE, l, n, c, 0)
      BY DEF Withdrawing
    <3> HIDE DEF n
    <3> QED
      BY <1>6, <3>1, <3>2
  <2> QED
    BY <1>1, <1>2, <2>1, <2>2 DEF Withdrawing
<1>9. \A l, u, n, c : Redeeming(l, u, n, c) => Redeeming(l, u, n, c)'
  BY <1>1, <1>6, <1>7 DEF Redeeming
<1>10. \A l, u, c : RedeemingExact(l, u, c) => RedeemingExact(l, u, c)'
  BY <1>2, <1>9 DEF RedeemingExact
<1>11. \A l, u, x, c : RedeemingSome(l, u, x, c) => RedeemingSome(l, u, x, c)'
  BY <1>2, <1>9 DEF RedeemingSome
<1>12. \A l, u, m, n : Forwarding(l, u, m, n) => Forwarding(l, u, m, n)'
  BY <1>1, <1>7 DEF Forwarding
<1>13. \A l, u, m, x : ForwardingSome(l, u, m, x) => ForwardingSome(l, u, m, x)'
  BY <1>2, <1>12 DEF ForwardingSome
<1> QED
  BY <1>3, <1>4, <1>5, <1>8, <1>10, <1>11, <1>12, <1>13 DEF InProgress

\* Whatever is delivered, refused or submitted, the chain takes a step of Pool
\* or none, and the transaction is at a stage again.
LEMMA MessageStep ==
    ASSUME MessageInv, [MessageNext]_message_vars
    PROVE  MessageInv' /\ [Next]_vars
<1>1. BooksInv /\ Inv /\ (IF pending = <<>> THEN running = Books ELSE InProgress)
  BY DEF MessageInv, BooksInv
<1>2. ASSUME [Next]_vars, IF pending' = <<>> THEN running' = Books' ELSE InProgress'
      PROVE  MessageInv'
  BY <1>1, <1>2, BooksInvStep DEF MessageInv
<1>3. CASE SubmitAny
  <2>1. pending = <<>> /\ running = Books
    BY <1>1, <1>3 DEF SubmitAny, Submit
  <2> QED
    BY <1>2, <1>3, <2>1, SubmissionStep
<1>4. CASE Deliver
  <2>1. pending # <<>>
    BY <1>4, HandledAs DEF Deliver
  <2>2. \/ UNCHANGED vars /\ pending' # <<>> /\ InProgress'
        \/ pending' = <<>> /\ running' = Books' /\ LenderStep
    BY <1>1, <1>4, <2>1, InProgressStep
  <2> QED
    BY <1>2, <2>2 DEF Next
<1>5. CASE Revert
  <2>1. UNCHANGED vars /\ pending' = <<>> /\ running' = Books
    BY <1>5 DEF Revert
  <2>2. Books' = Books
    BY <2>1 DEF vars, Books
  <2> QED
    BY <1>2, <2>1, <2>2
<1>6. CASE Otherwise
  <2>1. Next /\ pending' = <<>> /\ running' = Books'
    BY <1>6 DEF Otherwise, Next
  <2> QED
    BY <1>2, <2>1
<1>7. CASE UNCHANGED message_vars
  <2>1. UNCHANGED vars /\ pending' = pending /\ running' = running
    BY <1>7 DEF message_vars
  <2>2. Books' = Books
    BY <2>1 DEF vars, Books
  <2>3. CASE pending = <<>>
    BY <1>1, <1>2, <2>1, <2>2, <2>3
  <2>4. CASE pending # <<>>
    <3>1. InProgress'
      BY <1>1, <1>7, <2>4, UnmovedInProgress
    <3> QED
      BY <1>2, <2>1, <2>4, <3>1
  <2> QED
    BY <2>3, <2>4
<1> QED
  BY <1>3, <1>4, <1>5, <1>6, <1>7 DEF MessageNext

\* What the chain keeps follows Pool, step by step: a transaction of several
\* messages, each of which may be refused after the ones before it have been
\* executed, is one step of Pool or none.  No balance is read between the
\* pool's writing of it and the token's, no unit is forwarded that a later
\* message takes back, and no message sent past the pool moves anything.
THEOREM MessagesImplementPool == MessageSpec => ImplementsAtomicPool
<1>1. MessageInit => Init /\ MessageInv
  BY BooksInvInit DEF MessageInit, MessageInv
<1>2. MessageInv /\ [MessageNext]_message_vars => MessageInv' /\ [Next]_vars
  BY MessageStep
<1> QED
  BY <1>1, <1>2, PTL DEF MessageSpec, ImplementsAtomicPool, Spec

-----------------------------------------------------------------------------
\* The messages that mint or burn units of the pool.
Owed(m, kinds) == m.from = POOL /\ m.to = TOKEN /\ m.kind \in kinds

\* A queue in which no message mints or burns.
LEMMA NothingInFlight ==
    ASSUME NEW kinds, NEW S, pending \in Seq(S), \A m \in S : ~ Owed(m, kinds)
    PROVE  InFlight(kinds) = 0
<1> DEFINE due(m) == IF m.from = POOL /\ m.to = TOKEN /\ m.kind \in kinds THEN m.amount ELSE 0
           f == [i \in DOMAIN pending |-> due(pending[i])]
<1>1. DOMAIN pending = 1 .. Len(pending) /\ Len(pending) \in Nat
      /\ \A i \in DOMAIN pending : pending[i] \in S
  OBVIOUS
<1>2. IsFiniteSet(DOMAIN pending)
  BY <1>1, FS_Interval
<1>3. \A i \in DOMAIN pending : f[i] = 0
  BY <1>1 DEF Owed
<1> HIDE DEF f
<1>4. SumFunctionOnSet(f, DOMAIN pending) = 0
  BY <1>2, <1>3, SumOfZeros
<1> QED
  BY <1>4 DEF f, InFlight

\* A queue of which only the first message mints or burns.
LEMMA FirstInFlight ==
    ASSUME NEW kinds, NEW S, NEW m, NEW s \in Seq(S), pending = <<m>> \o s,
           Owed(m, kinds), m.amount \in Int, \A x \in S : ~ Owed(x, kinds)
    PROVE  InFlight(kinds) = m.amount
<1> DEFINE due(x) == IF x.from = POOL /\ x.to = TOKEN /\ x.kind \in kinds THEN x.amount ELSE 0
           f == [i \in DOMAIN pending |-> due(pending[i])]
           rest == DOMAIN pending \ {1}
<1>1. /\ DOMAIN pending = 1 .. Len(s) + 1 /\ Len(s) \in Nat
      /\ pending[1] = m
      /\ \A i \in rest : pending[i] \in S
  <2> DEFINE M == S \cup {m}  x == <<m>>
  <2>1. x \in Seq(M) /\ Len(x) = 1 /\ x[1] = m /\ s \in Seq(M) /\ Len(s) \in Nat
        /\ \A i \in 1 .. Len(s) : s[i] \in S
    OBVIOUS
  <2> HIDE DEF M, x
  <2>2. /\ x \o s \in Seq(M) /\ Len(x \o s) = Len(x) + Len(s)
        /\ \A i \in 1 .. Len(x) + Len(s) :
              (x \o s)[i] = IF i <= Len(x) THEN x[i] ELSE s[i - Len(x)]
    BY <2>1, ConcatProperties
  <2>3. pending = x \o s
    BY DEF x
  <2>4. DOMAIN pending = 1 .. Len(s) + 1
    BY <2>1, <2>2, <2>3
  <2>5. \A i \in 1 .. Len(s) + 1 : pending[i] = IF i <= 1 THEN x[i] ELSE s[i - 1]
    BY <2>1, <2>2, <2>3
  <2>6. pending[1] = m
    BY <2>1, <2>5
  <2>7. ASSUME NEW i \in rest PROVE pending[i] \in S
    <3>1. i \in 1 .. Len(s) + 1 /\ i # 1
      BY <2>4
    <3>2. pending[i] = s[i - 1] /\ i - 1 \in 1 .. Len(s)
      BY <2>1, <2>5, <3>1
    <3> QED
      BY <2>1, <3>2
  <2> QED
    BY <2>1, <2>4, <2>6, <2>7
<1>2. /\ IsFiniteSet(DOMAIN pending) /\ 1 \in DOMAIN pending
      /\ IsFiniteSet(rest)
  <2>1. Len(s) + 1 \in Int /\ 1 \in 1 .. Len(s) + 1
    BY <1>1
  <2>2. IsFiniteSet(DOMAIN pending)
    BY <1>1, <2>1, FS_Interval
  <2> QED
    BY <1>1, <2>1, <2>2, FS_Subset
<1>3. f[1] = m.amount /\ \A i \in rest : f[i] = 0
  BY <1>1, <1>2 DEF Owed
<1>4. \A i \in DOMAIN pending : f[i] \in Int
  <2> HIDE DEF f
  <2> QED
    BY <1>3
<1> HIDE DEF f
<1>5. SumFunctionOnSet(f, DOMAIN pending) = f[1] + SumFunctionOnSet(f, rest)
  <2> DEFINE D == DOMAIN pending
  <2>1. IsFiniteSet(D) /\ 1 \in D /\ \A i \in D : f[i] \in Int
    BY <1>2, <1>4
  <2> HIDE DEF D
  <2>2. SumFunctionOnSet(f, D) = f[1] + SumFunctionOnSet(f, D \ {1})
    <3>1. \A x \in D : SumFunctionOnSet(f, D) = f[x] + SumFunctionOnSet(f, D \ {x})
      BY ONLY <2>1, SumSplit
    <3> QED
      BY ONLY <2>1, <3>1
  <2> QED
    BY <2>2 DEF D
<1>6. SumFunctionOnSet(f, rest) = 0
  BY <1>2, <1>3, SumOfZeros
<1>7. SumFunctionOnSet(f, DOMAIN pending) = m.amount
  BY <1>3, <1>5, <1>6
<1> QED
  BY <1>7 DEF f, InFlight

\* The messages of the pool to other contracts, and its transfers, owe nothing.
LEMMA PaymentsOweNothing ==
    ASSUME NEW kinds, "Transfer" \notin kinds, NEW l, NEW n
    PROVE  /\ ~ Owed(bank_send_underlying(l, n), kinds)
           /\ ~ Owed(new_commit_message(l, n), kinds)
           /\ ~ Owed(TransferTo(l, n), kinds)
BY ContractAssumption
DEF Owed, bank_send_underlying, new_commit_message, TransferTo, Msg

\* The queue of a payment in its three stages.
LEMMA PayingAccounted ==
    ASSUME NEW sent \in BOOLEAN, NEW l, NEW n \in Nat, NEW c \in BOOLEAN, NEW left,
           Inv, Paying(sent, l, n, c, left)
    PROVE  TotalsDifferByWhatIsInFlight
<1> DEFINE r      == accrued
           worth  == scaled_to_underlying_liquidity(n, r.liquidity_index)
           before == IF sent THEN move(token, l, POOL, n + left) ELSE token
           holder == IF sent THEN POOL ELSE l
           after  == apply_burn(before, holder, n)
           commit == CommitFunds(c, l, worth)
           rest   == Refund(left, l)
           last   == commit \o rest
           less   == [r EXCEPT !.total_scaled_liquidity = @ - n]
           paid   == [bank EXCEPT ![LENDING] = @ - worth]
           burn   == IF sent THEN Burn(n) ELSE BurnFrom(l, n)
           send   == bank_send_underlying(l, worth)
           S      == {send, new_commit_message(l, worth), TransferTo(l, left)}
<1>1. /\ \/ /\ pending = <<burn>> \o (<<send>> \o last)
            /\ running = [reserve |-> less, token |-> before, bank |-> bank]
         \/ /\ pending = <<send>> \o last
            /\ running = [reserve |-> less, token |-> after, bank |-> bank]
         \/ /\ pending \in {last, rest}
            /\ running = [reserve |-> less, token |-> after, bank |-> paid]
  BY DEF Paying
<1>2. /\ r \in Reserve /\ r.total_scaled_liquidity = token.total_supply
      /\ token.total_supply \in Nat
  BY AccruedFacts DEF Inv, TypeOK, Token, Amount
<1>3. /\ less.total_scaled_liquidity = token.total_supply - n
      /\ before.total_supply = token.total_supply
      /\ after.total_supply = token.total_supply - n
  BY <1>2 DEF Reserve, move, apply_burn
<1>4. /\ send \in S /\ rest \in Seq(S) /\ last \in Seq(S)
      /\ <<send>> \o last \in Seq(S)
  <2>1. send \in S /\ new_commit_message(l, worth) \in S /\ TransferTo(l, left) \in S
    OBVIOUS
  <2> HIDE DEF S, send, worth
  <2>2. rest \in Seq(S)
    BY <2>1 DEF Refund
  <2>3. commit = IF c THEN <<new_commit_message(l, worth)>> ELSE <<>>
    BY DEF CommitFunds
  <2>4. commit \in Seq(S)
    BY <2>1, <2>3
  <2>5. last \in Seq(S)
    BY <2>2, <2>4, ConcatProperties
  <2> HIDE DEF last
  <2>6. <<send>> \o last \in Seq(S)
    BY <2>1, <2>5, Popped
  <2> QED
    BY <2>1, <2>2, <2>5, <2>6
<1>5. \A kinds : "Transfer" \notin kinds => \A m \in S : ~ Owed(m, kinds)
  BY PaymentsOweNothing
<1>6. /\ Owed(burn, {"Burn", "BurnFrom"}) /\ ~ Owed(burn, {"Mint"})
      /\ burn.amount = n
  BY DEF Owed, Burn, BurnFrom, Msg
<1> HIDE DEF less, before, after, burn, send, last, rest, S, paid
<1>7. CASE /\ pending = <<burn>> \o (<<send>> \o last)
           /\ running = [reserve |-> less, token |-> before, bank |-> bank]
  <2> DEFINE next == <<send>> \o last
             M == S \cup {burn}
  <2>1. next \in Seq(S) /\ pending = <<burn>> \o next
    BY <1>4, <1>7
  <2>2. burn \in M /\ next \in Seq(M)
    BY <2>1
  <2> HIDE DEF next
  <2>3. InFlight({"Burn", "BurnFrom"}) = n
    <3>1. \A m \in S : ~ Owed(m, {"Burn", "BurnFrom"})
      BY <1>5
    <3>2. burn.amount \in Int
      BY <1>6
    <3> QED
      BY <1>6, <2>1, <3>1, <3>2, FirstInFlight
  <2>4. \A m \in M : ~ Owed(m, {"Mint"})
    BY <1>5, <1>6
  <2> HIDE DEF M
  <2>5. pending \in Seq(M)
    BY <2>1, <2>2, Popped
  <2>6. InFlight({"Mint"}) = 0
    BY <2>4, <2>5, NothingInFlight
  <2>7. /\ running.reserve.total_scaled_liquidity = token.total_supply - n
        /\ running.token.total_supply = token.total_supply
    BY <1>3, <1>7
  <2> QED
    BY <1>2, <2>3, <2>6, <2>7 DEF TotalsDifferByWhatIsInFlight
<1>8. ASSUME pending \in Seq(S), running.reserve = less, running.token = after
      PROVE  TotalsDifferByWhatIsInFlight
  <2>1. InFlight({"Burn", "BurnFrom"}) = 0 /\ InFlight({"Mint"}) = 0
    BY <1>5, <1>8, NothingInFlight
  <2>2. /\ running.reserve.total_scaled_liquidity = token.total_supply - n
        /\ running.token.total_supply = token.total_supply - n
    BY <1>3, <1>8
  <2> QED
    BY <1>2, <2>1, <2>2 DEF TotalsDifferByWhatIsInFlight
<1>9. CASE /\ pending = <<send>> \o last
           /\ running = [reserve |-> less, token |-> after, bank |-> bank]
  BY <1>4, <1>8, <1>9
<1>10. CASE /\ pending \in {last, rest}
            /\ running = [reserve |-> less, token |-> after, bank |-> paid]
  BY <1>4, <1>8, <1>10
<1> QED
  BY <1>1, <1>7, <1>9, <1>10

\* A move of units leaves the supply.
LEMMA MoveKeepsSupply ==
    ASSUME NEW t, t = [balances |-> t.balances, total_supply |-> t.total_supply],
           NEW x, NEW y, NEW n
    PROVE  move(t, x, y, n)
              = [balances |-> move(t, x, y, n).balances, total_supply |-> t.total_supply]
<1> DEFINE after == [[t.balances EXCEPT ![x] = @ - n] EXCEPT ![y] = @ + n]
<1>1. move(t, x, y, n) = [t EXCEPT !.balances = after]
  BY DEF move
<1> HIDE DEF after
<1>2. move(t, x, y, n) = [balances |-> after, total_supply |-> t.total_supply]
  BY <1>1
<1> QED
  BY <1>2

\* Nothing is owed while units are only passed on.
LEMMA ForwardingAccounted ==
    ASSUME NEW l, NEW u, NEW m, NEW n, Inv, Forwarding(l, u, m, n)
    PROVE  TotalsDifferByWhatIsInFlight
<1> DEFINE first == TransferTo(m, n)
           rest  == Refund(u - n, l)
           S     == {first, TransferTo(l, u - n)}
           at_pool == move(token, l, POOL, u)
<1>1. \/ /\ pending = <<first>> \o rest
         /\ running = [reserve |-> reserve, token |-> at_pool, bank |-> bank]
      \/ /\ pending = rest
         /\ running = [reserve |-> reserve, token |-> move(at_pool, POOL, m, n), bank |-> bank]
  BY DEF Forwarding
<1>2. /\ pending \in {<<first>> \o rest, rest}
      /\ running.reserve = reserve
      /\ running.token.total_supply = token.total_supply
  <2>1. /\ at_pool.total_supply = token.total_supply
        /\ move(at_pool, POOL, m, n).total_supply = token.total_supply
    <3>1. token = [balances |-> token.balances, total_supply |-> token.total_supply]
      BY DEF Inv, TypeOK, Token
    <3>2. at_pool = [balances |-> at_pool.balances, total_supply |-> token.total_supply]
      BY <3>1, MoveKeepsSupply
    <3> HIDE DEF at_pool
    <3>3. move(at_pool, POOL, m, n).total_supply = at_pool.total_supply
      BY <3>2 DEF move
    <3> QED
      BY <3>2, <3>3
  <2> HIDE DEF at_pool, first, rest
  <2> QED
    BY <1>1, <2>1
<1>3. first \in S /\ rest \in Seq(S)
  <2>1. first \in S /\ TransferTo(l, u - n) \in S
    OBVIOUS
  <2> HIDE DEF S, first
  <2>2. rest = IF u - n > 0 THEN <<TransferTo(l, u - n)>> ELSE <<>>
    BY DEF Refund
  <2> HIDE DEF rest
  <2> QED
    BY <2>1, <2>2
<1>4. \A kinds : "Transfer" \notin kinds => \A x \in S : ~ Owed(x, kinds)
  BY PaymentsOweNothing
<1> HIDE DEF first, rest, S
<1>5. pending \in Seq(S)
  <2>1. <<first>> \o rest \in Seq(S)
    BY <1>3, Popped
  <2> QED
    BY <1>2, <1>3, <2>1
<1>6. InFlight({"Burn", "BurnFrom"}) = 0 /\ InFlight({"Mint"}) = 0
  BY <1>4, <1>5, NothingInFlight
<1>7. reserve.total_scaled_liquidity = token.total_supply /\ token.total_supply \in Nat
  BY DEF Inv, SupplyAgrees, TypeOK, Token, Amount
<1> QED
  BY <1>2, <1>6, <1>7 DEF TotalsDifferByWhatIsInFlight

\* A queue of one message, which owes nothing.
LEMMA SingleOwesNothing ==
    ASSUME NEW m, pending = <<m>>, NEW kinds, ~ Owed(m, kinds)
    PROVE  InFlight(kinds) = 0
<1> DEFINE S == {m}
<1>1. m \in S /\ \A x \in S : ~ Owed(x, kinds)
  OBVIOUS
<1> HIDE DEF S
<1>2. pending \in Seq(S)
  BY <1>1
<1> QED
  BY <1>1, <1>2, NothingInFlight

\* At every stage the totals differ by what the queue owes.
LEMMA TotalsAccounted ==
    ASSUME MessageInv
    PROVE  TotalsDifferByWhatIsInFlight
<1>1. Inv /\ (IF pending = <<>> THEN running = Books ELSE InProgress)
  BY DEF MessageInv, BooksInv
<1>2. /\ reserve.total_scaled_liquidity = token.total_supply /\ token.total_supply \in Nat
      /\ token = [balances |-> token.balances, total_supply |-> token.total_supply]
  BY <1>1 DEF Inv, SupplyAgrees, TypeOK, Token, Amount
<1>3. /\ accrued.liquidity_index \in Nat /\ accrued.liquidity_index > 0
      /\ accrued \in Reserve /\ accrued.total_scaled_liquidity = token.total_supply
  BY <1>1, AccruedFacts
<1>4. /\ Inputs.redemptions \subseteq Nat /\ Inputs.units \subseteq Nat /\ Inputs.lends \subseteq Nat
      /\ Inputs.requests \subseteq Nat /\ Inputs.commits \subseteq BOOLEAN
  BY InputsAssumption DEF Amount
<1>5. ASSUME InFlight({"Burn", "BurnFrom"}) = 0, InFlight({"Mint"}) = 0,
             running.reserve = reserve, running.token.total_supply = token.total_supply
      PROVE  TotalsDifferByWhatIsInFlight
  BY <1>2, <1>5 DEF TotalsDifferByWhatIsInFlight
<1>6. ASSUME NEW m, pending = <<m>>, m.from # POOL,
             running.reserve = reserve, running.token.total_supply = token.total_supply
      PROVE  TotalsDifferByWhatIsInFlight
  BY <1>5, <1>6, SingleOwesNothing DEF Owed
<1>7. CASE pending = <<>>
  <2>1. pending \in Seq({})
    BY <1>7
  <2>2. InFlight({"Burn", "BurnFrom"}) = 0 /\ InFlight({"Mint"}) = 0
    BY <2>1, NothingInFlight
  <2> QED
    BY <1>1, <1>5, <1>7, <2>2 DEF Books
<1>8. CASE Submitted
  <2>1. PICK m : pending = <<m>> /\ FromAccount(m) /\ running = Books
    BY <1>8 DEF Submitted
  <2>2. m.from \in Lenders \cup Operators
    <3>1. \A l, x : LendMsg(l, x).from = l
      BY DEF LendMsg, Msg
    <3>2. \A s, l, x, c : WithdrawMsg(s, l, x, c).from = s
      BY DEF WithdrawMsg, Msg
    <3>3. \A l, u, p : SendMsg(l, u, p).from = l /\ ForgedReceive(l, u, p).from = l
      BY DEF SendMsg, ForgedReceive, PayloadMsg
    <3>4. \A s, kind, a, u : Msg(s, TOKEN, kind, a, u).from = s
      BY DEF Msg
    <3>5. FromAccount(m)
      BY <2>1
    <3>6. CASE \E l \in Lenders, u \in Inputs.units, p \in Cw20ReceivePayload :
                  m = SendMsg(l, u, p) \/ m = ForgedReceive(l, u, p)
      BY <3>3, <3>6
    <3>7. CASE \E l \in Lenders, x \in Inputs.lends : m = LendMsg(l, x)
      BY <3>1, <3>7
    <3>8. CASE \E s \in Operators, l \in Lenders, x \in Inputs.redemptions, c \in Inputs.commits :
                  m = WithdrawMsg(s, l, x, c)
      BY <3>2, <3>8
    <3>9. CASE \E s \in Lenders, a \in Lenders \cup {POOL}, u \in Inputs.units,
                  kind \in {"Mint", "Burn", "BurnFrom", "Transfer"} : m = Msg(s, TOKEN, kind, a, u)
      BY <3>4, <3>9
    <3> QED
      BY <3>5, <3>6, <3>7, <3>8, <3>9 DEF FromAccount
  <2>3. m.from # POOL
    BY <2>2, AddressAssumption DEF Accounts
  <2> QED
    BY <1>6, <2>1, <2>3 DEF Books
<1>9. ASSUME NEW l \in Lenders, NEW x \in Inputs.lends, Lending(l, x)
      PROVE  TotalsDifferByWhatIsInFlight
  <2> DEFINE r == accrued
             n == underlying_to_scaled_liquidity(x, r.liquidity_index)
  <2>1. /\ pending = <<Mint(l, n)>>
        /\ running = [ reserve |-> [r EXCEPT !.total_scaled_liquidity = @ + n],
                       token   |-> token,
                       bank    |-> [bank EXCEPT ![LENDING] = @ + x] ]
    BY <1>9 DEF Lending
  <2>2. n \in Nat
    BY <1>3, <1>4, ConversionTypes
  <2>3. /\ Owed(Mint(l, n), {"Mint"}) /\ ~ Owed(Mint(l, n), {"Burn", "BurnFrom"})
        /\ Mint(l, n).amount = n
    BY DEF Owed, Mint, Msg
  <2> HIDE DEF n
  <2>4. InFlight({"Burn", "BurnFrom"}) = 0
    BY <2>1, <2>3, SingleOwesNothing
  <2>5. InFlight({"Mint"}) = n
    <3> DEFINE m == Mint(l, n)  s == <<>>  S == {}
    <3>1. /\ s \in Seq(S) /\ pending = <<m>> \o s
          /\ \A y \in S : ~ Owed(y, {"Mint"})
      BY <2>1
    <3>2. Owed(m, {"Mint"}) /\ m.amount = n /\ m.amount \in Int
      BY <2>2, <2>3
    <3> HIDE DEF m, s, S
    <3> QED
      BY <3>1, <3>2, FirstInFlight
  <2>6. /\ running.reserve.total_scaled_liquidity = token.total_supply + n
        /\ running.token.total_supply = token.total_supply
    BY <1>3, <2>1 DEF Reserve
  <2> QED
    BY <1>2, <2>2, <2>4, <2>5, <2>6 DEF TotalsDifferByWhatIsInFlight
<1>10. ASSUME NEW l, NEW u, NEW p, Received(l, u, p)
       PROVE  TotalsDifferByWhatIsInFlight
  <2>1. /\ pending = <<PayloadMsg(TOKEN, POOL, "Receive", l, u, p)>>
        /\ running = [reserve |-> reserve, token |-> move(token, l, POOL, u), bank |-> bank]
    BY <1>10 DEF Received
  <2>2. PayloadMsg(TOKEN, POOL, "Receive", l, u, p).from # POOL
    BY ContractAssumption DEF PayloadMsg
  <2>3. move(token, l, POOL, u).total_supply = token.total_supply
    BY <1>2 DEF move
  <2> QED
    BY <1>6, <2>1, <2>2, <2>3
<1>11. ASSUME NEW s, NEW l \in Lenders, NEW x \in Nat, NEW c \in BOOLEAN, Withdrawing(s, l, x, c)
       PROVE  TotalsDifferByWhatIsInFlight
  <2>1. PICK n : /\ n = IF x = 0 THEN token.balances[l]
                        ELSE underlying_to_scaled_liquidity(x, accrued.liquidity_index)
                 /\ Paying(FALSE, l, n, c, 0)
    BY <1>11 DEF Withdrawing
  <2>2. token.balances[l] \in Nat
    BY <1>1 DEF Inv, TypeOK, Token, Amount, Accounts
  <2>3. n \in Nat
    BY <1>3, <2>1, <2>2, ConversionTypes
  <2> QED
    BY <1>1, <2>1, <2>3, PayingAccounted
<1>12. ASSUME NEW l, NEW u, NEW n \in Nat, NEW c \in BOOLEAN, Redeeming(l, u, n, c)
       PROVE  TotalsDifferByWhatIsInFlight
  BY <1>1, <1>12, PayingAccounted DEF Redeeming
<1>13. ASSUME NEW l, NEW u \in Nat, NEW c \in BOOLEAN, RedeemingExact(l, u, c)
       PROVE  TotalsDifferByWhatIsInFlight
  BY <1>12, <1>13 DEF RedeemingExact
<1>14. ASSUME NEW l, NEW u, NEW x \in Nat, NEW c \in BOOLEAN, RedeemingSome(l, u, x, c)
       PROVE  TotalsDifferByWhatIsInFlight
  BY <1>3, <1>12, <1>14, ConversionTypes DEF RedeemingSome
<1>15. ASSUME NEW l, NEW u, NEW m, NEW n, Forwarding(l, u, m, n)
       PROVE  TotalsDifferByWhatIsInFlight
  BY <1>1, <1>15, ForwardingAccounted
<1>16. ASSUME NEW l, NEW u, NEW m, NEW x, ForwardingSome(l, u, m, x)
       PROVE  TotalsDifferByWhatIsInFlight
  BY <1>15, <1>16 DEF ForwardingSome
<1>17. CASE \E s \in Operators, l \in Lenders, x \in Inputs.redemptions, c \in Inputs.commits :
               Withdrawing(s, l, x, c)
  BY <1>4, <1>11, <1>17
<1>18. CASE \E l \in Lenders, u \in Inputs.units, c \in Inputs.commits : RedeemingExact(l, u, c)
  BY <1>4, <1>13, <1>18
<1>19. CASE \E l \in Lenders, u \in Inputs.units, x \in Inputs.requests, c \in Inputs.commits :
               RedeemingSome(l, u, x, c)
  BY <1>4, <1>14, <1>19
<1> QED
  BY <1>1, <1>7, <1>8, <1>9, <1>10, <1>15, <1>16, <1>17, <1>18, <1>19 DEF InProgress

\* At no point of a transaction do the pool's total and the token's supply
\* differ by anything but the units that the queue has still to mint or burn:
\* no message is lost, doubled or made out for another amount.
THEOREM TotalsAlwaysAccounted == MessageSpec => []TotalsDifferByWhatIsInFlight
<1>1. MessageInit => MessageInv
  BY BooksInvInit DEF MessageInit, MessageInv
<1>2. MessageInv /\ [MessageNext]_message_vars => MessageInv'
  BY MessageStep
<1>3. MessageInv => TotalsDifferByWhatIsInFlight
  BY TotalsAccounted
<1> QED
  BY <1>1, <1>2, <1>3, PTL DEF MessageSpec

-----------------------------------------------------------------------------
\* Messages the pool emits are accepted.  The cash it pays out of is in the
\* bank, as long as the claims of the lenders are covered.
LEMMA CashIsInTheBank ==
    ASSUME Inv, ClaimsAreCovered
    PROVE  /\ bank[LENDING] \in Nat /\ reserve_cash(accrued) \in Int
           /\ reserve_cash(accrued) <= bank[LENDING]
<1>1. PICK s, li, t, bi, deficit, coins \in Nat :
         /\ s = accrued.total_scaled_liquidity /\ li = accrued.liquidity_index
         /\ t = accrued.total_scaled_borrow /\ bi = accrued.borrow_index
         /\ deficit = accrued.deficit_underlying /\ coins = bank[LENDING]
  BY AccruedFacts DEF Inv, TypeOK, Amount, Denoms
<1>2. PICK owed \in Nat, lent \in Nat : owed = s * li /\ lent = t * bi
  OBVIOUS
<1>3. owed <= (coins + deficit) * ONE + lent
  BY <1>1, <1>2 DEF ClaimsAreCovered, total_liquidity, total_borrow
<1>4. PICK q \in Nat : q = liquidity_u128(accrued) /\ q * ONE <= owed
  BY <1>1, <1>2, UnderlyingIsCovered DEF liquidity_u128
<1>5. PICK p \in Nat : p = borrow_u128(accrued) /\ lent < ONE * p + ONE
  <2>1. (t * ONE) * bi = lent * ONE
    BY <1>2, OneAssumption
  <2>2. (lent * ONE) \div ONE = lent
    BY OneAssumption
  <2>3. borrow_u128(accrued) = lent \div ONE
    BY <1>1, <2>1, <2>2 DEF borrow_u128, scaled_to_underlying_borrow, checked_mul, floor_to_u128
  <2>4. lent \div ONE \in Nat /\ lent < ONE * (lent \div ONE) + ONE
    BY OneAssumption, DivisionBounds
  <2> QED
    BY <2>3, <2>4
<1>6. q - p - deficit <= coins
  <2>1. PICK over \in Int : over = q - p - deficit - coins
    OBVIOUS
  <2>2. over * ONE = q * ONE - ONE * p - (coins + deficit) * ONE
    BY <2>1, OneAssumption
  <2>3. over * ONE < ONE
    BY <1>3, <1>4, <1>5, <2>2, OneAssumption
  <2>4. over < 1
    BY <2>3, OneAssumption
  <2> QED
    BY <2>1, <2>4
<1>7. reserve_cash(accrued) \in Int /\ reserve_cash(accrued) <= coins
  BY <1>1, <1>4, <1>5, <1>6 DEF reserve_cash, saturating_sub
<1> QED
  BY <1>1, <1>7

\* The cash is a number.
LEMMA CashType ==
    ASSUME Inv
    PROVE  reserve_cash(accrued) \in Int
<1>1. /\ liquidity_u128(accrued) \in Nat /\ borrow_u128(accrued) \in Nat
      /\ accrued.deficit_underlying \in Nat
  BY AccruedFacts, ConversionTypes DEF liquidity_u128, borrow_u128
<1> QED
  BY <1>1 DEF reserve_cash, saturating_sub

\* Units cut to an amount pay out no more than that amount, and are no more
\* than units that are worth it.
LEMMA PaidOutIsAskedFor ==
    ASSUME NEW x \in Nat, NEW index \in Nat \ {0},
           NEW n, n = underlying_to_scaled_liquidity(x, index)
    PROVE  /\ n \in Nat
           /\ scaled_to_underlying_liquidity(n, index) <= x
           /\ \A held \in Nat : x <= scaled_to_underlying_liquidity(held, index) => n <= held
<1>1. n \in Nat /\ n * index <= x * ONE
  BY ScaledIsCovered
<1>2. PICK worth \in Nat : /\ worth = scaled_to_underlying_liquidity(n, index)
                           /\ worth * ONE <= n * index
  BY <1>1, UnderlyingIsCovered
<1>3. worth <= x
  <2>1. worth * ONE <= x * ONE
    BY <1>1, <1>2, OneAssumption
  <2> QED
    BY <2>1, OneAssumption
<1>4. ASSUME NEW held \in Nat, x <= scaled_to_underlying_liquidity(held, index)
      PROVE  n <= held
  <2>1. PICK w \in Nat : /\ w = scaled_to_underlying_liquidity(held, index)
                         /\ w * ONE <= held * index
    BY UnderlyingIsCovered
  <2>2. x * ONE <= w * ONE
    BY <1>4, <2>1, OneAssumption
  <2>3. n * index <= held * index
    BY <1>1, <2>1, <2>2, OneAssumption
  <2> QED
    BY <1>1, <2>3
<1> QED
  BY <1>1, <1>2, <1>3, <1>4

\* The next message of a payment, and the books it meets.
LEMMA PayingHead ==
    ASSUME NEW sent \in BOOLEAN, NEW l, NEW scaled, NEW c \in BOOLEAN, NEW left \in Nat,
           Paying(sent, l, scaled, c, left)
    PROVE  LET worth  == scaled_to_underlying_liquidity(scaled, accrued.liquidity_index)
               before == IF sent THEN move(token, l, POOL, scaled + left) ELSE token
               holder == IF sent THEN POOL ELSE l
           IN  /\ pending # <<>>
               /\ \/ /\ msg = IF sent THEN Burn(scaled) ELSE BurnFrom(l, scaled)
                     /\ running.token = before
                  \/ /\ msg = bank_send_underlying(l, worth)
                     /\ running.bank = bank
                  \/ msg = new_commit_message(l, worth)
                  \/ /\ left > 0 /\ msg = TransferTo(l, left)
                     /\ running.token = apply_burn(before, holder, scaled)
<1> DEFINE worth  == scaled_to_underlying_liquidity(scaled, accrued.liquidity_index)
           before == IF sent THEN move(token, l, POOL, scaled + left) ELSE token
           holder == IF sent THEN POOL ELSE l
           commit == CommitFunds(c, l, worth)
           rest   == Refund(left, l)
           last   == commit \o rest
           burn   == IF sent THEN Burn(scaled) ELSE BurnFrom(l, scaled)
           send   == bank_send_underlying(l, worth)
           S      == {burn, send, new_commit_message(l, worth), TransferTo(l, left)}
<1>1. /\ rest \in Seq(S) /\ last \in Seq(S) /\ burn \in S /\ send \in S
      /\ new_commit_message(l, worth) \in S
      /\ ~c => last = rest
      /\ c => last = <<new_commit_message(l, worth)>> \o rest
      /\ rest = IF left > 0 THEN <<TransferTo(l, left)>> ELSE <<>>
  <2>1. new_commit_message(l, worth) \in S /\ TransferTo(l, left) \in S /\ burn \in S /\ send \in S
    OBVIOUS
  <2> HIDE DEF S, burn, send, worth
  <2>2. rest = IF left > 0 THEN <<TransferTo(l, left)>> ELSE <<>>
    BY DEF Refund
  <2> HIDE DEF rest
  <2>3. rest \in Seq(S)
    BY <2>1, <2>2
  <2>4. commit = IF c THEN <<new_commit_message(l, worth)>> ELSE <<>>
    BY DEF CommitFunds
  <2>5. commit \in Seq(S)
    BY <2>1, <2>4
  <2>6. last \in Seq(S)
    BY <2>3, <2>5, ConcatProperties
  <2>7. ~c => last = rest
    BY <2>3, <2>4, ConcatEmptySeq
  <2> QED
    BY <2>1, <2>2, <2>3, <2>4, <2>6, <2>7
<1>2. \/ pending = <<burn>> \o (<<send>> \o last) /\ running.token = before
      \/ pending = <<send>> \o last /\ running.bank = bank
      \/ /\ pending \in {last, rest} \ {<<>>}
         /\ running.token = apply_burn(before, holder, scaled)
  <2> DEFINE after == apply_burn(before, holder, scaled)
             less  == [accrued EXCEPT !.total_scaled_liquidity = @ - scaled]
             paid  == [bank EXCEPT ![LENDING] = @ - worth]
  <2>1. \/ /\ pending = <<burn>> \o (<<send>> \o last)
           /\ running = [reserve |-> less, token |-> before, bank |-> bank]
        \/ /\ pending = <<send>> \o last
           /\ running = [reserve |-> less, token |-> after, bank |-> bank]
        \/ /\ pending \in {last, rest} \ {<<>>}
           /\ running = [reserve |-> less, token |-> after, bank |-> paid]
    BY Zenon DEF Paying
  <2> HIDE DEF S, last, rest, burn, send, worth, before, after, less, paid
  <2> QED
    BY <2>1 DEF after
<1> HIDE DEF S, last, rest, burn, send, worth, before
<1>3. CASE pending = <<burn>> \o (<<send>> \o last) /\ running.token = before
  <2> DEFINE next == <<send>> \o last
  <2>1. next \in Seq(S)
    BY <1>1, Popped
  <2> HIDE DEF next
  <2>2. Head(<<burn>> \o next) = burn /\ <<burn>> \o next # <<>>
    BY <1>1, <2>1, Popped
  <2> QED
    BY <1>3, <2>2 DEF msg, next, burn, before
<1>4. CASE pending = <<send>> \o last /\ running.bank = bank
  <2>1. Head(<<send>> \o last) = send /\ <<send>> \o last # <<>>
    BY <1>1, Popped
  <2> QED
    BY <1>4, <2>1 DEF msg, send, worth
<1>5. CASE /\ pending \in {last, rest} \ {<<>>}
           /\ running.token = apply_burn(before, holder, scaled)
  <2>1. CASE c /\ pending = last
    <3>1. Head(pending) = new_commit_message(l, worth)
      BY <1>1, <2>1, Popped
    <3> QED
      BY <1>5, <3>1 DEF msg, worth
  <2>2. CASE pending = rest
    <3>1. left > 0 /\ Head(pending) = TransferTo(l, left)
      BY <1>1, <1>5, <2>2
    <3> QED
      BY <1>5, <3>1 DEF msg, before
  <2> QED
    BY <1>1, <1>5, <2>1, <2>2
<1> QED
  BY <1>2, <1>3, <1>4, <1>5

\* A payment within the cash, of units the holder has, is accepted throughout.
LEMMA PayingIsAccepted ==
    ASSUME Inv, NEW sent \in BOOLEAN, NEW l \in Lenders, NEW scaled \in Nat, NEW c \in BOOLEAN,
           NEW left \in Nat, Paying(sent, l, scaled, c, left),
           sent \/ (left = 0 /\ token.balances[l] >= scaled),
           scaled_to_underlying_liquidity(scaled, accrued.liquidity_index) <= reserve_cash(accrued)
    PROVE  Accepted \/ msg.amount = 0 \/ (msg.to = BANK /\ ~ClaimsAreCovered)
<1> DEFINE worth  == scaled_to_underlying_liquidity(scaled, accrued.liquidity_index)
           before == IF sent THEN move(token, l, POOL, scaled + left) ELSE token
           holder == IF sent THEN POOL ELSE l
<1>1. /\ l \in Accounts \cup {POOL} /\ POOL \in Accounts \cup {POOL} /\ l # POOL
      /\ token.balances \in [Accounts \cup {POOL} -> Nat] /\ token \in Token
  BY AddressAssumption DEF Inv, TypeOK, Token, Accounts, Amount
<1>2. worth \in Nat
  BY AccruedFacts, ConversionTypes
<1>3. /\ before.balances[holder] \in Nat /\ before.balances[holder] >= scaled
      /\ sent => before.balances[POOL] >= scaled + left
  <2>1. CASE sent
    <3>1. before.balances = [[token.balances EXCEPT ![l] = @ - (scaled + left)]
                                EXCEPT ![POOL] = @ + (scaled + left)]
      BY <1>1, <2>1, MoveParts
    <3> HIDE DEF before
    <3>2. before.balances[POOL] = token.balances[POOL] + (scaled + left)
      BY <1>1, <3>1
    <3> QED
      BY <1>1, <2>1, <3>2
  <2>2. CASE ~sent
    BY <1>1, <2>2
  <2> QED
    BY <2>1, <2>2
<1>4. /\ pending # <<>>
      /\ \/ /\ msg = IF sent THEN Burn(scaled) ELSE BurnFrom(l, scaled)
            /\ running.token = before
         \/ /\ msg = bank_send_underlying(l, worth)
            /\ running.bank = bank
         \/ msg = new_commit_message(l, worth)
         \/ /\ left > 0 /\ msg = TransferTo(l, left)
            /\ running.token = apply_burn(before, holder, scaled)
  BY PayingHead
<1> HIDE DEF worth, before
<1>5. CASE /\ msg = IF sent THEN Burn(scaled) ELSE BurnFrom(l, scaled)
           /\ running.token = before
  <2>1. /\ msg.from = POOL /\ msg.to = TOKEN /\ msg.kind \in {"Burn", "BurnFrom"}
        /\ msg.account = holder /\ msg.amount = scaled
    BY <1>5 DEF Burn, BurnFrom, Msg
  <2>2. scaled = 0 \/ can_burn(running.token, msg.account, msg.amount)
    <3>1. can_burn(before, holder, scaled) \/ scaled = 0
      BY <1>3 DEF can_burn
    <3> QED
      BY <1>5, <2>1, <3>1
  <2> QED
    BY <1>4, <2>1, <2>2 DEF Accepted, can_burn_units, Running, only_minter
<1>6. CASE msg = bank_send_underlying(l, worth) /\ running.bank = bank
  <2>1. msg.to = BANK /\ msg.kind = "Send" /\ msg.amount = worth
    BY <1>6 DEF bank_send_underlying, Msg
  <2>2. ClaimsAreCovered => bank[LENDING] >= worth
    BY <1>2, CashIsInTheBank DEF worth
  <2>3. worth = 0 \/ worth > 0
    BY <1>2
  <2> QED
    BY <1>4, <1>6, <2>1, <2>2, <2>3 DEF Accepted, can_send_coins, Running
<1>7. CASE msg = new_commit_message(l, worth)
  BY <1>4, <1>7 DEF new_commit_message, Msg, Accepted, Running
<1>8. CASE /\ left > 0 /\ msg = TransferTo(l, left)
           /\ running.token = apply_burn(before, holder, scaled)
  <2>1. CASE sent
    <3>1. /\ msg.to = TOKEN /\ msg.kind = "Transfer" /\ msg.from = POOL
          /\ msg.account = l /\ msg.amount = left
      BY <1>8 DEF TransferTo, Msg
    <3>2. before.balances \in [Accounts \cup {POOL} -> Int]
      <4>1. before.balances = [[token.balances EXCEPT ![l] = @ - (scaled + left)]
                                  EXCEPT ![POOL] = @ + (scaled + left)]
        BY <1>1, <2>1, MoveParts DEF before
      <4> QED
        BY <1>1, <4>1
    <3>3. running.token.balances = [before.balances EXCEPT ![POOL] = @ - scaled]
      BY <1>8, <2>1 DEF apply_burn
    <3>4. running.token.balances[POOL] = before.balances[POOL] - scaled
      BY <1>1, <3>2, <3>3
    <3>5. running.token.balances[POOL] >= left
      BY <1>1, <1>3, <2>1, <3>2, <3>4
    <3> QED
      BY <1>1, <1>4, <1>8, <3>1, <3>5
      DEF Accepted, can_transfer, Running, ensure_transfer_allowed, can_move
  <2>2. CASE ~sent
    BY <1>8, <2>2
  <2> QED
    BY <2>1, <2>2
<1> QED
  BY <1>4, <1>5, <1>6, <1>7, <1>8

\* So is a forward of units the pool has received, to others than itself.
LEMMA ForwardingIsAccepted ==
    ASSUME Inv, NEW l \in Lenders, NEW u \in Nat, NEW m \in Accounts \cup {POOL},
           NEW scaled \in Nat, Forwarding(l, u, m, scaled)
    PROVE  Accepted \/ msg.amount = 0 \/ (msg.kind = "Transfer" /\ msg.account = POOL)
<1> DEFINE at_pool   == move(token, l, POOL, u)
           forwarded == move(at_pool, POOL, m, scaled)
           rest      == Refund(u - scaled, l)
           S         == {TransferTo(l, u - scaled), TransferTo(m, scaled)}
<1>1. /\ l \in Accounts \cup {POOL} /\ POOL \in Accounts \cup {POOL} /\ l # POOL
      /\ token \in Token /\ token.balances[POOL] \in Nat
  BY AddressAssumption DEF Inv, TypeOK, Token, Accounts, Amount
<1>2. /\ token.balances[l] >= u /\ u >= scaled
      /\ \/ /\ pending = <<TransferTo(m, scaled)>> \o rest
            /\ running.token = at_pool
         \/ /\ m # POOL /\ u > scaled
            /\ pending = rest
            /\ running.token = forwarded
  BY DEF Forwarding, can_move
<1>3. /\ at_pool \in Token
      /\ at_pool.balances[POOL] = token.balances[POOL] + u
  BY <1>1, <1>2, MoveType
<1>4. at_pool.balances[POOL] \in Nat /\ at_pool.balances[POOL] >= u
  BY <1>1, <1>3
<1>5. rest \in Seq(S) /\ (u > scaled => rest = <<TransferTo(l, u - scaled)>>)
      /\ TransferTo(m, scaled) \in S
  <2>1. TransferTo(l, u - scaled) \in S /\ TransferTo(m, scaled) \in S
    OBVIOUS
  <2> HIDE DEF S
  <2>2. rest = IF u - scaled > 0 THEN <<TransferTo(l, u - scaled)>> ELSE <<>>
    BY DEF Refund
  <2> HIDE DEF rest
  <2>3. rest \in Seq(S) /\ (u > scaled => rest = <<TransferTo(l, u - scaled)>>)
    BY <2>1, <2>2
  <2> QED
    BY <2>1, <2>3
<1> HIDE DEF S, rest, at_pool
<1>6. CASE pending = <<TransferTo(m, scaled)>> \o rest /\ running.token = at_pool
  <2>1. Head(pending) = TransferTo(m, scaled) /\ pending # <<>>
    BY <1>5, <1>6, Popped
  <2>2. /\ msg.to = TOKEN /\ msg.kind = "Transfer" /\ msg.from = POOL
        /\ msg.account = m /\ msg.amount = scaled
    BY <2>1 DEF msg, TransferTo, Msg
  <2>3. scaled = 0 \/ can_move(running.token, POOL, scaled)
    BY <1>2, <1>4, <1>6 DEF can_move
  <2> QED
    BY <2>1, <2>2, <2>3 DEF Accepted, can_transfer, Running, ensure_transfer_allowed
<1>7. CASE m # POOL /\ u > scaled /\ pending = rest /\ running.token = forwarded
  <2>1. msg = TransferTo(l, u - scaled) /\ pending # <<>>
    <3>1. pending = <<TransferTo(l, u - scaled)>>
      BY <1>5, <1>7
    <3>2. PICK m1 : m1 = TransferTo(l, u - scaled)
      OBVIOUS
    <3> QED
      BY <3>1, <3>2 DEF msg
  <2>2. /\ msg.to = TOKEN /\ msg.kind = "Transfer" /\ msg.from = POOL
        /\ msg.account = l /\ msg.amount = u - scaled
    BY <2>1 DEF TransferTo, Msg
  <2>3. forwarded.balances[POOL] = at_pool.balances[POOL] - scaled
    <3>1. /\ at_pool \in Token /\ POOL \in Accounts \cup {POOL} /\ m \in Accounts \cup {POOL}
          /\ scaled \in Nat /\ at_pool.balances[POOL] >= scaled /\ POOL # m
      BY <1>1, <1>2, <1>3, <1>4, <1>7
    <3> QED
      BY <3>1, MoveType
  <2> HIDE DEF forwarded
  <2>4. can_move(running.token, POOL, u - scaled)
    BY <1>4, <1>7, <2>3 DEF can_move
  <2> QED
    BY <1>1, <2>1, <2>2, <2>4 DEF Accepted, can_transfer, Running, ensure_transfer_allowed
<1> QED
  BY <1>2, <1>6, <1>7

\* At every stage of a transaction the message that is next, if it is the
\* pool's, is taken, or is one of those that are rightly refused.
LEMMA EmittedIsAccepted ==
    ASSUME Inv, InProgress
    PROVE  EmittedMessagesAreAccepted
<1> SUFFICES ASSUME pending # <<>>, msg.from = POOL
             PROVE  \/ Accepted
                    \/ msg.amount = 0
                    \/ msg.kind = "Transfer" /\ msg.account = POOL
                    \/ msg.to = BANK /\ ~ClaimsAreCovered
  BY DEF EmittedMessagesAreAccepted
<1>1. /\ Inputs.redemptions \subseteq Nat /\ Inputs.units \subseteq Nat
      /\ Inputs.lends \subseteq Nat /\ Inputs.requests \subseteq Nat
      /\ Inputs.commits \subseteq BOOLEAN /\ Inputs.recipients \subseteq Accounts
  BY InputsAssumption DEF Amount, Accounts
<1>2. accrued.liquidity_index \in Nat \ {0}
  BY AccruedFacts
<1>3. /\ POOL \notin Lenders /\ POOL \notin Operators /\ POOL # TOKEN
      /\ \A l \in Lenders : token.balances[l] \in Nat
  BY AddressAssumption, ContractAssumption DEF Accounts, Inv, TypeOK, Amount
\* What an account sends, and what the token says to the hook, is not the pool's.
<1>4. CASE Submitted
  <2>1. FromAccount(msg)
    BY <1>4 DEF Submitted, msg
  <2>2. ASSUME NEW l \in Lenders, NEW x, msg = LendMsg(l, x) PROVE FALSE
    BY <1>3, <2>2 DEF LendMsg, Msg
  <2>3. ASSUME NEW s \in Operators, NEW l, NEW x, NEW c, msg = WithdrawMsg(s, l, x, c) PROVE FALSE
    BY <1>3, <2>3 DEF WithdrawMsg, Msg
  <2>4. ASSUME NEW l \in Lenders, NEW u, NEW p, msg = SendMsg(l, u, p) \/ msg = ForgedReceive(l, u, p)
        PROVE FALSE
    BY <1>3, <2>4 DEF SendMsg, ForgedReceive, PayloadMsg
  <2>5. ASSUME NEW s \in Lenders, NEW a, NEW u, NEW kind, msg = Msg(s, TOKEN, kind, a, u)
        PROVE FALSE
    BY <1>3, <2>5 DEF Msg
  <2> QED
    BY <2>1, <2>2, <2>3, <2>4, <2>5 DEF FromAccount
<1>5. CASE \E l \in Lenders, u \in Inputs.units, p \in Cw20ReceivePayload : Received(l, u, p)
  <2>1. PICK l, u, p : pending = <<PayloadMsg(TOKEN, POOL, "Receive", l, u, p)>>
    BY <1>5 DEF Received
  <2>2. msg.from = TOKEN
    BY <2>1 DEF msg, PayloadMsg
  <2> QED
    BY <1>3, <2>2
<1>6. CASE \E l \in Lenders, x \in Inputs.lends : Lending(l, x)
  <2>1. PICK l, n : pending = <<Mint(l, n)>> /\ n > 0
    BY <1>6 DEF Lending
  <2>2. /\ pending # <<>> /\ msg.to = TOKEN /\ msg.kind = "Mint" /\ msg.from = POOL
        /\ msg.amount = n
    BY <2>1 DEF msg, Mint, Msg
  <2> QED
    BY <2>1, <2>2 DEF Accepted, can_mint, Running, only_minter
<1>7. CASE \E s \in Operators, l \in Lenders, x \in Inputs.redemptions, c \in Inputs.commits :
              Withdrawing(s, l, x, c)
  <2>1. PICK s \in Operators, l \in Lenders, x \in Inputs.redemptions, c \in Inputs.commits :
           Withdrawing(s, l, x, c)
    BY <1>7
  <2>2. PICK balance \in Nat : balance = token.balances[l]
    BY <1>3
  <2>3. PICK n : n = IF x = 0 THEN balance
                     ELSE underlying_to_scaled_liquidity(x, accrued.liquidity_index)
    OBVIOUS
  <2> DEFINE supply == scaled_to_underlying_liquidity(balance, accrued.liquidity_index)
             worth  == scaled_to_underlying_liquidity(n, accrued.liquidity_index)
  <2>4. /\ (IF x = 0 THEN supply ELSE x) <= supply
        /\ (IF x = 0 THEN supply ELSE x) <= reserve_cash(accrued)
        /\ Paying(FALSE, l, n, c, 0)
    BY <2>1, <2>2, <2>3 DEF Withdrawing
  <2>5. n \in Nat /\ n <= balance /\ worth <= reserve_cash(accrued)
    <3>1. CASE x = 0
      BY <2>2, <2>3, <2>4, <3>1
    <3>2. CASE x # 0
      <4>1. x \in Nat /\ x <= supply /\ x <= reserve_cash(accrued)
        BY <1>1, <2>4, <3>2
      <4>2. n = underlying_to_scaled_liquidity(x, accrued.liquidity_index)
        BY <2>3, <3>2
      <4>3. n \in Nat /\ worth <= x /\ n <= balance
        BY <1>2, <4>1, <4>2, PaidOutIsAskedFor
      <4>4. worth \in Nat /\ reserve_cash(accrued) \in Int
        BY <1>2, <4>3, UnderlyingIsCovered, CashType
      <4> QED
        BY <4>1, <4>3, <4>4
    <3> QED
      BY <3>1, <3>2
  <2> HIDE DEF worth
  <2>6. c \in BOOLEAN /\ token.balances[l] >= n
    BY <1>1, <2>2, <2>5
  <2> QED
    BY <2>4, <2>5, <2>6, PayingIsAccepted DEF worth
<1>8. CASE \E l \in Lenders, u \in Inputs.units, c \in Inputs.commits : RedeemingExact(l, u, c)
  <2>1. PICK l \in Lenders, u \in Inputs.units, c \in Inputs.commits :
           /\ scaled_to_underlying_liquidity(u, accrued.liquidity_index) <= reserve_cash(accrued)
           /\ Paying(TRUE, l, u, c, u - u)
    BY <1>8 DEF RedeemingExact, Redeeming
  <2>2. u \in Nat /\ u - u = 0 /\ c \in BOOLEAN /\ 0 \in Nat /\ TRUE \in BOOLEAN
    BY <1>1
  <2>3. Paying(TRUE, l, u, c, 0)
    BY <2>1, <2>2
  <2> QED
    BY <2>1, <2>2, <2>3, PayingIsAccepted
<1>9. CASE \E l \in Lenders, u \in Inputs.units, x \in Inputs.requests, c \in Inputs.commits :
              RedeemingSome(l, u, x, c)
  <2>1. PICK l \in Lenders, u \in Inputs.units, x \in Inputs.requests, c \in Inputs.commits :
           RedeemingSome(l, u, x, c)
    BY <1>9
  <2>2. PICK n : n = underlying_to_scaled_liquidity(x, accrued.liquidity_index)
    OBVIOUS
  <2>3. x <= reserve_cash(accrued) /\ u >= n /\ Paying(TRUE, l, n, c, u - n)
    BY <2>1, <2>2 DEF RedeemingSome, Redeeming
  <2>4. x \in Nat /\ u \in Nat /\ c \in BOOLEAN
    BY <1>1
  <2>5. n \in Nat /\ scaled_to_underlying_liquidity(n, accrued.liquidity_index) <= x
    BY <1>2, <2>2, <2>4, PaidOutIsAskedFor
  <2>6. PICK left \in Nat : left = u - n
    BY <2>3, <2>4, <2>5
  <2>7. scaled_to_underlying_liquidity(n, accrued.liquidity_index) <= reserve_cash(accrued)
    <3>1. PICK worth \in Nat : worth = scaled_to_underlying_liquidity(n, accrued.liquidity_index)
      BY <1>2, <2>5, UnderlyingIsCovered
    <3> QED
      BY <2>3, <2>4, <2>5, <3>1, CashType
  <2>8. Paying(TRUE, l, n, c, left)
    BY <2>3, <2>6
  <2> QED
    BY <2>4, <2>5, <2>7, <2>8, PayingIsAccepted
<1>10. CASE \E l \in Lenders, u \in Inputs.units, m \in Recipients : Forwarding(l, u, m, u)
  BY <1>1, <1>10, ForwardingIsAccepted DEF Recipients
<1>11. CASE \E l \in Lenders, u \in Inputs.units, m \in Recipients, x \in Inputs.requests :
               ForwardingSome(l, u, m, x)
  <2>1. PICK l \in Lenders, u \in Inputs.units, m \in Recipients, x \in Inputs.requests :
           Forwarding(l, u, m, underlying_to_scaled_liquidity(x, accrued.liquidity_index))
    BY <1>11 DEF ForwardingSome
  <2>2. PICK n \in Nat : n = underlying_to_scaled_liquidity(x, accrued.liquidity_index)
    BY <1>1, <1>2, ScaledIsCovered
  <2>3. Forwarding(l, u, m, n) /\ u \in Nat /\ m \in Accounts \cup {POOL}
    BY <1>1, <2>1, <2>2 DEF Recipients
  <2> QED
    BY <2>3, ForwardingIsAccepted
<1> QED
  BY <1>4, <1>5, <1>6, <1>7, <1>8, <1>9, <1>10, <1>11 DEF InProgress

\* No accepted message of a lender fails in what it emits, but for a zero
\* amount, the pool as recipient, and coins the pool has lost to rounding.
THEOREM EmittedMessagesAreTaken == MessageSpec => []EmittedMessagesAreAccepted
<1>1. MessageInit => MessageInv
  BY BooksInvInit DEF MessageInit, MessageInv
<1>2. MessageInv /\ [MessageNext]_message_vars => MessageInv'
  BY MessageStep
<1>3. MessageInv => EmittedMessagesAreAccepted
  BY EmittedIsAccepted DEF MessageInv, BooksInv, EmittedMessagesAreAccepted
<1> QED
  BY <1>1, <1>2, <1>3, PTL DEF MessageSpec
=============================================================================
