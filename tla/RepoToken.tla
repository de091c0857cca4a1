----------------------------- MODULE RepoToken -----------------------------
(***************************************************************************)
(* contracts/repo_token_cw20: the repo token as a contract of its own,     *)
(* with any minter, any pool and any owner around it.                      *)
(*                                                                         *)
(* A Send credits the pool and calls its Receive hook in the same          *)
(* transaction.  What the pool does there is the pool's business: it may   *)
(* burn and transfer, then return, or fail, which reverts the Send with    *)
(* everything after it.  hook is the call in progress; while there is one, *)
(* only the called contract acts.                                          *)
(***************************************************************************)
EXTENDS RepoTokenLedger, Ownership, FiniteSetsExt

CONSTANTS
    Addresses,          \* holders, pools, minters and owners
    InitialMinter,
    InitialPool,        \* NO_ONE when instantiated before the pool
    InitialOwner,
    Amounts,            \* amounts a message may name
    MaxSupply           \* bound on the supply, for model checking

ASSUME TokenAssumption ==
    /\ NO_ONE \notin Addresses
    /\ IsFiniteSet(Addresses)
    /\ InitialMinter \in Addresses /\ InitialOwner \in Addresses
    /\ InitialPool \in Addresses \cup {NO_ONE}
    /\ Amounts \subseteq Nat

VARIABLES
    token,              \* BALANCES and TOKEN_INFO.total_supply
    minter, pool,       \* CONFIG
    ownership,
    hook                \* the Receive call in progress

token_vars == <<token, minter, pool, ownership, hook>>

NoCall == [callee |-> NO_ONE, before |-> [balances |-> [a \in Addresses |-> 0], total_supply |-> 0]]

TokenInit ==
    /\ token = [balances |-> [a \in Addresses |-> 0], total_supply |-> 0]
    /\ minter = InitialMinter
    /\ pool = InitialPool
    /\ ownership = initialize_owner(InitialOwner)
    /\ hook = NoCall

\* During a Receive call only the callee sends messages.
may_act(sender) == hook.callee \in {NO_ONE, sender}

ConfigUnchanged == UNCHANGED <<minter, pool, ownership>>

-----------------------------------------------------------------------------
only_minter(sender) == sender = minter

ensure_send_allowed(recipient) == pool # NO_ONE /\ recipient = pool

\* Slip: any holder may transfer.
ensure_transfer_allowed_to_all(sender, recipient) == pool # NO_ONE /\ recipient # pool

ensure_transfer_allowed(sender, recipient) ==
    pool # NO_ONE /\ sender = pool /\ recipient # pool

Mint(sender, recipient, amount) ==
    /\ may_act(sender)
    /\ only_minter(sender)
    /\ amount > 0
    /\ token.total_supply + amount <= MaxSupply
    /\ token' = mint(token, recipient, amount)
    /\ ConfigUnchanged /\ UNCHANGED hook

\* Burn takes from the minter itself, BurnFrom from any holder.
BurnFrom(sender, owner, amount) ==
    /\ may_act(sender)
    /\ only_minter(sender)
    /\ can_burn(token, owner, amount)
    /\ token' = apply_burn(token, owner, amount)
    /\ ConfigUnchanged /\ UNCHANGED hook

Burn(sender, amount) == BurnFrom(sender, sender, amount)

Transfer(sender, recipient, amount) ==
    /\ may_act(sender)
    /\ ensure_transfer_allowed(sender, recipient)
    /\ can_move(token, sender, amount)
    /\ token' = move(token, sender, recipient, amount)
    /\ ConfigUnchanged /\ UNCHANGED hook

Send(sender, contract, amount) ==
    /\ hook = NoCall
    /\ ensure_send_allowed(contract)
    /\ can_move(token, sender, amount)
    /\ token' = move(token, sender, contract, amount)
    /\ hook' = [callee |-> contract, before |-> token]
    /\ ConfigUnchanged

\* The called contract returns, or fails and takes the Send back.
ReceiveReturns ==
    /\ hook # NoCall
    /\ hook' = NoCall
    /\ UNCHANGED token /\ ConfigUnchanged

ReceiveFails ==
    /\ hook # NoCall
    /\ hook' = NoCall
    /\ token' = hook.before
    /\ ConfigUnchanged

\* Either field may be left out; the pool cannot be unset again.
UpdateConfig(sender, new_minter, new_pool) ==
    /\ hook = NoCall
    /\ assert_owner(ownership, sender)
    /\ minter' = IF new_minter = NO_ONE THEN minter ELSE new_minter
    /\ pool' = IF new_pool = NO_ONE THEN pool ELSE new_pool
    /\ UNCHANGED <<token, ownership, hook>>

UpdateOwnership(sender, heir) ==
    /\ hook = NoCall
    /\ \/ /\ can_transfer_ownership(ownership, sender, NEVER, 0)
          /\ ownership' = transfer_ownership(ownership, heir, NEVER)
       \/ /\ can_accept_ownership(ownership, sender, 0)
          /\ ownership' = accept_ownership(ownership)
    /\ UNCHANGED <<token, minter, pool, hook>>

TokenNext ==
    \/ \E s, a \in Addresses, n \in Amounts :
          \/ Mint(s, a, n)
          \/ BurnFrom(s, a, n)
          \/ Transfer(s, a, n)
          \/ Send(s, a, n)
    \/ \E s \in Addresses, n \in Amounts : Burn(s, n)
    \/ ReceiveReturns
    \/ ReceiveFails
    \/ \E s \in Addresses, m, p \in Addresses \cup {NO_ONE} : UpdateConfig(s, m, p)
    \/ \E s, a \in Addresses : UpdateOwnership(s, a)

TokenSpec == TokenInit /\ [][TokenNext]_token_vars

-----------------------------------------------------------------------------
\* The supply is the sum of the balances, whoever mints, burns, sends and
\* transfers, whatever the pool does in its hook, and after a failed hook
\* (execute_mint, apply_burn and the two moves each update two rows by hand).
SupplyIsSumOfBalances ==
    /\ token.total_supply = SumFunctionOnSet(token.balances, Addresses)
    /\ \A a \in Addresses : token.balances[a] \in Nat

\* Holders cannot pay each other.  No step but the revert of a failed hook
\* takes units from one account and gives units to another unless one of the
\* two is the pool configured at that moment, whatever the minter and the pool
\* were before: no position changes hands without the pool's Receive having run
\* (ensure_send_allowed, ensure_transfer_allowed).
UnitsMoveOnlyThroughThePool ==
    [][ (hook # NoCall => hook' = hook) =>
          \A a, b \in Addresses \ {pool} :
              token'.balances[a] < token.balances[a] => token'.balances[b] <= token.balances[b]
      ]_token_vars
=============================================================================
