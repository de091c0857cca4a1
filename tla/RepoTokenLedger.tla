-------------------------- MODULE RepoTokenLedger --------------------------
(***************************************************************************)
(* contracts/repo_token_cw20/src/execute.rs: the balances of the repo      *)
(* token and the three ways they change.  A token is the record of its     *)
(* BALANCES map (absent = 0) and its total supply.  RepoToken wraps these  *)
(* operations into the contract's entry points; the pool module uses them  *)
(* directly, for the messages its handlers emit within one transaction.    *)
(* Every operation rejects a zero amount, and a rejected message reverts   *)
(* the transaction that emitted it.                                        *)
(***************************************************************************)
EXTENDS Naturals

\* Slip: a mint that forgets the supply.
mint_uncounted(t, recipient, amount) ==
    [t EXCEPT !.balances[recipient] = @ + amount]

\* execute_mint, after the minter check.
mint(t, recipient, amount) ==
    [ balances     |-> [t.balances EXCEPT ![recipient] = @ + amount],
      total_supply |-> t.total_supply + amount ]

\* apply_burn: from the minter's own balance (Burn) or a holder's (BurnFrom).
can_burn(t, owner, amount) == amount > 0 /\ t.balances[owner] >= amount

apply_burn(t, owner, amount) ==
    [ balances     |-> [t.balances EXCEPT ![owner] = @ - amount],
      total_supply |-> t.total_supply - amount ]

\* Slip: no balance check.
can_move_unbacked(t, from, amount) == amount > 0

\* The balance update of execute_transfer and of execute_send.
can_move(t, from, amount) == amount > 0 /\ t.balances[from] >= amount
move(t, from, to, amount) ==
    LET debited == [t.balances EXCEPT ![from] = @ - amount]
    IN  [t EXCEPT !.balances = [debited EXCEPT ![to] = @ + amount]]
=============================================================================
