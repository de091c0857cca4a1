----------------------------- MODULE Deployment -----------------------------
(***************************************************************************)
(* Pools and repo tokens as they come onto the chain and find each other:  *)
(* pool_v2 instantiate and reply, repo_token_cw20 instantiate and          *)
(* UpdateConfig, and the messages whose success depends on the wiring.     *)
(*                                                                         *)
(* Either a token is deployed first, named by a pool and then given the    *)
(* pool as minter and pool_address by its owner, or a pool instantiates    *)
(* its token by a submessage and binds the address in reply.  Nothing      *)
(* keeps a token from serving several pools one after the other.  Indexes  *)
(* are 1 here: rates, prices and cash are the business of Pool.            *)
(***************************************************************************)
EXTENDS RepoTokenLedger, Ownership, FiniteSetsExt, Functions

CONSTANTS
    Accounts, Pools, Tokens,    \* addresses; contracts are deployed to the last two
    Amounts,                    \* amounts a message may name
    MaxSupply,                  \* bound on a token's supply, for model checking
    MaxOutside                  \* bound on what accounts mint or burn, for model checking

ASSUME DeploymentAssumption ==
    /\ Accounts \cap Pools = {} /\ (Accounts \cup Pools) \cap Tokens = {}
    /\ {NO_ONE, "none", "sent", "failed"} \cap (Accounts \cup Pools \cup Tokens) = {}
    /\ Amounts \subseteq Nat \ {0}
    /\ IsFiniteSet(Pools)

VARIABLES
    pools,      \* the pools on the chain: a function on their addresses
    tokens,     \* the tokens on the chain
    sub,        \* the instantiation whose reply is outstanding
    outside     \* of each token, units minted less burned by minters that are accounts

deployment_vars == <<pools, tokens, sub, outside>>

Holders == Accounts \cup Pools

NoSubMsg == [pool |-> NO_ONE, result |-> "none"]
Failed   == "failed"

DeploymentInit ==
    /\ pools = <<>> /\ tokens = <<>>
    /\ sub = NoSubMsg
    /\ outside = [t \in Tokens |-> 0]

Idle == sub = NoSubMsg
Live(f) == DOMAIN f

with(f, address, contract) ==
    [x \in Live(f) \cup {address} |-> IF x = address THEN contract ELSE f[x]]

without(f, addresses) == Restrict(f, Live(f) \ addresses)

-----------------------------------------------------------------------------
\* InstantiateMsg of the token; an address is checked to be one, not to be live.
InstantiateMsg(owner, minter, pool_address) ==
    [ owner |-> owner, minter |-> minter, pool_address |-> pool_address,
      books |-> [balances |-> [h \in Holders |-> 0], total_supply |-> 0] ]

InstantiateToken(sender, t, minter, pool_address) ==
    /\ Idle
    /\ t \notin Live(tokens)
    /\ tokens' = with(tokens, t, InstantiateMsg(sender, minter, pool_address))
    /\ UNCHANGED <<pools, sub, outside>>

\* instantiate_contract: Existing names an address, New leaves it to reply.
InstantiatePool(sender, p, repo_token_cw20_address) ==
    /\ Idle
    /\ p \notin Live(pools)
    /\ pools' = with(pools, p, [ owner |-> sender,
                                 repo_token_cw20_address |-> repo_token_cw20_address,
                                 total_scaled_liquidity |-> 0 ])
    /\ sub' = IF repo_token_cw20_address = NO_ONE
              THEN [pool |-> p, result |-> "sent"] ELSE NoSubMsg
    /\ UNCHANGED <<tokens, outside>>

new_repo_token(p) == InstantiateMsg(pools[p].owner, p, p)

\* The submessage runs: it creates a token, or fails and leaves nothing.
SubMsgRuns ==
    /\ sub.result = "sent"
    /\ \/ \E t \in Tokens \ Live(tokens) :
             /\ tokens' = with(tokens, t, new_repo_token(sub.pool))
             /\ sub' = [sub EXCEPT !.result = t]
       \/ sub' = [sub EXCEPT !.result = Failed] /\ UNCHANGED tokens
    /\ UNCHANGED <<pools, outside>>

\* Slip: a reply with an error is let pass.
instantiated_or_not(result) == TRUE

instantiated(result) == result \in Tokens

\* reply: binds the address, or fails, which takes the transaction back.
Reply ==
    LET p == sub.pool
    IN  /\ sub.result \in Tokens \cup {Failed}
        /\ IF instantiated(sub.result) /\ pools[p].repo_token_cw20_address = NO_ONE
           THEN /\ pools' = [pools EXCEPT ![p].repo_token_cw20_address = sub.result]
                /\ UNCHANGED tokens
           ELSE /\ pools' = without(pools, {p})
                /\ tokens' = without(tokens, {sub.result})
        /\ sub' = NoSubMsg
        /\ UNCHANGED outside

\* The transaction runs out of gas while the submessage does.
OutOfGas ==
    /\ ~Idle
    /\ pools' = without(pools, {sub.pool})
    /\ tokens' = without(tokens, {sub.result})
    /\ sub' = NoSubMsg
    /\ UNCHANGED outside

\* execute_update_config: absent fields keep their value.
UpdateConfig(sender, t, minter, pool_address) ==
    LET new(value, old) == IF value = NO_ONE THEN old ELSE value
    IN  /\ Idle /\ t \in Live(tokens)
        /\ sender = tokens[t].owner
        /\ tokens' = [tokens EXCEPT ![t].minter = new(minter, @),
                                    ![t].pool_address = new(pool_address, @)]
        /\ UNCHANGED <<pools, sub, outside>>

-----------------------------------------------------------------------------
\* repo_token_addr, and a contract that answers there.
bound_to(p) == pools[p].repo_token_cw20_address
usable(p) == Idle /\ p \in Live(pools) /\ bound_to(p) \in Live(tokens)

\* Slip: units leave the token's supply, not the pool's count.
deduct_nothing(p, amount) == pools

deduct_scaled_liquidity(p, amount) ==
    [pools EXCEPT ![p].total_scaled_liquidity = @ - amount]

\* lend: counted by the pool, then minted by the token, if the pool may mint.
Lend(p, l, amount) ==
    LET t == bound_to(p)
    IN  /\ usable(p)
        /\ tokens[t].minter = p
        /\ tokens[t].books.total_supply + amount <= MaxSupply
        /\ pools' = [pools EXCEPT ![p].total_scaled_liquidity = @ + amount]
        /\ tokens' = [tokens EXCEPT ![t].books = mint(@, l, amount)]
        /\ UNCHANGED <<sub, outside>>

\* withdraw by the pool's owner for lender l: BurnFrom.
Withdraw(p, sender, l, amount) ==
    LET t == bound_to(p)
    IN  /\ usable(p)
        /\ sender = pools[p].owner
        /\ tokens[t].minter = p
        /\ can_burn(tokens[t].books, l, amount)
        /\ pools[p].total_scaled_liquidity >= amount
        /\ pools' = deduct_scaled_liquidity(p, amount)
        /\ tokens' = [tokens EXCEPT ![t].books = apply_burn(@, l, amount)]
        /\ UNCHANGED <<sub, outside>>

\* Send by the holder to the contract token t trusts, which takes units of its
\* own token only and burns them from itself.
Redeem(t, l, amount) ==
    LET p     == tokens[t].pool_address
        books == move(tokens[t].books, l, p, amount)
    IN  /\ t \in Live(tokens)
        /\ usable(p)
        /\ can_move(tokens[t].books, l, amount)
        /\ bound_to(p) = t
        /\ tokens[t].minter = p
        /\ pools[p].total_scaled_liquidity >= amount
        /\ pools' = deduct_scaled_liquidity(p, amount)
        /\ tokens' = [tokens EXCEPT ![t].books = apply_burn(books, p, amount)]
        /\ UNCHANGED <<sub, outside>>

\* An account that is minter mints, or burns anybody's units.
MintOutside(t, minter, h, amount) ==
    /\ Idle /\ t \in Live(tokens)
    /\ minter = tokens[t].minter
    /\ tokens[t].books.total_supply + amount <= MaxSupply
    /\ outside[t] + amount <= MaxOutside
    /\ tokens' = [tokens EXCEPT ![t].books = mint(@, h, amount)]
    /\ outside' = [outside EXCEPT ![t] = @ + amount]
    /\ UNCHANGED <<pools, sub>>

BurnOutside(t, minter, h, amount) ==
    /\ Idle /\ t \in Live(tokens)
    /\ minter = tokens[t].minter
    /\ can_burn(tokens[t].books, h, amount)
    /\ outside[t] - amount >= -MaxOutside
    /\ tokens' = [tokens EXCEPT ![t].books = apply_burn(@, h, amount)]
    /\ outside' = [outside EXCEPT ![t] = @ - amount]
    /\ UNCHANGED <<pools, sub>>

Deploy ==
    \/ \E s \in Accounts, t \in Tokens, m \in Holders, q \in Pools \cup {NO_ONE} :
          InstantiateToken(s, t, m, q)
    \/ \E s \in Accounts, p \in Pools, t \in Tokens \cup {NO_ONE} : InstantiatePool(s, p, t)
    \/ SubMsgRuns
    \/ Reply
    \/ OutOfGas
    \/ \E s \in Accounts, t \in Tokens, m \in Holders \cup {NO_ONE}, q \in Pools \cup {NO_ONE} :
          UpdateConfig(s, t, m, q)

Use ==
    \E a \in Amounts :
        \/ \E p \in Pools, l \in Accounts : Lend(p, l, a)
        \/ \E p \in Pools, s, l \in Accounts : Withdraw(p, s, l, a)
        \/ \E t \in Tokens, l \in Accounts : Redeem(t, l, a)
        \/ \E t \in Tokens, m \in Accounts, h \in Accounts :
              MintOutside(t, m, h, a) \/ BurnOutside(t, m, h, a)

DeploymentNext == Deploy \/ Use

DeploymentSpec == DeploymentInit /\ [][DeploymentNext]_deployment_vars

-----------------------------------------------------------------------------
\* However the submessage ends, no transaction leaves a pool without its token:
\* such a pool could never be given one.
NoPoolIsLeftUnbound == Idle => \A p \in Live(pools) : bound_to(p) \in Tokens

\* Whichever pools a token has been pointed at, in whatever order, its supply is
\* what the pools bound to it have counted between them and what accounts minted.
SupplyIsWhatThePoolsCounted ==
    \A t \in Live(tokens) :
        LET served == {p \in Live(pools) : bound_to(p) = t}
        IN  tokens[t].books.total_supply =
                SumFunction([p \in served |-> pools[p].total_scaled_liquidity]) + outside[t]
=============================================================================
