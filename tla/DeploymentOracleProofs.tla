----------------------- MODULE DeploymentOracleProofs -----------------------
(***************************************************************************)
(* What the pool rests on: that it and its token find each other and count *)
(* the same, and that the oracle is the feed Pool takes for granted.  For  *)
(* every set of pools, tokens and accounts, and every sequence of posts.   *)
(***************************************************************************)
EXTENDS Deployment, PriceOracle, SumTheorems

-----------------------------------------------------------------------------
\* The rows of the two kinds of contract.
Books    == [balances : [Holders -> Int], total_supply : Int]
PoolRow  == [owner : Accounts, repo_token_cw20_address : Tokens \cup {NO_ONE},
             total_scaled_liquidity : Int]
TokenRow == [owner : Accounts, minter : Holders, pool_address : Pools \cup {NO_ONE},
             books : Books]

DeploymentType ==
    /\ Live(pools) \subseteq Pools /\ pools \in [Live(pools) -> PoolRow]
    /\ Live(tokens) \subseteq Tokens /\ tokens \in [Live(tokens) -> TokenRow]
    /\ outside \in [Tokens -> Int]

\* Until its reply a new pool is unbound and unused, and so is its token.
Unanswered ==
    /\ sub \in [pool : Pools, result : {"sent", Failed} \cup Tokens]
    /\ sub.pool \in Live(pools)
    /\ bound_to(sub.pool) = NO_ONE
    /\ pools[sub.pool].total_scaled_liquidity = 0
    /\ sub.result \in Tokens =>
          sub.result \in Live(tokens) /\ tokens[sub.result].books.total_supply = 0

\* What pool p has counted for token t.
count(t, p) ==
    IF p \in Live(pools) /\ bound_to(p) = t THEN pools[p].total_scaled_liquidity ELSE 0

\* A token that is not there, or still may go, is in nobody's books.
Unused(t) == outside[t] = 0 /\ \A p \in Pools : count(t, p) = 0

Wiring ==
    /\ DeploymentType
    /\ sub = NoSubMsg \/ Unanswered
    /\ \A p \in Live(pools) : bound_to(p) \in Tokens \/ (~Idle /\ p = sub.pool)
    /\ \A t \in Tokens : t \notin Live(tokens) \/ (~Idle /\ t = sub.result) => Unused(t)

\* An empty chain is wired.
LEMMA WiringInit == DeploymentInit => Wiring
<1> SUFFICES ASSUME DeploymentInit PROVE Wiring
  OBVIOUS
<1>1. Live(pools) = {} /\ Live(tokens) = {}
  BY DEF DeploymentInit, Live
<1>2. pools \in [Live(pools) -> PoolRow] /\ tokens \in [Live(tokens) -> TokenRow]
  BY DEF DeploymentInit, Live
<1> QED
  BY <1>1, <1>2 DEF DeploymentInit, Wiring, DeploymentType, Idle, Unused, count

NewBooks == [balances |-> [h \in Holders |-> 0], total_supply |-> 0]

\* A new token of a deployer or of a pool.
LEMMA NewTokenType ==
    ASSUME NEW o \in Accounts, NEW m \in Holders, NEW q \in Pools \cup {NO_ONE}
    PROVE  /\ InstantiateMsg(o, m, q) \in TokenRow
           /\ InstantiateMsg(o, m, q).books.total_supply = 0
<1>1. NewBooks \in Books /\ NewBooks.total_supply = 0
  BY DEF NewBooks, Books
<1>2. InstantiateMsg(o, m, q)
        = [owner |-> o, minter |-> m, pool_address |-> q, books |-> NewBooks]
  BY DEF InstantiateMsg, NewBooks
<1> HIDE DEF NewBooks
<1> QED
  BY <1>1, <1>2 DEF TokenRow

\* What a step leaves alone stays wired.
LEMMA PoolsKept ==
    ASSUME UNCHANGED pools
    PROVE  /\ \A p \in Pools, t \in Tokens : count(t, p)' = count(t, p)
           /\ \A p : bound_to(p)' = bound_to(p)
BY DEF count, bound_to, Live

\* A token by itself: nobody is bound to it who has counted anything.
LEMMA InstantiateTokenWiring ==
    ASSUME Wiring, NEW s \in Accounts, NEW t \in Tokens, NEW m \in Holders,
           NEW q \in Pools \cup {NO_ONE}, InstantiateToken(s, t, m, q)
    PROVE  Wiring'
<1>1. /\ UNCHANGED <<pools, sub, outside>> /\ sub = NoSubMsg
      /\ tokens' = with(tokens, t, InstantiateMsg(s, m, q))
  BY DEF InstantiateToken, Idle
<1>2. tokens \in [Live(tokens) -> TokenRow] /\ InstantiateMsg(s, m, q) \in TokenRow
  BY NewTokenType DEF Wiring, DeploymentType
<1>3. Live(tokens') = Live(tokens) \cup {t} /\ tokens' \in [Live(tokens') -> TokenRow]
  BY <1>1, <1>2 DEF with, Live
<1>4. DeploymentType'
  BY <1>1, <1>3 DEF Wiring, DeploymentType
<1>5. \A u \in Tokens : u \notin Live(tokens') => Unused(u)'
  BY <1>1, <1>3, PoolsKept DEF Wiring, Unused
<1> QED
  BY <1>1, <1>4, <1>5, PoolsKept DEF Wiring, Idle

\* A new pool has counted nothing.
LEMMA InstantiatePoolWiring ==
    ASSUME Wiring, NEW s \in Accounts, NEW p \in Pools, NEW t \in Tokens \cup {NO_ONE},
           InstantiatePool(s, p, t)
    PROVE  /\ Wiring'
           /\ \A u \in Tokens, q \in Pools : count(u, q)' = count(u, q)
<1> DEFINE row == [ owner |-> s, repo_token_cw20_address |-> t, total_scaled_liquidity |-> 0 ]
<1>1. /\ UNCHANGED <<tokens, outside>> /\ sub = NoSubMsg /\ p \notin Live(pools)
      /\ pools' = with(pools, p, row)
      /\ sub' = IF t = NO_ONE THEN [pool |-> p, result |-> "sent"] ELSE NoSubMsg
  BY DEF InstantiatePool, Idle
<1>2. /\ pools \in [Live(pools) -> PoolRow] /\ Live(pools) \subseteq Pools
      /\ row \in PoolRow
      /\ row.repo_token_cw20_address = t /\ row.total_scaled_liquidity = 0
  BY DEF Wiring, DeploymentType, PoolRow
<1> HIDE DEF row
<1>3. /\ Live(pools') = Live(pools) \cup {p} /\ pools' \in [Live(pools') -> PoolRow]
      /\ pools'[p] = row
      /\ \A q \in Live(pools) : pools'[q] = pools[q]
  BY <1>1, <1>2 DEF with, Live
<1>4. DeploymentType'
  BY <1>1, <1>2, <1>3 DEF Wiring, DeploymentType, Live
<1>5. \A u \in Tokens, q \in Pools : count(u, q)' = count(u, q)
  BY <1>1, <1>2, <1>3 DEF count, bound_to
<1>6. \A u \in Tokens : Unused(u)' <=> Unused(u)
  BY <1>1, <1>5 DEF Unused
<1>7. \A q \in Live(pools) : bound_to(q)' = bound_to(q) /\ bound_to(q) \in Tokens
  BY <1>1, <1>3 DEF Wiring, Idle, bound_to
<1>8. bound_to(p)' = t
  BY <1>2, <1>3 DEF bound_to
<1>9. CASE t = NO_ONE
  <2>1. sub' = [pool |-> p, result |-> "sent"] /\ "sent" \notin Tokens /\ sub'.pool = p
        /\ sub'.result = "sent"
    BY <1>1, <1>9, DeploymentAssumption
  <2>2. ~Idle'
    BY <2>1, DeploymentAssumption DEF Idle, NoSubMsg
  <2>3. Unanswered'
    BY <1>2, <1>3, <1>8, <1>9, <2>1 DEF Unanswered
  <2>4. \A u \in Tokens : u \notin Live(tokens') => Unused(u)'
    BY <1>1, <1>6 DEF Wiring
  <2> QED
    BY <1>3, <1>4, <1>5, <1>7, <2>1, <2>2, <2>3, <2>4 DEF Wiring, Idle
<1>10. CASE t # NO_ONE
  BY <1>1, <1>3, <1>4, <1>5, <1>6, <1>7, <1>8, <1>10 DEF Wiring, Idle
<1> QED
  BY <1>9, <1>10

\* The submessage touches no pool, and no books but those of the new token.
LEMMA SubMsgWiring ==
    ASSUME Wiring, SubMsgRuns
    PROVE  Wiring'
<1>1. /\ UNCHANGED <<pools, outside>> /\ Unanswered /\ ~Idle /\ sub.result = "sent"
      /\ sub.pool \in Pools /\ pools[sub.pool].owner \in Accounts
  BY DeploymentAssumption DEF SubMsgRuns, Wiring, Idle, NoSubMsg, Unanswered, DeploymentType, PoolRow
<1>2. "sent" \notin Tokens /\ Failed \notin Tokens /\ Failed # "none" /\ sub.pool # NO_ONE
  BY <1>1, DeploymentAssumption DEF Failed
<1>3. \A q \in Live(pools) : bound_to(q)' \in Tokens \/ q = sub.pool
  BY <1>1, PoolsKept DEF Wiring
<1>4. CASE \E t \in Tokens \ Live(tokens) :
              /\ tokens' = with(tokens, t, new_repo_token(sub.pool))
              /\ sub' = [sub EXCEPT !.result = t]
  <2>1. PICK t \in Tokens \ Live(tokens) :
              /\ tokens' = with(tokens, t, new_repo_token(sub.pool))
              /\ sub' = [sub EXCEPT !.result = t]
    BY <1>4
  <2> DEFINE row == new_repo_token(sub.pool)
  <2>2. row \in TokenRow /\ row.books.total_supply = 0
    BY <1>1, NewTokenType DEF new_repo_token, Holders
  <2> HIDE DEF row
  <2>3. tokens \in [Live(tokens) -> TokenRow] /\ Live(tokens) \subseteq Tokens
    BY DEF Wiring, DeploymentType
  <2>4. /\ Live(tokens') = Live(tokens) \cup {t} /\ tokens' \in [Live(tokens') -> TokenRow]
        /\ tokens'[t] = row
    BY <2>1, <2>2, <2>3 DEF with, Live, row
  <2>5. sub'.pool = sub.pool /\ sub'.result = t /\ ~Idle'
        /\ sub' \in [pool : Pools, result : {"sent", Failed} \cup Tokens]
    BY <1>1, <1>2, <2>1 DEF Unanswered, Idle, NoSubMsg
  <2>6. Unanswered'
    BY <1>1, <2>2, <2>4, <2>5, PoolsKept DEF Unanswered
  <2>7. DeploymentType'
    BY <1>1, <2>3, <2>4 DEF Wiring, DeploymentType
  <2>8. \A u \in Tokens : u \notin Live(tokens) => Unused(u)'
    BY <1>1, PoolsKept DEF Wiring, Unused
  <2> QED
    BY <1>1, <1>3, <2>1, <2>4, <2>5, <2>6, <2>7, <2>8 DEF Wiring
<1>5. CASE sub' = [sub EXCEPT !.result = Failed] /\ UNCHANGED tokens
  <2>1. sub'.pool = sub.pool /\ sub'.result = Failed /\ ~Idle'
        /\ sub' \in [pool : Pools, result : {"sent", Failed} \cup Tokens]
    BY <1>1, <1>2, <1>5 DEF Unanswered, Idle, NoSubMsg
  <2>2. Unanswered'
    BY <1>1, <1>2, <2>1, PoolsKept DEF Unanswered
  <2>3. DeploymentType'
    BY <1>1, <1>5 DEF Wiring, DeploymentType
  <2>4. \A u \in Tokens : u \notin Live(tokens) => Unused(u)'
    BY <1>1, PoolsKept DEF Wiring, Unused
  <2> QED
    BY <1>1, <1>2, <1>3, <1>5, <2>1, <2>2, <2>3, <2>4 DEF Wiring
<1> QED
  BY <1>4, <1>5 DEF SubMsgRuns

\* An instantiation taken back removes a pool and a token that nobody used.
Withdrawn ==
    /\ pools' = without(pools, {sub.pool})
    /\ tokens' = without(tokens, {sub.result})
    /\ sub' = NoSubMsg
    /\ UNCHANGED outside

\* Taking back leaves no trace in the counts.
LEMMA WithdrawnWiring ==
    ASSUME Wiring, ~Idle, Withdrawn
    PROVE  /\ Wiring'
           /\ \A u \in Tokens, q \in Pools : count(u, q)' = count(u, q)
<1>1. Unanswered /\ sub' = NoSubMsg /\ UNCHANGED outside
  BY DEF Wiring, Idle, Withdrawn
<1>2. /\ pools \in [Live(pools) -> PoolRow] /\ Live(pools) \subseteq Pools
      /\ tokens \in [Live(tokens) -> TokenRow] /\ Live(tokens) \subseteq Tokens
  BY DEF Wiring, DeploymentType
<1>3. /\ Live(pools') = Live(pools) \ {sub.pool} /\ pools' \in [Live(pools') -> PoolRow]
      /\ \A q \in Live(pools') : pools'[q] = pools[q]
  BY <1>2 DEF Withdrawn, without, Restrict, Live
<1>4. /\ Live(tokens') = Live(tokens) \ {sub.result} /\ tokens' \in [Live(tokens') -> TokenRow]
      /\ \A t \in Live(tokens') : tokens'[t] = tokens[t]
  BY <1>2 DEF Withdrawn, without, Restrict, Live
<1>5. DeploymentType'
  BY <1>1, <1>2, <1>3, <1>4 DEF Wiring, DeploymentType
<1>6. \A q \in Live(pools') : bound_to(q)' = bound_to(q) /\ bound_to(q) \in Tokens
  BY <1>3 DEF Wiring, bound_to
<1>7. \A u \in Tokens, q \in Pools : count(u, q)' = count(u, q)
  <2> SUFFICES ASSUME NEW u \in Tokens, NEW q \in Pools PROVE count(u, q)' = count(u, q)
    OBVIOUS
  <2>1. CASE q = sub.pool
    BY <1>1, <1>3, <2>1 DEF count, Unanswered
  <2>2. CASE q # sub.pool
    BY <1>3, <2>2 DEF count, bound_to
  <2> QED
    BY <2>1, <2>2
<1>8. \A u \in Tokens : Unused(u)' <=> Unused(u)
  BY <1>1, <1>7 DEF Unused
<1>9. \A u \in Tokens : u \notin Live(tokens') => Unused(u)
  BY <1>4 DEF Wiring
<1> QED
  BY <1>1, <1>5, <1>6, <1>7, <1>8, <1>9 DEF Wiring, Idle

\* A reply that binds gives the pool its token before anything is counted.
LEMMA BoundWiring ==
    ASSUME Wiring, ~Idle, sub.result \in Tokens,
           pools' = [pools EXCEPT ![sub.pool].repo_token_cw20_address = sub.result],
           sub' = NoSubMsg, UNCHANGED <<tokens, outside>>
    PROVE  /\ Wiring'
           /\ \A u \in Tokens, q \in Pools : count(u, q)' = count(u, q)
<1>1. Unanswered
  BY DEF Wiring, Idle
<1>2. pools \in [Live(pools) -> PoolRow] /\ Live(pools) \subseteq Pools
  BY DEF Wiring, DeploymentType
<1>3. /\ Live(pools') = Live(pools) /\ pools' \in [Live(pools') -> PoolRow]
      /\ pools'[sub.pool].repo_token_cw20_address = sub.result
      /\ pools'[sub.pool].total_scaled_liquidity = 0
      /\ \A q \in Live(pools) \ {sub.pool} : pools'[q] = pools[q]
  BY <1>1, <1>2 DEF Live, Unanswered, PoolRow
<1>4. DeploymentType'
  BY <1>2, <1>3 DEF Wiring, DeploymentType
<1>5. \A q \in Live(pools') : bound_to(q)' \in Tokens
  BY <1>3 DEF Wiring, bound_to
<1>6. \A u \in Tokens, q \in Pools : count(u, q)' = count(u, q)
  <2> SUFFICES ASSUME NEW u \in Tokens, NEW q \in Pools PROVE count(u, q)' = count(u, q)
    OBVIOUS
  <2>1. CASE q = sub.pool
    BY <1>1, <1>3, <2>1 DEF count, Unanswered
  <2>2. CASE q # sub.pool
    BY <1>3, <2>2 DEF count, bound_to
  <2> QED
    BY <2>1, <2>2
<1>7. \A u \in Tokens : Unused(u)' <=> Unused(u)
  BY <1>6 DEF Unused
<1> QED
  BY <1>4, <1>5, <1>6, <1>7 DEF Wiring, Idle

\* Every way the submessage can end.
LEMMA AnsweredWiring ==
    ASSUME Wiring, Reply \/ OutOfGas
    PROVE  /\ Wiring'
           /\ \A u \in Tokens, q \in Pools : count(u, q)' = count(u, q)
<1>1. ~Idle
  BY DeploymentAssumption DEF Reply, OutOfGas, Idle, NoSubMsg, Failed
<1>2. CASE OutOfGas
  BY <1>1, <1>2, WithdrawnWiring DEF OutOfGas, Withdrawn
<1>3. CASE Reply
  <2>1. CASE instantiated(sub.result) /\ pools[sub.pool].repo_token_cw20_address = NO_ONE
    BY <1>1, <1>3, <2>1, BoundWiring DEF Reply, instantiated
  <2>2. CASE ~(instantiated(sub.result) /\ pools[sub.pool].repo_token_cw20_address = NO_ONE)
    BY <1>1, <1>3, <2>2, WithdrawnWiring DEF Reply, Withdrawn
  <2> QED
    BY <2>1, <2>2
<1> QED
  BY <1>2, <1>3

\* A new minter or pool_address changes no binding and no books.
LEMMA UpdateConfigWiring ==
    ASSUME Wiring, NEW s \in Accounts, NEW t \in Tokens, NEW m \in Holders \cup {NO_ONE},
           NEW q \in Pools \cup {NO_ONE}, UpdateConfig(s, t, m, q)
    PROVE  /\ Wiring'
           /\ Live(tokens') = Live(tokens)
           /\ \A u \in Live(tokens) : tokens'[u].books = tokens[u].books
<1>1. UNCHANGED <<pools, sub, outside>> /\ sub = NoSubMsg /\ t \in Live(tokens)
  BY DEF UpdateConfig, Idle
<1>2. PICK mm \in Holders, qq \in Pools \cup {NO_ONE} :
          tokens' = [tokens EXCEPT ![t].minter = mm, ![t].pool_address = qq]
  <2>1. tokens[t].minter \in Holders /\ tokens[t].pool_address \in Pools \cup {NO_ONE}
    BY <1>1 DEF Wiring, DeploymentType, TokenRow
  <2>2. tokens' = [tokens EXCEPT
                     ![t].minter = IF m = NO_ONE THEN tokens[t].minter ELSE m,
                     ![t].pool_address = IF q = NO_ONE THEN tokens[t].pool_address ELSE q]
    BY <1>1 DEF UpdateConfig, Wiring, DeploymentType, TokenRow
  <2> QED
    BY <2>1, <2>2
<1>3. /\ Live(tokens') = Live(tokens) /\ tokens' \in [Live(tokens') -> TokenRow]
      /\ \A u \in Live(tokens) : tokens'[u].books = tokens[u].books
  BY <1>1, <1>2 DEF Wiring, DeploymentType, TokenRow, Live
<1>4. DeploymentType'
  BY <1>1, <1>3 DEF Wiring, DeploymentType
<1> QED
  BY <1>1, <1>3, <1>4, PoolsKept DEF Wiring, Idle, Unused

-----------------------------------------------------------------------------
\* The count.  Supply, what the pools counted and what accounts minted.
counts(t) == [p \in Pools |-> count(t, p)]
counted(t) == SumFunctionOnSet(counts(t), Pools) + outside[t]

CountedInv ==
    /\ Wiring
    /\ \A t \in Live(tokens) : tokens[t].books.total_supply = counted(t)

\* The counts and their sum are integers.
LEMMA CountTypes ==
    ASSUME Wiring, NEW t
    PROVE  /\ \A p \in Pools : count(t, p) \in Int
           /\ SumFunctionOnSet(counts(t), Pools) \in Int
<1>1. \A p \in Pools : count(t, p) \in Int
  BY DEF Wiring, DeploymentType, count, PoolRow
<1>2. \A p \in Pools : counts(t)[p] \in Int
  BY <1>1 DEF counts
<1> QED
  BY <1>1, <1>2, SumSplit, DeploymentAssumption

\* Where no pool counts anything the sum is what it was.
LEMMA CountsKept ==
    ASSUME NEW t, \A p \in Pools : count(t, p)' = count(t, p)
    PROVE  SumFunctionOnSet(counts(t), Pools)' = SumFunctionOnSet(counts(t), Pools)
<1> PICK f : f = counts(t)
  OBVIOUS
<1> PICK g : g = counts(t)'
  OBVIOUS
<1>1. \A p \in Pools : f[p] = g[p]
  BY DEF counts
<1>2. SumFunctionOnSet(f, Pools) = SumFunctionOnSet(g, Pools)
  BY <1>1, SumCongruence, DeploymentAssumption
<1> QED
  BY <1>2

\* The books of a token and the count of its pool, or of the accounts, move by
\* the same amount.
Recorded(t, n, books) ==
    /\ Idle /\ t \in Live(tokens)
    /\ books \in Books /\ books.total_supply = tokens[t].books.total_supply + n
    /\ tokens' = [tokens EXCEPT ![t].books = books]
    /\ UNCHANGED sub

\* What recording in the books of one token leaves of the tokens.
LEMMA RecordedTokens ==
    ASSUME Wiring, NEW t, NEW n, NEW books, Recorded(t, n, books)
    PROVE  /\ Live(tokens') = Live(tokens) /\ tokens' \in [Live(tokens') -> TokenRow]
           /\ tokens'[t].books.total_supply = tokens[t].books.total_supply + n
           /\ \A u \in Live(tokens) : u # t => tokens'[u] = tokens[u]
BY DEF Wiring, DeploymentType, Recorded, Live, TokenRow

\* A message through a pool: its count moves with the supply of its token.
LEMMA PoolUseInv ==
    ASSUME CountedInv, NEW t, NEW n \in Int, NEW books, Recorded(t, n, books),
           NEW p \in Live(pools), bound_to(p) = t, UNCHANGED outside,
           pools' = [pools EXCEPT ![p].total_scaled_liquidity = @ + n]
    PROVE  CountedInv'
<1>1. /\ pools \in [Live(pools) -> PoolRow] /\ Live(pools) \subseteq Pools
      /\ outside \in [Tokens -> Int] /\ t \in Tokens
  BY DEF CountedInv, Wiring, DeploymentType, Recorded
<1>2. /\ Live(pools') = Live(pools) /\ pools' \in [Live(pools') -> PoolRow]
      /\ pools'[p].total_scaled_liquidity = pools[p].total_scaled_liquidity + n
      /\ \A q \in Live(pools) : /\ pools'[q].repo_token_cw20_address
                                       = pools[q].repo_token_cw20_address
                                /\ q # p => pools'[q] = pools[q]
  BY <1>1 DEF Live, PoolRow
<1>3. /\ Live(tokens') = Live(tokens) /\ tokens' \in [Live(tokens') -> TokenRow]
      /\ tokens'[t].books.total_supply = tokens[t].books.total_supply + n
      /\ \A u \in Live(tokens) : u # t => tokens'[u] = tokens[u]
  BY RecordedTokens DEF CountedInv
<1>4. /\ count(t, p)' = count(t, p) + n
      /\ \A q \in Pools \ {p} : count(t, q)' = count(t, q)
      /\ \A u \in Tokens, q \in Pools : u # t => count(u, q)' = count(u, q)
  BY <1>1, <1>2 DEF count, bound_to
<1>5. SumFunctionOnSet(counts(t), Pools)' = SumFunctionOnSet(counts(t), Pools) + n
  <2> PICK f : f = counts(t)
    OBVIOUS
  <2> PICK g : g = counts(t)'
    OBVIOUS
  <2>1. /\ \A q \in Pools : f[q] \in Int
        /\ g[p] = f[p] + n /\ g[p] \in Int
        /\ \A q \in Pools \ {p} : g[q] = f[q]
    BY <1>1, <1>4, CountTypes DEF CountedInv, counts
  <2>2. SumFunctionOnSet(g, Pools) = SumFunctionOnSet(f, Pools) + (g[p] - f[p])
    BY <1>1, <2>1, SumUpdate, DeploymentAssumption
  <2>3. g[p] - f[p] = n
    BY <1>1, <2>1
  <2> QED
    BY <2>2, <2>3
<1>6. Wiring'
  <2>1. DeploymentType'
    BY <1>1, <1>2, <1>3 DEF CountedInv, Wiring, DeploymentType
  <2>2. \A q \in Live(pools') : bound_to(q)' \in Tokens
    BY <1>2 DEF CountedInv, Wiring, Recorded, bound_to
  <2>3. sub' = NoSubMsg /\ Idle
    BY DEF Recorded, Idle
  <2>4. \A u \in Tokens : u \notin Live(tokens') => Unused(u)'
    <3> SUFFICES ASSUME NEW u \in Tokens, u \notin Live(tokens') PROVE Unused(u)'
      OBVIOUS
    <3>1. u \notin Live(tokens) /\ u # t
      BY <1>3 DEF Recorded
    <3>2. Unused(u)
      BY <3>1 DEF CountedInv, Wiring
    <3> QED
      BY <1>4, <3>1, <3>2 DEF Unused
  <2> QED
    BY <2>1, <2>2, <2>3, <2>4 DEF Wiring, Idle
<1>7. ASSUME NEW u \in Live(tokens') PROVE tokens'[u].books.total_supply = counted(u)'
  <2>1. SumFunctionOnSet(counts(t), Pools) \in Int /\ outside[t] \in Int
    BY <1>1, CountTypes DEF CountedInv
  <2>2. CASE u = t
    BY <1>3, <1>5, <2>1, <2>2 DEF CountedInv, counted, Recorded
  <2>3. CASE u # t
    <3>1. u \in Tokens /\ u \in Live(tokens)
      BY <1>3, <1>7 DEF CountedInv, Wiring, DeploymentType
    <3>2. SumFunctionOnSet(counts(u), Pools)' = SumFunctionOnSet(counts(u), Pools)
      BY <1>4, <2>3, <3>1, CountsKept
    <3> QED
      BY <1>3, <2>3, <3>1, <3>2 DEF CountedInv, counted
  <2> QED
    BY <2>2, <2>3
<1> QED
  BY <1>6, <1>7 DEF CountedInv

\* A message of an account that is minter: outside moves with the supply.
LEMMA OutsideUseInv ==
    ASSUME CountedInv, NEW t, NEW n \in Int, NEW books, Recorded(t, n, books),
           UNCHANGED pools, outside' = [outside EXCEPT ![t] = @ + n]
    PROVE  CountedInv'
<1>1. /\ outside \in [Tokens -> Int] /\ t \in Tokens /\ Live(tokens) \subseteq Tokens
      /\ sub = NoSubMsg /\ UNCHANGED sub
  BY DEF CountedInv, Wiring, DeploymentType, Recorded, Idle
<1>2. /\ Live(tokens') = Live(tokens) /\ tokens' \in [Live(tokens') -> TokenRow]
      /\ tokens'[t].books.total_supply = tokens[t].books.total_supply + n
      /\ \A u \in Live(tokens) : u # t => tokens'[u] = tokens[u]
  BY RecordedTokens DEF CountedInv
<1>3. /\ outside' \in [Tokens -> Int] /\ outside'[t] = outside[t] + n
      /\ \A u \in Tokens : u # t => outside'[u] = outside[u]
  BY <1>1
<1>4. Wiring'
  <2>1. DeploymentType'
    BY <1>1, <1>2, <1>3 DEF CountedInv, Wiring, DeploymentType
  <2>2. \A u \in Tokens : u \notin Live(tokens') => Unused(u)'
    BY <1>2, <1>3, PoolsKept DEF CountedInv, Wiring, Unused, Recorded
  <2> QED
    BY <1>1, <2>1, <2>2, PoolsKept DEF CountedInv, Wiring, Idle
<1>5. ASSUME NEW u \in Live(tokens') PROVE tokens'[u].books.total_supply = counted(u)'
  <2>1. SumFunctionOnSet(counts(u), Pools)' = SumFunctionOnSet(counts(u), Pools)
    BY <1>1, <1>2, <1>5, PoolsKept, CountsKept
  <2>2. SumFunctionOnSet(counts(u), Pools) \in Int /\ outside[u] \in Int /\ u \in Tokens
    BY <1>1, <1>2, <1>5, CountTypes DEF CountedInv
  <2> QED
    BY <1>2, <1>3, <1>5, <2>1, <2>2 DEF CountedInv, counted, Recorded
<1> QED
  BY <1>4, <1>5 DEF CountedInv

\* What minting, burning and moving do to the books.
LEMMA BooksAfter ==
    ASSUME NEW b \in Books, NEW h \in Holders, NEW k \in Holders, NEW n \in Int
    PROVE  /\ mint(b, h, n) \in Books /\ mint(b, h, n).total_supply = b.total_supply + n
           /\ apply_burn(b, h, n) \in Books
           /\ apply_burn(b, h, n).total_supply = b.total_supply + (-n)
           /\ move(b, h, k, n) \in Books /\ move(b, h, k, n).total_supply = b.total_supply
<1>1. b.balances \in [Holders -> Int] /\ b.total_supply \in Int
  BY DEF Books
<1>2. mint(b, h, n) \in Books /\ mint(b, h, n).total_supply = b.total_supply + n
  BY <1>1 DEF mint, Books
<1>3. /\ apply_burn(b, h, n) \in Books
      /\ apply_burn(b, h, n).total_supply = b.total_supply + (-n)
  BY <1>1 DEF apply_burn, Books
<1>4. move(b, h, k, n) \in Books /\ move(b, h, k, n).total_supply = b.total_supply
  BY <1>1 DEF move, Books
<1> QED
  BY <1>2, <1>3, <1>4

\* The types of one token.
LEMMA TokenBooks ==
    ASSUME Wiring, NEW t \in Live(tokens)
    PROVE  /\ tokens[t].books \in Books /\ t \in Tokens
           /\ tokens[t].pool_address \in Pools \cup {NO_ONE}
BY DEF Wiring, DeploymentType, TokenRow

\* Lending.
LEMMA LendCounted ==
    ASSUME CountedInv, NEW p \in Pools, NEW l \in Accounts, NEW n \in Int, Lend(p, l, n)
    PROVE  CountedInv'
<1> DEFINE t == bound_to(p)
           b == mint(tokens[t].books, l, n)
<1>1. /\ Idle /\ p \in Live(pools) /\ t \in Live(tokens) /\ UNCHANGED <<sub, outside>>
      /\ pools' = [pools EXCEPT ![p].total_scaled_liquidity = @ + n]
      /\ tokens' = [tokens EXCEPT ![t].books = mint(@, l, n)]
  BY DEF Lend, usable
<1>2. tokens[t].books \in Books /\ tokens \in [Live(tokens) -> TokenRow] /\ l \in Holders
  BY <1>1, TokenBooks DEF CountedInv, Wiring, DeploymentType, Holders
<1>3. tokens' = [tokens EXCEPT ![t].books = b]
  BY <1>1, <1>2
<1>4. b \in Books /\ b.total_supply = tokens[t].books.total_supply + n
  BY <1>2, BooksAfter
<1> HIDE DEF b
<1>5. Recorded(t, n, b)
  BY <1>1, <1>3, <1>4 DEF Recorded
<1> QED
  BY <1>1, <1>5, PoolUseInv

\* Withdrawal by BurnFrom.
LEMMA WithdrawCounted ==
    ASSUME CountedInv, NEW p \in Pools, NEW s \in Accounts, NEW l \in Accounts,
           NEW n \in Int, Withdraw(p, s, l, n)
    PROVE  CountedInv'
<1> DEFINE t == bound_to(p)
           b == apply_burn(tokens[t].books, l, n)
<1>0. PICK k \in Int : k = -n
  OBVIOUS
<1>1. /\ Idle /\ p \in Live(pools) /\ t \in Live(tokens) /\ UNCHANGED <<sub, outside>>
      /\ pools' = [pools EXCEPT ![p].total_scaled_liquidity = @ - n]
      /\ tokens' = [tokens EXCEPT ![t].books = apply_burn(@, l, n)]
  BY DEF Withdraw, usable, deduct_scaled_liquidity
<1>2. /\ tokens[t].books \in Books /\ tokens \in [Live(tokens) -> TokenRow] /\ l \in Holders
      /\ pools[p].total_scaled_liquidity \in Int /\ pools \in [Live(pools) -> PoolRow]
  BY <1>1, TokenBooks DEF CountedInv, Wiring, DeploymentType, Holders, PoolRow
<1>3. /\ tokens' = [tokens EXCEPT ![t].books = b]
      /\ pools' = [pools EXCEPT ![p].total_scaled_liquidity = @ + k]
  BY <1>0, <1>1, <1>2 DEF PoolRow
<1>4. b \in Books /\ b.total_supply = tokens[t].books.total_supply + k
  BY <1>0, <1>2, BooksAfter
<1> HIDE DEF b
<1>5. Recorded(t, k, b)
  BY <1>1, <1>3, <1>4 DEF Recorded
<1> QED
  BY <1>1, <1>3, <1>5, PoolUseInv

\* Redemption by Send: the units pass through the pool and are burned there.
LEMMA RedeemCounted ==
    ASSUME CountedInv, NEW t \in Tokens, NEW l \in Accounts, NEW n \in Int, Redeem(t, l, n)
    PROVE  CountedInv'
<1> DEFINE p == tokens[t].pool_address
           m == move(tokens[t].books, l, p, n)
           b == apply_burn(m, p, n)
<1>0. PICK k \in Int : k = -n
  OBVIOUS
<1>1. /\ Idle /\ p \in Live(pools) /\ t \in Live(tokens) /\ UNCHANGED <<sub, outside>>
      /\ bound_to(p) = t
      /\ pools' = [pools EXCEPT ![p].total_scaled_liquidity = @ - n]
      /\ tokens' = [tokens EXCEPT ![t].books = b]
  BY DEF Redeem, usable, deduct_scaled_liquidity
<1>2. /\ tokens[t].books \in Books /\ l \in Holders /\ p \in Holders
      /\ pools[p].total_scaled_liquidity \in Int /\ pools \in [Live(pools) -> PoolRow]
  BY <1>1, TokenBooks DEF CountedInv, Wiring, DeploymentType, Holders, PoolRow
<1>3. pools' = [pools EXCEPT ![p].total_scaled_liquidity = @ + k]
  BY <1>0, <1>1, <1>2 DEF PoolRow
<1>4. m \in Books /\ m.total_supply = tokens[t].books.total_supply
  <2>1. tokens[t].books \in Books /\ l \in Holders /\ p \in Holders /\ n \in Int
    BY <1>2
  <2> HIDE DEF p
  <2> QED
    BY ONLY <2>1, BooksAfter
<1>5. b \in Books /\ b.total_supply = m.total_supply + k
  <2>1. m \in Books /\ p \in Holders /\ n \in Int /\ k = -n
    BY <1>0, <1>2, <1>4
  <2> HIDE DEF m, p
  <2>2. b \in Books /\ b.total_supply = m.total_supply + (-n)
    BY ONLY <2>1, BooksAfter
  <2> QED
    BY <2>1, <2>2
<1> HIDE DEF b, m, p
<1>6. Recorded(t, k, b)
  BY <1>1, <1>4, <1>5 DEF Recorded
<1> QED
  BY <1>1, <1>3, <1>6, PoolUseInv

\* Minting and burning by accounts.
LEMMA OutsideCounted ==
    ASSUME CountedInv, NEW t \in Tokens, NEW m \in Accounts, NEW h \in Accounts,
           NEW n \in Int, MintOutside(t, m, h, n) \/ BurnOutside(t, m, h, n)
    PROVE  CountedInv'
<1>1. t \in Live(tokens) /\ Idle /\ UNCHANGED <<pools, sub>>
  BY DEF MintOutside, BurnOutside
<1>2. /\ tokens[t].books \in Books /\ tokens \in [Live(tokens) -> TokenRow] /\ h \in Holders
      /\ outside \in [Tokens -> Int]
  BY <1>1, TokenBooks DEF CountedInv, Wiring, DeploymentType, Holders
<1>3. CASE MintOutside(t, m, h, n)
  <2> DEFINE b == mint(tokens[t].books, h, n)
  <2>1. tokens' = [tokens EXCEPT ![t].books = b] /\ outside' = [outside EXCEPT ![t] = @ + n]
    BY <1>2, <1>3 DEF MintOutside
  <2>2. b \in Books /\ b.total_supply = tokens[t].books.total_supply + n
    BY <1>2, BooksAfter
  <2> HIDE DEF b
  <2>3. Recorded(t, n, b)
    BY <1>1, <2>1, <2>2 DEF Recorded
  <2> QED
    BY <1>1, <2>1, <2>3, OutsideUseInv
<1>4. CASE BurnOutside(t, m, h, n)
  <2> DEFINE b == apply_burn(tokens[t].books, h, n)
  <2>0. PICK k \in Int : k = -n
    OBVIOUS
  <2>1. tokens' = [tokens EXCEPT ![t].books = b] /\ outside' = [outside EXCEPT ![t] = @ + k]
    BY <1>2, <1>4, <2>0 DEF BurnOutside
  <2>2. b \in Books /\ b.total_supply = tokens[t].books.total_supply + k
    BY <1>2, <2>0, BooksAfter
  <2> HIDE DEF b
  <2>3. Recorded(t, k, b)
    BY <1>1, <2>1, <2>2 DEF Recorded
  <2> QED
    BY <1>1, <2>1, <2>3, OutsideUseInv
<1> QED
  BY <1>3, <1>4

\* Steps that count nothing, and leave the books of the tokens as they are.
LEMMA SameBooksCounted ==
    ASSUME CountedInv, Wiring', UNCHANGED outside,
           \A u \in Tokens, q \in Pools : count(u, q)' = count(u, q),
           Live(tokens') \subseteq Live(tokens),
           \A u \in Live(tokens') : tokens'[u].books = tokens[u].books
    PROVE  CountedInv'
<1>1. ASSUME NEW u \in Live(tokens') PROVE tokens'[u].books.total_supply = counted(u)'
  <2>1. u \in Tokens
    BY DEF CountedInv, Wiring, DeploymentType
  <2>2. SumFunctionOnSet(counts(u), Pools)' = SumFunctionOnSet(counts(u), Pools)
    BY <2>1, CountsKept
  <2> QED
    BY <2>2 DEF CountedInv, counted
<1> QED
  BY <1>1 DEF CountedInv

\* A new token starts with nothing in its books and in nobody's.
LEMMA NewTokenCounted ==
    ASSUME CountedInv, Wiring', UNCHANGED <<pools, outside>>, NEW t \in Tokens, Unused(t),
           Live(tokens') = Live(tokens) \cup {t},
           tokens'[t].books.total_supply = 0,
           \A u \in Live(tokens) : u # t => tokens'[u] = tokens[u]
    PROVE  CountedInv'
<1>1. ASSUME NEW u \in Live(tokens') PROVE tokens'[u].books.total_supply = counted(u)'
  <2>1. SumFunctionOnSet(counts(u), Pools)' = SumFunctionOnSet(counts(u), Pools)
    <3>1. u \in Tokens
      BY DEF CountedInv, Wiring, DeploymentType
    <3> QED
      BY <3>1, PoolsKept, CountsKept
  <2>2. CASE u = t
    <3>1. \A p \in Pools : counts(t)[p] = 0
      BY DEF Unused, counts
    <3>2. SumFunctionOnSet(counts(t), Pools) = 0
      BY <3>1, SumOfZeros, DeploymentAssumption
    <3> QED
      BY <2>1, <2>2, <3>2 DEF counted, Unused
  <2>3. CASE u # t
    BY <2>1, <2>3 DEF CountedInv, counted
  <2> QED
    BY <2>2, <2>3
<1> QED
  BY <1>1 DEF CountedInv

\* A step that changes nothing.
LEMMA UnchangedWiring ==
    ASSUME Wiring, UNCHANGED deployment_vars
    PROVE  Wiring'
BY DEF Wiring, DeploymentType, Unanswered, Idle, Unused, count, bound_to, Live, deployment_vars

\* The sum over the pools is the sum over those bound to the token.
LEMMA CountedMeansServed ==
    ASSUME Wiring, NEW t
    PROVE  LET served == {p \in Live(pools) : bound_to(p) = t}
           IN  SumFunctionOnSet(counts(t), Pools)
                 = SumFunction([p \in served |-> pools[p].total_scaled_liquidity])
<1> DEFINE served == {p \in Live(pools) : bound_to(p) = t}
           share == [p \in served |-> pools[p].total_scaled_liquidity]
<1>1. served \in SUBSET Pools
  BY DEF Wiring, DeploymentType
<1>2. \A p \in Pools \ served : counts(t)[p] = 0
  BY DEF counts, count
<1>3. \A p \in Pools : counts(t)[p] \in Int
  BY CountTypes DEF counts
<1>4. \A p \in served : counts(t)[p] = share[p]
  BY <1>1 DEF counts, count
<1>5. IsFiniteSet(served)
  BY <1>1, FS_Subset, DeploymentAssumption
<1>6. DOMAIN share = served
  OBVIOUS
<1> HIDE DEF served, share
<1>7. SumFunctionOnSet(counts(t), Pools) = SumFunctionOnSet(counts(t), served)
  BY <1>1, <1>2, <1>3, SumOfSupport, DeploymentAssumption
<1>8. SumFunctionOnSet(counts(t), served) = SumFunctionOnSet(share, served)
  BY <1>4, <1>5, SumCongruence
<1>9. SumFunction(share) = SumFunctionOnSet(share, served)
  BY <1>6 DEF SumFunction
<1>10. SumFunctionOnSet(counts(t), Pools) = SumFunction(share)
  BY <1>7, <1>8, <1>9
<1> QED
  BY <1>10 DEF served, share

-----------------------------------------------------------------------------
\* Deploying, binding and renaming count nothing.
LEMMA DeployCounted ==
    ASSUME CountedInv, Deploy
    PROVE  CountedInv'
<1>1. CASE \E s \in Accounts, t \in Tokens, m \in Holders, q \in Pools \cup {NO_ONE} :
               InstantiateToken(s, t, m, q)
  <2>1. PICK s \in Accounts, t \in Tokens, m \in Holders, q \in Pools \cup {NO_ONE} :
               InstantiateToken(s, t, m, q)
    BY <1>1
  <2>2. Wiring'
    BY <2>1, InstantiateTokenWiring DEF CountedInv
  <2>3. /\ UNCHANGED <<pools, sub, outside>> /\ t \notin Live(tokens)
        /\ Live(tokens') = Live(tokens) \cup {t}
        /\ tokens'[t].books.total_supply = 0
        /\ \A u \in Live(tokens) : tokens'[u] = tokens[u]
    BY <2>1, NewTokenType DEF InstantiateToken, with, Live
  <2>4. Unused(t)
    BY <2>3 DEF CountedInv, Wiring
  <2>5. CountedInv'
    BY <2>2, <2>3, <2>4, NewTokenCounted
  <2> QED
    BY <2>5
<1>2. CASE SubMsgRuns
  <2>1. Wiring'
    BY <1>2, SubMsgWiring DEF CountedInv
  <2>2. CASE UNCHANGED tokens
    <3>1. UNCHANGED <<pools, outside>>
      BY <1>2 DEF SubMsgRuns
    <3> QED
      BY <2>1, <2>2, <3>1, PoolsKept, SameBooksCounted DEF CountedInv, Wiring, DeploymentType
  <2>3. CASE \E t \in Tokens \ Live(tokens) :
               tokens' = with(tokens, t, new_repo_token(sub.pool))
    <3>1. PICK t \in Tokens \ Live(tokens) :
               tokens' = with(tokens, t, new_repo_token(sub.pool))
      BY <2>3
    <3>2. /\ UNCHANGED <<pools, outside>>
          /\ sub.pool \in Pools /\ pools[sub.pool].owner \in Accounts
      BY <1>2, DeploymentAssumption
      DEF SubMsgRuns, CountedInv, Wiring, Idle, NoSubMsg, Unanswered, DeploymentType, PoolRow
    <3>3. new_repo_token(sub.pool).books.total_supply = 0
      BY <3>2, NewTokenType DEF new_repo_token, Holders
    <3>4. /\ Live(tokens') = Live(tokens) \cup {t}
          /\ tokens'[t].books.total_supply = 0
          /\ \A u \in Live(tokens) : tokens'[u] = tokens[u]
      BY <3>1, <3>3 DEF with, Live
    <3>5. Unused(t)
      BY DEF CountedInv, Wiring
    <3> QED
      BY <2>1, <3>2, <3>4, <3>5, NewTokenCounted
  <2> QED
    BY <1>2, <2>2, <2>3 DEF SubMsgRuns
<1>3. CASE \E s \in Accounts, p \in Pools, t \in Tokens \cup {NO_ONE} : InstantiatePool(s, p, t)
  BY <1>3, InstantiatePoolWiring, SameBooksCounted DEF CountedInv, InstantiatePool
<1>4. CASE Reply \/ OutOfGas
  <2>1. /\ Wiring' /\ \A u \in Tokens, q \in Pools : count(u, q)' = count(u, q)
    BY <1>4, AnsweredWiring DEF CountedInv
  <2>2. /\ Live(tokens') \subseteq Live(tokens) /\ UNCHANGED outside
        /\ \A u \in Live(tokens') : tokens'[u].books = tokens[u].books
    BY <1>4 DEF Reply, OutOfGas, without, Restrict, Live
  <2> QED
    BY <2>1, <2>2, SameBooksCounted
<1>5. CASE \E s \in Accounts, t \in Tokens, m \in Holders \cup {NO_ONE},
              q \in Pools \cup {NO_ONE} : UpdateConfig(s, t, m, q)
  <2>1. PICK s \in Accounts, t \in Tokens, m \in Holders \cup {NO_ONE},
              q \in Pools \cup {NO_ONE} : UpdateConfig(s, t, m, q)
    BY <1>5
  <2>2. UNCHANGED <<pools, outside>>
    BY <2>1 DEF UpdateConfig
  <2>3. /\ Wiring' /\ Live(tokens') = Live(tokens)
        /\ \A u \in Live(tokens) : tokens'[u].books = tokens[u].books
    BY <2>1, UpdateConfigWiring DEF CountedInv
  <2> QED
    BY <2>2, <2>3, PoolsKept, SameBooksCounted
<1> QED
  BY <1>1, <1>2, <1>3, <1>4, <1>5 DEF Deploy

\* Every step keeps the count.
LEMMA DeploymentNextInv ==
    ASSUME CountedInv, [DeploymentNext]_deployment_vars
    PROVE  CountedInv'
<1>1. Amounts \subseteq Int
  BY DeploymentAssumption
<1>2. CASE Deploy
  BY <1>2, DeployCounted
<1>3. CASE Use
  BY <1>1, <1>3, LendCounted, WithdrawCounted, RedeemCounted, OutsideCounted DEF Use
<1>4. CASE UNCHANGED deployment_vars
  BY <1>4, PoolsKept, SameBooksCounted, UnchangedWiring DEF deployment_vars, CountedInv
<1> QED
  BY <1>2, <1>3, <1>4 DEF DeploymentNext

\* However the submessage ends, no transaction leaves a pool without its token.
THEOREM PoolsAreBound == DeploymentSpec => []NoPoolIsLeftUnbound
<1>1. DeploymentInit => CountedInv
  BY WiringInit DEF CountedInv, DeploymentInit, Live
<1>2. CountedInv /\ [DeploymentNext]_deployment_vars => CountedInv'
  BY DeploymentNextInv
<1>3. CountedInv => NoPoolIsLeftUnbound
  BY DEF CountedInv, Wiring, NoPoolIsLeftUnbound
<1> QED
  BY <1>1, <1>2, <1>3, PTL DEF DeploymentSpec

\* The pools bound to a token have counted, between them, its supply but for
\* what accounts minted, whichever pools it served and in whatever order.
THEOREM SupplyIsCounted == DeploymentSpec => []SupplyIsWhatThePoolsCounted
<1>1. DeploymentInit => CountedInv
  BY WiringInit DEF CountedInv, DeploymentInit, Live
<1>2. CountedInv /\ [DeploymentNext]_deployment_vars => CountedInv'
  BY DeploymentNextInv
<1>3. CountedInv => SupplyIsWhatThePoolsCounted
  <2> SUFFICES ASSUME CountedInv PROVE SupplyIsWhatThePoolsCounted
    OBVIOUS
  <2> SUFFICES ASSUME NEW t \in Live(tokens)
               PROVE  LET served == {p \in Live(pools) : bound_to(p) = t}
                      IN  tokens[t].books.total_supply =
                            SumFunction([p \in served |-> pools[p].total_scaled_liquidity])
                              + outside[t]
    BY DEF SupplyIsWhatThePoolsCounted
  <2> DEFINE served == {p \in Live(pools) : bound_to(p) = t}
             sum == SumFunction([p \in served |-> pools[p].total_scaled_liquidity])
  <2>1. SumFunctionOnSet(counts(t), Pools) = sum
    BY CountedMeansServed DEF CountedInv
  <2>2. tokens[t].books.total_supply = SumFunctionOnSet(counts(t), Pools) + outside[t]
    BY DEF CountedInv, counted
  <2> HIDE DEF sum
  <2>3. tokens[t].books.total_supply = sum + outside[t]
    BY <2>1, <2>2
  <2> QED
    BY <2>3 DEF sum
<1> QED
  BY <1>1, <1>2, <1>3, PTL DEF DeploymentSpec

-----------------------------------------------------------------------------
\* The oracle.  A price is dated no further ahead of the block than the lead,
\* a mapping counts no longer than the longest threshold.
PriceRow == [price_usd : Nat, as_of_epoch_second : Nat]

OracleInv ==
    /\ now \in Nat
    /\ prices \in [DOMAIN prices -> PriceRow]
    /\ \A a \in DOMAIN prices : prices[a].as_of_epoch_second <= now + MAX_PRICE_LEAD
    /\ mappings \in [DOMAIN mappings -> AssetMappingV1]
    /\ \A a \in DOMAIN mappings : mappings[a].staleness_threshold_seconds <= LongestThreshold

\* The oracle starts without prices and mappings.
LEMMA OracleInitInv == OracleInit => OracleInv
BY DEF OracleInit, OracleInv

\* A row saved under a name is the row of some request for that name.
LEMMA StoredRow ==
    ASSUME NEW names, NEW rows, NEW a \in Range(names)
    PROVE  \E i \in DOMAIN names : names[i] = a /\ StoredBy(names, rows)[a] = rows[i]
<1> DEFINE i == CHOOSE j \in DOMAIN names : names[j] = a
<1>1. \E j \in DOMAIN names : names[j] = a
  BY DEF Range
<1>2. i \in DOMAIN names /\ names[i] = a
  BY <1>1
<1>3. StoredBy(names, rows)[a] = rows[i]
  BY DEF StoredBy
<1> QED
  BY <1>2, <1>3

\* What holds of the new rows and of the old ones holds of the saved ones.
LEMMA SavedRows ==
    ASSUME NEW names, NEW rows, NEW R, NEW old, old \in [DOMAIN old -> R],
           \A i \in DOMAIN names : rows[i] \in R
    PROVE  LET new == saved(StoredBy(names, rows), old)
           IN  new \in [DOMAIN new -> R]
<1> DEFINE new == saved(StoredBy(names, rows), old)
<1>1. DOMAIN StoredBy(names, rows) = Range(names)
  BY DEF StoredBy
<1>2. \A a \in Range(names) : StoredBy(names, rows)[a] \in R
  BY StoredRow
<1>3. new = [a \in DOMAIN new |-> new[a]]
  BY DEF saved
<1>4. \A a \in DOMAIN new : new[a] \in R
  BY <1>1, <1>2 DEF saved
<1> HIDE DEF new
<1>5. new \in [DOMAIN new -> R]
  BY <1>3, <1>4
<1> QED
  BY <1>5 DEF new

\* Every message keeps the dates and thresholds within their bounds.
LEMMA OracleNextInv ==
    ASSUME OracleInv, [OracleNext]_oracle_vars
    PROVE  OracleInv'
<1>1. CASE \E s \in Owners, updates \in Posts : UpdateAssetPrices(s, updates)
  <2>1. PICK s \in Owners, updates \in Posts : UpdateAssetPrices(s, updates)
    BY <1>1
  <2> DEFINE assets == [i \in DOMAIN updates |-> updates[i].asset]
             rows == [i \in DOMAIN updates |-> PriceV1(updates[i])]
             R == {p \in PriceRow : p.as_of_epoch_second <= now + MAX_PRICE_LEAD}
  <2>2. /\ UNCHANGED <<now, mappings>> /\ prices' = saved(StoredBy(assets, rows), prices)
        /\ \A i \in DOMAIN updates : valid_update(updates[i])
    BY <2>1 DEF UpdateAssetPrices
  <2>3. \A i \in DOMAIN updates : updates[i] \in PriceUpdateV1
    BY OracleAssumption
  <2>4. ASSUME NEW i \in DOMAIN assets PROVE rows[i] \in R
    BY <2>2, <2>3, OracleAssumption
    DEF OracleInv, PriceV1, PriceRow, PriceUpdateV1, valid_update, NOW
  <2>5. prices \in [DOMAIN prices -> R]
    BY DEF OracleInv
  <2> HIDE DEF assets, rows, R
  <2>6. prices' \in [DOMAIN prices' -> R]
    BY <2>2, <2>4, <2>5, SavedRows
  <2> QED
    BY <2>2, <2>6 DEF OracleInv, R
<1>2. CASE \E s \in Owners, to_update \in Remaps, to_remove \in Removals :
               UpdateAssetMappings(s, to_update, to_remove)
  <2>1. PICK s \in Owners, to_update \in Remaps, to_remove \in Removals :
               UpdateAssetMappings(s, to_update, to_remove)
    BY <1>2
  <2> DEFINE alt_ids == [i \in DOMAIN to_update |-> to_update[i].alt_asset_id]
             rows == [i \in DOMAIN to_update |-> to_update[i].mapping]
             kept == Restrict(mappings, DOMAIN mappings \ to_remove)
             R == {m \in AssetMappingV1 : m.staleness_threshold_seconds <= LongestThreshold}
  <2>2. /\ UNCHANGED <<now, prices>> /\ mappings' = saved(StoredBy(alt_ids, rows), kept)
    BY <2>1 DEF UpdateAssetMappings
  <2>3. \A i \in DOMAIN to_update : to_update[i] \in SaveAssetMappingRequestV1
    BY OracleAssumption
  <2>4. ASSUME NEW i \in DOMAIN alt_ids PROVE rows[i] \in R
    BY <2>3, OracleAssumption DEF SaveAssetMappingRequestV1
  <2>5. kept \in [DOMAIN kept -> R]
    BY DEF OracleInv, Restrict
  <2> HIDE DEF alt_ids, rows, kept, R
  <2>6. mappings' \in [DOMAIN mappings' -> R]
    BY <2>2, <2>4, <2>5, SavedRows
  <2> QED
    BY <2>2, <2>6 DEF OracleInv, R
<1>3. CASE \E s, h \in Owners : UpdateOwnership(s, h)
  BY <1>3 DEF UpdateOwnership, OracleInv
<1>4. CASE Tick
  BY <1>4, OracleAssumption DEF Tick, OracleInv, PriceRow
<1>5. CASE UNCHANGED oracle_vars
  BY <1>5 DEF oracle_vars, OracleInv
<1> QED
  BY <1>1, <1>2, <1>3, <1>4, <1>5 DEF OracleNext, OracleMessage

-----------------------------------------------------------------------------
\* A quote, and how long it lives.
LEMMA QuoteShown ==
    ASSUME OracleInv, NEW a \in Assets
    PROVE  /\ QuotesOf(Assets)[a] \in [usd : Nat, expiration : Nat]
           /\ quotable(a) => QuotesOf(Assets)[a].expiration =
                 prices[display_asset(a)].as_of_epoch_second
                     + asset_mapping(a).staleness_threshold_seconds
           /\ ~quotable(a) => QuotesOf(Assets)[a] = [usd |-> 0, expiration |-> 0]
           /\ QuotesOf(Assets)[a].expiration <= now + (MAX_PRICE_LEAD + LongestThreshold)
<1> DEFINE m == asset_mapping(a)
           answers == GetPricesByAsset(Assets)
<1>1. m.staleness_threshold_seconds \in Nat /\ m.staleness_threshold_seconds <= LongestThreshold
  BY OracleAssumption DEF OracleInv, asset_mapping, AssetMappingV1
<1>2. a \in DOMAIN answers <=> quotable(a)
  BY DEF GetPricesByAsset
<1>3. CASE quotable(a)
  <2> DEFINE p == prices[display_asset(a)]
  <2>1. p \in PriceRow /\ p.as_of_epoch_second <= now + MAX_PRICE_LEAD /\ now \in Nat
    BY <1>3 DEF OracleInv, quotable
  <2>2. answers[a] = into_response(m, p)
    BY <1>3 DEF GetPricesByAsset
  <2>3. QuotesOf(Assets)[a]
            = [ usd |-> p.price_usd,
                expiration |-> p.as_of_epoch_second + m.staleness_threshold_seconds ]
    BY <1>2, <1>3, <2>2 DEF QuotesOf, into_response
  <2> HIDE DEF p, m
  <2>4. p.as_of_epoch_second \in Nat /\ p.price_usd \in Nat
    BY <2>1 DEF PriceRow
  <2> QED
    BY <1>1, <1>3, <2>1, <2>3, <2>4, OracleAssumption DEF p, m
<1>4. CASE ~quotable(a)
  BY <1>2, <1>4, OracleAssumption DEF QuotesOf, OracleInv
<1> QED
  BY <1>3, <1>4

\* What holds of every quote, in a form that can be primed.
QuotesBounded ==
    \A a \in Assets :
        /\ QuotesOf(Assets)[a] \in [usd : Nat, expiration : Nat]
        /\ QuotesOf(Assets)[a].expiration <= now + (MAX_PRICE_LEAD + LongestThreshold)

LifeCountsFromThePrice ==
    \A a \in Assets :
        /\ quotable(a) => /\ prices[display_asset(a)].as_of_epoch_second \in Nat
                          /\ asset_mapping(a).staleness_threshold_seconds \in Nat
                          /\ QuotesOf(Assets)[a].expiration =
                                prices[display_asset(a)].as_of_epoch_second
                                    + asset_mapping(a).staleness_threshold_seconds
        /\ ~quotable(a) => QuotesOf(Assets)[a].expiration = 0

\* A message changes no time, and publishes quotes with a bounded life; time
\* changes no quote.
LEMMA OracleStepIsFeedStep ==
    ASSUME OracleInv, QuotesBounded', [OracleNext]_oracle_vars
    PROVE  [Feed!TimePasses \/ Feed!Publish]_<<now, QuotesOf(Assets)>>
<1>1. CASE OracleMessage
  <2>1. UNCHANGED now
    BY <1>1 DEF OracleMessage, UpdateAssetPrices, UpdateAssetMappings, UpdateOwnership
  <2>2. \A a \in Assets :
           /\ QuotesOf(Assets)'[a] \in [usd : Nat, expiration : Nat]
           /\ QuotesOf(Assets)'[a].expiration <= now + (MAX_PRICE_LEAD + LongestThreshold)
    BY <2>1 DEF QuotesBounded
  <2>3. QuotesOf(Assets)' \in [Assets -> [usd : Nat, expiration : Nat]]
    <3>1. QuotesOf(Assets)' = [a \in Assets |-> QuotesOf(Assets)'[a]]
      BY DEF QuotesOf
    <3> QED
      BY <2>2, <3>1
  <2> QED
    BY <2>1, <2>2, <2>3 DEF Feed!Publish
<1>2. CASE Tick
  <2>1. now' > now /\ UNCHANGED <<prices, mappings>>
    BY <1>2 DEF Tick, OracleInv
  <2>2. QuotesOf(Assets)' = QuotesOf(Assets)
    BY <2>1 DEF QuotesOf, GetPricesByAsset, quotable, display_asset, asset_mapping, into_response
  <2> QED
    BY <2>1, <2>2 DEF Feed!TimePasses
<1>3. CASE UNCHANGED oracle_vars
  BY <1>3 DEF oracle_vars, QuotesOf, GetPricesByAsset, quotable, display_asset, asset_mapping,
              into_response
<1> QED
  BY <1>1, <1>2, <1>3 DEF OracleNext

\* In every reachable state quotes are bounded and live from the date of their
\* price.
LEMMA OracleInvIsInvariant == OracleSpec => [](OracleInv /\ QuotesBounded /\ LifeCountsFromThePrice)
<1>1. OracleInit => OracleInv
  BY OracleInitInv
<1>2. OracleInv /\ [OracleNext]_oracle_vars => OracleInv'
  BY OracleNextInv
<1>3. OracleInv => QuotesBounded
  BY QuoteShown DEF QuotesBounded
<1>4. OracleInv => LifeCountsFromThePrice
  <2> SUFFICES ASSUME OracleInv, NEW a \in Assets
               PROVE  /\ quotable(a) => /\ prices[display_asset(a)].as_of_epoch_second \in Nat
                                        /\ asset_mapping(a).staleness_threshold_seconds \in Nat
                                        /\ QuotesOf(Assets)[a].expiration =
                                              prices[display_asset(a)].as_of_epoch_second
                                                  + asset_mapping(a).staleness_threshold_seconds
                      /\ ~quotable(a) => QuotesOf(Assets)[a].expiration = 0
    BY DEF LifeCountsFromThePrice
  <2>1. quotable(a) => prices[display_asset(a)].as_of_epoch_second \in Nat
    BY DEF OracleInv, quotable, PriceRow
  <2>2. asset_mapping(a).staleness_threshold_seconds \in Nat
    BY OracleAssumption DEF OracleInv, asset_mapping, AssetMappingV1
  <2> QED
    BY <2>1, <2>2, QuoteShown
<1> QED
  BY <1>1, <1>2, <1>3, <1>4, PTL DEF OracleSpec

\* The oracle is the feed the pool takes for granted: no answer changes by
\* itself, and none outlives the lead plus the longest threshold.
THEOREM OracleKeepsTheBargain == OracleSpec => ImplementsQuoteFeed
<1>1. OracleInit => Feed!FeedInit
  BY DEF OracleInit, Feed!FeedInit, Feed!Unquoted, QuotesOf, GetPricesByAsset, quotable
<1>2. OracleInv /\ QuotesBounded' /\ [OracleNext]_oracle_vars
        => [Feed!TimePasses \/ Feed!Publish]_<<now, QuotesOf(Assets)>>
  BY OracleStepIsFeedStep
<1> QED
  BY <1>1, <1>2, OracleInvIsInvariant, PTL DEF OracleSpec, ImplementsQuoteFeed, Feed!FeedSpec

\* A quote lives on only with a price of a later time or another mapping.
THEOREM LateNewsIsNoNews == OracleSpec => OnlyNewerPricesLiveLonger
<1>1. ASSUME LifeCountsFromThePrice, LifeCountsFromThePrice', NEW a \in Assets, quotable(a),
             QuotesOf(Assets)'[a].expiration > QuotesOf(Assets)[a].expiration,
             asset_mapping(a)' = asset_mapping(a)
      PROVE  prices'[display_asset(a)].as_of_epoch_second
                > prices[display_asset(a)].as_of_epoch_second
  <2>1. display_asset(a)' = display_asset(a)
    BY <1>1 DEF display_asset
  <2>2. /\ prices[display_asset(a)].as_of_epoch_second \in Nat
        /\ asset_mapping(a).staleness_threshold_seconds \in Nat
        /\ QuotesOf(Assets)[a].expiration = prices[display_asset(a)].as_of_epoch_second
                                              + asset_mapping(a).staleness_threshold_seconds
    BY <1>1 DEF LifeCountsFromThePrice
  <2>3. quotable(a)'
    BY <1>1, <2>2 DEF LifeCountsFromThePrice
  <2>4. /\ prices'[display_asset(a)].as_of_epoch_second \in Nat
        /\ QuotesOf(Assets)'[a].expiration = prices'[display_asset(a)].as_of_epoch_second
                                              + asset_mapping(a).staleness_threshold_seconds
    BY <1>1, <2>1, <2>3 DEF LifeCountsFromThePrice
  <2> QED
    BY <1>1, <2>2, <2>4
<1>2. LifeCountsFromThePrice /\ LifeCountsFromThePrice' /\ [OracleNext]_oracle_vars
        => [ \A a \in Assets :
               (/\ quotable(a)
                /\ QuotesOf(Assets)'[a].expiration > QuotesOf(Assets)[a].expiration) =>
                   \/ asset_mapping(a)' # asset_mapping(a)
                   \/ prices'[display_asset(a)].as_of_epoch_second
                         > prices[display_asset(a)].as_of_epoch_second ]_oracle_vars
  BY <1>1
<1> QED
  BY <1>2, OracleInvIsInvariant, PTL DEF OracleSpec, OnlyNewerPricesLiveLonger
=============================================================================
