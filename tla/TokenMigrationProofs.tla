------------------------ MODULE TokenMigrationProofs ------------------------
(***************************************************************************)
(* Two contracts on their own: the repo token under any minter, pool and   *)
(* owner, and what is stored of any contract through its migrations.  For  *)
(* every set of accounts, contracts, amounts and releases.                 *)
(***************************************************************************)
EXTENDS RepoToken, Migration, SumTheorems

-----------------------------------------------------------------------------
\* The repo token.  A failed Receive puts back the token as it was before the
\* Send, so the invariant speaks of both.
Ledger == [balances : [Addresses -> Nat], total_supply : Nat]

Counted(t) == t \in Ledger /\ t.total_supply = SumFunctionOnSet(t.balances, Addresses)

TokenInv == Counted(token) /\ Counted(hook.before)

\* An empty ledger is counted.
LEMMA EmptyCounted ==
    Counted([balances |-> [a \in Addresses |-> 0], total_supply |-> 0])
<1> DEFINE zeros == [a \in Addresses |-> 0]
<1>1. \A a \in Addresses : zeros[a] = 0
  OBVIOUS
<1>2. SumFunctionOnSet(zeros, Addresses) = 0
  <2> HIDE DEF zeros
  <2> QED
    BY <1>1, SumOfZeros, TokenAssumption
<1>3. [balances |-> zeros, total_supply |-> 0] \in Ledger
  BY DEF Ledger
<1> QED
  BY <1>2, <1>3 DEF Counted

\* Minting adds to one balance and to the supply.
LEMMA MintCounted ==
    ASSUME NEW t, Counted(t), NEW x \in Addresses, NEW n \in Nat
    PROVE  Counted(mint(t, x, n))
<1> DEFINE after == [t.balances EXCEPT ![x] = @ + n]
<1>1. t.balances \in [Addresses -> Nat] /\ t.total_supply \in Nat
  BY DEF Counted, Ledger
<1>2. /\ after \in [Addresses -> Nat]
      /\ after[x] = t.balances[x] + n
      /\ \A s \in Addresses \ {x} : after[s] = t.balances[s]
  BY <1>1
<1>3. SumFunctionOnSet(after, Addresses) = SumFunctionOnSet(t.balances, Addresses) + n
  <2> HIDE DEF after
  <2>1. SumFunctionOnSet(after, Addresses)
            = SumFunctionOnSet(t.balances, Addresses) + (after[x] - t.balances[x])
    BY <1>1, <1>2, SumUpdate, TokenAssumption
  <2>2. after[x] - t.balances[x] = n
    BY <1>1, <1>2
  <2> QED
    BY <2>1, <2>2
<1>4. mint(t, x, n) = [balances |-> after, total_supply |-> t.total_supply + n]
  BY DEF mint
<1>5. mint(t, x, n) \in Ledger
  <2> HIDE DEF after
  <2> QED
    BY <1>1, <1>2, <1>4 DEF Ledger
<1> HIDE DEF after
<1> QED
  BY <1>1, <1>3, <1>4, <1>5 DEF Counted

\* Burning takes from one balance and from the supply.
LEMMA BurnCounted ==
    ASSUME NEW t, Counted(t), NEW x \in Addresses, NEW n \in Nat, can_burn(t, x, n)
    PROVE  Counted(apply_burn(t, x, n))
<1> DEFINE after == [t.balances EXCEPT ![x] = @ - n]
<1>1. /\ t.balances \in [Addresses -> Nat] /\ t.total_supply \in Nat
      /\ t.balances[x] >= n
  BY DEF Counted, Ledger, can_burn
<1>2. /\ after \in [Addresses -> Nat]
      /\ after[x] = t.balances[x] - n
      /\ \A s \in Addresses \ {x} : after[s] = t.balances[s]
  BY <1>1
<1>3. /\ SumFunctionOnSet(after, Addresses) = SumFunctionOnSet(t.balances, Addresses) - n
      /\ SumFunctionOnSet(after, Addresses) \in Nat
  <2> HIDE DEF after
  <2>1. SumFunctionOnSet(after, Addresses)
            = SumFunctionOnSet(t.balances, Addresses) + (after[x] - t.balances[x])
    BY <1>1, <1>2, SumUpdate, TokenAssumption
  <2>2. after[x] - t.balances[x] = 0 - n
    BY <1>1, <1>2
  <2>3. /\ SumFunctionOnSet(after, Addresses) \in Nat
        /\ SumFunctionOnSet(t.balances, Addresses) \in Nat
    BY <1>1, <1>2, SumOfNaturals, TokenAssumption
  <2> QED
    BY <2>1, <2>2, <2>3
<1>4. apply_burn(t, x, n) = [balances |-> after, total_supply |-> t.total_supply - n]
  BY DEF apply_burn
<1> HIDE DEF after
<1>5. t.total_supply - n = SumFunctionOnSet(after, Addresses)
  BY <1>3 DEF Counted
<1>6. apply_burn(t, x, n) \in Ledger
  BY <1>1, <1>2, <1>3, <1>4, <1>5 DEF Ledger
<1> QED
  BY <1>4, <1>5, <1>6 DEF Counted

\* Moving units keeps the sum, also when sender and recipient are the same.
LEMMA MoveCounted ==
    ASSUME NEW t, Counted(t), NEW x \in Addresses, NEW y \in Addresses, NEW n \in Nat,
           can_move(t, x, n)
    PROVE  Counted(move(t, x, y, n))
<1> DEFINE debited == [t.balances EXCEPT ![x] = @ - n]
           after   == [debited EXCEPT ![y] = @ + n]
<1>1. /\ t.balances \in [Addresses -> Nat] /\ t.total_supply \in Nat
      /\ t.balances[x] >= n
  BY DEF Counted, Ledger, can_move
<1>2. /\ debited \in [Addresses -> Nat]
      /\ debited[x] = t.balances[x] - n
      /\ \A s \in Addresses \ {x} : debited[s] = t.balances[s]
  BY <1>1
<1>3. /\ after \in [Addresses -> Nat]
      /\ after[y] = debited[y] + n
      /\ \A s \in Addresses \ {y} : after[s] = debited[s]
  <2> HIDE DEF debited
  <2> QED
    BY <1>2
<1>4. SumFunctionOnSet(after, Addresses) = SumFunctionOnSet(t.balances, Addresses)
  <2> HIDE DEF debited, after
  <2>1. SumFunctionOnSet(debited, Addresses)
            = SumFunctionOnSet(t.balances, Addresses) + (debited[x] - t.balances[x])
    BY <1>1, <1>2, SumUpdate, TokenAssumption
  <2>2. SumFunctionOnSet(after, Addresses)
            = SumFunctionOnSet(debited, Addresses) + (after[y] - debited[y])
    BY <1>2, <1>3, SumUpdate, TokenAssumption
  <2>3. debited[x] - t.balances[x] = 0 - n /\ after[y] - debited[y] = n
    BY <1>1, <1>2, <1>3
  <2>4. SumFunctionOnSet(t.balances, Addresses) \in Nat
    BY <1>1, SumOfNaturals, TokenAssumption
  <2> QED
    BY <2>1, <2>2, <2>3, <2>4
<1>5. move(t, x, y, n) = [t EXCEPT !.balances = after]
  BY DEF move
<1> HIDE DEF after
<1>6. /\ move(t, x, y, n) \in Ledger
      /\ move(t, x, y, n).balances = after
      /\ move(t, x, y, n).total_supply = t.total_supply
  BY <1>3, <1>5 DEF Counted, Ledger
<1> QED
  BY <1>4, <1>6 DEF Counted

\* Every message of the token keeps the count.
LEMMA TokenNextInv ==
    ASSUME TokenInv, [TokenNext]_token_vars
    PROVE  TokenInv'
<1>1. CASE \E s, a \in Addresses, n \in Amounts : Mint(s, a, n)
  BY <1>1, MintCounted, TokenAssumption DEF Mint, TokenInv
<1>2. CASE \E s, a \in Addresses, n \in Amounts : BurnFrom(s, a, n)
  BY <1>2, BurnCounted, TokenAssumption DEF BurnFrom, TokenInv
<1>3. CASE \E s \in Addresses, n \in Amounts : Burn(s, n)
  BY <1>3, BurnCounted, TokenAssumption DEF Burn, BurnFrom, TokenInv
<1>4. CASE \E s, a \in Addresses, n \in Amounts : Transfer(s, a, n)
  BY <1>4, MoveCounted, TokenAssumption DEF Transfer, TokenInv
<1>5. CASE \E s, a \in Addresses, n \in Amounts : Send(s, a, n)
  <2>1. PICK s \in Addresses, a \in Addresses, n \in Amounts : Send(s, a, n)
    BY <1>5
  <2>2. Counted(token')
    BY <2>1, MoveCounted, TokenAssumption DEF Send, TokenInv
  <2>3. hook'.before = token
    BY <2>1 DEF Send
  <2> QED
    BY <2>2, <2>3 DEF TokenInv
<1>6. CASE ReceiveReturns \/ ReceiveFails
  <2>1. Counted(NoCall.before)
    BY EmptyCounted DEF NoCall
  <2> QED
    BY <1>6, <2>1 DEF ReceiveReturns, ReceiveFails, TokenInv
<1>7. CASE \/ \E s \in Addresses, m, p \in Addresses \cup {NO_ONE} : UpdateConfig(s, m, p)
           \/ \E s, a \in Addresses : UpdateOwnership(s, a)
  BY <1>7 DEF UpdateConfig, UpdateOwnership, TokenInv
<1>8. CASE UNCHANGED token_vars
  BY <1>8 DEF token_vars, TokenInv
<1> QED
  BY <1>1, <1>2, <1>3, <1>4, <1>5, <1>6, <1>7, <1>8 DEF TokenNext

\* The supply is the sum of the balances after any messages of any minter,
\* holder and pool, and after a Send that its Receive takes back.
THEOREM SupplyIsAlwaysCounted == TokenSpec => []SupplyIsSumOfBalances
<1>1. TokenInit => TokenInv
  BY EmptyCounted DEF TokenInit, TokenInv, NoCall
<1>2. TokenInv /\ [TokenNext]_token_vars => TokenInv'
  BY TokenNextInv
<1>3. TokenInv => SupplyIsSumOfBalances
  BY DEF TokenInv, Counted, Ledger, SupplyIsSumOfBalances
<1> QED
  BY <1>1, <1>2, <1>3, PTL DEF TokenSpec

\* A step that gives to one account and takes from another has the pool of the
\* moment on one side.
LEMMA MoveHasPool ==
    ASSUME TokenInv, [TokenNext]_token_vars, hook # NoCall => hook' = hook,
           NEW a \in Addresses \ {pool}, NEW b \in Addresses \ {pool},
           token'.balances[a] < token.balances[a]
    PROVE  token'.balances[b] <= token.balances[b]
<1>1. /\ token.balances \in [Addresses -> Nat]
      /\ Amounts \subseteq Nat
  BY TokenAssumption DEF TokenInv, Counted, Ledger
<1>2. ~ UNCHANGED token
  BY <1>1
<1>3. CASE \E s, x \in Addresses, n \in Amounts : Mint(s, x, n)
  <2>1. PICK x \in Addresses, n \in Amounts : token' = mint(token, x, n)
    BY <1>3 DEF Mint
  <2>2. token'.balances[a] >= token.balances[a]
    BY <1>1, <2>1 DEF mint
  <2> QED
    BY <1>1, <2>1, <2>2 DEF mint
<1>4. CASE \/ \E s, x \in Addresses, n \in Amounts : BurnFrom(s, x, n)
           \/ \E s \in Addresses, n \in Amounts : Burn(s, n)
  <2>1. PICK x \in Addresses, n \in Amounts : token' = apply_burn(token, x, n)
    BY <1>4 DEF Burn, BurnFrom
  <2> QED
    BY <1>1, <2>1 DEF apply_burn
<1>5. CASE \E s, x \in Addresses, n \in Amounts : Transfer(s, x, n) \/ Send(s, x, n)
  <2>1. PICK s \in Addresses, x \in Addresses, n \in Amounts :
            /\ s = pool \/ x = pool
            /\ token.balances[s] >= n
            /\ token' = move(token, s, x, n)
    BY <1>5 DEF Transfer, Send, ensure_transfer_allowed, ensure_send_allowed, can_move
  <2> DEFINE debited == [token.balances EXCEPT ![s] = @ - n]
  <2>2. token'.balances = [debited EXCEPT ![x] = @ + n]
    BY <2>1 DEF move, TokenInv, Counted, Ledger
  <2> QED
    BY <1>1, <2>1, <2>2
<1>6. CASE ReceiveReturns \/ ReceiveFails
  BY <1>2, <1>6 DEF ReceiveReturns, ReceiveFails
<1>7. CASE \/ \E s \in Addresses, m, p \in Addresses \cup {NO_ONE} : UpdateConfig(s, m, p)
           \/ \E s, x \in Addresses : UpdateOwnership(s, x)
  BY <1>2, <1>7 DEF UpdateConfig, UpdateOwnership
<1> QED
  BY <1>2, <1>3, <1>4, <1>5, <1>6, <1>7 DEF TokenNext, token_vars

\* No step but the revert of a failed hook passes units between two accounts
\* neither of which is the pool configured at that moment.
THEOREM UnitsPassTheirPool == TokenSpec => UnitsMoveOnlyThroughThePool
<1>1. TokenInit => TokenInv
  BY EmptyCounted DEF TokenInit, TokenInv, NoCall
<1>2. TokenInv /\ [TokenNext]_token_vars => TokenInv'
  BY TokenNextInv
<1>3. TokenInv /\ [TokenNext]_token_vars
        => [ (hook # NoCall => hook' = hook) =>
               \A a, b \in Addresses \ {pool} :
                   token'.balances[a] < token.balances[a]
                       => token'.balances[b] <= token.balances[b] ]_token_vars
  BY MoveHasPool
<1> QED
  BY <1>1, <1>2, <1>3, PTL DEF TokenSpec, UnitsMoveOnlyThroughThePool

-----------------------------------------------------------------------------
\* Migration.  All three properties rest on what is stored having its type
\* and a contract that has been migrated having an owner.

RolesOf(c) ==
    LET s == chain[c]
    IN  is_pool(c) /\ s.version > 0 =>
            /\ s.custodian # NO_ONE /\ s.liquidator # NO_ONE
            /\ s.liquidation_access # "owner_only"

\* Every contract can name its owner: as such once migrated, or as admin.
OwnerOf(c) ==
    LET s == chain[c]
    IN  /\ s.ownership.owner = NO_ONE => s.legacy_admin # NO_ONE
        /\ s.version > 0 => s.ownership.owner # NO_ONE

MInv ==
    /\ chain \in [Contracts -> Stored]
    /\ \A c \in Contracts : RolesOf(c) /\ OwnerOf(c)

\* Before the first migration: whatever old code left, the owner can be named.
LEMMA InitMInv == MigrationInit => MInv
<1> SUFFICES ASSUME MigrationInit PROVE MInv
  OBVIOUS
<1>1. chain \in [Contracts -> Stored]
  BY MigrationAssumption DEF MigrationInit
<1>2. ASSUME NEW c \in Contracts PROVE RolesOf(c) /\ OwnerOf(c)
  <2>1. chain[c] \in Legacy /\ chain[c].version = 0
    BY MigrationAssumption DEF MigrationInit
  <2>2. {chain[c].legacy_admin, chain[c].ownership.owner} # {NO_ONE}
    BY <2>1, MigrationAssumption
  <2> QED
    BY <2>1, <2>2 DEF RolesOf, OwnerOf
<1> QED
  BY <1>1, <1>2 DEF MInv

\* Migrate replaces one contract's record by one of the right type, with the
\* old owner or the admin for owner, a greater version and, a pool's, its roles.
LEMMA MigrateKeepsMInv ==
    ASSUME MInv, NEW c \in Contracts, NEW code \in Codes,
           NEW a \in Accounts \cup {NO_ONE}, NEW b \in Accounts \cup {NO_ONE},
           Migrate(c, code, a, b)
    PROVE  /\ MInv'
           /\ chain'[c].version > chain[c].version
           /\ chain'[c].ownership.owner =
                  IF has_ownership(chain[c]) THEN chain[c].ownership.owner
                  ELSE chain[c].legacy_admin
           /\ \A d \in Contracts \ {c} : chain'[d] = chain[d]
<1> DEFINE s == chain[c]
           t == migrate_contract(s, code.version)
           u == IF is_pool(c) THEN migrate_roles(t, a, b) ELSE t
<1>1. s \in Stored /\ OwnerOf(c)
  BY DEF MInv
<1>2. code.version \in Nat \ {0} /\ code.version > s.version
  BY MigrationAssumption DEF Migrate, validate_contract_migration_version
<1>3. chain' = [chain EXCEPT ![c] = u]
  BY DEF Migrate
<1>4. /\ recover_owner(s) \in Ownerships
      /\ recover_owner(s).owner # NO_ONE
      /\ recover_owner(s).owner = IF has_ownership(s) THEN s.ownership.owner ELSE s.legacy_admin
  BY <1>1 DEF recover_owner, has_ownership, initialize_owner, OwnerOf, Stored, Ownerships
<1>5. /\ t \in Stored
      /\ t.version = code.version
      /\ t.ownership = recover_owner(s)
      /\ t.custodian = s.custodian
  BY <1>1, <1>2, <1>4 DEF migrate_contract, Stored
<1>6. is_pool(c) => a # NO_ONE \/ t.custodian # NO_ONE
  BY <1>5 DEF Migrate
<1>7. /\ backfill_liquidator(b, t) \in Accounts \cup {NO_ONE}
      /\ backfill_liquidator(b, t) # NO_ONE
  <2>1. t.ownership.owner \in Accounts \cup {NO_ONE} /\ t.ownership.owner # NO_ONE
    BY <1>4, <1>5 DEF Ownerships
  <2>2. t.liquidator \in Accounts \cup {NO_ONE}
    BY <1>5 DEF Stored
  <2> QED
    BY <2>1, <2>2 DEF backfill_liquidator
<1>8. /\ u \in Stored
      /\ u.version = code.version
      /\ u.ownership = recover_owner(s)
      /\ is_pool(c) => /\ u.custodian # NO_ONE /\ u.liquidator # NO_ONE
                       /\ u.liquidation_access # "owner_only"
  BY <1>5, <1>6, <1>7 DEF migrate_roles, liquidation_access_from_storage_str, Stored
<1>9. chain' \in [Contracts -> Stored] /\ chain'[c] = u
  BY <1>3, <1>8 DEF MInv
<1>10. \A d \in Contracts \ {c} : chain'[d] = chain[d]
  BY <1>3 DEF MInv
<1>11. \A d \in Contracts : RolesOf(d)' /\ OwnerOf(d)'
  BY <1>4, <1>8, <1>9, <1>10 DEF MInv, RolesOf, OwnerOf, is_pool
<1> QED
  BY <1>1, <1>2, <1>4, <1>8, <1>9, <1>10, <1>11 DEF MInv, Stored

\* The operations in between change hands, never to nobody, and no version.
LEMMA UseKeepsMInv ==
    ASSUME MInv, NEW c \in Contracts, NEW sender \in Accounts,
           NEW a \in Accounts \cup {NO_ONE}, NEW b \in Accounts \cup {NO_ONE},
           (a \in Accounts /\ HandOver(c, sender, a)) \/ Appoint(c, sender, a, b)
    PROVE  MInv' /\ \A d \in Contracts : chain'[d].version = chain[d].version
<1>1. chain[c] \in Stored /\ RolesOf(c) /\ OwnerOf(c) /\ chain[c].version > 0
  BY DEF MInv, HandOver, Appoint
<1>2. CASE a \in Accounts /\ HandOver(c, sender, a)
  <2> DEFINE u == [chain[c] EXCEPT !.ownership = initialize_owner(a)]
  <2>1. accept_ownership(transfer_ownership(chain[c].ownership, a, NEVER)) = initialize_owner(a)
    BY <1>1 DEF accept_ownership, transfer_ownership, Stored, Ownerships
  <2>2. chain' = [chain EXCEPT ![c] = u]
    BY <1>2, <2>1 DEF HandOver, MInv
  <2>3. initialize_owner(a) \in Ownerships /\ initialize_owner(a).owner # NO_ONE
    BY <1>2, MigrationAssumption DEF initialize_owner, Ownerships
  <2>4. u \in Stored
    BY <1>1, <2>3 DEF Stored
  <2> QED
    BY <1>1, <2>2, <2>3, <2>4 DEF MInv, RolesOf, OwnerOf, is_pool, Stored
<1>3. CASE Appoint(c, sender, a, b)
  <2> DEFINE new(asked, old) == IF asked # NO_ONE THEN asked ELSE old
             u == [chain[c] EXCEPT !.custodian = new(a, @), !.liquidator = new(b, @)]
  <2>1. chain' = [chain EXCEPT ![c] = u] /\ is_pool(c)
    BY <1>1, <1>3 DEF Appoint, MInv, Stored
  <2>2. u \in Stored /\ u.custodian # NO_ONE /\ u.liquidator # NO_ONE
    BY <1>1, <2>1 DEF Stored, RolesOf
  <2> QED
    BY <1>1, <2>1, <2>2 DEF MInv, RolesOf, OwnerOf, is_pool, Stored
<1> QED
  BY <1>2, <1>3

StepOK ==
    \A c \in Contracts :
        /\ chain'[c].version >= chain[c].version
        /\ chain'[c].version # chain[c].version =>
               chain'[c].ownership.owner =
                   IF has_ownership(chain[c]) THEN chain[c].ownership.owner
                   ELSE chain[c].legacy_admin

\* Every step keeps the invariant and is one of the steps allowed.
LEMMA NextMInv == MInv /\ [MigrationNext]_chain => MInv' /\ StepOK
<1> SUFFICES ASSUME MInv, [MigrationNext]_chain PROVE MInv' /\ StepOK
  OBVIOUS
<1>1. \A c \in Contracts : chain[c].version \in Nat
  BY DEF MInv, Stored
<1>2. CASE UNCHANGED chain
  BY <1>1, <1>2 DEF MInv, RolesOf, OwnerOf, StepOK
<1>3. ASSUME NEW c \in Contracts, NEW a \in Accounts \cup {NO_ONE},
             NEW b \in Accounts \cup {NO_ONE}, NEW code \in Codes, Migrate(c, code, a, b)
      PROVE  MInv' /\ StepOK
  <2>1. MInv' /\ chain'[c].version > chain[c].version
    BY <1>3, MigrateKeepsMInv
  <2>2. chain'[c].ownership.owner =
            IF has_ownership(chain[c]) THEN chain[c].ownership.owner ELSE chain[c].legacy_admin
    BY <1>3, MigrateKeepsMInv
  <2>3. \A d \in Contracts \ {c} : chain'[d] = chain[d]
    BY <1>3, MigrateKeepsMInv
  <2>4. \A d \in Contracts : chain'[d].version \in Nat
    BY <2>1 DEF MInv, Stored
  <2> QED
    BY <1>1, <2>1, <2>2, <2>3, <2>4 DEF StepOK
<1>4. ASSUME NEW c \in Contracts, NEW a \in Accounts \cup {NO_ONE},
             NEW b \in Accounts \cup {NO_ONE}, NEW sender \in Accounts,
             (a \in Accounts /\ HandOver(c, sender, a)) \/ Appoint(c, sender, a, b)
      PROVE  MInv' /\ StepOK
  BY <1>1, <1>4, UseKeepsMInv DEF StepOK
<1> QED
  BY <1>2, <1>3, <1>4 DEF MigrationNext

\* Whatever an old pool had and the messages left out, once migrated it has an
\* owner, a custodian, a liquidator and a readable access rule.
THEOREM RolesAreAlwaysHeld == MigrationSpec => []MigratedPoolsHaveTheirRoles
<1>1. MInv => MigratedPoolsHaveTheirRoles
  BY DEF MInv, MigratedPoolsHaveTheirRoles, RolesOf, OwnerOf, Stored, Ownerships
<1> QED
  BY InitMInv, NextMInv, <1>1, PTL DEF MigrationSpec

\* No sequence of migrations changes hands, and the first owner is the admin.
THEOREM MigrationKeepsTheOwner == MigrationSpec => OwnerSurvivesMigration
<1>1. MInv /\ [MigrationNext]_chain =>
         [\A c \in Contracts : chain'[c].version # chain[c].version =>
              chain'[c].ownership.owner =
                  IF has_ownership(chain[c]) THEN chain[c].ownership.owner
                  ELSE chain[c].legacy_admin]_chain
  BY NextMInv DEF StepOK
<1> QED
  BY InitMInv, NextMInv, <1>1, PTL DEF MigrationSpec, OwnerSurvivesMigration

\* No code older than what runs, nor the same again, is ever installed.
THEOREM MigrationsAreNotUndone == MigrationSpec => VersionsOnlyGrow
<1>1. MInv /\ [MigrationNext]_chain =>
         [\A c \in Contracts : chain'[c].version >= chain[c].version]_chain
  BY NextMInv DEF StepOK
<1> QED
  BY InitMInv, NextMInv, <1>1, PTL DEF MigrationSpec, VersionsOnlyGrow
=============================================================================
