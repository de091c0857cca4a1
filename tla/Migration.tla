------------------------------ MODULE Migration ------------------------------
(***************************************************************************)
(* packages/lib/src/common/migrate.rs and the migrate entry points of the  *)
(* three contracts: a contract that runs old code, its owner still in its  *)
(* configuration as admin, is moved to newer code and goes on being used.  *)
(* The wasm administrator may hand any code with any message to any        *)
(* contract, the same one twice and an old one late; code is the name and  *)
(* the version compiled into it.                                           *)
(***************************************************************************)
EXTENDS Ownership, FiniteSets

CONSTANTS
    Accounts,
    Contracts,          \* the contracts on the chain
    ContractName,       \* of each, the name stored when it was instantiated
    POOL_NAME,          \* the one name whose code has roles to migrate
    Legacy,             \* what contracts may have stored before the first migration
    Codes               \* the code to migrate to: names and versions

Ownerships == [ owner : Accounts \cup {NO_ONE}, pending_owner : Accounts \cup {NO_ONE},
                pending_expiry : {NEVER} ]

\* The fields migrate looks at, NO_ONE where the stored JSON has none.
Stored ==
    [ version : Nat, legacy_admin : Accounts \cup {NO_ONE}, ownership : Ownerships,
      custodian : Accounts \cup {NO_ONE}, liquidator : Accounts \cup {NO_ONE},
      liquidation_access : {"owner_only", "liquidator_only", "permissionless"} ]

ASSUME MigrationAssumption ==
    /\ NO_ONE \notin Accounts
    /\ ContractName \in [Contracts -> STRING]
    /\ Legacy \subseteq Stored
    /\ \A s \in Legacy : s.version = 0 /\ {s.legacy_admin, s.ownership.owner} # {NO_ONE}
    /\ \A code \in Codes : code.version \in Nat \ {0}

VARIABLE chain          \* what each contract stores

MigrationInit == chain \in [Contracts -> Legacy]

is_pool(c) == ContractName[c] = POOL_NAME
has_ownership(s) == s.ownership.owner # NO_ONE

-----------------------------------------------------------------------------
validate_contract_migration_version(current, next) == next > current

\* Slip: the administrator of old is made the owner again.
recover_owner_again(s) ==
    IF s.legacy_admin # NO_ONE THEN initialize_owner(s.legacy_admin) ELSE s.ownership

\* migrate_legacy_admin_from_flattened_state: admin counts once, when there is
\* no ownership yet, and goes.
recover_owner(s) ==
    IF s.legacy_admin # NO_ONE /\ ~has_ownership(s)
    THEN initialize_owner(s.legacy_admin) ELSE s.ownership

migrate_contract(s, version) ==
    [s EXCEPT !.version = version, !.legacy_admin = NO_ONE, !.ownership = recover_owner(s)]

\* Slip: a pool without a liquidator is left without.
backfill_nobody(asked, s) == IF asked # NO_ONE THEN asked ELSE s.liquidator

\* The liquidator asked for, else the present one, else the owner.
backfill_liquidator(asked, s) ==
    IF asked # NO_ONE THEN asked
    ELSE IF s.liquidator # NO_ONE THEN s.liquidator ELSE s.ownership.owner

\* liquidation_access_from_storage_str: a tag that only older code wrote.
liquidation_access_from_storage_str(tag) ==
    IF tag = "owner_only" THEN "liquidator_only" ELSE tag

migrate_roles(s, custodian, liquidator) ==
    [s EXCEPT !.custodian  = IF custodian # NO_ONE THEN custodian ELSE @,
              !.liquidator = backfill_liquidator(liquidator, s),
              !.liquidation_access = liquidation_access_from_storage_str(@)]

\* migrate: of the pool, and of the token and the oracle, which have no roles.
Migrate(c, code, custodian, liquidator) ==
    LET s        == chain[c]
        migrated == migrate_contract(s, code.version)
    IN  /\ ContractName[c] = code.name
        /\ validate_contract_migration_version(s.version, code.version)
        /\ s.legacy_admin # NO_ONE \/ has_ownership(s)
        /\ is_pool(c) => custodian # NO_ONE \/ s.custodian # NO_ONE
        /\ chain' = [chain EXCEPT ![c] =
              IF is_pool(c) THEN migrate_roles(migrated, custodian, liquidator) ELSE migrated]

\* UpdateOwnership, transferred and accepted, of a contract that has it.
HandOver(c, sender, heir) ==
    /\ chain[c].version > 0
    /\ can_transfer_ownership(chain[c].ownership, sender, NEVER, 0)
    /\ chain' = [chain EXCEPT ![c].ownership =
                    accept_ownership(transfer_ownership(@, heir, NEVER))]

\* update_contract_config, as far as it appoints.
Appoint(c, sender, custodian, liquidator) ==
    LET new(asked, old) == IF asked # NO_ONE THEN asked ELSE old
    IN  /\ is_pool(c) /\ chain[c].version > 0
        /\ sender = chain[c].custodian
        /\ chain' = [chain EXCEPT ![c].custodian = new(custodian, @),
                                  ![c].liquidator = new(liquidator, @)]

MigrationNext ==
    \E c \in Contracts, a, b \in Accounts \cup {NO_ONE} :
        \/ \E code \in Codes : Migrate(c, code, a, b)
        \/ \E sender \in Accounts :
              \/ a \in Accounts /\ HandOver(c, sender, a)
              \/ Appoint(c, sender, a, b)

MigrationSpec == MigrationInit /\ [][MigrationNext]_chain

-----------------------------------------------------------------------------
\* Whatever an old pool had and the message left out, after a migration each
\* role is held by somebody and the access rule is one the code can read.
MigratedPoolsHaveTheirRoles ==
    \A c \in Contracts :
        LET s == chain[c]
        IN  is_pool(c) /\ s.version > 0 =>
                /\ {s.ownership.owner, s.custodian, s.liquidator} \subseteq Accounts
                /\ s.liquidation_access \in {"liquidator_only", "permissionless"}

\* A migration never changes hands: the owner stays, and the first owner is the
\* administrator of old.
OwnerSurvivesMigration ==
    [][\A c \in Contracts :
          chain'[c].version # chain[c].version =>
              chain'[c].ownership.owner =
                  IF has_ownership(chain[c]) THEN chain[c].ownership.owner
                  ELSE chain[c].legacy_admin]_chain

\* No migration is undone or applied twice: versions only grow, and every message
\* that arrives late or again is refused.
VersionsOnlyGrow ==
    [][\A c \in Contracts : chain'[c].version >= chain[c].version]_chain
=============================================================================
