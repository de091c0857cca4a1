CONSTANTS
    pool = pool
    other = other
    ann = ann
    bob = bob
    Accounts = {ann, bob}
    Contracts = {pool, other}
    ContractName <- MCContractName
    POOL_NAME = "pool"
    Legacy <- MCLegacy
    Codes <- MCCodes
SPECIFICATION MigrationSpec
INVARIANT MigratedPoolsHaveTheirRoles
PROPERTY OwnerSurvivesMigration
