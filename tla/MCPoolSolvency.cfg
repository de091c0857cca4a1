SPECIFICATION SolvencySpec
CONSTANTS
    l1 = l1  l2 = l2  b1 = b1  b2 = b2  admin = admin  curator = curator  keeper = keeper
    lending = lending  gold = gold  silver = silver
    Lenders = {l1, l2}  Borrowers = {b1}  Collaterals = {gold}
    Operators = {admin, curator, keeper}  POOL = pool
    LENDING = lending  UNIT <- OneToOne
    ONE = 100  SECONDS_PER_YEAR = 3
    AttributesOf <- Accredited
    InitialOwner = admin  InitialConfig <- BookConfig  InitialQuotes <- MCQuotes  InitialTime = 0
    MAX_ALLOWED_LIQUIDATION_STALENESS = 2  MAX_PERMISSIONLESS_LIQUIDATION_STALENESS = 1
    MaxScaled = 1000  MaxHeld = 2000  MaxVersion = 0  MaxCash = 960  MaxTime = 2  MaxSpent = 3600
    Inputs <- BookInputs
INVARIANTS TypeOK AccrualIsFunded SolventUpToTruncation
PROPERTIES FeesNeverEatPrincipal ImplementsLendingBook
SYMMETRY Symmetry
CHECK_DEADLOCK FALSE
