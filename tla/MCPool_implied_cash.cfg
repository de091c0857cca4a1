SPECIFICATION Spec
CONSTANTS
    l1 = l1  l2 = l2  b1 = b1  b2 = b2  admin = admin  curator = curator  keeper = keeper
    lending = lending  gold = gold  silver = silver
    Lenders = {l1}  Borrowers = {b1}  Collaterals = {gold}
    Operators = {admin, curator, keeper}  POOL = pool
    LENDING = lending  UNIT <- OneToOne
    ONE = 100  SECONDS_PER_YEAR = 3
    AttributesOf <- MCAttributes
    InitialOwner = admin  InitialConfig <- FullConfig  InitialQuotes <- MCQuotes  InitialTime = 0
    MAX_ALLOWED_LIQUIDATION_STALENESS = 2  MAX_PERMISSIONLESS_LIQUIDATION_STALENESS = 1
    MaxScaled = 12  MaxHeld = 30  MaxVersion = 0  MaxCash = 15  MaxTime = 2
    Inputs <- FullInputs
INVARIANT ImpliedCashNonNegative
CHECK_DEADLOCK FALSE
