SPECIFICATION Spec
CONSTANTS
    l1 = l1  l2 = l2  b1 = b1  b2 = b2  admin = admin  curator = curator  keeper = keeper
    lending = lending  gold = gold  silver = silver
    Lenders = {l1}  Borrowers = {b1}  Collaterals = {gold, silver}
    Operators = {admin, curator, keeper}  POOL = pool
    LENDING = lending  UNIT <- TenToOne
    ONE = 100  SECONDS_PER_YEAR = 3
    AttributesOf <- MCAttributes
    InitialOwner = admin  InitialConfig <- QueriesConfig  InitialQuotes <- MCQuotes  InitialTime = 0
    MAX_ALLOWED_LIQUIDATION_STALENESS = 2  MAX_PERMISSIONLESS_LIQUIDATION_STALENESS = 1
    MaxScaled = 12  MaxHeld = 130  MaxVersion = 0  MaxCash = 12  MaxTime = 2
    MAX_AMOUNT = 60
    Inputs <- QueriesInputs
INVARIANTS QuotesAreLeast QuotesAreEnough StateShowsAllCollateral NoDearerThanShown
PROPERTIES PositionShownIsTheOneJudged
CHECK_DEADLOCK FALSE
