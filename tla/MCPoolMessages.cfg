SPECIFICATION MessageSpec
CONSTANTS
    l1 = l1  l2 = l2  b1 = b1  b2 = b2  admin = admin  curator = curator  keeper = keeper
    lending = lending  gold = gold  silver = silver
    Lenders = {l1, l2}  Borrowers = {b1}  Collaterals = {gold}
    Operators = {admin, curator, keeper}  POOL = pool  TOKEN = token  BANK = bank  EXCHANGE = exchange
    LENDING = lending  UNIT <- OneToOne
    ONE = 100  SECONDS_PER_YEAR = 3
    AttributesOf <- Accredited
    InitialOwner = admin  InitialConfig <- MCConfig  InitialQuotes <- MCQuotes  InitialTime = 0
    MAX_ALLOWED_LIQUIDATION_STALENESS = 2  MAX_PERMISSIONLESS_LIQUIDATION_STALENESS = 1
    MaxScaled = 10  MaxHeld = 20  MaxVersion = 0  MaxCash = 14  MaxTime = 2
    Inputs <- MessagesInputs
INVARIANTS TotalsDifferByWhatIsInFlight EmittedMessagesAreAccepted
PROPERTIES ImplementsAtomicPool UnitsDoNotStayAtThePool
CHECK_DEADLOCK FALSE
