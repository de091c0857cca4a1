CONSTANTS
    Accounts = {ann, bob}
    Pools = {p1, p2}
    Tokens = {t1, t2}
    Amounts = {1}
    MaxSupply = 2
    MaxOutside = 1
SPECIFICATION DeploymentSpec
SYMMETRY Interchangeable
INVARIANTS
    NoPoolIsLeftUnbound
    SupplyIsWhatThePoolsCounted
CHECK_DEADLOCK FALSE
