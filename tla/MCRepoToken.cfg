SPECIFICATION TokenSpec
CONSTANTS
    holder = holder  boss = boss  first_pool = first_pool  second_pool = second_pool
    Addresses <- MCAddresses
    InitialMinter = first_pool  InitialPool = "no_one"  InitialOwner = boss
    Amounts = {0, 1, 2}  MaxSupply = 2
INVARIANT SupplyIsSumOfBalances
PROPERTY UnitsMoveOnlyThroughThePool
CHECK_DEADLOCK FALSE
