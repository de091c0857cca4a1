SPECIFICATION OracleSpec
CONSTANTS
    btc = btc  nbtc = nbtc  wbtc = wbtc  boss = boss  heir = heir
    Assets = {btc, nbtc, wbtc}  Owners = {boss, heir}  FirstOwner = boss
    MAX_PRICE_AGE = 2  MAX_PRICE_LEAD = 1
    DEFAULT_PRICE_STALENESS_THRESHOLD_SECONDS = 1  MAX_ASSET_MAPPING_PRECISION = 2
    Posts <- MCPosts  Remaps <- MCRemaps  Removals <- MCRemovals  LongestThreshold = 2
    LastPost = 4  MaxTime = 8
PROPERTIES ImplementsQuoteFeed OnlyNewerPricesLiveLonger SilenceGoesStale
CHECK_DEADLOCK FALSE
