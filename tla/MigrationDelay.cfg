\* A migration, with a change of the live Treasury's admin delay.
SPECIFICATION MigrationSpec
CONSTANTS
    Tokens = {"usdc", "usdt"}
    Gated = {"usdc"}
    Safe = "safe"
    INIT_TOLERANCE = 2
    INIT_DELAY = 3
    Networks = {"ethereum"}
    LiveTreasuries <- MCLiveTreasuries
    LiveAccess <- MCLiveAccess
    WHITELIST_TOKENS <- MCWhitelist
    Grants <- MCGrants
    Bands = {1}
    Delays = {5}
    LastCode = 2
    MaxEvents = 2
    MaxDust = 1
    MaxQueue = 2
INVARIANTS
    CheckedBatchMirrors
