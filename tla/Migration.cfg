\* A migration on the main network and its dry run on a fork, disturbed by up to two events.
SPECIFICATION FairMigrationSpec
CONSTANTS
    Tokens = {"usdc", "usdt"}
    Gated = {"usdc"}
    Safe = "safe"
    INIT_TOLERANCE = 2
    INIT_DELAY = 3
    Networks <- MCNetworks
    LiveTreasuries <- MCLiveTreasuries
    LiveAccess <- MCLiveAccess
    WHITELIST_TOKENS <- MCWhitelist
    Grants <- MCGrants
    Bands = {1}
    Delays = {}
    LastCode = 2
    MaxEvents = 2
    MaxDust = 1
    MaxQueue = 2
INVARIANTS
    LiveTreasuryRecorded
    CheckedBatchMirrors
    TokenBacked
    GatewayMovesWithTreasury
    ProposalsWhole
    MigrationVerifies
PROPERTIES
    MigrationCompletes
