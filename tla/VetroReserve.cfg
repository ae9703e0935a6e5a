\* Pricing: an oracle around par, fees, a peg band and every rounding, on a token with fewer
\* decimals than PeggedToken whose vault gains and loses.
SPECIFICATION Spec
CONSTANTS
    gateway = gateway
    alice = alice
    usdc = usdc
    feed1 = feed1
    treasury = treasury
    vault = vault
    Accounts = {gateway, alice}
    Tokens = {usdc}
    Oracles = {feed1}
    Prices = {3, 4, 5}
    UNIT = 4
    FeedSkews = {0}
    YieldAmounts = {1}
    LossAmounts = {1}
    Donations = {}
    Listable = {}
    MaxTime = 0
    MaxHeld = 4
    GatewayAddr = gateway
    TransferAmounts = {}
    Blacklistable = {}
    MAX_BPS = 4
    MAX_STALE_PERIOD = 3
    MAX_WHITELISTED_TOKENS = 2
    INIT_PRICE_TOLERANCE = 2
    UINT_MAX = 99
    TreasuryAddr = treasury
    VaultAddr = vault
    Removable = {}
    VaultMoves = {}
    SwapOuts = {}
    StalePeriods = {1}
    Caps = {}
    Bands = {1}
    Tolerances = {}
    Pausable = {}
    Swappers = {}
    SanctionsSwitches = {}
    OnePegged = 4
    MAX_FEE_BPS = 1
    MAX_WITHDRAWAL_DELAY = 2
    INIT_MINT_LIMIT = 4
    INIT_WITHDRAWAL_DELAY = 1
    UMMs = {}
    CollateralAmounts = {1, 2, 3}
    PeggedAmounts = {1, 2, 3}
    AmoAmounts = {}
    Receivers = {alice}
    Limits = {}
    Fees = {1}
    Delays = {}
    DelaySwitches = {FALSE}
    Exemptable = {}
    Scale <- DoubleScale
    One <- DoubleOne
PROPERTIES
    SupplyStepsKeepBacking
    HarvestTakesOnlySurplus
    RoomOpensOnlyByRedemption
