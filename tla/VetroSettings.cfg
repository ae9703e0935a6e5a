\* The Treasury's own transactions on two tokens: listing and delisting, peg bands against the
\* tolerance, caps, keeper moves, swaps and sweeps.
SPECIFICATION Spec
CONSTANTS
    gateway = gateway
    alice = alice
    usdc = usdc
    dai = dai
    feed1 = feed1
    treasury = treasury
    vault = vault
    uni = uni
    Accounts = {gateway, alice}
    Tokens = {usdc, dai}
    Oracles = {feed1}
    Prices = {}
    UNIT = 4
    FeedSkews = {}
    YieldAmounts = {}
    LossAmounts = {}
    Donations = {1}
    Listable = {}
    MaxTime = 0
    MaxHeld = 2
    GatewayAddr = gateway
    TransferAmounts = {}
    Blacklistable = {}
    MAX_BPS = 4
    MAX_STALE_PERIOD = 3
    MAX_WHITELISTED_TOKENS = 2
    INIT_PRICE_TOLERANCE = 2
    UINT_MAX = 99
    TreasuryAddr = treasury
    VaultAddr = vault
    Removable = {usdc, dai}
    VaultMoves = {1, 99}
    SwapOuts = {1}
    StalePeriods = {1}
    Caps = {1}
    Bands = {0, 1}
    Tolerances = {1, 2, 5}
    Pausable = {}
    Swappers = {uni}
    SanctionsSwitches = {}
    OnePegged = 1
    MAX_FEE_BPS = 1
    MAX_WITHDRAWAL_DELAY = 2
    INIT_MINT_LIMIT = 2
    INIT_WITHDRAWAL_DELAY = 1
    UMMs = {}
    CollateralAmounts = {1}
    PeggedAmounts = {1}
    AmoAmounts = {}
    Receivers = {alice}
    Limits = {}
    Fees = {}
    Delays = {}
    DelaySwitches = {}
    Exemptable = {}
    Scale <- UnitScale
    One <- UnitOne
INVARIANTS
    PegBandWithinTolerance
    NothingLeftBehind
