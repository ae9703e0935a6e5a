\* Harvests from two tokens whose prices part, with vault gains, donations
\* and keeper moves; rounds go stale as time passes.  No loss, so the reserve stays covered.
SPECIFICATION Spec
CONSTANTS
    gateway = gateway
    alice = alice
    usdc = usdc
    dai = dai
    feed1 = feed1
    feed2 = feed2
    treasury = treasury
    vault = vault
    Accounts = {gateway, alice}
    Tokens = {usdc, dai}
    Oracles = {feed1, feed2}
    Prices = {0, 2, 3}
    UNIT = 2
    FeedSkews = {0, 1}
    YieldAmounts = {1}
    LossAmounts = {}
    Donations = {1}
    Listable = {}
    MaxTime = 1
    MaxHeld = 2
    GatewayAddr = gateway
    TransferAmounts = {}
    Blacklistable = {}
    MAX_BPS = 4
    MAX_STALE_PERIOD = 3
    MAX_WHITELISTED_TOKENS = 2
    INIT_PRICE_TOLERANCE = 4
    UINT_MAX = 99
    TreasuryAddr = treasury
    VaultAddr = vault
    Removable = {}
    VaultMoves = {1}
    SwapOuts = {}
    StalePeriods = {1}
    Caps = {}
    Bands = {}
    Tolerances = {}
    Pausable = {}
    Swappers = {}
    SanctionsSwitches = {}
    OnePegged = 1
    MAX_FEE_BPS = 1
    MAX_WITHDRAWAL_DELAY = 2
    INIT_MINT_LIMIT = 2
    INIT_WITHDRAWAL_DELAY = 1
    UMMs = {}
    CollateralAmounts = {1, 2}
    PeggedAmounts = {}
    AmoAmounts = {}
    Receivers = {alice}
    Limits = {}
    Fees = {}
    Delays = {}
    DelaySwitches = {}
    Exemptable = {}
    Scale <- UnitScale
    One <- UnitOne
PROPERTIES
    BackedAtPar
