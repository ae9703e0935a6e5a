\* The AMO against redemptions, on a token with fewer decimals than PeggedToken: AMO mints and
\* burns, deposits and redemptions at par, yield, and harvests that let supply approach
\* amoSupply.
SPECIFICATION Spec
CONSTANTS
    gateway = gateway
    alice = alice
    umm = umm
    usdc = usdc
    feed1 = feed1
    treasury = treasury
    vault = vault
    Accounts = {gateway, alice, umm}
    Tokens = {usdc}
    Oracles = {feed1}
    Prices = {}
    UNIT = 1
    FeedSkews = {}
    YieldAmounts = {1}
    LossAmounts = {}
    Donations = {}
    Listable = {}
    MaxTime = 0
    MaxHeld = 2
    GatewayAddr = gateway
    TransferAmounts = {1}
    Blacklistable = {}
    MAX_BPS = 4
    MAX_STALE_PERIOD = 3
    MAX_WHITELISTED_TOKENS = 2
    INIT_PRICE_TOLERANCE = 1
    UINT_MAX = 99
    TreasuryAddr = treasury
    VaultAddr = vault
    Removable = {}
    VaultMoves = {}
    SwapOuts = {}
    StalePeriods = {1}
    Caps = {}
    Bands = {}
    Tolerances = {}
    Pausable = {}
    Swappers = {}
    SanctionsSwitches = {}
    OnePegged = 2
    MAX_FEE_BPS = 1
    MAX_WITHDRAWAL_DELAY = 2
    INIT_MINT_LIMIT = 4
    INIT_WITHDRAWAL_DELAY = 1
    UMMs = {umm}
    CollateralAmounts = {1}
    PeggedAmounts = {1, 3}
    AmoAmounts = {1}
    Receivers = {alice}
    Limits = {0, 2}
    Fees = {}
    Delays = {}
    DelaySwitches = {FALSE}
    Exemptable = {}
    Scale <- DoubleScale
    One <- UnitOne
INVARIANTS
    TypeOK
    AmoWithinSupply
    AmoWithinLimit
PROPERTIES
    MintLimitRespected
