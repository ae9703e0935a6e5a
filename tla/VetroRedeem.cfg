\* Delayed redemption: requests that merge, mature, are redeemed in part or beyond their amount,
\* or are cancelled, while the delay, its switch and the exemptions change, users are listed, and
\* user and Gateway are blacklisted.
SPECIFICATION HistorySpec
CONSTANTS
    gateway = gateway
    alice = alice
    bob = bob
    usdc = usdc
    feed1 = feed1
    treasury = treasury
    vault = vault
    Accounts = {gateway, alice, bob}
    Tokens = {usdc}
    Oracles = {feed1}
    Prices = {}
    UNIT = 1
    FeedSkews = {}
    YieldAmounts = {}
    LossAmounts = {}
    Donations = {}
    Listable = {alice}
    MaxTime = 2
    MaxHeld = 3
    GatewayAddr = gateway
    TransferAmounts = {1}
    Blacklistable = {alice, gateway}
    MAX_BPS = 4
    MAX_STALE_PERIOD = 4
    MAX_WHITELISTED_TOKENS = 2
    INIT_PRICE_TOLERANCE = 1
    UINT_MAX = 99
    TreasuryAddr = treasury
    VaultAddr = vault
    Removable = {}
    VaultMoves = {}
    SwapOuts = {}
    StalePeriods = {4}
    Caps = {}
    Bands = {}
    Tolerances = {}
    Pausable = {}
    Swappers = {}
    SanctionsSwitches = {TRUE, FALSE}
    OnePegged = 1
    MAX_FEE_BPS = 1
    MAX_WITHDRAWAL_DELAY = 2
    INIT_MINT_LIMIT = 3
    INIT_WITHDRAWAL_DELAY = 1
    UMMs = {}
    CollateralAmounts = {1, 2}
    PeggedAmounts = {1, 2}
    AmoAmounts = {}
    Receivers = {alice}
    Limits = {}
    Fees = {}
    Delays = {1, 2}
    DelaySwitches = {TRUE, FALSE}
    Exemptable = {alice}
    Scale <- UnitScale
    One <- UnitOne
INVARIANTS
    GatewayCustody
    RequestsConsistent
    CancelAlwaysPossible
PROPERTIES
    NoEarlyExit
    FrozenWhileSanctioned
