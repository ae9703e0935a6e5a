\* Cooldown requests of two stakers, delegated, batched and cancelled, while the owner changes the
\* settings, one staker is listed by the sanctions oracle and the other blacklisted by the asset.
SPECIFICATION Spec
CONSTANTS
    alice = alice
    bob = bob
    funder = funder
    vault = vault
    distributor = distributor
    Stakers = {alice, bob}
    VaultAcct = vault
    DistributorAcct = distributor
    Funders = {funder}
    SanctionsListSet = TRUE
    Listable = {alice}
    Blacklistable = {bob}
    Gifts = {}
    MaxTime = 2
    PRECISION = 2
    DEFAULT_YIELD_DURATION = 2
    MIN_YIELD_DURATION = 1
    YieldAmounts = {1}
    YieldDurations = {}
    RequestIds = {0, 1}
    DEFAULT_COOLDOWN_DURATION = 1
    MIN_COOLDOWN_DURATION = 1
    MAX_COOLDOWN_DURATION = 2
    AssetAmounts = {1, 2}
    ShareAmounts = {1}
    Receivers = {alice, bob}
    CooldownDurations = {1, 2, 3}
    CooldownSwitches = {TRUE, FALSE}
    Exemptable = {alice}
    DistributorSwitches = {TRUE, FALSE}
    Endowment <- CooldownEndowment
    Delegations <- BobForAlice
INVARIANTS
    TypeOK
    CooldownAccounted
    CooldownFunded
    ClaimAlwaysPossible
PROPERTIES
    RequestsAreKept
    FrozenWhileSanctioned
