\* Keepers distributing a harvested buffer under both caps, while stakers come and go, durations
\* and caps change.
SPECIFICATION ManagedSpec
CONSTANTS
    alice = alice
    manager = manager
    vault = vault
    distributor = distributor
    Stakers = {alice}
    VaultAcct = vault
    DistributorAcct = distributor
    Funders = {manager}
    SanctionsListSet = FALSE
    Listable = {}
    Blacklistable = {}
    Gifts = {}
    MaxTime = 3
    PRECISION = 3
    DEFAULT_YIELD_DURATION = 2
    MIN_YIELD_DURATION = 1
    YieldAmounts = {}
    YieldDurations = {1}
    RequestIds = {}
    DEFAULT_COOLDOWN_DURATION = 1
    MIN_COOLDOWN_DURATION = 1
    MAX_COOLDOWN_DURATION = 2
    AssetAmounts = {1, 3}
    ShareAmounts = {1}
    Receivers = {alice}
    CooldownDurations = {}
    CooldownSwitches = {FALSE}
    Exemptable = {}
    DistributorSwitches = {}
    Endowment <- StakerEndowment
    Delegations <- NoDelegation
    ManagerAcct = manager
    YEAR = 2
    CAP_WINDOW = 2
    MAX_BPS = 2
    MAX_APR_BPS = 4
    INIT_APR_BPS = 4
    INIT_ABSOLUTE_CAP = 6
    Targets = {1, 4, 7}
    Harvests = {4}
    MaxAssets = 11
    AprValues = {1, 5}
    CapValues = {2}
    Sweepable = {alice}
INVARIANTS
    ClampMeetsCap
PROPERTIES
    RepeatTopsUpAtMostOne
