\* The owner clears the distributor and sets it again while the vault is empty.
SPECIFICATION Spec
CONSTANTS
    alice = alice
    bob = bob
    funder = funder
    vault = vault
    distributor = distributor
    Stakers = {alice}
    VaultAcct = vault
    DistributorAcct = distributor
    Funders = {funder}
    SanctionsListSet = FALSE
    Listable = {}
    Blacklistable = {}
    Gifts = {}
    MaxTime = 4
    PRECISION = 2
    DEFAULT_YIELD_DURATION = 2
    MIN_YIELD_DURATION = 1
    YieldAmounts = {2}
    YieldDurations = {}
    RequestIds = {}
    DEFAULT_COOLDOWN_DURATION = 1
    MIN_COOLDOWN_DURATION = 1
    MAX_COOLDOWN_DURATION = 2
    AssetAmounts = {1}
    ShareAmounts = {1}
    Receivers = {alice}
    CooldownDurations = {}
    CooldownSwitches = {FALSE}
    Exemptable = {}
    DistributorSwitches = {TRUE, FALSE}
    Endowment <- SmallEndowment
    Delegations <- NoDelegation
PROPERTIES
    NobodyEarnsWhileEmpty
