\* Share price and drip: every conversion and rounding with overlapping fundings, changed durations,
\* donations, cooldown requests and cancellations, the vault filling up and emptying.
SPECIFICATION Spec
CONSTANTS
    alice = alice
    bob = bob
    funder = funder
    vault = vault
    distributor = distributor
    Stakers = {alice}
    VaultAcct = vault
    DistributorAcct = distributor
    Funders = {funder}
    SanctionsListSet = FALSE
    Listable = {}
    Blacklistable = {}
    Gifts = {1}
    MaxTime = 4
    PRECISION = 2
    DEFAULT_YIELD_DURATION = 2
    MIN_YIELD_DURATION = 1
    YieldAmounts = {1, 2}
    YieldDurations = {1, 3}
    RequestIds = {0}
    DEFAULT_COOLDOWN_DURATION = 1
    MIN_COOLDOWN_DURATION = 1
    MAX_COOLDOWN_DURATION = 2
    AssetAmounts = {1, 2, 3}
    ShareAmounts = {1, 2}
    Receivers = {alice}
    CooldownDurations = {}
    CooldownSwitches = {FALSE}
    Exemptable = {}
    DistributorSwitches = {}
    Endowment <- PriceEndowment
    Delegations <- NoDelegation
INVARIANTS
    DistributorSolvent
PROPERTIES
    SharePriceNeverFalls
    NobodyEarnsWhileEmpty
