\* Upgrades of both stacks to two commits, with rehearsals, rejections and processes that die.
SPECIFICATION FairDeploymentSpec
CONSTANTS
    Stacks <- MCStacks
    KnownAccounts = {"manager"}
    Reverting = {2}
    Misreading = {3}
    Steps <- MCSteps
    Commits <- MCCommits
    LiveAtStart <- MCLive
    Compatible <- MCCompatible
    ListKeepers = {2}
    ListReaders = {3, 4}
    MaxEvents = 2
    MaxQueue = 2
INVARIANTS
    GatewayFindsList
    RehearsalStaysLocal
    ReleasedWhenSettled
    FailsOnlyUnsafe
PROPERTIES
    UpgradesCompatible
    CompareFindsChanges
    GetsUpToDate
