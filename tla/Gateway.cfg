\* Deployments in five environments, with one task of the mediator.
SPECIFICATION FairSpec
CONSTANTS
    None = none
    big = big
    small = small
    low = low
    high = high
    rev1 = rev1
    rev2 = rev2
    guide = guide
    Names = {big, small, low, high, rev1, rev2, guide}
    Width <- MCWidth
    TurnLimit = 1
    Hosts <- MCHosts
    CanonicalHosts <- MCCanonical
    Lower <- MCLower
    Statuses = {200, 204, 401, 403, 429, 503}
    Environments <- MCEnvironments
    Packets <- MCPackets
    Pages <- MCPages
    Replies <- MCReplies
    HostStates <- MCHostStates
    MaxLeases = 2
    MaxTime = 1
INVARIANTS
    TypeOK
    OneKeyPerDoor
    ShownIsAdmitted
PROPERTIES
    PostsUnderPolicy
    OutlivesOutages
    ComesUp
    RecordsSettle
\* Refused, or with nothing left to do, the process may stand still.
CHECK_DEADLOCK FALSE
