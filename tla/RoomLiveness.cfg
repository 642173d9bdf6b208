\* An agent that may hang; either time passes or the network recovers.
SPECIFICATION FairSpec
CONSTANTS
    Tasks = {t1}
    None = none
    MaxLeases = 2
PROPERTIES
    RunOnceReturns
    ClaimedTasksSettle
