\* One task; losses and crashes stop at some time.
SPECIFICATION FairSpec
CONSTANTS
    Tasks = {t1}
    Replies = {r1}
    Codes = {interrupted}
    Interrupted = interrupted
    None = none
    MaxLeases = 2
    MaxEpochs = 1
    EarlyRelease = TRUE
PROPERTIES
    RunOnceReturns
    ResultsSettle
