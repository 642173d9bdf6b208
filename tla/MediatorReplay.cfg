\* A completed record whose stored update is still the failed one.
SPECIFICATION Spec
CONSTANTS
    Tasks = {t1}
    Replies = {r1}
    Codes = {interrupted}
    Interrupted = interrupted
    None = none
    MaxLeases = 2
    MaxEpochs = 1
    EarlyRelease = TRUE
INVARIANT ReplaysStoredOutput
