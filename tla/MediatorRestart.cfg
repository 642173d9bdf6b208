\* A restart with one unfinished record and one fresh task.
SPECIFICATION RestartSpec
CONSTANTS
    Tasks = {t1, t2}
    Replies = {r1}
    Codes = {interrupted}
    Interrupted = interrupted
    None = none
    MaxLeases = 2
    MaxEpochs = 1
    EarlyRelease = TRUE
PROPERTY NoStarvation
INVARIANT AcknowledgedAfterRoom
