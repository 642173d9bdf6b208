\* A crash during a turn, then the task is revoked.
SPECIFICATION FairSpec
CONSTANTS
    Tasks = {t1}
    Replies = {r1}
    Codes = {interrupted}
    Interrupted = interrupted
    None = none
    MaxLeases = 1
    MaxEpochs = 1
    EarlyRelease = FALSE
PROPERTY LostAuthorityCancels
