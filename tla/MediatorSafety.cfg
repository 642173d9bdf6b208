\* One task, three leases, two deadlines, any number of losses and crashes.
SPECIFICATION Spec
CONSTANTS
    Tasks = {t1}
    Replies = {r1, r2}
    Codes = {interrupted, timeout}
    Interrupted = interrupted
    None = none
    MaxLeases = 3
    MaxEpochs = 2
    EarlyRelease = TRUE
SYMMETRY Symmetry
INVARIANTS
    TypeOK
    SendOnce
    RoomHoldsWorkersReply
    AcknowledgedAfterRoom
    FailureConfirmed
    UpdateStoredFirst
PROPERTIES
    RecordsNeverRegress
    QuarantineLasts
    ImplementsOutcome
