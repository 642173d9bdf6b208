\* Twenty-five packets: an invocation of each, answered for any of them.
SPECIFICATION Spec
CONSTANTS
    Packets <- MCPackets
    None = none
    MaxTime = 3
    SafeRevision = 3
\* One invocation, then nothing.
CHECK_DEADLOCK FALSE
INVARIANTS
    TypeOK
    OnlyOwnStream
    OwnStreamAdmitted
    ResultWithinContract
