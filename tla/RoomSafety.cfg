\* One task, three leases, two late updates at a time, crashes at any step.
SPECIFICATION Spec
CONSTANTS
    Tasks = {t1}
    None = none
    MaxLeases = 3
CONSTRAINT FewPosts
INVARIANTS
    TypeOK
    RoomKeepsUp
    ReplaysNeverConflict
    NoEventLost
PROPERTY ImplementsStream
