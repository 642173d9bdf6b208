\* A conversation of three turns in one room, and a first turn in another; a
\* record of three sources is too long to be read back.
SPECIFICATION Spec
CONSTANTS
    Tasks = {t1, t2, t3}
    None = none
    d1 = d1
    Revisions = {1, 2, 3}
    Decisions = {d1}
    Packets <- TwoRooms
    Citations <- MCCitations
    ReadLimit = 2
SYMMETRY Turns
INVARIANT OtherRoomsClaim
