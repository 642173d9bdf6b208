\* Three turns of one conversation, with a restart and a change of policy.
SPECIFICATION Spec
CONSTANTS
    Tasks = {t1, t2, t3}
    None = none
    d1 = d1
    Revisions = {1, 2, 3}
    Decisions = {d1}
    Packets <- MCPackets
    Citations <- MCCitations
    ReadLimit = 4
SYMMETRY Turns
INVARIANTS
    TypeOK
    CitesDisclosed
    DecisionsGrounded
PROPERTY DisclosureGrows
