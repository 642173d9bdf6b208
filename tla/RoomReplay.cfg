\* The answer to an accepted success does not arrive whole.
SPECIFICATION Spec
CONSTANTS
    Tasks = {t1}
    None = none
    MaxLeases = 1
INVARIANT SuccessIsReplayed
