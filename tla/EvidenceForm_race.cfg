SPECIFICATION FormSpec

CONSTANTS
    Files = {f1, f2}
    NoFile = NoFile
    NoHash = NoHash
    MaxPicks = 2
    MaxSubmits = 1
    MaxSettles = 0

INVARIANT AttachedIsPicked

CHECK_DEADLOCK FALSE
