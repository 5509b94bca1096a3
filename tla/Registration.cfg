SPECIFICATION Spec
CONSTANTS
    Mobile = {m1, m2}
    Chan = {c1}
    MmId = {0, 1}
    Entry = {0}
    None = None
    AuthModes = {FALSE, TRUE}
    MaxBreaks = 1
    MaxGrants = 2
    LudbQMax = 2
    MmQMax = 1
SYMMETRY MobilePerms
INVARIANTS TypeOK ActiveRegistered Guarded IrtOK DetachAnswered
CHECK_DEADLOCK FALSE
