SPECIFICATION FairSpec
CONSTANTS
    RLC_MOD_VAL = 2
    K = 1
    Block = {b1, b2}
    Null = Null
    Timeslot = {0, 1}
    PollTs = {0}
    RlcMode = {"ACK", "UNACK"}
    BlocksBetweenPolls = 2
    N3105_MAX = 1
    dlAssignCntMax = 1
    MaxBlocks = 3
    MaxPdus = 1
    MaxPolls = 1
    OamLock = TRUE
INVARIANTS Watched
PROPERTIES FaultCause EndsWhenGone
CHECK_DEADLOCK FALSE
