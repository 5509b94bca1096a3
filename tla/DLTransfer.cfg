SPECIFICATION Spec
CONSTANTS
    RLC_MOD_VAL = 4
    K = 2
    Block = {b1, b2, b3, b4}
    Null = Null
    Timeslot = {0}
    PollTs = {0}
    RlcMode = {"ACK"}
    BlocksBetweenPolls = 2
    N3105_MAX = 1
    dlAssignCntMax = 2
    MaxBlocks = 5
    MaxPdus = 2
    MaxPolls = 1
    OamLock = FALSE
SYMMETRY Perms
INVARIANTS TypeOK PoolOK WindowOK AckSound NoPduLeftBehind
PROPERTIES FaultCause
CHECK_DEADLOCK FALSE
