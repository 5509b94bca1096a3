CONSTANTS
    Layouts <- WrapBlocks
    Null = Null
    RLC_MOD_VAL = 4
    K = 2
    RlcMode = {"ACK", "UNACK"}
    BlocksBetweenAcks = 1
    FirstBlkBuffer = 1
    N3101_MAX = 3
    N3103_MAX = 2
    PoolSize = 4
    MaxTbfs = 1
    MaxMsgs = 2
    StaleRequest = FALSE
    OamLock = TRUE
SPECIFICATION Spec
INVARIANTS RcvTypeOK PoolConserved
CHECK_DEADLOCK FALSE
