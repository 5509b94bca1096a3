CONSTANTS
    Layouts <- TinyBlocks
    Null = Null
    RLC_MOD_VAL = 8
    K = 4
    RlcMode = {"ACK", "UNACK"}
    BlocksBetweenAcks = 2
    FirstBlkBuffer = 1
    N3101_MAX = 2
    N3103_MAX = 2
    PoolSize = 3
    MaxTbfs = 2
    MaxMsgs = 2
    StaleRequest = TRUE
    OamLock = TRUE
SPECIFICATION FairSpec
INVARIANTS PoolNotOverfull RcvWatched
PROPERTIES RcvEndsWhenGone
CHECK_DEADLOCK FALSE
