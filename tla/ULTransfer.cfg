CONSTANTS
    Layouts <- SixBlocks
    Null = Null
    RLC_MOD_VAL = 8
    K = 4
    RlcMode = {"ACK"}
    BlocksBetweenAcks = 2
    FirstBlkBuffer = 1
    N3101_MAX = 3
    N3103_MAX = 2
    PoolSize = 4
    MaxTbfs = 1
    MaxMsgs = 2
    StaleRequest = FALSE
    OamLock = FALSE
SPECIFICATION Spec
INVARIANTS VQSound MSAckSound BitmapReports NoHoles RcvWatched
CHECK_DEADLOCK FALSE
