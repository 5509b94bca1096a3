SPECIFICATION Spec
CONSTANTS
    Chan = {t1}
    Tchf = {t1}
    Beacon = Beacon
    MmId = {m1}
    None = None
    Shutdowns = {t1}
    RmQMax = 2
    DspQMax = 2
INVARIANTS ChannelStateAgrees NoOrphanRadio DspAnswers MmTold HoAnswered AckedIsIdle
CHECK_DEADLOCK FALSE
PROPERTIES UseSpec
