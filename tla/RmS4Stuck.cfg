SPECIFICATION FairSpec
CONSTANTS
    Chan = {t1}
    Tchf = {t1}
    Beacon = Beacon
    MmId = {m1}
    None = None
    Shutdowns = {}
    RmQMax = 1
    DspQMax = 1
PROPERTIES S4Left
CHECK_DEADLOCK FALSE
