SPECIFICATION FairSpec
CONSTANTS
    Chan = {d1}
    Tchf = {}
    Beacon = Beacon
    MmId = {m1}
    None = None
    Shutdowns = {Beacon}
    RmQMax = 2
    DspQMax = 2
INVARIANT TypeOK
PROPERTIES ActivationSettles DeactivationEnds
CHECK_DEADLOCK FALSE
