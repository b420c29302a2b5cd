SPECIFICATION Spec
CONSTANTS
    Leads = {0, 1, 2}
    Tolerance = 2
    MaxSeen = 2
    ReconnectDelay = 2
    DiscoveryDelay = 2
    Window = 3
    EpochStride = 10
    MaxFaults = 1
    MaxTime = 6
    MaxStored = 3
    MaxEpoch = 2
CHECK_DEADLOCK FALSE
INVARIANTS ReaderAccepts ReaderCanRebuild EpochIsUnbroken
PROPERTIES JitterKeepsEpoch
