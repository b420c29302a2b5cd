SPECIFICATION FairSpec
CONSTANTS
    left = left
    right = right
    None = None
    Streams = {left, right}
    Events <- ThreeEvents
    StreamOf <- ThreeStreamOf
    PartitionOf <- TwoHours
    FlushSize = 1
    MaxGaps = 1
    MaxDuplicates = 1
    MaxWriteFailures = 1
    MaxCrashes = 1
CHECK_DEADLOCK FALSE
INVARIANTS ArchivedOnce CountsKept ReturnsEmpty
PROPERTIES KeepsEvidence EvidenceReachesDisk
