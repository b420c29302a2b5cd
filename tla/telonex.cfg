SPECIFICATION Spec
CONSTANTS
    d1 = d1
    d2 = d2
    m1 = m1
    Days <- MCDays
    Months <- MCMonths
    Month <- MCMonth
    Workers = 2
    QueueLimit = 1
    PendingLimit = 2
    RollDays = 2
    MaxFaults = 3
INVARIANTS ManifestIsTrue ReadOnce SummaryIsDurable
PROPERTIES CompletedStays EveryDayRecorded
