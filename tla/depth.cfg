SPECIFICATION Spec
CONSTANTS
    Feeds = {"spot", "perp", "okx"}
    Sizes = {1, 2}
    Leads = {0, 1}
    MaxBuffered = 2
    MaxUpdates = 7
    MaxFaults = 2
CHECK_DEADLOCK FALSE
INVARIANTS ArchiveRebuilds NoRefreshInStep
PROPERTIES MirrorsVenue WaitingEnds
