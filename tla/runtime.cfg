SPECIFICATION Spec
CONSTANTS
    WindowSize = 3
    HandoffDelay = 1
    MaxAge = 1
    MaxTime = 8
    MaxFaults = 2
CHECK_DEADLOCK FALSE
INVARIANTS HealthyMeansAlive
PROPERTIES StoppedIsClean WindowsOnce StopEnds
