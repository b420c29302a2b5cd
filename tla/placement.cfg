SPECIFICATION FairSpec
CONSTANTS
  up = up
  down = down
  None = None
  Sides <- BothSides
  LayerSizes <- TwoLayers
  EntryStart = 1
  EntryEnd = 3
  Persistence = 2
  MaxWork = 1
  StaleAfter = 1
  Cadence = 1
  SignalAges <- FreshOrLate
  MaxTime = 5
  LayersMayFail = TRUE
  DeniedInCall = TRUE
  MayStop = TRUE
  NoDropTolerated = FALSE
CHECK_DEADLOCK FALSE
INVARIANTS NoFillLost CycleWaitsForOrders
PROPERTIES KeepsCycle PlacementIsPersistent CandidateIsPlaced WorkingEnds
