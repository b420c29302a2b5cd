SPECIFICATION Spec
CONSTANTS
    o1 = o1
    o2 = o2
    t1 = t1
    t2 = t2
    t3 = t3
    Orders <- MCOrders
    Trades <- MCTrades
    Matchings <- MCMatchings
    Larger <- MCLarger
    Cancelable <- MCLarger
    Repeated <- MCRepeated
    MaxRepeats = 1
CHECK_DEADLOCK FALSE
INVARIANTS FillToldOnce ReceivedFillIsTold
PROPERTY OrderEnds
