\* Two operators, a pool of two connections, an overflowing MTTR, one fault.
SPECIFICATION FairSpec
CONSTANTS
  Operators = {p1, p2}
  Ends <- MCEnds
  Null = Null
  IntMin <- MCIntMin
  IntMax = 5
  PoolSize = 2
  MaxFaults = 1
INVARIANTS TypeOK HistoryIsLifecycle ClosedIsExplained
PROPERTY ImplementsContract EveryRequestAnswered
