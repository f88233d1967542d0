\* One incident, two writers, a page on ALL, two faults.
SPECIFICATION FairSpec
CONSTANTS
  r1 = r1
  Incidents = {i1}
  Writers = {w1, w2}
  Readers = {r1}
  TabOf <- MCAll
  MaxSignals = 2
  MaxFaults = 2
INVARIANTS TypeOK NeverAhead LoneRefreshIsExact
PROPERTY DanglingIsRepaired
CHECK_DEADLOCK FALSE
