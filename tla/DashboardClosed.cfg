\* "When an incident becomes CLOSED, its projection is explicitly removed": a refresh
\* that read the row before the close writes it back afterwards.
SPECIFICATION Spec
CONSTANTS
  r1 = r1
  Incidents = {i1}
  Writers = {w1, w2}
  Readers = {}
  TabOf <- MCNobody
  MaxSignals = 2
  MaxFaults = 0
INVARIANT ClosedIsRemoved
CHECK_DEADLOCK FALSE
