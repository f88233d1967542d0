\* Two concurrent signals, one lock overrun, two faults; enough uuids for every incident
\* that closing and failing can call for.
SPECIFICATION FairSpec
CONSTANTS
  Signals = {s1, s2}
  Items = {i1, i2, i3, i4}
  MaxRetries = 2
  MaxAttempts = 2
  MaxOverruns = 1
  MaxFaults = 2
INVARIANTS TypeOK NeverUncommitted ActiveBounded
PROPERTIES OnlyOwnerUnlocks ClosedStaysQuiet EverySignalSettles
CHECK_DEADLOCK FALSE
