\* Three runs of one signal, two workers, a stream limit of one entry, two faults.
SPECIFICATION FairSpec
CONSTANTS
  Signals = {s1}
  Items = {i1, i2}
  MaxRuns = 3
  Workers = {w1, w2}
  MaxAttempts = 1
  MaxLength = 1
  MaxFaults = 2
INVARIANTS TypeOK AckedIsStored EntriesBounded
PROPERTY EveryEntryLeaves
CHECK_DEADLOCK FALSE
