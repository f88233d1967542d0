\* Two worker processes, one entry: the races of slow, crashed and failing runs.
SPECIFICATION Spec
CONSTANTS
  Messages = {1}
  Signals = {"s1"}
  SignalOf <- MCOne
  Consumers = {c1, c2}
  BatchSize = 1
  MaxAttempts = 2
  MaxFaults = 3
INVARIANTS TypeOK NoSignalLost ProcessedWasApplied EffectsWithinAttempts OneRunPerAttempt DeadLettersBounded
PROPERTY ProcessedNeverRestarts
CHECK_DEADLOCK FALSE
