\* One worker process, three entries, two of them with the same signal_id.
SPECIFICATION FairSpec
CONSTANTS
  Messages = {1, 2, 3}
  Signals = {"s1", "s2"}
  SignalOf <- MCTwice
  Consumers = {c1}
  BatchSize = 2
  MaxAttempts = 1
  MaxFaults = 2

PROPERTY ImplementsFate
CHECK_DEADLOCK FALSE
