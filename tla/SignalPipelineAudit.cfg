\* A crash between the audit row and the XADD is never repaired by the retry.
SPECIFICATION Spec
CONSTANTS
  Messages = {1}
  Signals = {"s1"}
  SignalOf <- MCOne
  Consumers = {c1, c2}
  BatchSize = 1
  MaxAttempts = 2
  MaxFaults = 2
INVARIANT ProcessedAuditIsQueued
CHECK_DEADLOCK FALSE
