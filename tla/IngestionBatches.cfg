\* Batches of three signals and of one, and one that fails validation, by one client with
\* a bucket of three; room for two in the stream; clocks a second off; one failure.
SPECIFICATION AdmissionSpec
CONSTANTS
  q1 = q1
  q2 = q2
  Requests = {q1, q2}
  SizeOf <- MCSizes
  Chunk = 2
  Concurrency = 2
  MaxLength = 2
  MaxFaults = 1
  BucketCapacity = 3
  RefillRate = 1
  MaxSkew = 1
  MaxTime = 1
  MaxInvalid = 1
INVARIANTS AdmissionTypeOK GrantsBounded WaitingEarns StreamBounded AcceptedStays
PROPERTY EveryBatchAnswered
CHECK_DEADLOCK FALSE
