\* "auto-drain queue": XACK leaves processed entries in the stream, which stays full.
SPECIFICATION FairSpec
CONSTANTS
  q1 = q1
  q2 = q2
  Requests = {q1, q2}
  SizeOf <- MCSingles
  Chunk = 1
  Concurrency = 1
  MaxLength = 1
  MaxFaults = 0
PROPERTY FullIsTemporary
CHECK_DEADLOCK FALSE
