\* Three incidents, one of them urgent, one on a page, three transactions.
SPECIFICATION Spec
CONSTANTS
  N = 3
  Urgent = {3}
  Limit = 1
  MaxWrites = 3
INVARIANTS TypeOK MissedBounded
CHECK_DEADLOCK FALSE
