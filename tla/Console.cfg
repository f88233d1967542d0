\* Three tabs, two loads of the feed in flight beside the one after an advance, one failure.
SPECIFICATION FairSpec
CONSTANTS
  Tabs = {"OPEN", "RESOLVED", "CLOSED"}
  MaxLoads = 2
  MaxFaults = 1
INVARIANTS TypeOK WaitingIsBacked
PROPERTIES MovesAsSeen FeedSettlesOnTab PersistenceCloses
