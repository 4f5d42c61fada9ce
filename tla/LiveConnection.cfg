SPECIFICATION FairSpec
CONSTANTS
  SendCap = 2
  MaxSent = 5
INVARIANTS LatestKept
PROPERTIES ChecksInOrder ResultsInOrder LatestChecked Disconnects
CHECK_DEADLOCK FALSE
