SPECIFICATION FairSpec
CONSTANTS
  SendCap = 1
  MaxSent = 3
PROPERTIES EveryLastCheckRuns
CHECK_DEADLOCK FALSE
