SPECIFICATION FairSpec
CONSTANTS
  Last = 4
  ChanCap = 2
  MayQuit = TRUE
PROPERTIES
  CancelCloses
CHECK_DEADLOCK FALSE
