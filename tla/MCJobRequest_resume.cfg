SPECIFICATION JobFairSpec
CONSTANTS
  Last = 3
  ChanCap = 2
  MayQuit = TRUE
INVARIANTS
  StreamSound
  TextOnce
  AnswersHonest
PROPERTIES
  ImplementsJobStream
  CancelClosesRead
  FinishedJobAnswered
CHECK_DEADLOCK FALSE
