SPECIFICATION FairSpec
CONSTANTS
  TimeMod = 5
  Timeout = 2
  NPacks = 2
  MaxSignals = 2
  MaxFrames = 2
  MaxBuffer = 2
  MaxWatch = 4
INVARIANTS
  TypeOK
  AnswersAreOurs
  AnswersCountOnce
  DeadlineKept
  BlindOnlyAtWrap
PROPERTIES
  AnswersHeard
  ClosedTwiceInARace
  Terminates
CHECK_DEADLOCK FALSE
