SPECIFICATION FairSpec
CONSTANTS
  Programs = {"tx", "tuntx", "l2ping"}
  DriverNames <- MCNames
  Channels = {0, 6, 36}
  Counts = {0, 2}
  Tuning = {2412, 2484, 5180, 5560}
  MaxRetunes = 1
  MaxTap = 2
  SelectTime = 2
INVARIANTS
  SentIsWritten
  HeaderIsTheCards
  LeftBehind
  NameGetsItsDriver
PROPERTY Ends
CHECK_DEADLOCK FALSE
