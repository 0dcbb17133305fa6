SPECIFICATION Spec
CONSTANTS
  Procs = {"p", "q"}
  Lorcon <- MCLorcon
  Others = {"ath0"}
  Macs = {"mac1", "mac2"}
  HomeMac = "mac1"
PROPERTY CloseSparesOthers
