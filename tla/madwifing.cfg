SPECIFICATION FairSpec
CONSTANTS
  Procs = {"p"}
  Lorcon <- MCLorcon
  Others = {"ath0"}
  Macs = {"mac1", "mac2"}
  HomeMac = "mac1"
INVARIANTS TypeOK OpenOnOwnVap OwnVapNamed AddressRestored
PROPERTIES ClosesItsOwn CallsReturn
