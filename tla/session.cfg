SPECIFICATION Spec
CONSTANTS
  h1 = h1
  h2 = h2
  i1 = i1
  i2 = i2
  Handles = {h1, h2}
  Ifaces = {i1, i2}
  Macs = {"mac1"}
  MaxFd = 2
  Injectors = {"hostap", "rt2500", "rt2570", "bcm43xx", "wlanng", "airjack", "madwifiold"}
  Form <- MCForm
  CloseAnyway = FALSE
SYMMETRY HandleSymmetry
INVARIANTS TypeOK OpenOwnsSocket NoSocketStranded OpenCardIsReady ClosedCardIsQuiet
PROPERTIES SendKnowsItsSocket ClosesOnlyItsOwn
