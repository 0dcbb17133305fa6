SPECIFICATION Spec
CONSTANTS
  h1 = h1
  h2 = h2
  i1 = i1
  i2 = i2
  Handles = {h1}
  Ifaces = {i1}
  Macs = {"mac1", "mac2"}
  MaxFd = 2
  Injectors = {"hostap"}
  Form <- MCForm
  CloseAnyway = FALSE
INVARIANT NoNullDereference
