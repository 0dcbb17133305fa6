SPECIFICATION Spec
CONSTANTS
  n1 = n1
  n2 = n2
  n3 = n3
  n4 = n4
  b1 = b1
  b2 = b2
  b3 = b3
  v1 = v1
  v2 = v2
  Nodes = {n1, n2, n3, n4}
  Blocks = {b1, b2, b3}
  Values = {v1, v2}
  Null = Null
  Junk = {FALSE}
SYMMETRY HeapSymmetry
INVARIANTS TypeOK NoBadFree CopyHasOneOwner OnlyTheLastLeaks
PROPERTY RefinesSequences
CHECK_DEADLOCK FALSE
VIEW Reachable
