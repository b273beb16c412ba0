CONSTANTS
  n1 = n1
  n2 = n2
  a0 = a0
  a1 = a1
  a2 = a2
  a3 = a3
  Addr <- MCAddr
  NULL = null
  Name = {n1, n2}
  InitNames <- MCNames
  Rows = 5

SPECIFICATION Spec

INVARIANTS
  TypeOK
  RingSound
  CountMatches

PROPERTY ImplementsCatalogue

