SPECIFICATION Spec
CONSTANTS
  c1 = c1
  c2 = c2
  c3 = c3
  r1 = r1
  r2 = r2
  Coros = {c1, c2, c3}
  Timed = {c1}
  Stoppable = {c2}
  Res = {r1, r2}
  NoRes = NoRes
  NoCoro = NoCoro
  MultiThread = TRUE
  InitCap = 1
  MaxCap = 2
  MaxId = 3
SYMMETRY Symmetry
PROPERTIES
  ImplementsAllocator
INVARIANTS
  WaiterAccounting
  ExclusiveOwnership
  PoolAsserts
PROPERTIES
  TimeoutOwnWait
