SPECIFICATION FairSpec
CONSTANTS
  c1 = c1
  c2 = c2
  c3 = c3
  r1 = r1
  r2 = r2
  Coros = {c1, c2, c3}
  Timed = {c1}
  Stoppable = {c1}
  Res = {r1}
  NoRes = NoRes
  NoCoro = NoCoro
  MultiThread = FALSE
  InitCap = 1
  MaxCap = 1
  MaxId = 2
INVARIANTS
  NoDangling
PROPERTIES
  WaiterServed
