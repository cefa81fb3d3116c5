SPECIFICATION TasksSpec
CONSTANTS
  MaxItems = 4
  Threadings = {TRUE, FALSE}
  Depth = 3
  SrcCnt = 2
  Threads = 2
  Jobs = {1, 2, 3}
  MaxStarts = 2
  c1 = c1
  c2 = c2
  Coros = {c1, c2}
  Expiring = {c1}
  Modes <- MCModes
  OutsideCancel = TRUE
  MaxWaits = 2
CHECK_DEADLOCK FALSE
INVARIANTS
  NoDangling
  ResumedOnce
  ResumedWhenAllDone
  ResultForwarded
  ResultAwaited
  JoinedMeansDone
  OneHandlerResumes
  NoOrphanOperation
PROPERTIES
  Completes
  SyncReturns
  SuspendedGoesOn
