SPECIFICATION FairSpec
CONSTANTS
  t1 = t1
  t2 = t2
  t3 = t3
  b1 = b1
  b2 = b2
  b3 = b3
  s1 = s1
  s2 = s2
  k1 = k1
  k2 = k2
  Threads = {t1, t2}
  NoThread = NoThread
  Cbs = {b1, b2, b3}
  NoCb = NoCb
  Sources = {s1, s2}
  NoSrc = NoSrc
  Tokens = {k1}
  NoTok = NoTok
  SourceInc = 64
CHECK_DEADLOCK FALSE
INVARIANTS
  NoUseAfterFree
  DeletedWhenUnreferenced
  ExecutedOnce
  QuietAfterDestroy
PROPERTIES
  Signalled
  DestroyReturns
