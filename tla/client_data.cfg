SPECIFICATION ClientSpec
CONSTANTS
  f1 = f1
  Fds = {f1}
  MaxSockId = 1
  MaxChain = 1
  NoAction = NoAction
  Streams <- MCBigChunk
  Shapes <- MCSomeBytes
  MaxByte = 3
  MaxReads = 3
  NoAwaiter = NoAwaiter
CHECK_DEADLOCK FALSE
INVARIANTS
  DataInOrder
