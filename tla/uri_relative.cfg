SPECIFICATION DataSpec
CONSTANTS
  Components <- MCComponents
  Foreign <- MCForeign
  WellKnown <- MCWellKnown
  GroupBits = 2
  Width = 5
  MaxWidth = 7
  MaxValues = 0
  MaxForeign = 0
  NoURI = NoURI
  Docs <- MCDocs
  Headers = {""}
  Asked <- MCAsked
  MaxSearch = 2
  Text = Text
  NoDoc = NoDoc
  Answers <- MCAnswers
  DataUrls <- MCDataUrls
  Segments <- MCSegments
  BaseSegments <- MCBaseSegments
  MaxBase = 2
  MaxRef = 4
  Versions <- MCVersions
  Schema <- MCSchema
  Samples <- MCSamples
  None = None
  Bad = 0
  f1 = f1
  Fds = {f1}
  MaxSockId = 2
  MaxChain = 2
  NoAction = NoAction
  Streams <- MCStreams
  Shapes <- MCShapes
  MaxByte = 3
  MaxReads = 0
  NoAwaiter = NoAwaiter
  Settable = {"proxy", "body"}
  OptValues = {1}
  Lines = {"X:"}
  MaxLists = 4
  MaxLines = 1
  Nothing = Nothing
  Found <- MCFound
  Args <- MCArgs
  TooBig <- MCTooBig
  Reads <- MCReads
  MaxUses = 0
  Schemas = {"main", "aux"}
  Together <- MCTogether
  Tried <- MCTried
  CacheSizes <- MCCacheSizes
  Cap = 1
  MaxVersion = 2
  Unset = Unset
  Names = {"sp", "b"}
  MaxWrites = 0
  MaxDepth = 3
  CanAbort = TRUE
CHECK_DEADLOCK FALSE
INVARIANTS
  RelativeResolved
