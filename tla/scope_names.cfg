SPECIFICATION ScopesSpec
CONSTANTS
  Names = {"sp"}
  MaxWrites = 2
  MaxDepth = 2
  CanAbort = FALSE
CHECK_DEADLOCK FALSE
PROPERTIES
  ScopesNest
