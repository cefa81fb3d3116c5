SPECIFICATION OptionsSpec
CONSTANTS
  Settable = {"body"}
  OptValues = {1}
  Lines = {"X:"}
  MaxLists = 3
  MaxLines = 1
  Nothing = Nothing
CHECK_DEADLOCK FALSE
INVARIANTS
  SentAsWanted
