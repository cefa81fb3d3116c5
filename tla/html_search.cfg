SPECIFICATION DocsSpec
CONSTANTS
  Docs <- MCDocs
  Headers = {""}
  Asked <- MCAnyForm
  MaxSearch = 1
  Text = Text
  NoDoc = NoDoc
  Answers <- MCAnswers
  DataUrls <- MCDataUrls
CHECK_DEADLOCK FALSE
INVARIANTS
  SearchAsDocumented
