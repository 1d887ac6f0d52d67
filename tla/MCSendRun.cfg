SPECIFICATION FairSpec
CONSTANTS
  NumRows = 2
  DatasetOf <- TwoDatasets
  Modes = {"tui", "inline", "plain"}
  Orders = {TRUE, FALSE}
  Limits <- SomeTooLow
  ChanSize = 2
  MaxChunks = 2
INVARIANTS
  TypeOK
  ErrorExitsNonZero
  LastWordShown
  SkipStopsTransfer
PROPERTIES
  RunEnds
