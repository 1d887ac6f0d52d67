SPECIFICATION Spec
CONSTANTS
  NumRows = 2
  DatasetOf <- OneDataset
  Modes = {"plain"}
  Orders = {FALSE}
  Limits <- OneTooLow
  ChanSize = 2
  MaxChunks = 2
INVARIANTS
  FailureExitsNonZero
