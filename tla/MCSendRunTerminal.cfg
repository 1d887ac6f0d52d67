SPECIFICATION Spec
CONSTANTS
  NumRows = 2
  DatasetOf <- OneDataset
  Modes = {"tui"}
  Orders = {FALSE}
  Limits <- Unlimited
  ChanSize = 2
  MaxChunks = 2
INVARIANTS
  TerminalRestored
