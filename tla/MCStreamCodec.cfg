SPECIFICATION FairSpec
CONSTANTS
  MaxBytes = 7
  ChunkSize = 2
  PipeSize = 3
INVARIANTS
  PaddingIsZero
  ReportsAllBytes
  ServerTellsTruth
PROPERTIES
  ImplementsTransfer
  TransferEnds
