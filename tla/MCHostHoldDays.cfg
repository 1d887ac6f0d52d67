SPECIFICATION Spec
CONSTANTS
  Order <- MCOrder
  Existing <- MCSingle
  ServerFile <- MCServerFile
  Configs <- MCServerOnly
  ZfsVersions <- MCSupported
  Arguments <- MCArguments
  Stuck = {}
  HoldDays = 1
  MaxFaults = 0
  None = None
INVARIANTS
  HoldDaysRespected
