SPECIFICATION FairSpec
CONSTANTS
  Order <- MCOrder
  Existing <- MCNested
  ServerFile <- MCServerFile
  Configs <- MCConfigs
  ZfsVersions <- MCVersions
  Arguments <- MCArguments
  Stuck <- MCStuck
  HoldDays = 1
  MaxFaults = 1
  None = None
INVARIANTS
  TypeOK
PROPERTIES
  StatusTellsAll
  PruneKeepsUp
