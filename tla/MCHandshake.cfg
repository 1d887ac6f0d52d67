SPECIFICATION FairSpec
CONSTANTS
  laptop = laptop
  desktop = desktop
  home = home
  docs = docs
  NotANumber = NotANumber
  Names = {laptop, desktop}
  Targets = {home, docs}
  ServerVersion <- MCServerVersion
  ClientVersions <- MCClientVersions
INVARIANTS
  TypeOK
  SkewIsExplained
PROPERTIES
  ImplementsAgreement
  HandshakeEnds
CHECK_DEADLOCK FALSE
