SPECIFICATION FairSpec
CONSTANTS
  Source = Source
  r1 = r1
  s1 = s1
  s2 = s2
  Remotes = {r1}
  Sessions = {s1}
  RemoteOf <- ToOneRemote
  Pruned = {Source, r1}
  MaxTime = 2
  Recent = 1
  HoldDays = 1
INVARIANTS
  TypeOK
  FreshSendHoldsReceived
  BaseProtected
  DivergedOnlyIfExposed
  TokenExtendsHead
  PruneSparesNewest
PROPERTIES
  NoHoldWindow
  SessionsEnd
