SPECIFICATION Spec
CONSTANTS
  Source = Source
  r1 = r1
  s1 = s1
  s2 = s2
  Remotes = {r1}
  Sessions = {s1}
  RemoteOf <- ToOneRemote
  Pruned = {}
  MaxTime = 3
  Recent = 1
  HoldDays = 1
INVARIANTS
  HoldsOnlyReceived
