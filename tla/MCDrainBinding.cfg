SPECIFICATION FairSpec
CONSTANTS
  b1 = b1
  b2 = b2
  a1 = a1
  a2 = a2
  u1 = u1
  u2 = u2
  NoLeader = NoLeader
  Binders = {b1, b2}
  Pages <- TwoPages
  UrlKind <- Kinds
  Bindings <- Moves
  QueueCap = 1
  MaxBindings = 1
  MaxFaults = 2
INVARIANTS
  NoDrainLeftBehind
PROPERTIES
  LeadershipKept
  CacheFollowsController
CHECK_DEADLOCK FALSE
