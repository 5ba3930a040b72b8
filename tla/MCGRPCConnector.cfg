SPECIFICATION Spec
CONSTANTS
  u1 = u1
  u2 = u2
  c1 = c1
  c2 = c2
  q1 = q1
  Uris <- OneUri
  Consumers <- TwoConsumers
  Queries <- OneQuery
  Nil = Nil
  MaxConnections = 2
  BufferSize = 1
  Readvertise = FALSE
  MaxInfos = 1
  MaxEvents = 2
INVARIANTS
  OneReader
  NotClosedUnderReader
  ListedIsRegistered
  Covered
SYMMETRY ConsumerSymmetry
CHECK_DEADLOCK FALSE
