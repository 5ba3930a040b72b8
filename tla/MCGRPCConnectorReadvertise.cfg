SPECIFICATION Spec
CONSTANTS
  u1 = u1
  u2 = u2
  c1 = c1
  c2 = c2
  q1 = q1
  Uris <- OneUri
  Consumers <- OneConsumer
  Queries <- OneQuery
  Nil = Nil
  MaxConnections = 1
  BufferSize = 1
  Readvertise = TRUE
  MaxInfos = 2
  MaxEvents = 3
INVARIANT
  ListedIsRegistered
CHECK_DEADLOCK FALSE
