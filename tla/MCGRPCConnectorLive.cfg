SPECIFICATION FairSpec
CONSTANTS
  u1 = u1
  u2 = u2
  c1 = c1
  c2 = c2
  q1 = q1
  Uris <- OneUri
  Consumers <- TwoConsumers
  Queries <- OneQuery
  Nil = Nil
  MaxConnections = 1
  BufferSize = 1
  Readvertise = FALSE
  MaxInfos = 1
  MaxEvents = 1
PROPERTY
  ConsumersEnd
CHECK_DEADLOCK FALSE
