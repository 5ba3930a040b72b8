SPECIFICATION FairSpec
CONSTANTS
  c1 = c1
  N = 2
  MaxWrites = 1
  ResetCap = 1
  Writers <- V1AndV2Writers
  MaxConns = 2
  Counters = {c1}
  DiodeSize = 1
  BatchSize = 2
  MaxTotals = 0
  MaxIn <- Inputs
  MaxIncs = 1
INVARIANTS
  ConnectionsKept
  SentOnce
  Accounted
  IncrementsConserved
PROPERTY
  ComesToRest
CHECK_DEADLOCK FALSE
