SPECIFICATION FairSpec
CONSTANTS
  drain = drain
  refused = refused
  ws = ws
  firehose = firehose
  Urls <- PlainUrls
  Drains <- PlainUrls
  Identifier <- Itself
  BadUrls <- RefusedUrls
  Streams = {}
  Firehoses = {}
  InputCap = 1
  ErrorCap = 1
  Patient = TRUE
  MaxMade <- MadeDrains
  MaxBinds = 2
  MaxSends = 1
INVARIANTS
  DrainsMatch
PROPERTY
  RemovedSinkEnds
CHECK_DEADLOCK FALSE
