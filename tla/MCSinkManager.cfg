SPECIFICATION Spec
CONSTANTS
  drain = drain
  refused = refused
  ws = ws
  firehose = firehose
  Urls = {}
  Drains = {}
  Identifier <- Itself
  BadUrls = {}
  Streams = {ws}
  Firehoses = {firehose}
  InputCap = 1
  ErrorCap = 1
  Patient = TRUE
  MaxMade <- MadeClients
  MaxBinds = 0
  MaxSends = 2
INVARIANTS
  OpenWhileRegistered
  MetricsMatch
CHECK_DEADLOCK FALSE
