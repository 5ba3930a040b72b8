SPECIFICATION Spec
CONSTANTS
    Parts = {"proxy", "rlp", "recent", "conversion", "syslog"}
    Conns = {c1}
    MaxMessages = 2
    MaxPongs = 1
    AccessControl = {TRUE, FALSE}
    Subscribers = {s1, s2}
    BufferSize = 1
    MaxEgressConnections = 1
    Requests <- TwoRequests
    MaxYield = 2
    Dopplers = {d1, d2}
    RingSize = 2
    Instances = {0, 1}
    TTL = 1
    MaxTime = 3
    Loads <- LogsOrMetrics
    Limits <- SomeLimits
    V1Inputs <- AllV1Inputs
    V2Inputs <- AllV2Inputs
    Preferred = {TRUE, FALSE}
    Messages <- ThreeMessages
    Schemes = {"syslog", "syslog-tls", "https"}
    MaxConns = 3
INVARIANTS
    ServedOnlyIfGranted
    RlpAccounted
    RecentLogsAreLast
    NewestMetrics
    EnvelopesSurvive
    NoConnectionLeaks
PROPERTIES
    DeliversInOrder
    StreamsReleased
    RlpStreamsEnd
    DisconnectEnds
CHECK_DEADLOCK FALSE
