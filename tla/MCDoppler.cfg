CONSTANTS
    Subs = {s1, s2}
    Streams = {v1, v2}
    V1Streams = {v1}
    Requests <- SomeRequests
    Sources <- OneByOne
    Contents <- SomeContents
    MaxEnvelopes = 2
    BufferSize = 1
    EgressSize = 1
    UDPChannel = 1
    Unmarshallers = 1
SPECIFICATION Spec
CHECK_DEADLOCK FALSE
INVARIANTS
    RouterMatchesStreams
    SentToSubscriptionsOnce
    EgressAccounted
PROPERTY
    StreamsEnd
