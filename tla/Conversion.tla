----------------------------- MODULE Conversion -----------------------------
(***************************************************************************)
(* The conversion of envelopes between the two versions of the protocol    *)
(* (plumbing/conversion).  Doppler's v2 ingress turns every v2 envelope it *)
(* receives into v1 envelopes (ToV1), and the reverse log proxy turns what *)
(* it reads from doppler back into v2 envelopes (ToV2).  A journey here is *)
(* an envelope of either version that goes through both, in either order.  *)
(*                                                                         *)
(* A v2 envelope keeps its tags in a map of strings (Tags; nilTags if nil) *)
(* or in a map of typed values (DeprecatedTags).  Maps are functions; what *)
(* matters of a string is whether it is empty, a numeral, the name of an   *)
(* enumeration's value or a UUID.  Go maps are references: createBaseV1    *)
(* deletes from the map it hands on, which is the envelope's own Tags when *)
(* that is not nil, so it returns the envelope it leaves behind as well.   *)
(***************************************************************************)
EXTENDS Integers, Sequences, FiniteSets, TLC, Functions

CONSTANTS V1Inputs,       \* the v1 envelopes a journey may start with
          V2Inputs,       \* the v2 envelopes a journey may start with
          Preferred       \* the values usePreferredTags may have

\* A nil *v2.Value and a nil *v2.GaugeValue.
NoValue == [type |-> "nil", data |-> ""]
NoMetric == [unit |-> "nil", value |-> 0]

\* The tags that are fields of a v1 envelope.
AttributeTags == {"origin", "deployment", "job", "index", "ip"}

\* The tags that are fields of a v1 HttpStartStop, by the way they are read.
NumberTags == {"status_code", "content_length", "instance_index"}
EnumTags == {"method", "peer_type"}
TextTags == {"uri", "remote_address", "user_agent", "routing_instance_id", "forwarded"}
TimerTags == NumberTags \cup EnumTags \cup TextTags \cup {"request_id"}

\* The metrics that make a gauge a container metric.
ContainerMetrics == {"instance_index", "cpu", "memory", "disk", "memory_quota", "disk_quota"}

Numerals == {"0", "3"}
EnumNames == {"PUT"}
UUIDs == {"uuid", "zero uuid"}

EmptyMap == [k \in {} |-> ""]

-----------------------------------------------------------------------------
(* Strings, numbers and identifiers. *)

\* The printed form of a typed tag: %d of an integer, %f of a decimal.
Printed(v) == IF v.type = "Decimal" THEN v.data \o ".0" ELSE v.data

HasText(v) == v.type \in {"Text", "Integer", "Decimal"}

\* strconv.ParseInt, with 0 for what is not a number.
atoi(s) == IF s \in Numerals THEN s ELSE "0"

\* events.Method_value and String(): a name that is unknown has value 0.
EnumValue(s) == IF s \in EnumNames THEN s ELSE "0"

parseUUID(s) == IF s \in UUIDs THEN s ELSE "nil"

convertUUID(id) == IF id = "nil" THEN "zero uuid" ELSE id

uuidToString(uuid) == uuid

\* float64 to an unsigned integer and back; gauge values are in tenths.
Truncated(x) == (x \div 10) * 10

-----------------------------------------------------------------------------
(* v2 to v1. *)

getV2Tag(e, key) ==
    IF key \in DOMAIN e.tags THEN e.tags[key]
    ELSE IF key \in DOMAIN e.deprecated /\ HasText(e.deprecated[key])
         THEN Printed(e.deprecated[key])
         ELSE ""

\* [mutant] only the tags of type text are carried over
convertTextTags(e) ==
    LET typed == {k \in DOMAIN e.deprecated : e.deprecated[k].type = "Text"}
    IN  [k \in typed |-> Printed(e.deprecated[k])]
            @@ e.tags

\* The typed tags are written over the others.
convertTags(e) ==
    LET typed == {k \in DOMAIN e.deprecated : HasText(e.deprecated[k])}
    IN  [k \in typed |-> Printed(e.deprecated[k])]
            @@ e.tags

Without(tags, keys) == Restrict(tags, DOMAIN tags \ keys)

NonEmpty(key, value) == IF value = "" THEN EmptyMap ELSE key :> value

createBaseV1(e) ==
    LET tags == NonEmpty("instance_id", e.instanceId) @@ NonEmpty("source_id", e.sourceId)
                   @@ Without(convertTags(e), AttributeTags \cup {"__v1_type"})
    IN  [v1 |-> [ts |-> e.ts, tags |-> tags,
                 attrs |-> [a \in AttributeTags |-> getV2Tag(e, a)]],
         e |-> IF e.nilTags THEN e ELSE [e EXCEPT !.tags = tags]]

V1(base, type, body, dropped) ==
    [ts |-> base.ts, attrs |-> base.attrs, tags |-> Without(base.tags, dropped),
     type |-> type, body |-> body]

convertTimer(base, e) ==
    V1(base, "HttpStartStop",
       [start |-> e.msg.start, stop |-> e.msg.stop,
        appId |-> convertUUID(parseUUID(e.sourceId)),
        fields |-> [t \in TimerTags |->
            LET s == getV2Tag(e, t)
            IN  CASE t \in NumberTags -> atoi(s)
                  [] t \in EnumTags   -> EnumValue(s)
                  [] t \in TextTags   -> s
                  [] OTHER            -> convertUUID(parseUUID(s))]],
       TimerTags)

recoverError(base, e) ==
    V1(base, "Error",
       [source |-> getV2Tag(e, "source"), code |-> atoi(getV2Tag(e, "code")),
        message |-> e.msg.payload],
       {"source", "code"})

messageType(log) == IF log.logType = "OUT" THEN "OUT" ELSE "ERR"

convertLog(base, e) ==
    IF getV2Tag(e, "__v1_type") = "Error" THEN recoverError(base, e)
    ELSE V1(base, "LogMessage",
            [message |-> e.msg.payload, messageType |-> messageType(e.msg),
             ts |-> e.ts, appId |-> e.sourceId, sourceType |-> getV2Tag(e, "source_type"),
             sourceInstance |-> e.instanceId],
            {"source_type"})

\* A counter that holds a delta has total 0; the delta is never carried over.
convertCounter(base, e) ==
    V1(base, "CounterEvent",
       [name |-> e.msg.name, delta |-> 0,
        total |-> IF e.msg.isTotal THEN e.msg.value ELSE 0],
       {})

\* All of the six metrics must be there, next to any other (the code does not
\* count them beyond one); the integer ones are truncated.
IsContainerMetric(metrics) ==
    /\ Cardinality(DOMAIN metrics) # 1
    /\ ContainerMetrics \subseteq {k \in DOMAIN metrics : metrics[k] # NoMetric}

tryConvertContainerMetric(base, e) ==
    V1(base, "ContainerMetric",
       [appId |-> e.sourceId,
        values |-> [k \in ContainerMetrics |->
            IF k = "cpu" THEN e.msg.metrics[k].value
                         ELSE Truncated(e.msg.metrics[k].value)]],
       {})

\* One value metric for each metric of a gauge, none if one of them is nil.
\* Every base is made from what the base before it left of the envelope.
convertGauge(e) ==
    LET first == createBaseV1(e)
        base == createBaseV1(first.e).v1
    IN  IF IsContainerMetric(e.msg.metrics)
        THEN {tryConvertContainerMetric(first.v1, first.e)}
        ELSE IF \E k \in DOMAIN e.msg.metrics : e.msg.metrics[k] = NoMetric THEN {}
        ELSE {V1(base, "ValueMetric",
                 [name |-> k, unit |-> e.msg.metrics[k].unit, value |-> e.msg.metrics[k].value],
                 {}) : k \in DOMAIN e.msg.metrics}

\* The v1 envelopes of a v2 envelope; a message of another type has none.
ToV1(e) ==
    LET base == createBaseV1(e)
    IN  CASE e.msg.type = "Log"     -> {convertLog(base.v1, base.e)}
          [] e.msg.type = "Counter" -> {convertCounter(base.v1, base.e)}
          [] e.msg.type = "Gauge"   -> convertGauge(base.e)
          [] e.msg.type = "Timer"   -> {convertTimer(base.v1, base.e)}
          [] OTHER                  -> {}

-----------------------------------------------------------------------------
(* v1 to v2. *)

\* Tags set one by one, in the map usePreferredTags selects; both maps lose
\* the tags that become fields.
setV2Tags(e, tags, preferred) ==
    IF preferred THEN [e EXCEPT !.tags = tags @@ @]
    ELSE [e EXCEPT !.deprecated = [k \in DOMAIN tags |-> [type |-> "Text", data |-> tags[k]]] @@ @]

unsetV2Tags(e, keys) ==
    [e EXCEPT !.tags = Without(@, keys),
              !.deprecated = Without(@, keys)]

initTags(v1, preferred) ==
    LET empty == [ts |-> v1.ts, sourceId |-> "", instanceId |-> "",
                  tags |-> EmptyMap, nilTags |-> ~preferred,
                  deprecated |-> EmptyMap, msg |-> [type |-> "none"]]
    IN  setV2Tags(empty, v1.tags, preferred)

TagOr(v1, key, default) == IF key \in DOMAIN v1.tags THEN v1.tags[key] ELSE default

\* deployment/job stands for an application where there is none.
DefaultSourceId(v1) == v1.attrs["deployment"] \o "/" \o v1.attrs["job"]

convertAppUUID(appID, sourceId) == IF appID = "zero uuid" THEN sourceId ELSE uuidToString(appID)

convertAppID(appID, sourceId) == IF appID = "" THEN sourceId ELSE appID

convertLogMessageType(t) == t

convertLogMessage(e, v1, preferred) ==
    [setV2Tags(e, "source_type" :> v1.body.sourceType, preferred) EXCEPT
        !.instanceId = v1.body.sourceInstance,
        !.sourceId = convertAppID(v1.body.appId, @),
        !.msg = [type |-> "Log", payload |-> v1.body.message,
                 logType |-> convertLogMessageType(v1.body.messageType)]]

convertHTTPStartStop(e, v1, preferred) ==
    [setV2Tags(e, v1.body.fields, preferred) EXCEPT
        !.sourceId = convertAppUUID(v1.body.appId, @),
        !.msg = [type |-> "Timer", name |-> "http", start |-> v1.body.start, stop |-> v1.body.stop]]

convertError(e, v1, preferred) ==
    [setV2Tags(e, "source" :> v1.body.source @@ "code" :> v1.body.code, preferred) EXCEPT
        !.msg = [type |-> "Log", payload |-> v1.body.message, logType |-> "OUT"]]

convertValueMetric(e, v1) ==
    [e EXCEPT !.msg = [type |-> "Gauge",
        metrics |-> v1.body.name :> [unit |-> v1.body.unit, value |-> v1.body.value]]]

convertCounterEvent(e, v1) ==
    [e EXCEPT !.msg = [type |-> "Counter", name |-> v1.body.name, isTotal |-> TRUE,
                       value |-> v1.body.total]]

MetricUnit(k) ==
    CASE k = "instance_index" -> "index" [] k = "cpu" -> "percentage" [] OTHER -> "bytes"

convertContainerMetric(e, v1) ==
    [e EXCEPT !.sourceId = convertAppID(v1.body.appId, @),
              !.msg = [type |-> "Gauge",
                       metrics |-> [k \in ContainerMetrics |->
                           [unit |-> MetricUnit(k), value |-> v1.body.values[k]]]]]

\* The part of ToV2 all the types have in common.
V2Base(v1, preferred) ==
    LET tagged == setV2Tags(initTags(v1, preferred),
                            v1.attrs @@ "__v1_type" :> v1.type, preferred)
    IN  [unsetV2Tags(tagged, {"source_id", "instance_id"}) EXCEPT
            !.sourceId = TagOr(v1, "source_id", DefaultSourceId(v1)),
            !.instanceId = TagOr(v1, "instance_id", "")]

ToV2(v1, preferred) ==
    LET e == V2Base(v1, preferred)
    IN  CASE v1.type = "LogMessage"      -> convertLogMessage(e, v1, preferred)
          [] v1.type = "HttpStartStop"   -> convertHTTPStartStop(e, v1, preferred)
          [] v1.type = "ValueMetric"     -> convertValueMetric(e, v1)
          [] v1.type = "CounterEvent"    -> convertCounterEvent(e, v1)
          [] v1.type = "Error"           -> convertError(e, v1, preferred)
          [] v1.type = "ContainerMetric" -> convertContainerMetric(e, v1)

-----------------------------------------------------------------------------
(* The journeys. *)

VARIABLES start,       \* the envelope the journey began with, of version 1 or 2
          preferred,   \* usePreferredTags of the request it is read with
          v1s,         \* the v1 envelopes doppler holds
          v2s,         \* the v2 envelopes on their way
          hops         \* conversions made so far

conversionVars == <<start, preferred, v1s, v2s, hops>>

MaxHops == 3

ConversionInit ==
    /\ preferred \in Preferred
    /\ hops = 0
    /\ \/ /\ start \in [version : {1}, env : V1Inputs]
          /\ v1s = {start.env} /\ v2s = {}
       \/ /\ start \in [version : {2}, env : V2Inputs]
          /\ v1s = {} /\ v2s = {start.env}

\* IngressServer.BatchSender and Sender convert what a client sends.
Ingress ==
    /\ hops < MaxHops /\ v2s # {}
    /\ v1s' = UNION {ToV1(e) : e \in v2s}
    /\ v2s' = {}
    /\ hops' = hops + 1
    /\ UNCHANGED <<start, preferred>>

\* The reverse log proxy converts what a subscription yields.
Convert ==
    /\ hops < MaxHops /\ v1s # {}
    /\ v2s' = {ToV2(v, preferred) : v \in v1s}
    /\ v1s' = {}
    /\ hops' = hops + 1
    /\ UNCHANGED <<start, preferred>>

ConversionNext == Ingress \/ Convert

ConversionSpec == ConversionInit /\ [][ConversionNext]_conversionVars

-----------------------------------------------------------------------------
(* Properties. *)

\* The source of a v1 envelope: the application its message names, else its
\* source_id tag, else deployment and job.
SourceOf(v1) ==
    CASE v1.type \in {"LogMessage", "ContainerMetric"} /\ v1.body.appId # "" -> v1.body.appId
      [] v1.type = "HttpStartStop" /\ v1.body.appId # "zero uuid" -> v1.body.appId
      [] OTHER -> TagOr(v1, "source_id", DefaultSourceId(v1))

\* The test "v1->v2->v1" states equality for envelopes whose source_id tag is
\* their application and whose counters have no delta; any other envelope
\* comes back in that form.
Normal(v1) ==
    LET instance == IF v1.type = "LogMessage" THEN v1.body.sourceInstance
                    ELSE TagOr(v1, "instance_id", "")
    IN  [v1 EXCEPT
           !.tags = NonEmpty("instance_id", instance) @@ "source_id" :> SourceOf(v1)
                       @@ Without(@, {"instance_id"}),
           !.body = CASE v1.type = "LogMessage" ->
                           [@ EXCEPT !.ts = v1.ts, !.appId = SourceOf(v1)]
                      [] v1.type = "ContainerMetric" -> [@ EXCEPT !.appId = SourceOf(v1)]
                      [] v1.type = "HttpStartStop" ->
                           [@ EXCEPT !.appId = convertUUID(parseUUID(SourceOf(v1)))]
                      [] v1.type = "CounterEvent" -> [@ EXCEPT !.delta = 0]
                      [] OTHER -> @]

\* A v1 envelope that is read through the reverse log proxy and sent in again
\* is the same v1 envelope, of the same type, in normal form: Error messages,
\* which travel as logs, and container metrics, which travel as gauges, are
\* recognized again (ToV1 undoes ToV2 when tags are sent as DeprecatedTags).
V1Survives ==
    (start.version = 1 /\ hops = 2 /\ ~preferred) => v1s = {Normal(start.env)}

\* The messages a v2 message ends up as.
MessagesRead(m) ==
    CASE m.type = "Counter" -> {[m EXCEPT !.isTotal = TRUE, !.value = IF m.isTotal THEN @ ELSE 0]}
      [] m.type = "Timer"   -> {[m EXCEPT !.name = "http"]}
      [] m.type = "Log"     -> {m}
      [] m.type = "Gauge" /\ IsContainerMetric(m.metrics) ->
           {[m EXCEPT !.metrics = [k \in ContainerMetrics |->
               [unit |-> MetricUnit(k),
                value |-> IF k = "cpu" THEN @[k].value ELSE Truncated(@[k].value)]]]}
      [] m.type = "Gauge" /\ ~\E k \in DOMAIN m.metrics : m.metrics[k] = NoMetric ->
           {[m EXCEPT !.metrics = k :> @[k]] : k \in DOMAIN m.metrics}
      [] OTHER -> {}

\* What a client sends through the v2 ingress is what a client of the reverse
\* log proxy reads: every message once, from the same source and instance, and
\* with every tag it was sent with, whichever map the reader asks for.  Only
\* the tags that are parsed on the way may change, and only if they do not
\* parse.
V2Survives ==
    LET e == start.env
        sent == [k \in {x \in DOMAIN e.deprecated : HasText(e.deprecated[x])} |->
                    Printed(e.deprecated[k])] @@ e.tags
        parsed == IF e.msg.type = "Timer" THEN NumberTags \cup EnumTags \cup {"request_id"}
                  ELSE {"code"}
    IN  (start.version = 2 /\ hops = 2) =>
            /\ {m.msg : m \in v2s} = MessagesRead(e.msg)
            /\ Cardinality(v2s) = Cardinality(MessagesRead(e.msg))
            /\ \A got \in v2s :
                 /\ got.sourceId = IF e.sourceId # "" THEN e.sourceId
                                   ELSE getV2Tag(e, "deployment") \o "/" \o getV2Tag(e, "job")
                 /\ got.instanceId = e.instanceId
                 /\ \A k \in DOMAIN sent \ {"__v1_type"} :
                      \/ getV2Tag(got, k) = sent[k]
                      \/ k \in parsed /\ sent[k] \notin Numerals \cup EnumNames \cup UUIDs

\* Whichever way an envelope goes, it arrives as it was, in the normal form above.
\* This is about the inputs V1Inputs and V2Inputs.  Those that are checked leave
\* out v2 gauges and errors whose tags are plain strings: createBaseV1 deletes
\* the attributes from the map the envelope keeps (tov1.go:245), so that these
\* lose them, and the property is false of them.
EnvelopesSurvive == V1Survives /\ V2Survives

=============================================================================
