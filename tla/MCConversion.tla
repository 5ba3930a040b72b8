---------------------------- MODULE MCConversion ----------------------------
(* Small sets of envelopes of every type, with tags of every form. *)
EXTENDS Conversion

Text(s) == [type |-> "Text", data |-> s]

Attrs == [a \in AttributeTags |-> a]
NoAttrs == [a \in AttributeTags |-> ""]

TypedAttrs == [a \in AttributeTags |-> Text(a)]

OtherTags ==
    {EmptyMap, "foo" :> Text("3"), "foo" :> [type |-> "Integer", data |-> "3"],
     "foo" :> [type |-> "Decimal", data |-> "3"], "foo" :> NoValue,
     "foo" :> [type |-> "unset", data |-> "3"]}

Gauges == [{"m"} -> {[unit |-> "u", value |-> 15]}]
          \cup {[k \in {"m", "n"} |-> [unit |-> "u", value |-> 25]],
                [k \in ContainerMetrics |-> [unit |-> "u", value |-> 17]],
                [k \in ContainerMetrics \cup {"m"} |-> [unit |-> "u", value |-> 10]],
                [k \in ContainerMetrics \ {"cpu"} |-> [unit |-> "u", value |-> 10]],
                "m" :> NoMetric @@ "n" :> [unit |-> "u", value |-> 10],
                EmptyMap}

TimerTagSets ==
    {EmptyMap,
     [t \in TimerTags |-> Text(CASE t \in NumberTags -> "3" [] t \in EnumTags -> "PUT"
                                 [] t = "request_id" -> "uuid" [] OTHER -> t)],
     [t \in TimerTags |-> Text("odd")],
     [t \in NumberTags |-> [type |-> "Integer", data |-> "3"]],
     [t \in NumberTags |-> [type |-> "Decimal", data |-> "3"]]}

\* Messages with the tags that belong to them.
TaggedMessages ==
    {<<[type |-> "Log", payload |-> "p", logType |-> t], tags>> :
        t \in {"OUT", "ERR"}, tags \in {EmptyMap, "source_type" :> Text("APP")}}
    \cup {<<[type |-> "Log", payload |-> "p", logType |-> "OUT"],
            "__v1_type" :> Text("Error") @@ "source" :> Text("s") @@ "code" :> c>> :
            c \in {Text("3"), Text("odd")}}
    \cup {<<[type |-> "Counter", name |-> "c", isTotal |-> b, value |-> 5], EmptyMap>> : b \in BOOLEAN}
    \cup {<<[type |-> "Gauge", metrics |-> g], EmptyMap>> : g \in Gauges}
    \cup {<<[type |-> "Timer", name |-> "n", start |-> 1, stop |-> 2], tags>> : tags \in TimerTagSets}
    \cup {<<[type |-> "none"], EmptyMap>>}

\* v2 envelopes whose tags are typed.
TypedInputs ==
    {[ts |-> 1, sourceId |-> s, instanceId |-> i, tags |-> EmptyMap, nilTags |-> TRUE,
      deprecated |-> m[2] @@ o @@ a, msg |-> m[1]] :
        s \in {"", "app", "uuid"}, i \in {"", "7"}, m \in TaggedMessages, o \in OtherTags,
        a \in {EmptyMap, TypedAttrs}}

\* The same with their tags, or only those of their message, as strings.
Plain(tags) == [k \in {x \in DOMAIN tags : HasText(tags[x])} |-> Printed(tags[k])]

IsError(e) == getV2Tag(e, "__v1_type") = "Error"

PlainInputs == {[e EXCEPT !.tags = Plain(e.deprecated), !.nilTags = FALSE, !.deprecated = EmptyMap] :
                    e \in TypedInputs}

AllV2Inputs ==
    TypedInputs
    \cup {e \in PlainInputs : e.msg.type # "Gauge" /\ ~IsError(e)}
    \cup {[e EXCEPT !.tags = "foo" :> "bar", !.nilTags = FALSE] : e \in TypedInputs}

\* v1 envelopes of every type; timestamps of logs may differ from theirs.
Bodies ==
    {<<"LogMessage", [message |-> "p", messageType |-> t, ts |-> 2, appId |-> app,
                      sourceType |-> "APP", sourceInstance |-> i]>> :
        t \in {"OUT", "ERR"}, app \in {"", "app"}, i \in {"", "7"}}
    \cup {<<"Error", [source |-> "s", code |-> "3", message |-> "p"]>>,
          <<"ValueMetric", [name |-> "m", unit |-> "u", value |-> 15]>>}
    \cup {<<"CounterEvent", [name |-> "c", delta |-> d, total |-> 5]>> : d \in {0, 2}}
    \cup {<<"ContainerMetric", [appId |-> app, values |-> [k \in ContainerMetrics |->
            IF k = "cpu" THEN 15 ELSE 20]]>> : app \in {"", "app"}}
    \cup {<<"HttpStartStop", [start |-> 1, stop |-> 2, appId |-> app,
             fields |-> [t \in TimerTags |->
                CASE t \in NumberTags -> "3" [] t \in EnumTags -> n
                  [] t = "request_id" -> "uuid" [] OTHER -> t]]>> :
            app \in UUIDs, n \in {"PUT", "0"}}

AllV1Inputs ==
    {[ts |-> 1, attrs |-> a, tags |-> x @@ y @@ z, type |-> b[1], body |-> b[2]] :
        a \in {Attrs, NoAttrs}, x \in {EmptyMap, "source_id" :> "uuid", "source_id" :> "src"},
        y \in {EmptyMap, "instance_id" :> "7", "instance_id" :> "8"},
        z \in {EmptyMap, "foo" :> "bar"}, b \in Bodies}

=============================================================================
