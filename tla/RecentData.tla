------------------------------ MODULE RecentData ----------------------------
(***************************************************************************)
(* Queries for the recent logs and the latest container metrics of one     *)
(* application: the sinks of every doppler that keep them, the query that  *)
(* goes to all dopplers, and the response the traffic controller, the      *)
(* reverse log proxy or doppler's own websocket server makes of it.        *)
(*                                                                         *)
(* An envelope reaches one doppler, at any time after it was made, so that *)
(* newer ones may overtake it.  A sink that was not used for a while ends  *)
(* and stays registered until its goroutine unregisters it: what is sent   *)
(* to it meanwhile is lost.  The next envelope makes a new, empty sink.    *)
(***************************************************************************)
EXTENDS Integers, Sequences, SequencesExt, FiniteSets, FiniteSetsExt

CONSTANTS Dopplers,     \* dopplers that are asked
          RingSize,     \* maxRetainedLogMessages
          Instances,    \* instances of the application
          TTL,          \* metricTTL, in ticks of the clock
          MaxTime,      \* bound: ticks
          Loads,        \* bounds: numbers of log messages and container metrics
          Limits        \* limits a client may ask for

ASSUME RecentBoundsAssumption ==
    /\ RingSize \in Nat \ {0} /\ TTL \in Nat /\ MaxTime \in Nat /\ Loads \subseteq [logs : Nat, metrics : Nat]
    /\ IsFiniteSet(Instances)    \* an instance index is an int32

VARIABLES now,          \* the clock
          dump,         \* each doppler's dump sink
          cms,          \* each doppler's container metric sink
          emitted,         \* logs and metrics emitted so far, and the bounds
          took,         \* the logs each dump sink has taken
          query         \* the query that is being answered

recentVars == <<now, dump, cms, emitted, took, query>>

-----------------------------------------------------------------------------
(* DumpSink. *)

\* The ring is empty (0) and its pointer at the first place.
NewDumpSink == [run |-> "running", ring |-> [k \in 0..(RingSize - 1) |-> 0], at |-> 0]

\* [mutant] the message is stored before the pointer moves
addMsgBefore(sink, msg) ==
    [sink EXCEPT !.ring[sink.at] = msg, !.at = (sink.at + 1) % RingSize]

addMsg(sink, msg) ==
    LET next == (sink.at + 1) % RingSize
    IN  [sink EXCEPT !.at = next, !.ring[next] = msg]

\* From the oldest to the newest, without the places that are still empty: what
\* is collected at the first k places after the pointer, once around.
Dump(sink) ==
    LET data[k \in 0..RingSize] ==
          IF k = 0 THEN <<>>
          ELSE LET msg == sink.ring[(sink.at + k) % RingSize]
                   before == data[k - 1]
               IN  IF msg = 0 THEN before ELSE Append(before, msg)
    IN  data[RingSize]

-----------------------------------------------------------------------------
(* ContainerMetricSink.  A metric is its timestamp; 0 is none. *)

NewContainerMetricSink ==
    [run |-> "running", metrics |-> [i \in Instances |-> 0], seen |-> [i \in Instances |-> {}]]

\* [mutant] the last metric wins
updateMetricLast(sink, i, ts) == [sink EXCEPT !.metrics[i] = ts, !.seen[i] = @ \cup {ts}]

\* The newer metric wins.
updateMetric(sink, i, ts) ==
    [sink EXCEPT !.metrics[i] = IF @ = 0 \/ @ < ts THEN ts ELSE @, !.seen[i] = @ \cup {ts}]

Outdated(ts) == ts + TTL < now

\* GetLatest deletes the outdated metrics and returns the others, in some order.
Kept(sink) == [sink EXCEPT !.metrics = [i \in Instances |->
                  IF Outdated(sink.metrics[i]) THEN 0 ELSE sink.metrics[i]]]

GetLatest(sink) == {<<i, sink.metrics[i]>> : i \in {j \in Instances : Kept(sink).metrics[j] # 0}}

-----------------------------------------------------------------------------

NoSink == [run |-> "none"]
NoQuery == [pc |-> "idle"]

RecentInit ==
    /\ now = 1
    /\ dump = [d \in Dopplers |-> NoSink]
    /\ cms = [d \in Dopplers |-> NoSink]
    /\ emitted \in {[logs |-> 0, metrics |-> 0, load |-> l] : l \in Loads}
    /\ took = [d \in Dopplers |-> <<>>]
    /\ query = NoQuery

Tick ==
    /\ now < MaxTime
    /\ now' = now + 1
    /\ UNCHANGED <<dump, cms, emitted, took, query>>

\* A log reaches a doppler: the dump sink is made if there is none, and takes
\* the message unless it has ended.
TakeLog(d) ==
    /\ emitted.logs < emitted.load.logs
    /\ emitted' = [emitted EXCEPT !.logs = @ + 1]
    /\ LET sink == IF dump[d].run = "none" THEN NewDumpSink ELSE dump[d]
           msg == emitted.logs + 1
       IN  IF sink.run = "ended" THEN UNCHANGED <<dump, took>>
           ELSE /\ dump' = [dump EXCEPT ![d] = addMsg(sink, msg)]
                /\ took' = [took EXCEPT ![d] = Append(IF dump[d].run = "none" THEN <<>> ELSE @, msg)]
    /\ UNCHANGED <<now, cms, query>>

\* A container metric made at any time up to now reaches a doppler.
TakeMetric(d) ==
    /\ emitted.metrics < emitted.load.metrics
    /\ emitted' = [emitted EXCEPT !.metrics = @ + 1]
    /\ \E i \in Instances, ts \in 1..now :
         LET sink == IF cms[d].run = "none" THEN NewContainerMetricSink ELSE cms[d]
         IN  cms' = [cms EXCEPT ![d] = IF sink.run = "ended" THEN @ ELSE updateMetric(sink, i, ts)]
    /\ UNCHANGED <<now, dump, took, query>>

\* The inactivity timer fires and Run returns.  (The container metric sink may
\* also find a tick in its timer that is older than its last event.)
DumpSinkExpires(d) ==
    /\ dump[d].run = "running"
    /\ dump' = [dump EXCEPT ![d].run = "ended"]
    /\ UNCHANGED <<now, cms, emitted, took, query>>

MetricSinkExpires(d) ==
    /\ cms[d].run = "running"
    /\ cms' = [cms EXCEPT ![d].run = "ended"]
    /\ UNCHANGED <<now, dump, emitted, took, query>>

\* The sink's goroutine unregisters it.
UnregisterEnded(d) ==
    /\ \/ dump[d].run = "ended" /\ dump' = [dump EXCEPT ![d] = NoSink] /\ UNCHANGED cms
       \/ cms[d].run = "ended" /\ cms' = [cms EXCEPT ![d] = NoSink] /\ UNCHANGED dump
    /\ UNCHANGED <<now, emitted, took, query>>

-----------------------------------------------------------------------------
(* Queries. *)

\* limitFrom: a limit parameter is <<>> if there is none or it is no number,
\* and <<n>> otherwise; one below zero is ignored.
limitFrom(limit) == [value |-> IF limit = <<>> THEN 0 ELSE limit[1],
                     ok |-> limit # <<>> /\ \A k \in DOMAIN limit : limit[k] >= 0]

\* A client asks one of the servers; a query without an application is refused
\* (QueryServer, appHandler) and is not one here.
Ask ==
    /\ query.pc = "idle"
    /\ \E kind \in {"logs", "metrics", "rlp metrics"}, limit \in Limits :
         /\ kind # "logs" => limit = <<>>
         /\ query' = [pc |-> "asking", kind |-> kind, limit |-> limit, todo |-> Dopplers,
                      results |-> <<>>, newest |-> {}]
    /\ UNCHANGED <<now, dump, cms, emitted, took>>

\* RecentLogsFor and LatestContainerMetrics: what the registered sink has.
RecentLogsFor(d) == IF dump[d].run = "none" THEN <<>> ELSE Dump(dump[d])

LatestContainerMetrics(d) == IF cms[d].run = "none" THEN {} ELSE GetLatest(cms[d])

\* What a container metric sink has been told of and is not outdated.
Newest(d) ==
    IF cms[d].run = "none" THEN {}
    ELSE {<<i, Max(cms[d].seen[i])>> : i \in {j \in Instances :
            cms[d].seen[j] # {} /\ ~Outdated(Max(cms[d].seen[j]))}}

\* A doppler answers in time.  Answers are appended as they come.
Answer(d) ==
    /\ query.pc = "asking" /\ d \in query.todo
    /\ IF query.kind = "logs"
         THEN /\ query' = [query EXCEPT !.todo = @ \ {d}, !.results = @ \o RecentLogsFor(d)]
              /\ UNCHANGED cms
         ELSE /\ \E order \in SetToSeqs(LatestContainerMetrics(d)) :
                   query' = [query EXCEPT !.todo = @ \ {d}, !.results = @ \o order,
                                          !.newest = @ \cup Newest(d)]
              /\ cms' = [cms EXCEPT ![d] = IF @.run = "none" THEN @ ELSE Kept(@)]
    /\ UNCHANGED <<now, dump, emitted, took>>

\* It does not: an error or the deadline, and nothing is appended.
AnswerFails(d) ==
    /\ query.pc = "asking" /\ d \in query.todo
    /\ query' = [query EXCEPT !.todo = @ \ {d}]
    /\ UNCHANGED <<now, dump, cms, emitted, took>>

\* deDupe keeps the newest envelope of each instance; the order is lost.
deDupe(input) ==
    LET messages[n \in 0..Len(input)] ==
          IF n = 0 THEN [i \in Instances |-> 0]
          ELSE LET m == messages[n - 1]
                   e == input[n]
               IN  IF m[e[1]] = 0 \/ m[e[1]] < e[2] THEN [m EXCEPT ![e[1]] = e[2]] ELSE m
        latest == messages[Len(input)]
    IN  {<<i, latest[i]>> : i \in {j \in Instances : latest[j] # 0}}

\* RecentLogsHandler: the first of the results.
Limited(resp, limit) ==
    IF limit.ok /\ Len(resp) > limit.value THEN SubSeq(resp, 1, limit.value) ELSE resp

\* The responses: the traffic controller's are limited or de-duplicated, the
\* reverse log proxy's Querier converts what there is.
Responses ==
    CASE query.kind = "logs" -> {Limited(query.results, limitFrom(query.limit))}
      [] query.kind = "metrics" -> SetToSeqs(deDupe(query.results))
      [] query.kind = "rlp metrics" -> {query.results}

\* serveMultiPartResponse writes part after part until the client is gone.
Serve ==
    /\ query.pc = "asking" /\ query.todo = {}
    /\ \E resp \in Responses : \E n \in 0..Len(resp) :
         query' = [pc |-> IF n = Len(resp) THEN "served" ELSE "cut", kind |-> query.kind,
                   limit |-> query.limit, response |-> SubSeq(resp, 1, n),
                   newest |-> query.newest]
    /\ UNCHANGED <<now, dump, cms, emitted, took>>

-----------------------------------------------------------------------------

RecentNext ==
    \/ Tick \/ Ask \/ Serve
    \/ \E d \in Dopplers :
        \/ TakeLog(d) \/ TakeMetric(d)
        \/ DumpSinkExpires(d) \/ MetricSinkExpires(d) \/ UnregisterEnded(d)
        \/ Answer(d) \/ AnswerFails(d)

RecentSpec == RecentInit /\ [][RecentNext]_recentVars

-----------------------------------------------------------------------------
(* Properties. *)

\* However often the ring has wrapped, a dump sink has the last RingSize logs it
\* has taken, oldest first ("always returns the newest messages",
\* dump_sink_test.go:94).
RecentLogsAreLast ==
    \A d \in Dopplers : dump[d].run # "none" =>
        LET n == Len(took[d])
        IN  Dump(dump[d]) = SubSeq(took[d], (IF n > RingSize THEN n - RingSize ELSE 0) + 1, n)

\* The response for container metrics has, for every instance that one of the
\* answering dopplers knew a current metric of, that metric and only the newest
\* one, whatever the order in which metrics reached the dopplers and answers
\* came back, whatever was deleted as outdated.  The reverse log proxy's has
\* the newest one among others.
NewestMetrics ==
    query.pc = "served" =>
        LET best == {e \in query.newest : \A f \in query.newest : f[1] = e[1] => f[2] <= e[2]}
        IN  /\ query.kind = "metrics" =>
                 /\ ToSet(query.response) = best
                 /\ Len(query.response) = Cardinality(best)
            /\ query.kind = "rlp metrics" => best \subseteq ToSet(query.response)

=============================================================================
