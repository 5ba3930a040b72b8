---------------------------- MODULE DopplerGRPC -----------------------------
(***************************************************************************)
(* The gRPC side of doppler: envelopes come in on v1 streams               *)
(* (IngestorServer.Pusher), v2 streams (IngressServer.BatchSender, Sender) *)
(* and the UDP listener, meet in one diode (envelopeBuffer), and are taken *)
(* from it by the message router, which hands each to the sink manager and *)
(* to the gRPC router.  The gRPC router writes it to the diodes of the     *)
(* subscriptions whose filter it matches: to all that have no shard id,    *)
(* and to one, picked at random, of those that share one.  Each Subscribe  *)
(* call sends what its diode holds until its client goes.                  *)
(*                                                                         *)
(* SendTo, Register and the cleanup run under the router's lock and are    *)
(* single steps; everything between them interleaves.                      *)
(***************************************************************************)
EXTENDS Naturals, Sequences, FiniteSets, SequencesExt, Diodes

CONSTANTS Subs,           \* Subscribe calls
          Requests,       \* the subscription requests they may come with
          Streams,        \* ingress streams
          V1Streams,      \* those of them served by Pusher
          Sources,        \* sets of ingress streams, and "udp", that are still open
          Contents,       \* envelopes without their ids: [app, type]; app is GetAppId's answer
          MaxEnvelopes,   \* envelopes that arrive
          BufferSize,     \* envelopeBuffer: 10000 in the code
          EgressSize,     \* a subscription's diode: 1000 in the code
          UDPChannel,     \* the UDP listener's channel: 1024 in the code
          Unmarshallers   \* unmarshallerCount

ASSUME SizesAssumption ==
    /\ V1Streams \subseteq Streams
    /\ {BufferSize, EgressSize, UDPChannel, Unmarshallers} \subseteq Nat \ {0}
    /\ MaxEnvelopes \in Nat

\* A filter names at most one type of envelope (a oneof in grpc.proto).
ASSUME FiltersAssumption ==
    /\ \A req \in Requests : ~(req.log /\ req.metric)
    /\ \A c \in Contents : c.type \in {"log", "metric"}

VARIABLES subscriptions,  \* Router.subscriptions: filter -> shard -> setters
          sub,            \* the Subscribe calls
          buffer,         \* envelopeBuffer
          routing,        \* the envelope between the two senders of the message router
          stream,         \* the ingress streams
          udp,            \* the UDP listener and the goroutines behind it
          arrived,        \* envelopes made so far
          routed          \* the envelopes SendTo has marshalled and written, in order

vars == <<subscriptions, sub, buffer, routing, stream, udp, arrived, routed>>
egress == <<subscriptions, sub, routing, routed>>

\* An envelope that arrives.  The type is "log" or, for any other, "metric".
Envelope(id, c) == [id |-> id, app |-> c.app, type |-> c.type]
NewEnvelopes == {Envelope(arrived + 1, c) : c \in Contents}

-----------------------------------------------------------------------------
(* The router. *)

\* noType is the type of a filter that names none.
convertFilter(req) ==
    IF ~req.hasFilter THEN [app |-> "", type |-> "noType"]
    ELSE [app |-> req.app,
          type |-> IF req.metric THEN "metric" ELSE IF req.log THEN "log" ELSE "noType"]

filterTypeFromEnvelope(env) == env.type

createTypedFilters(env) ==
    << [app |-> env.app, type |-> "noType"],
       [app |-> env.app, type |-> filterTypeFromEnvelope(env)],
       [app |-> "", type |-> filterTypeFromEnvelope(env)],
       [app |-> "", type |-> "noType"] >>

\* The assignment m[k] = v of a map.
Put(m, k, v) == [x \in DOMAIN m \cup {k} |-> IF x = k THEN v ELSE m[x]]

registerSetter(subs, req, s) ==
    LET f == convertFilter(req)
        shards == IF f \in DOMAIN subs THEN subs[f] ELSE [x \in {} |-> << >>]
        setters == IF req.shard \in DOMAIN shards THEN shards[req.shard] ELSE << >>
    IN  Put(subs, f, Put(shards, req.shard, Append(setters, s)))

\* Register, which Subscribe calls with a diode of its own.
Register(s, req) == subscriptions' = registerSetter(subscriptions, req, s)

\* The setters other than s, collected in one pass.
remaining(setters, s) ==
    LET kept[n \in 0..Len(setters)] ==
          IF n = 0 THEN << >>
          ELSE IF setters[n] = s THEN kept[n - 1]
          ELSE Append(kept[n - 1], setters[n])
    IN  kept[Len(setters)]

\* [mutant] the shard keeps its key when its last setter goes
cleanupKeepsShard(subs, req, s) ==
    LET f == convertFilter(req)
    IN  [subs EXCEPT ![f][req.shard] = remaining(@, s)]

\* The setter is taken out; a shard without setters and a filter without
\* shards are deleted.
cleanup(subs, req, s) ==
    LET f == convertFilter(req)
        setters == remaining(subs[f][req.shard], s)
        others == [id \in DOMAIN subs[f] \ {req.shard} |-> subs[f][id]]
    IN  IF setters # << >> THEN [subs EXCEPT ![f][req.shard] = setters]
        ELSE IF DOMAIN others # {} THEN [subs EXCEPT ![f] = others]
        ELSE [g \in DOMAIN subs \ {f} |-> subs[g]]

\* The shards an envelope is written to: one entry for each of the four typed
\* filters that has subscriptions, also when two of the four are the same.
Shards(env) ==
    LET typed == createTypedFilters(env)
    IN  {x \in (1..4) \X {r.shard : r \in Requests} :
            typed[x[1]] \in DOMAIN subscriptions /\ x[2] \in DOMAIN subscriptions[typed[x[1]]]}

SettersOf(env, shard) == ToSet(subscriptions[createTypedFilters(env)[shard[1]]][shard[2]])

\* [mutant] every member of a shard gets the envelope
writeToShardAll(env, shard, picked) == SettersOf(env, shard)

\* The setters writeToShard writes to, when rand.Intn picks as picked says.
writeToShard(env, shard, picked) ==
    IF shard[2] = "" THEN SettersOf(env, shard) ELSE {picked[shard]}

\* What rand.Intn may pick in each of the shards.
Picks(env) ==
    {p \in [{x \in Shards(env) : x[2] # ""} -> Subs] :
        \A x \in DOMAIN p : p[x] \in SettersOf(env, x)}

\* One more message set in a subscription's diode.
SetIn(r, env) ==
    [r EXCEPT !.diode = DiodeSet(@, EgressSize, env.id), !.got = Append(@, env.id)]

\* Once for each shard it is written to from.
SendTo(env) ==
    \E picked \in Picks(env) :
        LET times(s) == Cardinality({x \in Shards(env) : s \in writeToShard(env, x, picked)})
        IN  sub' = [s \in Subs |->
                      CASE times(s) = 0 -> sub[s]
                        [] times(s) = 1 -> SetIn(sub[s], env)
                        [] OTHER        -> SetIn(SetIn(sub[s], env), env)]

-----------------------------------------------------------------------------
(* Initially: NewGRPCListener and start() have run; some of the ingress has *)
(* come to its end already.                                                *)

NoRequest == [hasFilter |-> FALSE, app |-> "", log |-> FALSE, metric |-> FALSE, shard |-> ""]

\* A Subscribe call that has not begun, or that has returned.
NoSubscription(pc) ==
    [pc |-> pc, req |-> NoRequest, gone |-> FALSE, done |-> FALSE, diode |-> EmptyDiode,
     since |-> 0, got |-> << >>, sent |-> 0, dropped |-> 0]

NoStream(pc) == [pc |-> pc, gone |-> FALSE, done |-> FALSE, batch |-> << >>]

Init ==
    /\ subscriptions = [f \in {} |-> << >>]
    /\ sub = [s \in Subs |-> NoSubscription("new")]
    /\ buffer = EmptyDiode
    /\ routing = << >>
    /\ \E open \in Sources :
         /\ stream = [i \in Streams |-> NoStream(IF i \in open THEN "new" ELSE "ended")]
         /\ udp = [open |-> "udp" \in open, chan |-> << >>, working |-> {}]
    /\ arrived = 0
    /\ routed = << >>

-----------------------------------------------------------------------------
(* Subscribe and sendData. *)

\* Subscribe counts the stream, makes the diode and registers it.
Subscribe(s) ==
    /\ sub[s].pc = "new"
    /\ \E req \in Requests :
         /\ Register(s, req)
         /\ sub' = [sub EXCEPT ![s].pc = "running", ![s].req = req, ![s].since = Len(routed)]
    /\ UNCHANGED <<buffer, routing, stream, udp, arrived, routed>>

\* The client goes away: its context is done.
ClientGone(s) ==
    /\ sub[s].pc = "running" /\ ~sub[s].gone
    /\ sub' = [sub EXCEPT ![s].gone = TRUE]
    /\ UNCHANGED <<subscriptions, buffer, routing, stream, udp, arrived, routed>>

\* monitorContext tells the loop.
monitorContext(s) ==
    /\ sub[s].pc = "running" /\ sub[s].gone /\ ~sub[s].done
    /\ sub' = [sub EXCEPT ![s].done = TRUE]
    /\ UNCHANGED <<subscriptions, buffer, routing, stream, udp, arrived, routed>>

\* Alert counts the messages that were overwritten.
Alert(r) == r.dropped + r.diode.missed

\* [mutant] no alert for the messages that were missed
sendDataUncounted(s) ==
    /\ sub[s].pc = "running" /\ ~sub[s].done
    /\ DiodeReady(sub[s].diode)
    /\ sub' = [sub EXCEPT ![s].diode = DiodeTail(@), ![s].sent = @ + 1]
    /\ UNCHANGED <<subscriptions, buffer, routing, stream, udp, arrived, routed>>

\* The loop takes the next message, after an alert for those it missed, and
\* sends it.
sendDataMessage(s) ==
    /\ sub[s].pc = "running" /\ ~sub[s].done
    /\ DiodeReady(sub[s].diode)
    /\ sub' = [sub EXCEPT ![s].diode = DiodeTail(@),
                          ![s].dropped = Alert(sub[s]),
                          ![s].sent = @ + 1]
    /\ UNCHANGED <<subscriptions, buffer, routing, stream, udp, arrived, routed>>

\* It ends when it sees the flag, or when Send fails because the client is
\* gone; what is left in the diode is lost with it.
sendDataEnds(s) ==
    /\ sub[s].pc = "running"
    /\ sub[s].done \/ (sub[s].gone /\ DiodeReady(sub[s].diode))
    /\ subscriptions' = cleanup(subscriptions, sub[s].req, s)
    /\ sub' = [sub EXCEPT ![s] = NoSubscription("ended")]
    /\ UNCHANGED <<buffer, routing, stream, udp, arrived, routed>>

-----------------------------------------------------------------------------
(* The message router. *)

\* Next returns an envelope and the sink manager gets it (SinkManager.tla).
Start ==
    /\ routing = << >> /\ DiodeReady(buffer)
    /\ routing' = <<DiodeHead(buffer)>>
    /\ buffer' = DiodeTail(buffer)
    /\ UNCHANGED <<subscriptions, sub, stream, udp, arrived, routed>>

\* Then the gRPC router.
RouterSendTo ==
    /\ routing # << >>
    /\ SendTo(routing[1])
    /\ routed' = Append(routed, routing[1])
    /\ routing' = << >>
    /\ UNCHANGED <<subscriptions, buffer, stream, udp, arrived>>

\* SendTo returns at once if the envelope cannot be marshalled; nobody gets it.
MarshalFails ==
    /\ routing # << >>
    /\ routing' = << >>
    /\ UNCHANGED <<subscriptions, sub, buffer, stream, udp, arrived, routed>>

-----------------------------------------------------------------------------
(* The ingress streams. *)

\* A client opens a stream of one of the services NewGRPCListener registers.
Opened(i) ==
    /\ stream[i].pc = "new"
    /\ stream' = [stream EXCEPT ![i].pc = "running"]
    /\ UNCHANGED <<egress, buffer, udp, arrived>>

\* The client goes; Recv fails from here on.
StreamGone(i) ==
    /\ stream[i].pc = "running" /\ ~stream[i].gone
    /\ stream' = [stream EXCEPT ![i].gone = TRUE]
    /\ UNCHANGED <<egress, buffer, udp, arrived>>

\* An envelope arrives on a v1 stream; one that does not unmarshal is dropped.
PusherReceives(i) ==
    /\ i \in V1Streams /\ stream[i].pc = "running" /\ ~stream[i].gone /\ ~stream[i].done
    /\ arrived < MaxEnvelopes
    /\ \E env \in NewEnvelopes, ok \in BOOLEAN :
         buffer' = IF ok THEN DiodeSet(buffer, BufferSize, env) ELSE buffer
    /\ arrived' = arrived + 1
    /\ UNCHANGED <<egress, stream, udp>>

\* Recv fails with EOF.
PusherEOF(i) ==
    /\ i \in V1Streams /\ stream[i].pc = "running" /\ ~stream[i].gone
    /\ stream' = [stream EXCEPT ![i] = NoStream("ended")]
    /\ UNCHANGED <<egress, buffer, udp, arrived>>

\* With any other error Pusher sleeps and tries again, until monitorContext
\* has set the flag.
PusherMonitor(i) ==
    /\ i \in V1Streams /\ stream[i].pc = "running" /\ stream[i].gone /\ ~stream[i].done
    /\ stream' = [stream EXCEPT ![i].done = TRUE]
    /\ UNCHANGED <<egress, buffer, udp, arrived>>

\* [mutant] Pusher does not look at the flag
PusherStays(i) == FALSE /\ UNCHANGED vars

PusherEnds(i) ==
    /\ i \in V1Streams /\ stream[i].pc = "running" /\ stream[i].done
    /\ stream' = [stream EXCEPT ![i] = NoStream("ended")]
    /\ UNCHANGED <<egress, buffer, udp, arrived>>

\* A batch arrives on a v2 stream; ToV1 makes any number of v1 envelopes of it.
\* Sender is BatchSender with batches of one envelope.
BatchSenderReceives(i) ==
    /\ i \notin V1Streams /\ stream[i].pc = "running" /\ ~stream[i].gone
    /\ stream[i].batch = << >> /\ arrived < MaxEnvelopes
    /\ \E n \in 0..2 :
         /\ arrived + n <= MaxEnvelopes
         /\ \E batch \in [1..n -> Contents] :
              stream' = [stream EXCEPT ![i].batch = [k \in 1..n |-> Envelope(arrived + k, batch[k])]]
         /\ arrived' = arrived + (IF n = 0 THEN 1 ELSE n)
    /\ UNCHANGED <<egress, buffer, udp>>

\* They are set one by one.
BatchSenderSets(i) ==
    /\ stream[i].batch # << >>
    /\ buffer' = DiodeSet(buffer, BufferSize, Head(stream[i].batch))
    /\ stream' = [stream EXCEPT ![i].batch = Tail(@)]
    /\ UNCHANGED <<egress, udp, arrived>>

\* An error of Recv ends the stream.
BatchSenderEnds(i) ==
    /\ i \notin V1Streams /\ stream[i].pc = "running" /\ stream[i].gone /\ stream[i].batch = << >>
    /\ stream' = [stream EXCEPT ![i] = NoStream("ended")]
    /\ UNCHANGED <<egress, buffer, udp, arrived>>

-----------------------------------------------------------------------------
(* The UDP listener. *)

\* A datagram is read while there is room for it.
UDPRead ==
    /\ udp.open /\ Len(udp.chan) < UDPChannel /\ arrived < MaxEnvelopes
    /\ \E env \in NewEnvelopes : udp' = [udp EXCEPT !.chan = Append(@, env)]
    /\ arrived' = arrived + 1
    /\ UNCHANGED <<egress, buffer, stream>>

\* A read error ends the listener for good; what it read is still processed.
UDPFails ==
    /\ udp.open
    /\ udp' = [udp EXCEPT !.open = FALSE]
    /\ UNCHANGED <<egress, buffer, stream, arrived>>

\* The signature is checked and a free unmarshaller takes the bytes.
UDPVerify ==
    /\ udp.chan # << >> /\ Cardinality(udp.working) < Unmarshallers
    /\ \E ok \in BOOLEAN :
         udp' = [udp EXCEPT !.chan = Tail(@),
                            !.working = IF ok THEN @ \cup {Head(udp.chan)} ELSE @]
    /\ UNCHANGED <<egress, buffer, stream, arrived>>

\* start()'s goroutine puts what the unmarshallers return in the buffer.
UDPSet ==
    /\ \E env \in udp.working :
         /\ buffer' = DiodeSet(buffer, BufferSize, env)
         /\ udp' = [udp EXCEPT !.working = @ \ {env}]
    /\ UNCHANGED <<egress, stream, arrived>>

Next ==
    \/ \E s \in Subs : \/ Subscribe(s) \/ ClientGone(s) \/ monitorContext(s)
                       \/ sendDataMessage(s) \/ sendDataEnds(s)
    \/ \E i \in Streams : \/ Opened(i) \/ StreamGone(i) \/ PusherReceives(i)
                          \/ PusherEOF(i) \/ PusherMonitor(i) \/ PusherEnds(i)
                          \/ BatchSenderReceives(i) \/ BatchSenderSets(i) \/ BatchSenderEnds(i)
    \/ Start \/ RouterSendTo \/ MarshalFails
    \/ UDPRead \/ UDPFails \/ UDPVerify \/ UDPSet

\* Goroutines that can run do: the senders, the monitors and the servers' loops of
\* the streams.  Clients need not do anything, nor is the message router needed.
Fairness ==
    /\ \A s \in Subs : WF_vars(monitorContext(s)) /\ WF_vars(sendDataMessage(s) \/ sendDataEnds(s))
    /\ \A i \in Streams : /\ WF_vars(PusherMonitor(i))
                          /\ WF_vars(PusherEnds(i) \/ BatchSenderSets(i) \/ BatchSenderEnds(i))

Spec == Init /\ [][Next]_vars /\ Fairness

-----------------------------------------------------------------------------
(* Properties. *)

Running == {s \in Subs : sub[s].pc = "running"}

\* The router knows a subscription from Register to the end of its stream,
\* once, under the filter and the shard it asked for, and keeps no shard
\* without members (rand.Intn(0) would panic) and no filter without shards.
RouterMatchesStreams ==
    /\ \A f \in DOMAIN subscriptions :
         /\ DOMAIN subscriptions[f] # {}
         /\ \A id \in DOMAIN subscriptions[f] :
              LET setters == subscriptions[f][id]
              IN  /\ setters # << >>
                  /\ IsInjective(setters)
                  /\ ToSet(setters) = {s \in Running : convertFilter(sub[s].req) = f /\ sub[s].req.shard = id}
    /\ \A s \in Running : /\ convertFilter(sub[s].req) \in DOMAIN subscriptions
                          /\ sub[s].req.shard \in DOMAIN subscriptions[convertFilter(sub[s].req)]

Matches(env, req) ==
    /\ req.hasFilter /\ req.app # "" => env.app = req.app
    /\ req.hasFilter /\ req.log => env.type = "log"
    /\ req.hasFilter /\ req.metric => env.type = "metric"

\* The places in routed of the envelopes a subscription asks for, since it came.
Wanted(s) == {k \in (sub[s].since + 1)..Len(routed) : Matches(routed[k], sub[s].req)}

\* The n-th thing a subscription was given is the envelope routed k-th.
Given(s, n, k) == sub[s].got[n] = routed[k].id

SameShard(s, t) ==
    sub[s].req.shard = sub[t].req.shard /\ convertFilter(sub[s].req) = convertFilter(sub[t].req)

\* A subscription is given routed envelopes that its filter matches, in the order
\* they were routed: all of them if it has no shard id, and if it has one, none
\* that another member of the shard is given.  Each comes once, from whichever
\* stream or datagram it arrived ("sends the envelope to a subscription only
\* once", "sends the message to one subscription"); but one of no application
\* may come twice, or to two members, as two pairs of its four typed filters are
\* the same.
SentToSubscriptionsOnce ==
    \A s \in Running :
        /\ \A n \in DOMAIN sub[s].got : \E k \in Wanted(s) : Given(s, n, k)
        /\ sub[s].req.shard = "" =>
             \A k \in Wanted(s) : \E n \in DOMAIN sub[s].got : Given(s, n, k)
        /\ \A n, m \in DOMAIN sub[s].got, k, l \in DOMAIN routed :
             n < m /\ Given(s, n, k) /\ Given(s, m, l) => k < l \/ (k = l /\ routed[k].app = "")
        /\ sub[s].req.shard # "" => \A t \in Running \ {s} : SameShard(s, t) =>
             \A n \in DOMAIN sub[s].got, m \in DOMAIN sub[t].got, k \in DOMAIN routed :
                Given(s, n, k) /\ Given(t, m, k) => routed[k].app = ""

\* Nothing is dropped by a subscription's diode without being counted in
\* loggregator.doppler.dropped: what was set is sent, counted or still there.
EgressAccounted ==
    \A s \in Running :
        Len(sub[s].got) = sub[s].sent + sub[s].dropped
                          + sub[s].diode.missed + Len(sub[s].diode.queue)

\* A subscription whose client has gone is taken out of the router, and a
\* stream whose client has gone ends, whatever else goes on.
StreamsEnd ==
    /\ \A s \in Subs : sub[s].gone ~> sub[s].pc = "ended"
    /\ \A i \in Streams : stream[i].gone ~> stream[i].pc = "ended"

=============================================================================
