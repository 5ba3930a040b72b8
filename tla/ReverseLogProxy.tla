--------------------------- MODULE ReverseLogProxy --------------------------
(***************************************************************************)
(* The reverse log proxy: its start and stop, and the streams of the v2    *)
(* egress server.                                                          *)
(*                                                                         *)
(* A subscriber's request becomes a subscription of the GRPCConnector; one *)
(* goroutine (consumeReceiver) converts what the subscription yields and   *)
(* puts it into a bounded buffer or drops it, the RPC's own goroutine      *)
(* sends what is in the buffer, and a third one ends the subscription when *)
(* the proxy stops.  A gRPC Send waits while the subscriber does not read, *)
(* and fails once the subscriber has gone.                                 *)
(***************************************************************************)
EXTENDS Naturals, FiniteSets

CONSTANTS Subscribers,           \* streams, one for each connection
          BufferSize,            \* room in the buffer of a stream
          MaxEgressConnections,  \* what LimitListener lets in at a time
          Requests,              \* a subset of AllRequests
          MaxYield               \* bound: envelopes a subscription yields

ASSUME RlpBoundsAssumption ==
    /\ IsFiniteSet(Subscribers)
    /\ BufferSize \in Nat \ {0} /\ MaxEgressConnections \in Nat \ {0} /\ MaxYield \in Nat

VARIABLES rlp,   \* the proxy: its server, its context, its gauge and counters
          sub    \* the streams

rlpVars == <<rlp, sub>>

\* Requests: no filter, or a source and a type; "" is no source.
AllRequests == {r \in [filter : BOOLEAN, source : {"", "app"}, message : {"none", "log"}] :
                   ~r.filter => r.source = "" /\ r.message = "none"}

NoFilter == [filter |-> FALSE, source |-> "", message |-> "none"]

ASSUME RequestsAssumption == Requests \subseteq AllRequests

-----------------------------------------------------------------------------
(* The converters. *)

\* convertFilter: of the types only the log filter is known.
convertFilter(r) ==
    [filter |-> r.filter, appID |-> r.source, message |-> IF r.message = "log" THEN "log" ELSE "none"]

\* Receiver refuses a type filter without a source.
Invalid(request) == request.filter /\ request.source = "" /\ request.message # "none"

-----------------------------------------------------------------------------

NoSub == [pc |-> "new", request |-> NoFilter, subscribed |-> FALSE, asked |-> convertFilter(NoFilter), canceled |-> FALSE,
          gone |-> FALSE, stalled |-> FALSE, watcher |-> "off",
          reader |-> "off", buffer |-> 0, closed |-> FALSE,
          received |-> 0, sent |-> 0, dropped |-> 0, result |-> "none"]

\* NewRLP has opened the listener; nothing else is there yet.
NewRLP == [server |-> "new", done |-> FALSE, graceful |-> "no", subscriptionCount |-> 0,
           egress |-> 0, dropped |-> 0, finder |-> "none"]

RlpInit == rlp = NewRLP /\ sub = [s \in Subscribers |-> NoSub]

Dec(count) == count - 1

Open == {s \in Subscribers : sub[s].pc \notin {"new", "done"}}

\* Receiver returns: its deferred cancel and Dec.
Ended(s, result) ==
    /\ sub' = [sub EXCEPT ![s].pc = "done", ![s].canceled = TRUE, ![s].result = result]
    /\ rlp' = [rlp EXCEPT !.subscriptionCount = Dec(@)]

-----------------------------------------------------------------------------
(* The proxy. *)

\* Start: the health endpoint, then finder, pool and connector.
setupIngress ==
    /\ rlp.server = "new"
    /\ rlp' = [rlp EXCEPT !.server = "ingress", !.finder = "advertises"]
    /\ UNCHANGED sub

setupEgress ==
    /\ rlp.server = "ingress"
    /\ rlp' = [rlp EXCEPT !.server = "egress"]
    /\ UNCHANGED sub

\* A server that was stopped before it serves returns at once.
serveEgress ==
    /\ rlp.server = "egress"
    /\ rlp' = [rlp EXCEPT !.server = IF rlp.graceful # "no" THEN "stopped" ELSE "serving"]
    /\ UNCHANGED sub

\* A signal: the context is canceled and the rest of Stop begins, which needs
\* the server and the finder that Start makes in a goroutine of its own.
Stop ==
    /\ ~rlp.done
    /\ rlp' = [rlp EXCEPT !.done = TRUE,
                 !.finder = IF rlp.server = "new" THEN @ ELSE "withdrawn",
                 !.graceful = IF rlp.server \in {"new", "ingress"} THEN "panic" ELSE "waits",
                 !.server = CASE rlp.server \in {"new", "ingress"} -> "crashed"
                              [] rlp.server = "serving" -> "draining"
                              [] OTHER -> @]
    /\ UNCHANGED sub

\* GracefulStop waits for the streams, and Stop for GracefulStop.
GracefulStop ==
    /\ rlp.graceful = "waits" /\ rlp.server \in {"draining", "stopped"}
    /\ Open = {}
    /\ rlp' = [rlp EXCEPT !.graceful = "returned", !.server = "stopped"]
    /\ UNCHANGED sub

-----------------------------------------------------------------------------
(* Server.Receiver. *)

\* A stream is opened; the gauge counts it.
Receiver(s) ==
    /\ rlp.server = "serving" /\ sub[s].pc = "new"
    /\ Cardinality(Open) < MaxEgressConnections
    /\ \E r \in Requests :
         sub' = [sub EXCEPT ![s].request = r, ![s].pc = "check"]
    /\ rlp' = [rlp EXCEPT !.subscriptionCount = @ + 1]

Refuse(s) ==
    /\ sub[s].pc = "check" /\ Invalid(sub[s].request)
    /\ Ended(s, "invalid request")

\* The context's watcher is started.
Watch(s) ==
    /\ sub[s].pc = "check" /\ ~Invalid(sub[s].request)
    /\ sub' = [sub EXCEPT ![s].pc = "subscribe", ![s].watcher = "waits"]
    /\ UNCHANGED rlp

\* Receive: Subscribe with the converted request.
Receive(s) ==
    /\ sub[s].pc = "subscribe"
    /\ sub' = [sub EXCEPT ![s].pc = "range", ![s].reader = "rx",
                          ![s].subscribed = TRUE,
                          ![s].asked = convertFilter(sub[s].request)]
    /\ UNCHANGED rlp

ReceiveFails(s) ==
    /\ sub[s].pc = "subscribe"
    /\ Ended(s, "unable to setup subscription")

\* The loop takes an envelope out of the buffer, which makes room for another
\* while Send waits for the subscriber ...
Dequeue(s) ==
    /\ sub[s].pc = "range" /\ sub[s].buffer > 0
    /\ sub' = [sub EXCEPT ![s].buffer = @ - 1, ![s].pc = "send"]
    /\ UNCHANGED rlp

\* ... and counts it once it is sent.
Send(s) ==
    /\ sub[s].pc = "send" /\ ~sub[s].gone /\ ~sub[s].stalled
    /\ sub' = [sub EXCEPT ![s].pc = "range", ![s].sent = @ + 1]
    /\ rlp' = [rlp EXCEPT !.egress = @ + 1]

\* Receiver returns with the envelope it could not send; nothing counts it.
SendFails(s) ==
    /\ sub[s].pc = "send" /\ sub[s].gone
    /\ Ended(s, "unexpected EOF")

\* [mutant] the loop ends with the channel, whatever is in it
ReceiverReturnsAtOnce(s) ==
    /\ sub[s].pc = "range" /\ sub[s].closed
    /\ Ended(s, "ok")

\* The loop over the buffer ends when it is closed and empty.
ReceiverReturns(s) ==
    /\ sub[s].pc = "range" /\ sub[s].closed /\ sub[s].buffer = 0
    /\ Ended(s, "ok")

\* [mutant] the watcher waits until the proxy and the stream are both done
WatcherOneSided(s) ==
    /\ sub[s].watcher = "waits" /\ sub[s].canceled /\ rlp.done
    /\ sub' = [sub EXCEPT ![s].watcher = "ended", ![s].canceled = TRUE]
    /\ UNCHANGED rlp

\* The goroutine that waits for the proxy's context or the stream's.
Watcher(s) ==
    /\ sub[s].watcher = "waits" /\ (rlp.done \/ sub[s].canceled \/ sub[s].gone)
    /\ sub' = [sub EXCEPT ![s].watcher = "ended", ![s].canceled = TRUE]
    /\ UNCHANGED rlp

-----------------------------------------------------------------------------
(* consumeReceiver. *)

\* rx yields an envelope and it converts.
rx(s) ==
    /\ sub[s].reader = "rx" /\ ~sub[s].canceled /\ sub[s].received < MaxYield
    /\ sub' = [sub EXCEPT ![s].reader = "put", ![s].received = @ + 1]
    /\ UNCHANGED rlp

\* rx fails: the subscription has ended (at the latest when the context is
\* canceled), or an envelope does not convert.  The buffer is closed and the
\* context canceled.
rxFails(s) ==
    /\ sub[s].reader = "rx"
    /\ sub' = [sub EXCEPT ![s].reader = "ended", ![s].closed = TRUE, ![s].canceled = TRUE]
    /\ UNCHANGED rlp

\* There is room in the buffer, or the envelope is dropped and counted.
Put(s) ==
    /\ sub[s].reader = "put"
    /\ IF sub[s].buffer < BufferSize
         THEN /\ sub' = [sub EXCEPT ![s].reader = "rx", ![s].buffer = @ + 1]
              /\ UNCHANGED rlp
         ELSE /\ sub' = [sub EXCEPT ![s].reader = "rx", ![s].dropped = @ + 1]
              /\ rlp' = [rlp EXCEPT !.dropped = @ + 1]

-----------------------------------------------------------------------------
(* The subscriber. *)

\* It stops reading.
Stalls(s) ==
    /\ s \in Open /\ ~sub[s].stalled /\ ~sub[s].gone
    /\ sub' = [sub EXCEPT ![s].stalled = TRUE]
    /\ UNCHANGED rlp

\* It goes: the stream's own context is canceled.
Leaves(s) ==
    /\ s \in Open /\ ~sub[s].gone
    /\ sub' = [sub EXCEPT ![s].gone = TRUE, ![s].canceled = TRUE]
    /\ UNCHANGED rlp

-----------------------------------------------------------------------------

StreamStep(s) ==
    \/ Receiver(s) \/ Refuse(s) \/ Watch(s) \/ Receive(s) \/ ReceiveFails(s)
    \/ Dequeue(s) \/ Send(s) \/ SendFails(s) \/ ReceiverReturns(s) \/ Watcher(s)
    \/ rx(s) \/ rxFails(s) \/ Put(s)
    \/ Stalls(s) \/ Leaves(s)

RlpNext ==
    \/ rlp.server # "crashed" /\ \E s \in Subscribers : StreamStep(s)
    \/ setupIngress \/ setupEgress \/ serveEgress \/ Stop \/ GracefulStop

\* Goroutines run; a canceled subscription fails; a subscriber that reads takes
\* what is sent.  Subscribers may stop reading, and stay.
RlpFairness ==
    /\ WF_rlpVars(setupIngress \/ setupEgress \/ serveEgress \/ GracefulStop)
    /\ \A s \in Subscribers :
        /\ WF_rlpVars(Refuse(s) \/ Watch(s) \/ Receive(s) \/ ReceiveFails(s)
                             \/ Dequeue(s) \/ Send(s) \/ SendFails(s) \/ ReceiverReturns(s))
        /\ WF_rlpVars(Watcher(s))
        /\ WF_rlpVars(Put(s))
        /\ WF_rlpVars(rxFails(s) /\ sub[s].canceled)

RlpSpec == RlpInit /\ [][RlpNext]_rlpVars /\ RlpFairness

-----------------------------------------------------------------------------
(* Properties. *)

\* The envelopes that were sent and those that were dropped, each numbered
\* within its stream.
SentEnvelopes == {e \in Subscribers \X (1..MaxYield) : e[2] <= sub[e[1]].sent}
DroppedEnvelopes == {e \in Subscribers \X (1..MaxYield) : e[2] <= sub[e[1]].dropped}

\* An envelope that one of a stream's two goroutines has in hand: consumeReceiver
\* before the buffer, Receiver after it, for good if Send failed.
InHand(r) ==
    (IF r.reader = "put" THEN 1 ELSE 0) + (IF r.pc = "send" \/ r.result = "unexpected EOF" THEN 1 ELSE 0)

\* Every envelope taken from a subscription is sent, dropped and counted as
\* dropped, in the buffer or in hand: the one whose Send failed, with which the
\* stream ends, is the only one that leaves the buffer uncounted.  A stream that
\* ends without an error has sent everything it kept ("drains existing ones",
\* rlp.go:143), also when the proxy stops.  The gauge is the number of open
\* streams and the counters are the numbers of envelopes sent and dropped on all
\* streams, however they end.
RlpAccounted ==
    /\ \A s \in Subscribers :
        /\ sub[s].received = sub[s].sent + sub[s].dropped + sub[s].buffer + InHand(sub[s])
        /\ sub[s].result = "ok" => sub[s].received = sub[s].sent + sub[s].dropped
    /\ rlp.subscriptionCount = Cardinality(Open)
    /\ rlp.egress = Cardinality(SentEnvelopes)
    /\ rlp.dropped = Cardinality(DroppedEnvelopes)

Released(s) ==
    /\ sub[s].pc = "done"
    /\ sub[s].reader \in {"off", "ended"} /\ sub[s].watcher \in {"off", "ended"}

\* When the proxy stops every stream ends with its goroutines, unless its
\* subscriber neither reads nor goes; and so it does when the subscriber goes
\* while the proxy runs.
RlpStreamsEnd ==
    \A s \in Subscribers :
        (s \in Open /\ (rlp.done \/ sub[s].gone)) ~>
            (Released(s) \/ (sub[s].stalled /\ ~sub[s].gone))

=============================================================================
