------------------------------ MODULE FrontProofs ------------------------------
(***************************************************************************)
(* What drains and clients are promised, for any number of messages, of     *)
(* connections made and lost, of requests and of subscribers: a syslog      *)
(* drain gets its messages in order and once, and no connection to it is    *)
(* left behind; the traffic controller serves only what was granted; the    *)
(* reverse log proxy accounts for every envelope; queries return the last   *)
(* logs and the newest metrics there are, which rests on what the walk      *)
(* around the ring and the loop of deDupe compute, shown by induction.      *)
(***************************************************************************)
EXTENDS TrafficController, ReverseLogProxy, RecentData, SyslogSink, FiniteSetTheorems,
        WellFoundedInduction, TLAPS

-----------------------------------------------------------------------------
(* The syslog drain: its connections.                                       *)

\* What is open is what the writer holds; 0 is no connection.  While Connect
\* dials, and once the sink has ended, there is none.
Held ==
  /\ open \subseteq {conn} \ {0}
  /\ pc \in {"dialing", "done"} => open = {}
  /\ pc = "dialing" => conn = 0

\* No step leaves a connection open behind the writer.
LEMMA HeldStep ==
  ASSUME Held, [SyslogNext]_syslogVars
  PROVE  Held'
<1> USE DEF Held
<1>1. CASE Take
  BY <1>1 DEF Take, writerVars
<1>2. CASE Return
  BY <1>2 DEF Return, writerVars
<1>3. CASE CloseWriter
  BY <1>3 DEF CloseWriter
<1>4. CASE ConnectHttps
  BY <1>4 DEF ConnectHttps, BackOff, Connected
<1>5. CASE Dial
  BY <1>5 DEF Dial
<1>6. CASE Dialed
  <2>1. open = {} /\ 0 \notin Free
    BY <1>6, SyslogAssumption DEF Dialed, Free
  <2> QED BY <1>6, <2>1 DEF Dialed, BackOff, Connected
<1>7. CASE BackedOff
  BY <1>7 DEF BackedOff, writerVars
<1>8. CASE WriteHttps
  BY <1>8 DEF WriteHttps, Written, NotWritten
<1>9. CASE WriteTCP
  BY <1>9 DEF WriteTCP, Written, NotWritten, writerVars
<1>10. CASE TimerFires \/ Disconnect \/ InputClosed
  BY <1>10 DEF TimerFires, Disconnect, InputClosed, writerVars
<1>11. CASE PeerCloses
  BY <1>11 DEF PeerCloses
<1>12. CASE \E c \in watchers : WatcherCloses(c)
  BY <1>12 DEF WatcherCloses
<1>13. CASE UNCHANGED syslogVars
  BY <1>13 DEF syslogVars, writerVars
<1> QED BY <1>1, <1>2, <1>3, <1>4, <1>5, <1>6, <1>7, <1>8, <1>9, <1>10, <1>11, <1>12, <1>13
        DEF SyslogNext, Run

\* However the drain's server and the watchers of old connections close, what is
\* open is what the writer holds, and a sink that has ended holds nothing.
THEOREM ConnectionsClosed == SyslogSpec => []NoConnectionLeaks
<1>1. SyslogInit => Held
  BY DEF SyslogInit, Held
<1>2. Held => NoConnectionLeaks
  BY DEF Held, NoConnectionLeaks
<1> QED BY <1>1, <1>2, HeldStep, PTL DEF SyslogSpec

-----------------------------------------------------------------------------
(* The syslog drain: its messages.                                          *)

Working == {"connect", "dialing", "backoff", "write"}
Entries == [priority : Int, message : Nat, added : BOOLEAN]

\* Messages are taken in order; the one that Run has is not written yet unless Run
\* is back at its select, and all before it are.
InOrder ==
  /\ pc \in Working \cup {"select", "closing", "done"}
  /\ cur \in Nat /\ input \in Seq(Nat) /\ sent \in Seq(Entries)
  /\ \A j \in 1..Len(input) : input[j] = cur + j
  /\ pc = "select" => Len(sent) = cur
  /\ pc \in Working => Len(sent) + 1 = cur
  /\ pc \in {"closing", "done"} => Len(sent) = cur \/ Len(sent) + 1 = cur

\* The entry written for a message carries its number.
LEMMA EntryType ==
  ASSUME NEW i \in Nat
  PROVE  createMessage(i) \in Entries /\ createMessage(i).message = i
BY DEF createMessage, messagePriorityValue, Entries

\* What a step may do to the messages.
LEMMA MessageSteps ==
  ASSUME InOrder, [SyslogNext]_syslogVars
  PROVE  \/ UNCHANGED <<pc, cur, input, sent>>
         \/ pc \in Working /\ pc' \in Working /\ UNCHANGED <<cur, input, sent>>
         \/ /\ pc = "select" /\ pc' \in Working /\ input # << >>
            /\ cur' = Head(input) /\ input' = Tail(input) /\ UNCHANGED sent
         \/ /\ pc = "write" /\ pc' = "select" /\ sent' = Append(sent, createMessage(cur))
            /\ UNCHANGED <<cur, input>>
         \/ /\ pc \in {"select", "backoff"} /\ pc' = "closing" /\ UNCHANGED <<cur, input, sent>>
         \/ /\ pc = "closing" /\ pc' = "done" /\ UNCHANGED <<cur, input, sent>>
<1> USE DEF Working, envVars
<1>1. CASE Take
  BY <1>1 DEF Take
<1>2. CASE Return
  BY <1>2 DEF Return
<1>3. CASE CloseWriter
  BY <1>3 DEF CloseWriter
<1>4. CASE ConnectHttps
  BY <1>4 DEF ConnectHttps, BackOff, Connected
<1>5. CASE Dial
  BY <1>5 DEF Dial
<1>6. CASE Dialed
  BY <1>6 DEF Dialed, BackOff, Connected
<1>7. CASE BackedOff
  BY <1>7 DEF BackedOff
<1>8. CASE WriteHttps
  BY <1>8 DEF WriteHttps, Written, NotWritten
<1>9. CASE WriteTCP
  BY <1>9 DEF WriteTCP, Written, NotWritten
<1>10. CASE TimerFires \/ Disconnect \/ InputClosed
  BY <1>10 DEF TimerFires, Disconnect, InputClosed
<1>11. CASE PeerCloses
  BY <1>11 DEF PeerCloses
<1>12. CASE \E c \in watchers : WatcherCloses(c)
  BY <1>12 DEF WatcherCloses
<1>13. CASE UNCHANGED syslogVars
  BY <1>13 DEF syslogVars
<1> QED BY <1>1, <1>2, <1>3, <1>4, <1>5, <1>6, <1>7, <1>8, <1>9, <1>10, <1>11, <1>12, <1>13
        DEF SyslogNext, Run

\* No step of Run or of a writer skips, repeats or reorders a message.
LEMMA InOrderStep ==
  ASSUME InOrder, [SyslogNext]_syslogVars
  PROVE  InOrder'
<1>0. cur \in Nat /\ input \in Seq(Nat) /\ sent \in Seq(Entries) /\ Len(sent) \in Nat
      /\ \A j \in 1..Len(input) : input[j] = cur + j
  BY DEF InOrder
<1>1. CASE UNCHANGED <<cur, input, sent>>
  BY <1>1, MessageSteps DEF InOrder, Working
<1>2. CASE /\ pc = "select" /\ pc' \in Working /\ input # << >>
           /\ cur' = Head(input) /\ input' = Tail(input) /\ UNCHANGED sent
  <2>1. cur' = cur + 1 /\ Len(input) \in Nat \ {0}
    BY <1>0, <1>2
  <2>2. input' \in Seq(Nat) /\ Len(input') = Len(input) - 1
        /\ \A j \in 1..Len(input') : input'[j] = input[j + 1]
    BY <1>0, <1>2, <2>1
  <2>3. \A j \in 1..Len(input') : input'[j] = cur' + j
    BY <1>0, <2>1, <2>2
  <2>4. Len(sent') + 1 = cur'
    BY <1>2, <2>1 DEF InOrder
  <2> QED BY <1>0, <1>2, <2>1, <2>2, <2>3, <2>4 DEF InOrder, Working
<1>3. CASE /\ pc = "write" /\ pc' = "select" /\ sent' = Append(sent, createMessage(cur))
           /\ UNCHANGED <<cur, input>>
  <2>1. sent' \in Seq(Entries) /\ Len(sent') = Len(sent) + 1
    BY <1>0, <1>3, EntryType
  <2>2. Len(sent') = cur
    BY <1>3, <2>1 DEF InOrder, Working
  <2> QED BY <1>0, <1>3, <2>1, <2>2 DEF InOrder, Working
<1> QED BY <1>1, <1>2, <1>3, MessageSteps

\* A sequence is its head and its tail.
LEMMA HeadAndTail ==
  ASSUME NEW s \in Seq(Nat), s # << >>
  PROVE  <<Head(s)>> \o Tail(s) = s
OBVIOUS

\* Head and tail of what has an element put before it.
LEMMA PutBefore ==
  ASSUME NEW x \in Nat, NEW s \in Seq(Nat)
  PROVE  <<x>> \o s # << >> /\ Head(<<x>> \o s) = x /\ Tail(<<x>> \o s) = s
<1> DEFINE t == <<x>> \o s
<1>1. /\ t \in Seq(Nat) /\ Len(t) = Len(s) + 1 /\ t[1] = x /\ Len(s) \in Nat
      /\ \A i \in 1..Len(s) : t[i + 1] = s[i]
  OBVIOUS
<1> HIDE DEF t
<1>2. t # << >> /\ Head(t) = x
  BY <1>1
<1>3. Tail(t) \in Seq(Nat) /\ Len(Tail(t)) = Len(s) /\ \A i \in 1..Len(s) : Tail(t)[i] = s[i]
  BY <1>1, <1>2
<1>4. Tail(t) = s
  BY <1>3
<1> QED BY <1>2, <1>4 DEF t

\* Every step of the sink is one of the drain's promise, or nothing to it.
LEMMA DeliveryStep ==
  ASSUME InOrder, InOrder', [SyslogNext]_syslogVars
  PROVE  [Delivery!Deliver \/ Delivery!End]_(Delivery!deliveryVars)
<1> DEFINE pending == IF Len(sent) < cur THEN <<cur>> \o input ELSE input
           delivered == [i \in 1..Len(sent) |-> sent[i].message]
           ended == pc \in {"closing", "done"}
<1>0. cur \in Nat /\ input \in Seq(Nat) /\ sent \in Seq(Entries) /\ Len(sent) \in Nat
  BY DEF InOrder
<1>1. ASSUME UNCHANGED <<pending, delivered, ended>>
      PROVE  UNCHANGED Delivery!deliveryVars
  BY <1>1 DEF Delivery!deliveryVars
<1>2. CASE UNCHANGED <<cur, input, sent>> /\ ended' = ended
  <2>1. UNCHANGED <<pending, delivered, ended>>
    BY <1>2
  <2> QED BY <1>1, <2>1
<1>3. CASE /\ pc \in {"select", "backoff"} /\ pc' = "closing" /\ UNCHANGED <<cur, input, sent>>
  <2>1. UNCHANGED <<pending, delivered>> /\ ~ended /\ ended'
    BY <1>3
  <2>2. Delivery!End
    BY <2>1 DEF Delivery!End
  <2> QED BY <2>2
<1>4. CASE /\ pc = "select" /\ pc' \in Working /\ input # << >>
           /\ cur' = Head(input) /\ input' = Tail(input) /\ UNCHANGED sent
  <2>1. Len(sent) = cur /\ Len(sent) + 1 = cur'
    BY <1>4 DEF InOrder
  <2>2. pending = input
    BY <1>0, <2>1
  <2>3. pending' = <<Head(input)>> \o Tail(input)
    BY <1>0, <1>4, <2>1
  <2>4. pending' = pending
    BY <1>0, <1>4, <2>2, <2>3, HeadAndTail
  <2>5. UNCHANGED <<delivered, ended>>
    BY <1>4 DEF Working
  <2> QED BY <1>1, <2>4, <2>5
<1>5. CASE /\ pc = "write" /\ pc' = "select" /\ sent' = Append(sent, createMessage(cur))
           /\ UNCHANGED <<cur, input>>
  <2>1. Len(sent) + 1 = cur /\ Len(sent') = cur
    BY <1>5 DEF InOrder, Working
  <2>2. pending = <<cur>> \o input /\ pending' = input
    BY <1>0, <1>5, <2>1
  <2>3. pending # << >> /\ Head(pending) = cur /\ Tail(pending) = input
    BY <1>0, <2>2, PutBefore
  <2>4. delivered' = Append(delivered, cur)
    <3>1. /\ Len(sent') = Len(sent) + 1 /\ sent'[Len(sent) + 1].message = cur
          /\ \A i \in 1..Len(sent) : sent'[i] = sent[i]
      BY <1>0, <1>5, EntryType
    <3>2. delivered \in Seq(Nat) /\ Len(delivered) = Len(sent)
          /\ \A i \in 1..Len(sent) : delivered[i] = sent[i].message
      <4>1. \A i \in 1..Len(sent) : sent[i].message \in Nat
        <5>1. \A i \in 1..Len(sent) : sent[i] \in Entries
          BY <1>0
        <5>2. \A e \in Entries : e.message \in Nat
          BY DEF Entries
        <5> QED BY <5>1, <5>2
      <4> QED BY <1>0, <4>1
    <3>3. Append(delivered, cur) = [i \in 1..(Len(sent) + 1) |-> IF i = Len(sent) + 1 THEN cur ELSE delivered[i]]
      BY <1>0, <3>2
    <3> QED BY <1>0, <3>1, <3>2, <3>3
  <2>5. ~ended /\ ~ended'
    BY <1>5
  <2>6. Delivery!Deliver
    <3>1. ended' = ended
      BY <2>5
    <3> QED BY <2>2, <2>3, <2>4, <2>5, <3>1 DEF Delivery!Deliver
  <2> QED BY <2>6
<1> QED BY <1>2, <1>3, <1>4, <1>5, MessageSteps DEF Working

\* A new sink has all its messages before it, as a new drain has.
LEMMA InOrderInit ==
  ASSUME SyslogInit
  PROVE  InOrder /\ Delivery!Init
<1>1. Len(Messages) \in Nat
  BY SyslogAssumption
<1>2. input \in Seq(Nat) /\ Len(input) = Len(Messages) /\ \A j \in 1..Len(input) : input[j] = j
  BY <1>1 DEF SyslogInit
<1>3. sent = << >> /\ cur = 0 /\ pc = "select"
  BY DEF SyslogInit
<1>4. InOrder
  BY <1>2, <1>3 DEF InOrder, Working
<1>5. Delivery!Init
  <2>1. (IF Len(sent) < cur THEN <<cur>> \o input ELSE input) \in Seq(Nat)
    BY <1>2, <1>3
  <2>2. [i \in 1..Len(sent) |-> sent[i].message] = << >>
    BY <1>3
  <2> QED BY <2>1, <2>2 DEF Delivery!Init
<1> QED BY <1>4, <1>5

\* A syslog drain gets the messages its sink takes, in order and each once, for any
\* number of them and whatever happens to its connections: SyslogSink implements
\* DrainDelivery.
THEOREM SinkDelivers == SyslogSpec => DeliversInOrder
<1>1. SyslogInit /\ [][SyslogNext]_syslogVars => []InOrder
  BY InOrderInit, InOrderStep, PTL
<1>2. SyslogInit => Delivery!Init
  BY InOrderInit
<1>3. InOrder /\ InOrder' /\ [SyslogNext]_syslogVars =>
        [Delivery!Deliver \/ Delivery!End]_(Delivery!deliveryVars)
  BY DeliveryStep
<1> QED BY <1>1, <1>2, <1>3, PTL DEF SyslogSpec, DeliversInOrder, Delivery!Spec
-----------------------------------------------------------------------------
(* The traffic controller: who is served.                                   *)

\* A request's record, and what authorization needs of it.
Stages == {"new", "routed", "authorized", "serving", "done"}
IsRequest(r) ==
  /\ r = [f \in DOMAIN r |-> r[f]] /\ DOMAIN r = DOMAIN NoConn
  /\ r.pc \in Stages /\ r.endpoint \in Endpoints

\* Nothing is read or written for a request before it is granted; what is refused
\* has its answer.
Guarded(r) ==
  /\ r.pc \in {"new", "routed", "authorized"} =>
       r.reader = "off" /\ r.loop = "off" /\ r.status = "none"
  /\ r.pc \in {"authorized", "serving"} \/ r.reader # "off" \/ r.loop \in {"select", "writing", "closing"}
       \/ (r.endpoint = "query" /\ r.status = "200") => r.granted
  /\ r.pc = "done" /\ ~r.granted =>
       \/ r.endpoint \in {"stream", "query"} /\ r.status \in {"401", "404", "500"}
       \/ r.endpoint = "firehose" /\ r.status = "401"
       \/ r.endpoint = "set-cookie" /\ r.status \in {"200", "400"}

Proxied ==
  /\ stream = [c \in Conns |-> stream[c]]
  /\ \A c \in Conns : IsRequest(stream[c]) /\ Guarded(stream[c])

\* A step that changes one record.
LEMMA OneStream ==
  ASSUME Proxied, NEW c \in Conns, NEW r, IsRequest(r), Guarded(r),
         stream' = [stream EXCEPT ![c] = r]
  PROVE  Proxied'
BY DEF Proxied

\* The reader has messages only for a request that was granted.
LEMMA ReaderSteps ==
  ASSUME Proxied, NEW c \in Conns,
         \/ recv(c) \/ recvFails(c) \/ SlowConsumer(c) \/ TakeMessage(c)
  PROVE  Proxied'
<1> DEFINE t == stream[c]
<1>0. IsRequest(t) /\ Guarded(t)
  BY DEF Proxied
<1>1. CASE recv(c)
  <2> DEFINE r == [t EXCEPT !.reader = "send", !.received = @ + 1]
  <2>1. stream' = [stream EXCEPT ![c] = r]
    BY <1>1 DEF recv, Proxied
  <2>2. IsRequest(r)
    BY <1>0 DEF IsRequest, NoConn
  <2>3. Guarded(r)
    BY <1>0, <1>1 DEF Guarded, recv, IsRequest, NoConn
  <2> QED BY <2>1, <2>2, <2>3, OneStream
<1>2. CASE recvFails(c)
  <2> DEFINE r == [t EXCEPT !.reader = "ended", !.closed = TRUE]
  <2>1. stream' = [stream EXCEPT ![c] = r]
    BY <1>2 DEF recvFails, Proxied
  <2>2. IsRequest(r)
    BY <1>0 DEF IsRequest, NoConn
  <2>3. Guarded(r)
    BY <1>0, <1>2 DEF Guarded, recvFails, IsRequest, NoConn
  <2> QED BY <2>1, <2>2, <2>3, OneStream
<1>3. CASE SlowConsumer(c)
  <2> DEFINE r == [t EXCEPT !.reader = "ended", !.closed = TRUE]
  <2>1. stream' = [stream EXCEPT ![c] = r]
    BY <1>3 DEF SlowConsumer, Proxied
  <2>2. IsRequest(r)
    BY <1>0 DEF IsRequest, NoConn
  <2>3. Guarded(r)
    BY <1>0, <1>3 DEF Guarded, SlowConsumer, IsRequest, NoConn
  <2> QED BY <2>1, <2>2, <2>3, OneStream
<1>4. CASE TakeMessage(c)
  <2> DEFINE r == [t EXCEPT !.loop = "writing", !.reader = "recv"]
  <2>1. stream' = [stream EXCEPT ![c] = r]
    BY <1>4 DEF TakeMessage, Proxied
  <2>2. IsRequest(r)
    BY <1>0 DEF IsRequest, NoConn
  <2>3. Guarded(r)
    BY <1>0, <1>4 DEF Guarded, TakeMessage, IsRequest, NoConn
  <2> QED BY <2>1, <2>2, <2>3, OneStream
<1> QED BY <1>1, <1>2, <1>3, <1>4

\* The loop writes, and ends, only for a request that was granted.
LEMMA LoopSteps ==
  ASSUME Proxied, NEW c \in Conns,
         \/ WriteMessage(c) \/ WriteMessageFails(c) \/ ClientWentAway(c)
         \/ KeepAliveExpired(c) \/ MessagesClosed(c) \/ Returned(c)
  PROVE  Proxied'
<1> DEFINE t == stream[c]
<1>0. IsRequest(t) /\ Guarded(t)
  BY DEF Proxied
<1>1. CASE WriteMessage(c)
  <2> DEFINE r == [t EXCEPT !.loop = "select"]
  <2>1. stream' = [stream EXCEPT ![c] = r]
    BY <1>1 DEF WriteMessage, Proxied
  <2>2. IsRequest(r)
    BY <1>0 DEF IsRequest, NoConn, Stages
  <2>3. Guarded(r)
    BY <1>0, <1>1 DEF Guarded, WriteMessage, IsRequest, NoConn
  <2> QED BY <2>1, <2>2, <2>3, OneStream
<1>2. CASE WriteMessageFails(c)
  <2> DEFINE r == [t EXCEPT !.loop = "closing", !.code = "normal", !.broken = TRUE]
  <2>1. stream' = [stream EXCEPT ![c] = r]
    BY <1>2 DEF WriteMessageFails, Ends, Proxied
  <2>2. IsRequest(r)
    BY <1>0 DEF IsRequest, NoConn, Stages
  <2>3. Guarded(r)
    BY <1>0, <1>2 DEF Guarded, WriteMessageFails, IsRequest, NoConn
  <2> QED BY <2>1, <2>2, <2>3, OneStream
<1>3. CASE ClientWentAway(c)
  <2> DEFINE r == [t EXCEPT !.loop = "closing", !.code = "normal"]
  <2>1. stream' = [stream EXCEPT ![c] = r]
    BY <1>3 DEF ClientWentAway, Ends, Proxied
  <2>2. IsRequest(r)
    BY <1>0 DEF IsRequest, NoConn, Stages
  <2>3. Guarded(r)
    BY <1>0, <1>3 DEF Guarded, ClientWentAway, IsRequest, NoConn
  <2> QED BY <2>1, <2>2, <2>3, OneStream
<1>4. CASE KeepAliveExpired(c)
  <2> DEFINE r == [t EXCEPT !.loop = "closing", !.code = "policy violation"]
  <2>1. stream' = [stream EXCEPT ![c] = r]
    BY <1>4 DEF KeepAliveExpired, Ends, Proxied
  <2>2. IsRequest(r)
    BY <1>0 DEF IsRequest, NoConn, Stages
  <2>3. Guarded(r)
    BY <1>0, <1>4 DEF Guarded, KeepAliveExpired, IsRequest, NoConn
  <2> QED BY <2>1, <2>2, <2>3, OneStream
<1>5. CASE MessagesClosed(c)
  <2> DEFINE r == [t EXCEPT !.loop = "closing", !.code = "normal"]
  <2>1. stream' = [stream EXCEPT ![c] = r]
    BY <1>5 DEF MessagesClosed, Ends, Proxied
  <2>2. IsRequest(r)
    BY <1>0 DEF IsRequest, NoConn, Stages
  <2>3. Guarded(r)
    BY <1>0, <1>5 DEF Guarded, MessagesClosed, IsRequest, NoConn
  <2> QED BY <2>1, <2>2, <2>3, OneStream
<1>6. CASE Returned(c)
  <2> DEFINE r == [t EXCEPT !.loop = "ended", !.pc = "done", !.canceled = TRUE]
  <2>1. stream' = [stream EXCEPT ![c] = r]
    BY <1>6 DEF Returned, Proxied
  <2>2. IsRequest(r)
    BY <1>0 DEF IsRequest, NoConn, Stages
  <2>3. Guarded(r)
    BY <1>0, <1>6 DEF Guarded, Returned, IsRequest, NoConn
  <2> QED BY <2>1, <2>2, <2>3, OneStream
<1> QED BY <1>1, <1>2, <1>3, <1>4, <1>5, <1>6

\* What the client does is not an answer.
LEMMA ClientSteps ==
  ASSUME Proxied, NEW c \in Conns,
         \/ ClientStalls(c) \/ ClientReads(c) \/ ClientLeaves(c)
         \/ ReadMessageFails(c)
  PROVE  Proxied'
<1> DEFINE t == stream[c]
<1>0. IsRequest(t) /\ Guarded(t)
  BY DEF Proxied
<1>1. CASE ClientStalls(c)
  <2> DEFINE r == [t EXCEPT !.stalled = TRUE]
  <2>1. stream' = [stream EXCEPT ![c] = r]
    BY <1>1 DEF ClientStalls, Proxied
  <2>2. IsRequest(r)
    BY <1>0 DEF IsRequest, NoConn, Stages
  <2>3. Guarded(r)
    BY <1>0, <1>1 DEF Guarded, ClientStalls, IsRequest, NoConn
  <2> QED BY <2>1, <2>2, <2>3, OneStream
<1>2. CASE ClientReads(c)
  <2> DEFINE r == [t EXCEPT !.stalled = FALSE]
  <2>1. stream' = [stream EXCEPT ![c] = r]
    BY <1>2 DEF ClientReads, Proxied
  <2>2. IsRequest(r)
    BY <1>0 DEF IsRequest, NoConn, Stages
  <2>3. Guarded(r)
    BY <1>0, <1>2 DEF Guarded, ClientReads, IsRequest, NoConn
  <2> QED BY <2>1, <2>2, <2>3, OneStream
<1>3. CASE ClientLeaves(c)
  <2> DEFINE r == [t EXCEPT !.gone = TRUE]
  <2>1. stream' = [stream EXCEPT ![c] = r]
    BY <1>3 DEF ClientLeaves, Proxied
  <2>2. IsRequest(r)
    BY <1>0 DEF IsRequest, NoConn, Stages
  <2>3. Guarded(r)
    BY <1>0, <1>3 DEF Guarded, ClientLeaves, IsRequest, NoConn
  <2> QED BY <2>1, <2>2, <2>3, OneStream
<1>4. CASE ReadMessageFails(c)
  <2> DEFINE r == [t EXCEPT !.left = TRUE]
  <2>1. stream' = [stream EXCEPT ![c] = r]
    BY <1>4 DEF ReadMessageFails, Proxied
  <2>2. IsRequest(r)
    BY <1>0 DEF IsRequest, NoConn, Stages
  <2>3. Guarded(r)
    BY <1>0, <1>4 DEF Guarded, ReadMessageFails, IsRequest, NoConn
  <2> QED BY <2>1, <2>2, <2>3, OneStream
<1> QED BY <1>1, <1>2, <1>3, <1>4

\* The keep-alive neither grants nor answers.
LEMMA KeepAliveSteps ==
  ASSUME Proxied, NEW c \in Conns,
         \/ Ping(c) \/ PingWritten(c) \/ PingFails(c) \/ pongHandler(c)
         \/ PongReceived(c) \/ SleepEnds(c) \/ KeepAliveFires(c) \/ Timeout(c)
  PROVE  Proxied'
<1> DEFINE t == stream[c]
<1>0. IsRequest(t) /\ Guarded(t)
  BY DEF Proxied
<1>1. CASE Ping(c)
  <2> DEFINE r == [t EXCEPT !.ka = "pinging"]
  <2>1. stream' = [stream EXCEPT ![c] = r]
    BY <1>1 DEF Ping, Proxied
  <2>2. IsRequest(r)
    BY <1>0 DEF IsRequest, NoConn, Stages
  <2>3. Guarded(r)
    BY <1>0, <1>1 DEF Guarded, Ping, IsRequest, NoConn
  <2> QED BY <2>1, <2>2, <2>3, OneStream
<1>2. CASE PingWritten(c)
  <2> DEFINE r == [t EXCEPT !.ka = "wait", !.armed = TRUE]
  <2>1. stream' = [stream EXCEPT ![c] = r]
    BY <1>2 DEF PingWritten, Proxied
  <2>2. IsRequest(r)
    BY <1>0 DEF IsRequest, NoConn, Stages
  <2>3. Guarded(r)
    BY <1>0, <1>2 DEF Guarded, PingWritten, IsRequest, NoConn
  <2> QED BY <2>1, <2>2, <2>3, OneStream
<1>3. CASE PingFails(c)
  <2> DEFINE r == [t EXCEPT !.ka = "ended", !.expired = TRUE]
  <2>1. stream' = [stream EXCEPT ![c] = r]
    BY <1>3 DEF PingFails, Proxied
  <2>2. IsRequest(r)
    BY <1>0 DEF IsRequest, NoConn, Stages
  <2>3. Guarded(r)
    BY <1>0, <1>3 DEF Guarded, PingFails, IsRequest, NoConn
  <2> QED BY <2>1, <2>2, <2>3, OneStream
<1>4. CASE pongHandler(c)
  <2> DEFINE r == [t EXCEPT !.pong = TRUE, !.pongs = @ + 1]
  <2>1. stream' = [stream EXCEPT ![c] = r]
    BY <1>4 DEF pongHandler, Proxied
  <2>2. IsRequest(r)
    BY <1>0 DEF IsRequest, NoConn, Stages
  <2>3. Guarded(r)
    BY <1>0, <1>4 DEF Guarded, pongHandler, IsRequest, NoConn
  <2> QED BY <2>1, <2>2, <2>3, OneStream
<1>5. CASE PongReceived(c)
  <2> DEFINE r == [t EXCEPT !.ka = "sleep", !.pong = FALSE]
  <2>1. stream' = [stream EXCEPT ![c] = r]
    BY <1>5 DEF PongReceived, Proxied
  <2>2. IsRequest(r)
    BY <1>0 DEF IsRequest, NoConn, Stages
  <2>3. Guarded(r)
    BY <1>0, <1>5 DEF Guarded, PongReceived, IsRequest, NoConn
  <2> QED BY <2>1, <2>2, <2>3, OneStream
<1>6. CASE SleepEnds(c)
  <2> DEFINE r == [t EXCEPT !.ka = "ping"]
  <2>1. stream' = [stream EXCEPT ![c] = r]
    BY <1>6 DEF SleepEnds, Proxied
  <2>2. IsRequest(r)
    BY <1>0 DEF IsRequest, NoConn, Stages
  <2>3. Guarded(r)
    BY <1>0, <1>6 DEF Guarded, SleepEnds, IsRequest, NoConn
  <2> QED BY <2>1, <2>2, <2>3, OneStream
<1>7. CASE KeepAliveFires(c)
  <2> DEFINE r == [t EXCEPT !.armed = FALSE, !.tick = TRUE]
  <2>1. stream' = [stream EXCEPT ![c] = r]
    BY <1>7 DEF KeepAliveFires, Proxied
  <2>2. IsRequest(r)
    BY <1>0 DEF IsRequest, NoConn, Stages
  <2>3. Guarded(r)
    BY <1>0, <1>7 DEF Guarded, KeepAliveFires, IsRequest, NoConn
  <2> QED BY <2>1, <2>2, <2>3, OneStream
<1>8. CASE Timeout(c)
  <2> DEFINE r == [t EXCEPT !.ka = "ended", !.expired = TRUE, !.tick = FALSE]
  <2>1. stream' = [stream EXCEPT ![c] = r]
    BY <1>8 DEF Timeout, Proxied
  <2>2. IsRequest(r)
    BY <1>0 DEF IsRequest, NoConn, Stages
  <2>3. Guarded(r)
    BY <1>0, <1>8 DEF Guarded, Timeout, IsRequest, NoConn
  <2> QED BY <2>1, <2>2, <2>3, OneStream
<1> QED BY <1>1, <1>2, <1>3, <1>4, <1>5, <1>6, <1>7, <1>8

\* A request that reaches a handler was granted, and one that does not is told why.
LEMMA RequestSteps ==
  ASSUME Proxied, NEW c \in Conns,
         \/ Access(c) \/ SetCookie(c) \/ Authorize(c) \/ ServeQuery(c)
         \/ ServeHTTPFails(c) \/ ServeWS(c)
  PROVE  Proxied'
<1> DEFINE t == stream[c]
<1>0. IsRequest(t) /\ Guarded(t)
  BY DEF Proxied
<1>1. CASE Access(c)
  <2>1. PICK e \in Endpoints, k \in Tokens :
          stream' = [stream EXCEPT ![c].pc = "routed", ![c].endpoint = e, ![c].token = k]
    BY <1>1 DEF Access
  <2> DEFINE r == [t EXCEPT !.pc = "routed", !.endpoint = e, !.token = k]
  <2>2. stream' = [stream EXCEPT ![c] = r]
    BY <2>1 DEF Proxied
  <2>3. IsRequest(r)
    BY <1>0 DEF IsRequest, NoConn, Stages
  <2>4. Guarded(r)
    BY <1>0, <1>1 DEF Guarded, Access, IsRequest, NoConn
  <2> QED BY <2>2, <2>3, <2>4, OneStream
<1>2. CASE SetCookie(c)
  <2>1. PICK a \in {"200", "400"} : stream' = [stream EXCEPT ![c].pc = "done", ![c].status = a]
    BY <1>2 DEF SetCookie
  <2> DEFINE r == [t EXCEPT !.pc = "done", !.status = a]
  <2>2. stream' = [stream EXCEPT ![c] = r]
    BY <2>1 DEF Proxied
  <2>3. IsRequest(r)
    BY <1>0 DEF IsRequest, NoConn, Stages
  <2>4. Guarded(r)
    BY <1>0, <1>2 DEF Guarded, SetCookie, IsRequest, NoConn
  <2> QED BY <2>2, <2>3, <2>4, OneStream
<1>3. CASE Authorize(c)
  <2>1. PICK answer \in Answers, hasPermission \in BOOLEAN, control \in AccessControl :
          LET status == IF t.endpoint # "firehose"
                          THEN LogAccessWrap(LogAccessAuthorizer(c, control, answer))
                          ELSE AdminAccessWrap(AdminAccessAuthorizer(c, control, answer, hasPermission))
          IN  stream' = [stream EXCEPT
                ![c].granted = \/ ~control
                               \/ /\ t.token # "none" /\ answer = "200"
                                  /\ t.endpoint = "firehose" => hasPermission,
                ![c].status = IF status = "200" THEN "none" ELSE status,
                ![c].pc = IF status = "200" THEN "authorized" ELSE "done"]
    BY <1>3 DEF Authorize
  <2> DEFINE status == IF t.endpoint # "firehose"
                          THEN LogAccessWrap(LogAccessAuthorizer(c, control, answer))
                          ELSE AdminAccessWrap(AdminAccessAuthorizer(c, control, answer, hasPermission))
             granted == \/ ~control
                        \/ /\ t.token # "none" /\ answer = "200"
                           /\ t.endpoint = "firehose" => hasPermission
             r == [t EXCEPT !.granted = granted,
                            !.status = IF status = "200" THEN "none" ELSE status,
                            !.pc = IF status = "200" THEN "authorized" ELSE "done"]
  <2>2. stream' = [stream EXCEPT ![c] = r]
    BY <2>1 DEF Proxied
  <2>3. t.endpoint # "firehose" =>
          /\ status = "200" <=> granted
          /\ ~granted => status \in {"401", "404", "500"}
    BY DEF LogAccessWrap, LogAccessAuthorizer, getAuthToken, Answers
  <2>4. t.endpoint = "firehose" => status = IF granted THEN "200" ELSE "401"
    BY DEF AdminAccessWrap, AdminAccessAuthorizer, getAuthToken, GetAuthData
  <2>5. t.pc = "routed" /\ t.endpoint # "set-cookie" /\ granted \in BOOLEAN
    BY <1>3 DEF Authorize
  <2> HIDE DEF status, granted
  <2>6. IsRequest(r)
    BY <1>0 DEF IsRequest, NoConn, Stages
  <2>7. Guarded(r)
    BY <1>0, <2>3, <2>4, <2>5 DEF Guarded, IsRequest, NoConn, Endpoints
  <2> QED BY <2>2, <2>6, <2>7, OneStream
<1>4. CASE ServeQuery(c)
  <2> DEFINE r == [t EXCEPT !.pc = "done", !.status = "200", !.canceled = TRUE]
  <2>1. stream' = [stream EXCEPT ![c] = r]
    BY <1>4 DEF ServeQuery, Proxied
  <2>2. IsRequest(r)
    BY <1>0 DEF IsRequest, NoConn, Stages
  <2>3. Guarded(r)
    BY <1>0, <1>4 DEF Guarded, ServeQuery, QueryHandler, IsRequest, NoConn
  <2> QED BY <2>1, <2>2, <2>3, OneStream
<1>5. CASE ServeHTTPFails(c)
  <2> DEFINE r == [t EXCEPT !.pc = "done", !.status = "503", !.canceled = TRUE]
  <2>1. stream' = [stream EXCEPT ![c] = r]
    BY <1>5 DEF ServeHTTPFails, Proxied
  <2>2. IsRequest(r)
    BY <1>0 DEF IsRequest, NoConn, Stages
  <2>3. Guarded(r)
    BY <1>0, <1>5 DEF Guarded, ServeHTTPFails, StreamHandler, FirehoseHandler, IsRequest, NoConn
  <2> QED BY <2>1, <2>2, <2>3, OneStream
<1>6. CASE ServeWS(c)
  <2>1. PICK upgraded \in BOOLEAN :
         stream' = [stream EXCEPT
            ![c].reader = "recv",
            ![c].pc = IF upgraded THEN "serving" ELSE "done",
            ![c].canceled = ~upgraded,
            ![c].status = IF upgraded THEN "101" ELSE "400",
            ![c].loop = IF upgraded THEN "select" ELSE "ended",
            ![c].ka = IF upgraded THEN "ping" ELSE "off"]
    BY <1>6 DEF ServeWS
  <2> DEFINE r == [t EXCEPT !.reader = "recv", !.pc = IF upgraded THEN "serving" ELSE "done",
                            !.canceled = ~upgraded,
                            !.status = IF upgraded THEN "101" ELSE "400",
                            !.loop = IF upgraded THEN "select" ELSE "ended",
                            !.ka = IF upgraded THEN "ping" ELSE "off"]
  <2>2. stream' = [stream EXCEPT ![c] = r]
    BY <2>1 DEF Proxied
  <2>3. IsRequest(r)
    BY <1>0 DEF IsRequest, NoConn, Stages
  <2>4. Guarded(r)
    BY <1>0, <1>6 DEF Guarded, ServeWS, StreamHandler, FirehoseHandler, IsRequest, NoConn
  <2> QED BY <2>2, <2>3, <2>4, OneStream
<1> QED BY <1>1, <1>2, <1>3, <1>4, <1>5, <1>6

\* No failure of the authorizing service, and no order of the steps that follow,
\* serves a request that was not granted, for any number of requests.
THEOREM NobodyElseServed == ProxySpec => []ServedOnlyIfGranted
<1>1. ProxyInit => Proxied
  BY DEF ProxyInit, Proxied, NoConn, IsRequest, Guarded, Stages, Endpoints
<1>2. Proxied /\ [ProxyNext]_proxyVars => Proxied'
  <2> SUFFICES ASSUME Proxied, [ProxyNext]_proxyVars PROVE Proxied'
    OBVIOUS
  <2>1. CASE UNCHANGED proxyVars
    BY <2>1 DEF proxyVars, Proxied
  <2> QED BY <2>1, ReaderSteps, LoopSteps, ClientSteps, KeepAliveSteps, RequestSteps DEF ProxyNext
<1>3. Proxied => ServedOnlyIfGranted
  <2> SUFFICES ASSUME Proxied, NEW c \in Conns
               PROVE  /\ \/ stream[c].pc \in {"authorized", "serving"} \/ stream[c].reader # "off"
                         \/ stream[c].endpoint = "query" /\ stream[c].status = "200"
                         => stream[c].granted
                      /\ stream[c].pc = "done" /\ ~stream[c].granted =>
                           stream[c].status \in
                             (CASE stream[c].endpoint \in {"stream", "query"} -> {"401", "404", "500"}
                                [] stream[c].endpoint = "firehose" -> {"401"}
                                [] stream[c].endpoint = "set-cookie" -> {"200", "400"})
    BY DEF ServedOnlyIfGranted
  <2> QED BY DEF Proxied, IsRequest, Guarded, Endpoints
<1> QED BY <1>1, <1>2, <1>3, PTL DEF ProxySpec
-----------------------------------------------------------------------------
(* The reverse log proxy: its envelopes.                                    *)

IsProxy(x) ==
  /\ x = [f \in DOMAIN x |-> x[f]] /\ DOMAIN x = DOMAIN NewRLP
  /\ x.subscriptionCount \in Nat /\ x.egress \in Nat /\ x.dropped \in Nat

\* A stream and its books.  Its reader is there once it has subscribed and has
\* ended when the buffer is closed; it has a result when it has ended, and one
\* that ended well has nothing left.
IsStream(r) ==
  /\ r = [f \in DOMAIN r |-> r[f]] /\ DOMAIN r = DOMAIN NoSub
  /\ r.received \in Nat /\ r.sent \in Nat /\ r.dropped \in Nat /\ r.buffer \in Nat
  /\ r.received <= MaxYield
  /\ r.received = r.sent + r.dropped + r.buffer + InHand(r)
  /\ r.pc \in {"new", "check", "subscribe"} => r.reader = "off"
  /\ r.closed => r.reader = "ended"
  /\ r.pc # "done" => r.result = "none"
  /\ r.result = "ok" => r.pc = "done" /\ r.closed /\ r.buffer = 0

RlpInv ==
  /\ IsProxy(rlp)
  /\ sub = [s \in Subscribers |-> sub[s]] /\ \A s \in Subscribers : IsStream(sub[s])
  /\ rlp.subscriptionCount = Cardinality(Open)
  /\ rlp.egress = Cardinality(SentEnvelopes)
  /\ rlp.dropped = Cardinality(DroppedEnvelopes)

\* Each of a stream's two goroutines has at most one envelope in hand.
LEMMA Books ==
  ASSUME NEW r, IsStream(r)
  PROVE  \E put \in {0, 1}, send \in {0, 1} :
           /\ r.received = r.sent + r.dropped + r.buffer + (put + send)
           /\ r.reader # "put" => put = 0
           /\ r.pc # "send" /\ r.result # "unexpected EOF" => send = 0
<1> DEFINE put == IF r.reader = "put" THEN 1 ELSE 0
           send == IF r.pc = "send" \/ r.result = "unexpected EOF" THEN 1 ELSE 0
<1>1. put \in {0, 1} /\ (r.reader # "put" => put = 0)
  OBVIOUS
<1>2. send \in {0, 1} /\ (r.pc # "send" /\ r.result # "unexpected EOF" => send = 0)
  OBVIOUS
<1>3. r.received = r.sent + r.dropped + r.buffer + (put + send)
  BY DEF IsStream, InHand
<1> HIDE DEF put, send
<1> QED BY <1>1, <1>2, <1>3

\* A stream that is open.
Active(r) == r.pc \notin {"new", "done"}

\* One stream changes: what its books say of the proxy's.
LEMMA GaugeFollows ==
  ASSUME RlpInv, NEW s \in Subscribers, NEW r, sub' = [sub EXCEPT ![s] = r]
  PROVE  /\ Active(r) /\ ~Active(sub[s]) => Cardinality(Open') = Cardinality(Open) + 1
         /\ ~Active(r) /\ Active(sub[s]) => Cardinality(Open') = Cardinality(Open) - 1
         /\ (Active(r) <=> Active(sub[s])) => Open' = Open
<1>1. IsFiniteSet(Open)
  BY RlpBoundsAssumption, FS_Subset DEF Open
<1>2. sub'[s] = r /\ \A o \in Subscribers : o # s => sub'[o] = sub[o]
  BY DEF RlpInv
<1>3. CASE Active(r) /\ ~Active(sub[s])
  <2>1. Open' = Open \cup {s} /\ s \notin Open
    BY <1>2, <1>3 DEF Open, Active
  <2> QED BY <1>1, <1>3, <2>1, FS_AddElement
<1>4. CASE ~Active(r) /\ Active(sub[s])
  <2>1. Open' = Open \ {s} /\ s \in Open
    BY <1>2, <1>4 DEF Open, Active
  <2> QED BY <1>1, <1>4, <2>1, FS_RemoveElement
<1>5. CASE Active(r) <=> Active(sub[s])
  <2>1. Open' = Open
    BY <1>2, <1>5 DEF Open, Active
  <2> QED BY <1>5, <2>1
<1> QED BY <1>3, <1>4, <1>5

\* Finitely many envelopes can be counted.
LEMMA EnvelopesFinite ==
  ASSUME NEW S \in SUBSET (Subscribers \X (1..MaxYield))
  PROVE  IsFiniteSet(S)
<1>1. IsFiniteSet(1..MaxYield)
  BY RlpBoundsAssumption, FS_Interval
<1>2. IsFiniteSet(Subscribers \X (1..MaxYield))
  BY <1>1, RlpBoundsAssumption, FS_Product
<1> QED BY <1>2, FS_Subset

\* The sum over the streams grows by one when one of them sends one more.
LEMMA SentFollows ==
  ASSUME RlpInv, NEW s \in Subscribers, NEW r, sub' = [sub EXCEPT ![s] = r]
  PROVE  /\ r.sent = sub[s].sent => SentEnvelopes' = SentEnvelopes
         /\ r.sent = sub[s].sent + 1 /\ r.sent <= MaxYield =>
              Cardinality(SentEnvelopes') = Cardinality(SentEnvelopes) + 1
<1>1. sub'[s] = r /\ (\A o \in Subscribers : o # s => sub'[o] = sub[o]) /\ sub[s].sent \in Nat
  BY DEF RlpInv, IsStream
<1>2. CASE r.sent = sub[s].sent
  <2>1. SentEnvelopes' = SentEnvelopes
    BY <1>1, <1>2 DEF SentEnvelopes
  <2> QED BY <1>1, <1>2, <2>1
<1>3. CASE r.sent = sub[s].sent + 1 /\ r.sent <= MaxYield
  <2> DEFINE e == <<s, r.sent>>
  <2>1. e \in Subscribers \X (1..MaxYield) /\ e \notin SentEnvelopes
    BY <1>1, <1>3, RlpBoundsAssumption DEF SentEnvelopes
  <2>2. ASSUME NEW x \in Subscribers, NEW n \in 1..MaxYield
        PROVE  n <= sub'[x].sent <=> n <= sub[x].sent \/ <<x, n>> = e
    BY <1>1, <1>3
  <2>3. SentEnvelopes' = SentEnvelopes \cup {e}
    BY <2>1, <2>2 DEF SentEnvelopes
  <2> HIDE DEF e
  <2>4. Cardinality(SentEnvelopes \cup {e}) = Cardinality(SentEnvelopes) + 1
    <3>1. IsFiniteSet(SentEnvelopes)
      BY EnvelopesFinite DEF SentEnvelopes
    <3> QED BY <2>1, <3>1, FS_AddElement
  <2>5. r.sent # sub[s].sent
    BY <1>1, <1>3
  <2> QED BY <2>3, <2>4, <2>5
<1> QED BY <1>2, <1>3

\* The same of what is dropped.
LEMMA DroppedFollows ==
  ASSUME RlpInv, NEW s \in Subscribers, NEW r, sub' = [sub EXCEPT ![s] = r]
  PROVE  /\ r.dropped = sub[s].dropped => DroppedEnvelopes' = DroppedEnvelopes
         /\ r.dropped = sub[s].dropped + 1 /\ r.dropped <= MaxYield =>
              Cardinality(DroppedEnvelopes') = Cardinality(DroppedEnvelopes) + 1
<1>1. sub'[s] = r /\ (\A o \in Subscribers : o # s => sub'[o] = sub[o]) /\ sub[s].dropped \in Nat
  BY DEF RlpInv, IsStream
<1>2. CASE r.dropped = sub[s].dropped
  <2>1. DroppedEnvelopes' = DroppedEnvelopes
    BY <1>1, <1>2 DEF DroppedEnvelopes
  <2> QED BY <1>1, <1>2, <2>1
<1>3. CASE r.dropped = sub[s].dropped + 1 /\ r.dropped <= MaxYield
  <2> DEFINE e == <<s, r.dropped>>
  <2>1. e \in Subscribers \X (1..MaxYield) /\ e \notin DroppedEnvelopes
    BY <1>1, <1>3, RlpBoundsAssumption DEF DroppedEnvelopes
  <2>2. ASSUME NEW x \in Subscribers, NEW n \in 1..MaxYield
        PROVE  n <= sub'[x].dropped <=> n <= sub[x].dropped \/ <<x, n>> = e
    BY <1>1, <1>3
  <2>3. DroppedEnvelopes' = DroppedEnvelopes \cup {e}
    BY <2>1, <2>2 DEF DroppedEnvelopes
  <2> HIDE DEF e
  <2>4. Cardinality(DroppedEnvelopes \cup {e}) = Cardinality(DroppedEnvelopes) + 1
    <3>1. IsFiniteSet(DroppedEnvelopes)
      BY EnvelopesFinite DEF DroppedEnvelopes
    <3> QED BY <2>1, <3>1, FS_AddElement
  <2>5. r.dropped # sub[s].dropped
    BY <1>1, <1>3
  <2> QED BY <2>3, <2>4, <2>5
<1> QED BY <1>2, <1>3

\* A step of one stream, with what it does to the proxy's counters.
LEMMA OneSub ==
  ASSUME RlpInv, NEW s \in Subscribers, NEW r, IsStream(r), sub' = [sub EXCEPT ![s] = r],
         rlp' = [f \in DOMAIN rlp' |-> rlp'[f]], DOMAIN rlp' = DOMAIN NewRLP,
         \/ (Active(r) <=> Active(sub[s])) /\ rlp'.subscriptionCount = rlp.subscriptionCount
         \/ Active(r) /\ ~Active(sub[s]) /\ rlp'.subscriptionCount = rlp.subscriptionCount + 1
         \/ ~Active(r) /\ Active(sub[s]) /\ rlp'.subscriptionCount = rlp.subscriptionCount - 1,
         \/ r.sent = sub[s].sent /\ rlp'.egress = rlp.egress
         \/ r.sent = sub[s].sent + 1 /\ rlp'.egress = rlp.egress + 1,
         \/ r.dropped = sub[s].dropped /\ rlp'.dropped = rlp.dropped
         \/ r.dropped = sub[s].dropped + 1 /\ rlp'.dropped = rlp.dropped + 1
  PROVE  RlpInv'
<1>1. r.sent <= MaxYield /\ r.dropped <= MaxYield
  <2>1. PICK put \in {0, 1}, send \in {0, 1} :
          r.received = r.sent + r.dropped + r.buffer + (put + send)
    BY Books
  <2>2. /\ r.received \in Nat /\ r.sent \in Nat /\ r.dropped \in Nat /\ r.buffer \in Nat
        /\ r.received <= MaxYield
    BY DEF IsStream
  <2> QED BY <2>1, <2>2, RlpBoundsAssumption
<1>2. rlp'.subscriptionCount = Cardinality(Open')
  BY GaugeFollows DEF RlpInv
<1>3. rlp'.egress = Cardinality(SentEnvelopes')
  BY <1>1, SentFollows DEF RlpInv
<1>4. rlp'.dropped = Cardinality(DroppedEnvelopes')
  BY <1>1, DroppedFollows DEF RlpInv
<1>5. IsFiniteSet(Open')
  BY RlpBoundsAssumption, FS_Subset DEF Open
<1>6. IsFiniteSet(SentEnvelopes') /\ IsFiniteSet(DroppedEnvelopes')
  BY EnvelopesFinite DEF SentEnvelopes, DroppedEnvelopes
<1>7. IsProxy(rlp')
  BY <1>2, <1>3, <1>4, <1>5, <1>6, FS_CardinalityType DEF IsProxy
<1>8. sub' = [x \in Subscribers |-> sub'[x]] /\ \A x \in Subscribers : IsStream(sub'[x])
  BY DEF RlpInv
<1> QED BY <1>2, <1>3, <1>4, <1>7, <1>8 DEF RlpInv

\* An envelope moves on within a stream, and the stream's books stay balanced.
LEMMA Balanced ==
  ASSUME NEW t, IsStream(t), NEW r,
         r = [f \in DOMAIN r |-> r[f]], DOMAIN r = DOMAIN NoSub,
         r.closed = t.closed, r.result = t.result,
         \/ /\ t.reader = "rx" /\ r.reader = "put" /\ t.received < MaxYield /\ r.pc = t.pc
            /\ r.received = t.received + 1
            /\ r.sent = t.sent /\ r.dropped = t.dropped /\ r.buffer = t.buffer
         \/ /\ t.reader = "put" /\ r.reader = "rx" /\ r.received = t.received /\ r.pc = t.pc
            /\ r.sent = t.sent /\ r.dropped = t.dropped /\ r.buffer = t.buffer + 1
         \/ /\ t.reader = "put" /\ r.reader = "rx" /\ r.received = t.received /\ r.pc = t.pc
            /\ r.sent = t.sent /\ r.dropped = t.dropped + 1 /\ r.buffer = t.buffer
         \/ /\ t.buffer > 0 /\ r.reader = t.reader /\ r.received = t.received
            /\ t.pc = "range" /\ r.pc = "send"
            /\ r.sent = t.sent /\ r.dropped = t.dropped /\ r.buffer = t.buffer - 1
         \/ /\ r.reader = t.reader /\ r.received = t.received
            /\ t.pc = "send" /\ r.pc = "range"
            /\ r.sent = t.sent + 1 /\ r.dropped = t.dropped /\ r.buffer = t.buffer
  PROVE  IsStream(r)
<1> DEFINE put(x) == IF x.reader = "put" THEN 1 ELSE 0
           send(x) == IF x.pc = "send" \/ x.result = "unexpected EOF" THEN 1 ELSE 0
<1>1. /\ t.received \in Nat /\ t.sent \in Nat /\ t.dropped \in Nat /\ t.buffer \in Nat
      /\ t.received <= MaxYield /\ t.received = t.sent + t.dropped + t.buffer + (put(t) + send(t))
      /\ t.pc # "done" => t.result = "none"
  BY DEF IsStream, InHand
<1>2. /\ put(t) \in {0, 1} /\ (t.reader = "put" => put(t) = 1) /\ (t.reader = "rx" => put(t) = 0)
      /\ (r.reader = "put" => put(r) = 1) /\ (r.reader = "rx" => put(r) = 0)
      /\ (r.reader = t.reader => put(r) = put(t))
  OBVIOUS
<1>3. /\ send(t) \in {0, 1} /\ (r.pc = t.pc => send(r) = send(t))
      /\ (t.pc = "range" => send(t) = 0) /\ (t.pc = "send" => send(t) = 1)
      /\ (r.pc = "range" /\ t.pc = "send" => send(r) = 0) /\ (r.pc = "send" => send(r) = 1)
  BY <1>1
<1> HIDE DEF put, send
<1>4. /\ r.received \in Nat /\ r.sent \in Nat /\ r.dropped \in Nat /\ r.buffer \in Nat
      /\ r.received <= MaxYield /\ r.received = r.sent + r.dropped + r.buffer + (put(r) + send(r))
  BY <1>1, <1>2, <1>3, RlpBoundsAssumption
<1>5. /\ r.pc \in {"new", "check", "subscribe"} => r.reader = "off"
      /\ r.closed => r.reader = "ended"
      /\ r.pc # "done" => r.result = "none"
      /\ r.result = "ok" => r.pc = "done" /\ r.closed /\ r.buffer = 0
  BY <1>1 DEF IsStream
<1> QED BY <1>4, <1>5 DEF IsStream, InHand, put, send

\* Steps that leave the proxy's counters alone.
LEMMA QuietSteps ==
  ASSUME RlpInv, NEW s \in Subscribers,
         \/ Watch(s) \/ Receive(s) \/ Watcher(s) \/ rx(s) \/ rxFails(s) \/ Stalls(s) \/ Leaves(s)
         \/ Dequeue(s)
  PROVE  RlpInv'
<1> DEFINE t == sub[s]
<1>0. IsStream(t) /\ rlp' = rlp
  BY DEF RlpInv, Watch, Receive, Watcher, rx, rxFails, Stalls, Leaves, Dequeue
<1>a. ASSUME NEW r, IsStream(r), sub' = [sub EXCEPT ![s] = r], Active(r) <=> Active(t),
             r.sent = t.sent, r.dropped = t.dropped
      PROVE  RlpInv'
  BY <1>0, <1>a, OneSub DEF RlpInv, IsProxy
<1>1. CASE Watch(s)
  <2> DEFINE r == [t EXCEPT !.pc = "subscribe", !.watcher = "waits"]
  <2>1. sub' = [sub EXCEPT ![s] = r]
    BY <1>1 DEF Watch, RlpInv
  <2>2. /\ IsStream(r) /\ r.sent = t.sent /\ r.dropped = t.dropped
        /\ Active(r) <=> Active(t)
    BY <1>0, <1>1, RlpBoundsAssumption DEF Watch, IsStream, NoSub, Active, InHand
  <2> QED BY <1>a, <2>1, <2>2
<1>2. CASE Receive(s)
  <2> DEFINE r == [t EXCEPT !.pc = "range", !.reader = "rx", !.subscribed = TRUE,
                           !.asked = convertFilter(t.request)]
  <2>1. sub' = [sub EXCEPT ![s] = r]
    BY <1>2 DEF Receive, RlpInv
  <2>2. /\ IsStream(r) /\ r.sent = t.sent /\ r.dropped = t.dropped
        /\ Active(r) <=> Active(t)
    BY <1>0, <1>2, RlpBoundsAssumption DEF Receive, IsStream, NoSub, Active, InHand
  <2> QED BY <1>a, <2>1, <2>2
<1>3. CASE Watcher(s)
  <2> DEFINE r == [t EXCEPT !.watcher = "ended", !.canceled = TRUE]
  <2>1. sub' = [sub EXCEPT ![s] = r]
    BY <1>3 DEF Watcher, RlpInv
  <2>2. /\ IsStream(r) /\ r.sent = t.sent /\ r.dropped = t.dropped
        /\ Active(r) <=> Active(t)
    BY <1>0, <1>3, RlpBoundsAssumption DEF Watcher, IsStream, NoSub, Active, InHand
  <2> QED BY <1>a, <2>1, <2>2
<1>4. CASE rx(s)
  <2> DEFINE r == [t EXCEPT !.reader = "put", !.received = @ + 1]
  <2>1. sub' = [sub EXCEPT ![s] = r]
    BY <1>4 DEF rx, RlpInv
  <2>f. /\ r = [f \in DOMAIN r |-> r[f]] /\ DOMAIN r = DOMAIN NoSub
        /\ r.pc = t.pc /\ r.closed = t.closed /\ r.result = t.result
        /\ r.reader = "put" /\ r.received = t.received + 1
        /\ r.sent = t.sent /\ r.dropped = t.dropped /\ r.buffer = t.buffer
    BY <1>0 DEF IsStream, NoSub
  <2>t. t.reader = "rx" /\ t.received < MaxYield
    BY <1>4 DEF rx, IsStream
  <2> HIDE DEF r
  <2>2. IsStream(r) /\ (Active(r) <=> Active(t))
    BY <1>0, <2>f, <2>t, Balanced DEF Active
  <2> QED BY <1>a, <2>1, <2>2, <2>f
<1>5. CASE rxFails(s)
  <2> DEFINE r == [t EXCEPT !.reader = "ended", !.closed = TRUE, !.canceled = TRUE]
  <2>1. sub' = [sub EXCEPT ![s] = r]
    BY <1>5 DEF rxFails, RlpInv
  <2>2. /\ IsStream(r) /\ r.sent = t.sent /\ r.dropped = t.dropped
        /\ Active(r) <=> Active(t)
    BY <1>0, <1>5, RlpBoundsAssumption DEF rxFails, IsStream, NoSub, Active, InHand
  <2> QED BY <1>a, <2>1, <2>2
<1>6. CASE Stalls(s)
  <2> DEFINE r == [t EXCEPT !.stalled = TRUE]
  <2>1. sub' = [sub EXCEPT ![s] = r]
    BY <1>6 DEF Stalls, RlpInv
  <2>2. /\ IsStream(r) /\ r.sent = t.sent /\ r.dropped = t.dropped
        /\ Active(r) <=> Active(t)
    BY <1>0, <1>6, RlpBoundsAssumption DEF Stalls, IsStream, NoSub, Active, InHand
  <2> QED BY <1>a, <2>1, <2>2
<1>7. CASE Leaves(s)
  <2> DEFINE r == [t EXCEPT !.gone = TRUE, !.canceled = TRUE]
  <2>1. sub' = [sub EXCEPT ![s] = r]
    BY <1>7 DEF Leaves, RlpInv
  <2>2. /\ IsStream(r) /\ r.sent = t.sent /\ r.dropped = t.dropped
        /\ Active(r) <=> Active(t)
    BY <1>0, <1>7, RlpBoundsAssumption DEF Leaves, IsStream, NoSub, Active, InHand
  <2> QED BY <1>a, <2>1, <2>2
<1>8. CASE Dequeue(s)
  <2> DEFINE r == [t EXCEPT !.buffer = @ - 1, !.pc = "send"]
  <2>1. sub' = [sub EXCEPT ![s] = r]
    BY <1>8 DEF Dequeue, RlpInv
  <2>f. /\ r = [f \in DOMAIN r |-> r[f]] /\ DOMAIN r = DOMAIN NoSub
        /\ r.pc = "send" /\ r.closed = t.closed /\ r.result = t.result
        /\ r.reader = t.reader /\ r.received = t.received
        /\ r.sent = t.sent /\ r.dropped = t.dropped /\ r.buffer = t.buffer - 1
    BY <1>0 DEF IsStream, NoSub
  <2>t. t.pc = "range" /\ t.buffer > 0
    BY <1>8 DEF Dequeue
  <2> HIDE DEF r
  <2>2. IsStream(r) /\ (Active(r) <=> Active(t))
    BY <1>0, <2>f, <2>t, Balanced DEF Active
  <2> QED BY <1>a, <2>1, <2>2, <2>f
<1> QED BY <1>1, <1>2, <1>3, <1>4, <1>5, <1>6, <1>7, <1>8

\* Receiver begins and ends: the gauge goes up and comes down.
LEMMA GaugeSteps ==
  ASSUME RlpInv, NEW s \in Subscribers,
         Receiver(s) \/ Refuse(s) \/ ReceiveFails(s) \/ SendFails(s) \/ ReceiverReturns(s)
  PROVE  RlpInv'
<1> DEFINE t == sub[s]
<1>0. IsStream(t) /\ IsProxy(rlp)
  BY DEF RlpInv
<1>1. CASE Receiver(s)
  <2>1. PICK q \in Requests : sub' = [sub EXCEPT ![s].request = q, ![s].pc = "check"]
    BY <1>1 DEF Receiver
  <2> DEFINE r == [t EXCEPT !.request = q, !.pc = "check"]
  <2>2. sub' = [sub EXCEPT ![s] = r] /\ rlp' = [rlp EXCEPT !.subscriptionCount = @ + 1]
        /\ ~Active(t)
    BY <1>1, <2>1 DEF Receiver, RlpInv, Active
  <2>3. /\ IsStream(r) /\ r.sent = t.sent /\ r.dropped = t.dropped /\ Active(r)
    BY <1>0, <1>1 DEF Receiver, IsStream, NoSub, Active, InHand
  <2> HIDE DEF r
  <2>4. /\ rlp' = [f \in DOMAIN rlp' |-> rlp'[f]] /\ DOMAIN rlp' = DOMAIN NewRLP
        /\ rlp'.subscriptionCount = rlp.subscriptionCount + 1
        /\ rlp'.egress = rlp.egress /\ rlp'.dropped = rlp.dropped
    BY <1>0, <2>2 DEF IsProxy, NewRLP
  <2> QED BY <2>2, <2>3, <2>4, OneSub
<1>2. ASSUME NEW result, Ended(s, result), Active(t), result = "ok" => t.closed /\ t.buffer = 0,
             t.pc = "send" <=> result = "unexpected EOF"
      PROVE  RlpInv'
  <2> DEFINE r == [t EXCEPT !.pc = "done", !.canceled = TRUE, !.result = result]
  <2>1. sub' = [sub EXCEPT ![s] = r] /\ rlp' = [rlp EXCEPT !.subscriptionCount = @ - 1]
    BY <1>2 DEF Ended, Dec, RlpInv
  <2>2. IsStream(r) /\ r.sent = t.sent /\ r.dropped = t.dropped /\ ~Active(r)
    BY <1>0, <1>2 DEF IsStream, NoSub, Active, InHand
  <2> HIDE DEF r
  <2>3. /\ rlp' = [f \in DOMAIN rlp' |-> rlp'[f]] /\ DOMAIN rlp' = DOMAIN NewRLP
        /\ rlp'.subscriptionCount = rlp.subscriptionCount - 1
        /\ rlp'.egress = rlp.egress /\ rlp'.dropped = rlp.dropped
    BY <1>0, <2>1 DEF IsProxy, NewRLP
  <2> QED BY <1>2, <2>1, <2>2, <2>3, OneSub
<1>3. CASE Refuse(s) \/ ReceiveFails(s) \/ SendFails(s)
  BY <1>2, <1>3 DEF Refuse, ReceiveFails, SendFails, Active
<1>4. CASE ReceiverReturns(s)
  BY <1>2, <1>4 DEF ReceiverReturns, Active
<1> QED BY <1>1, <1>3, <1>4

\* An envelope is sent, kept or dropped, and counted.
LEMMA CountingSteps ==
  ASSUME RlpInv, NEW s \in Subscribers, Send(s) \/ Put(s)
  PROVE  RlpInv'
<1> DEFINE t == sub[s]
<1>0. IsStream(t) /\ IsProxy(rlp)
  BY DEF RlpInv
<1>1. CASE Send(s)
  <2> DEFINE r == [t EXCEPT !.pc = "range", !.sent = @ + 1]
  <2>1. sub' = [sub EXCEPT ![s] = r] /\ rlp' = [rlp EXCEPT !.egress = @ + 1]
    BY <1>1 DEF Send, RlpInv
  <2>f. /\ r = [f \in DOMAIN r |-> r[f]] /\ DOMAIN r = DOMAIN NoSub
        /\ r.pc = "range" /\ r.closed = t.closed /\ r.result = t.result
        /\ r.reader = t.reader /\ r.received = t.received
        /\ r.sent = t.sent + 1 /\ r.dropped = t.dropped /\ r.buffer = t.buffer
    BY <1>0 DEF IsStream, NoSub
  <2>t. t.pc = "send"
    BY <1>1 DEF Send
  <2> HIDE DEF r
  <2>2. IsStream(r) /\ r.sent = t.sent + 1 /\ r.dropped = t.dropped /\ (Active(r) <=> Active(t))
    BY <1>0, <2>f, <2>t, Balanced DEF Active
  <2>3. /\ rlp' = [f \in DOMAIN rlp' |-> rlp'[f]] /\ DOMAIN rlp' = DOMAIN NewRLP
        /\ rlp'.subscriptionCount = rlp.subscriptionCount
        /\ rlp'.egress = rlp.egress + 1 /\ rlp'.dropped = rlp.dropped
    BY <1>0, <2>1 DEF IsProxy, NewRLP
  <2> QED BY <2>1, <2>2, <2>3, OneSub
<1>2. CASE Put(s) /\ t.buffer < BufferSize
  <2> DEFINE r == [t EXCEPT !.reader = "rx", !.buffer = @ + 1]
  <2>1. sub' = [sub EXCEPT ![s] = r] /\ rlp' = rlp
    BY <1>2 DEF Put, RlpInv
  <2>f. /\ r = [f \in DOMAIN r |-> r[f]] /\ DOMAIN r = DOMAIN NoSub
        /\ r.pc = t.pc /\ r.closed = t.closed /\ r.result = t.result
        /\ r.reader = "rx" /\ r.received = t.received
        /\ r.sent = t.sent /\ r.dropped = t.dropped /\ r.buffer = t.buffer + 1
    BY <1>0 DEF IsStream, NoSub
  <2>t. t.reader = "put"
    BY <1>2 DEF Put, IsStream
  <2> HIDE DEF r
  <2>2. IsStream(r) /\ r.sent = t.sent /\ r.dropped = t.dropped /\ (Active(r) <=> Active(t))
    BY <1>0, <2>f, <2>t, Balanced DEF Active
  <2> QED BY <1>0, <2>1, <2>2, OneSub DEF IsProxy
<1>3. CASE Put(s) /\ ~(t.buffer < BufferSize)
  <2> DEFINE r == [t EXCEPT !.reader = "rx", !.dropped = @ + 1]
  <2>1. sub' = [sub EXCEPT ![s] = r] /\ rlp' = [rlp EXCEPT !.dropped = @ + 1]
    BY <1>3 DEF Put, RlpInv
  <2>f. /\ r = [f \in DOMAIN r |-> r[f]] /\ DOMAIN r = DOMAIN NoSub
        /\ r.pc = t.pc /\ r.closed = t.closed /\ r.result = t.result
        /\ r.reader = "rx" /\ r.received = t.received
        /\ r.sent = t.sent /\ r.dropped = t.dropped + 1 /\ r.buffer = t.buffer
    BY <1>0 DEF IsStream, NoSub
  <2>t. t.reader = "put"
    BY <1>3 DEF Put, IsStream
  <2> HIDE DEF r
  <2>2. IsStream(r) /\ r.sent = t.sent /\ r.dropped = t.dropped + 1 /\ (Active(r) <=> Active(t))
    BY <1>0, <2>f, <2>t, Balanced DEF Active
  <2>3. /\ rlp' = [f \in DOMAIN rlp' |-> rlp'[f]] /\ DOMAIN rlp' = DOMAIN NewRLP
        /\ rlp'.subscriptionCount = rlp.subscriptionCount
        /\ rlp'.egress = rlp.egress /\ rlp'.dropped = rlp.dropped + 1
    BY <1>0, <2>1 DEF IsProxy, NewRLP
  <2> QED BY <2>1, <2>2, <2>3, OneSub
<1> QED BY <1>1, <1>2, <1>3

\* The proxy's start and stop touch no stream.
LEMMA ProxySteps ==
  ASSUME RlpInv, UNCHANGED sub,
         rlp' = [f \in DOMAIN rlp' |-> rlp'[f]], DOMAIN rlp' = DOMAIN NewRLP,
         rlp'.subscriptionCount = rlp.subscriptionCount,
         rlp'.egress = rlp.egress, rlp'.dropped = rlp.dropped
  PROVE  RlpInv'
<1>1. UNCHANGED <<Open, SentEnvelopes, DroppedEnvelopes>>
  BY DEF Open, SentEnvelopes, DroppedEnvelopes
<1> QED BY <1>1 DEF RlpInv, IsProxy

\* For any number of subscribers and any size of their buffers the proxy accounts
\* for every envelope, and a stream that ends without an error has sent all it kept.
THEOREM ProxyAccounts == RlpSpec => []RlpAccounted
<1>1. RlpInit => RlpInv
  <2> SUFFICES ASSUME RlpInit PROVE RlpInv
    OBVIOUS
  <2>1. IsProxy(rlp) /\ rlp.subscriptionCount = 0 /\ rlp.egress = 0 /\ rlp.dropped = 0
    BY DEF RlpInit, NewRLP, IsProxy
  <2>2. IsStream(NoSub) /\ NoSub.sent = 0 /\ NoSub.dropped = 0 /\ NoSub.pc = "new"
    BY RlpBoundsAssumption DEF NoSub, IsStream, InHand
  <2>3. sub = [s \in Subscribers |-> sub[s]] /\ \A s \in Subscribers : sub[s] = NoSub
    BY DEF RlpInit
  <2>4. Open = {} /\ SentEnvelopes = {} /\ DroppedEnvelopes = {}
    BY <2>2, <2>3 DEF Open, SentEnvelopes, DroppedEnvelopes
  <2> QED BY <2>1, <2>2, <2>3, <2>4, FS_EmptySet DEF RlpInv
<1>2. RlpInv /\ [RlpNext]_rlpVars => RlpInv'
  <2> SUFFICES ASSUME RlpInv, [RlpNext]_rlpVars PROVE RlpInv'
    OBVIOUS
  <2>1. CASE \E s \in Subscribers : StreamStep(s)
    BY <2>1, QuietSteps, GaugeSteps, CountingSteps DEF StreamStep
  <2>2. CASE setupIngress \/ setupEgress \/ serveEgress \/ Stop \/ GracefulStop
    <3>1. UNCHANGED sub
      BY <2>2 DEF setupIngress, setupEgress, serveEgress, Stop, GracefulStop
    <3>2. IsProxy(rlp)
      BY DEF RlpInv
    <3>3. /\ rlp' = [f \in DOMAIN rlp' |-> rlp'[f]] /\ DOMAIN rlp' = DOMAIN NewRLP
          /\ rlp'.subscriptionCount = rlp.subscriptionCount
          /\ rlp'.egress = rlp.egress /\ rlp'.dropped = rlp.dropped
      <4>1. CASE setupIngress
        BY <3>2, <4>1 DEF setupIngress, IsProxy, NewRLP
      <4>2. CASE setupEgress
        BY <3>2, <4>2 DEF setupEgress, IsProxy, NewRLP
      <4>3. CASE serveEgress
        BY <3>2, <4>3 DEF serveEgress, IsProxy, NewRLP
      <4>4. CASE Stop
        BY <3>2, <4>4 DEF Stop, IsProxy, NewRLP
      <4>5. CASE GracefulStop
        BY <3>2, <4>5 DEF GracefulStop, IsProxy, NewRLP
      <4> QED BY <2>2, <4>1, <4>2, <4>3, <4>4, <4>5
    <3> QED BY <3>1, <3>3, ProxySteps
  <2>3. CASE UNCHANGED rlpVars
    BY <2>3, ProxySteps DEF rlpVars, RlpInv, IsProxy
  <2> QED BY <2>1, <2>2, <2>3 DEF RlpNext
<1>3. RlpInv => RlpAccounted
  <2> SUFFICES ASSUME RlpInv PROVE RlpAccounted
    OBVIOUS
  <2>1. ASSUME NEW s \in Subscribers
        PROVE  /\ sub[s].received = sub[s].sent + sub[s].dropped + sub[s].buffer + InHand(sub[s])
               /\ sub[s].result = "ok" => sub[s].received = sub[s].sent + sub[s].dropped
    <3>1. IsStream(sub[s])
      BY DEF RlpInv
    <3>2. sub[s].received = sub[s].sent + sub[s].dropped + sub[s].buffer + InHand(sub[s])
      BY <3>1 DEF IsStream
    <3>3. ASSUME sub[s].result = "ok" PROVE sub[s].received = sub[s].sent + sub[s].dropped
      <4>1. PICK put \in {0, 1}, send \in {0, 1} :
              /\ sub[s].received = sub[s].sent + sub[s].dropped + sub[s].buffer + (put + send)
              /\ sub[s].reader # "put" => put = 0
              /\ sub[s].pc # "send" /\ sub[s].result # "unexpected EOF" => send = 0
        BY <3>1, Books
      <4>2. sub[s].buffer = 0 /\ put = 0 /\ send = 0
        BY <3>1, <3>3, <4>1 DEF IsStream
      <4>3. sub[s].sent \in Nat /\ sub[s].dropped \in Nat
        BY <3>1 DEF IsStream
      <4> QED BY <4>1, <4>2, <4>3
    <3> QED BY <3>2, <3>3
  <2> QED BY <2>1 DEF RlpInv, RlpAccounted
<1> QED BY <1>1, <1>2, <1>3, PTL DEF RlpSpec

-----------------------------------------------------------------------------
(***************************************************************************)
(* Recent logs.  The place k steps after the pointer of a dump sink's ring  *)
(* holds the log that was taken RingSize - k logs before the last, if there *)
(* are so many.                                                             *)
(***************************************************************************)
Marks == Nat \ {0}

\* The k-th of the last RingSize logs, or none.
Retained(logs, k) ==
  LET i == Len(logs) - RingSize + k
  IN  IF i >= 1 THEN logs[i] ELSE 0

\* A place of the ring.
Place(x) == x % RingSize

RingHas(sink, logs) ==
  /\ sink = [run |-> sink.run, ring |-> sink.ring, at |-> sink.at]
  /\ sink.ring \in [0..(RingSize - 1) -> Nat]
  /\ sink.at \in 0..(RingSize - 1)
  /\ \A k \in 1..RingSize : sink.ring[Place(sink.at + k)] = Retained(logs, k)

RingInv ==
  /\ emitted.logs \in Nat /\ emitted = [logs |-> emitted.logs, metrics |-> emitted.metrics, load |-> emitted.load]
  /\ dump = [d \in Dopplers |-> dump[d]]
  /\ took \in [Dopplers -> Seq(Marks)]
  /\ \A d \in Dopplers : dump[d].run # "none" => RingHas(dump[d], took[d])

-----------------------------------------------------------------------------
\* Once around the ring.
LEMMA RingMod ==
  ASSUME NEW x \in 0..(2 * RingSize - 1)
  PROVE  Place(x) = IF x < RingSize THEN x ELSE x - RingSize
<1>0. RingSize \in Nat \ {0}
  BY RecentBoundsAssumption
<1> DEFINE r == x % RingSize
           m == x \div RingSize
<1>1. r \in 0..(RingSize - 1) /\ m \in Nat /\ x = r + RingSize * m
  BY <1>0
<1> HIDE DEF r, m
<1>2. m < 2
  <2> SUFFICES ASSUME m >= 2 PROVE FALSE
    BY <1>1
  <2>1. RingSize * m >= RingSize * 2
    BY <1>0, <1>1
  <2> QED BY <1>0, <1>1, <2>1
<1>3. m = 0 \/ m = 1
  BY <1>1, <1>2
<1>4. RingSize * 0 = 0 /\ RingSize * 1 = RingSize
  BY <1>0
<1>5. r = IF x < RingSize THEN x ELSE x - RingSize
  BY <1>0, <1>1, <1>3, <1>4
<1> QED BY <1>5 DEF r, Place

\* A new ring is empty.
LEMMA NewRing == RingHas(NewDumpSink, <<>>) /\ NewDumpSink.run = "running"
<1>0. RingSize \in Nat \ {0}
  BY RecentBoundsAssumption
<1> DEFINE sink == NewDumpSink
<1>1. /\ sink = [run |-> sink.run, ring |-> sink.ring, at |-> sink.at]
      /\ sink.run = "running" /\ sink.at = 0 /\ sink.ring = [k \in 0..(RingSize - 1) |-> 0]
  BY DEF NewDumpSink
<1> HIDE DEF sink
<1>2. sink.ring \in [0..(RingSize - 1) -> Nat] /\ sink.at \in 0..(RingSize - 1)
  BY <1>0, <1>1
<1>3. ASSUME NEW k \in 1..RingSize PROVE sink.ring[Place(sink.at + k)] = Retained(<<>>, k)
  <2>1. Place(sink.at + k) \in 0..(RingSize - 1)
    <3>1. sink.at + k \in 0..(2 * RingSize - 1)
      BY <1>0, <1>1
    <3> QED BY <1>0, <3>1, RingMod
  <2>2. Len(<<>>) - RingSize + k <= 0 /\ Len(<<>>) - RingSize + k \in Int
    BY <1>0
  <2>3. Retained(<<>>, k) = 0
    BY <2>2 DEF Retained
  <2> QED BY <1>1, <2>1, <2>3
<1> QED BY <1>1, <1>2, <1>3 DEF RingHas, sink

\* The pointer moves and a place is written.
LEMMA RecordUpdated ==
  ASSUME NEW run, NEW ring, NEW at, NEW next, NEW msg
  PROVE  [[run |-> run, ring |-> ring, at |-> at] EXCEPT !.at = next, !.ring[next] = msg] =
           [run |-> run, ring |-> [ring EXCEPT ![next] = msg], at |-> next]
<1> DEFINE sink == [run |-> run, ring |-> ring, at |-> at]
           moved == [run |-> run, ring |-> ring, at |-> next]
<1>1. [sink EXCEPT !.at = next, !.ring[next] = msg] = [[sink EXCEPT !.at = next] EXCEPT !.ring[next] = msg]
  OBVIOUS
<1>2. [sink EXCEPT !.at = next] = moved
  OBVIOUS
<1>3. [moved EXCEPT !.ring[next] = msg] = [run |-> run, ring |-> [ring EXCEPT ![next] = msg], at |-> next]
  OBVIOUS
<1> HIDE DEF sink, moved
<1>4. [sink EXCEPT !.at = next, !.ring[next] = msg] = [moved EXCEPT !.ring[next] = msg]
  BY <1>1, <1>2
<1> QED BY <1>3, <1>4 DEF sink

\* A log is taken.
LEMMA AddedToRing ==
  ASSUME NEW sink, NEW logs \in Seq(Marks), RingHas(sink, logs), NEW msg \in Marks
  PROVE  RingHas(addMsg(sink, msg), Append(logs, msg)) /\ addMsg(sink, msg).run = sink.run
<1>0. RingSize \in Nat \ {0}
  BY RecentBoundsAssumption
<1> DEFINE R == RingSize
           at == sink.at
           next == Place(at + 1)
           new == addMsg(sink, msg)
           more == Append(logs, msg)
           n == Len(logs)
<1>1. /\ sink = [run |-> sink.run, ring |-> sink.ring, at |-> sink.at]
      /\ sink.ring \in [0..(R - 1) -> Nat] /\ sink.at \in 0..(R - 1)
      /\ \A k \in 1..R : sink.ring[Place(sink.at + k)] = Retained(logs, k)
  BY DEF RingHas
<1>2. /\ new = [run |-> new.run, ring |-> new.ring, at |-> new.at]
      /\ new.run = sink.run /\ new.at = next /\ new.ring = [sink.ring EXCEPT ![next] = msg]
  <2>1. new = [sink EXCEPT !.at = next, !.ring[next] = msg]
    BY DEF addMsg, Place
  <2> HIDE DEF new, next
  <2>2. new = [run |-> sink.run, ring |-> [sink.ring EXCEPT ![next] = msg], at |-> next]
    BY <1>1, <2>1, RecordUpdated
  <2> QED BY <2>2
<1>10. at \in 0..(R - 1)
  BY <1>1
<1> HIDE DEF at
<1>3. at + 1 \in 0..(2 * R - 1)
  BY <1>0, <1>10
<1>4. next = IF at + 1 < R THEN at + 1 ELSE at + 1 - R
  BY <1>0, <1>10, <1>3, RingMod DEF next
<1>5. next \in 0..(R - 1)
  BY <1>0, <1>10, <1>4
<1>6. n \in Nat /\ Len(more) = n + 1 /\ more[n + 1] = msg /\ \A i \in 1..n : more[i] = logs[i]
  OBVIOUS
<1> HIDE DEF at, next, new, more, n
<1>7. new.ring \in [0..(R - 1) -> Nat] /\ new.at \in 0..(R - 1)
  BY <1>1, <1>2, <1>5 DEF Marks
<1>8. ASSUME NEW k \in 1..R PROVE new.ring[Place(new.at + k)] = Retained(more, k)
  <2> DEFINE here == Place(next + k)
  <2>1. next + k \in 0..(2 * R - 1)
    BY <1>0, <1>5
  <2>2. here = IF next + k < R THEN next + k ELSE next + k - R
    BY <1>0, <1>5, <2>1, RingMod
  <2> HIDE DEF here
  <2>3. CASE k = R
    <3>1. here = next
      BY <1>0, <1>5, <2>2, <2>3
    <3>2. new.ring[here] = msg
      BY <1>1, <1>2, <1>5, <3>1
    <3>3. Retained(more, k) = msg
      BY <1>0, <1>6, <2>3 DEF Retained
    <3> QED BY <1>2, <3>2, <3>3 DEF here
  <2>4. CASE k # R
    <3>1. k + 1 \in 1..R /\ at + (k + 1) \in 0..(2 * R - 1)
      BY <1>0, <1>10, <2>4
    <3>2. Place(at + (k + 1)) = IF at + (k + 1) < R THEN at + (k + 1) ELSE at + (k + 1) - R
      BY <1>0, <1>10, <3>1, RingMod
    <3>3. here = Place(at + (k + 1)) /\ here # next /\ here \in 0..(R - 1)
      <4>1. CASE at + 1 < R
        <5>1. next = at + 1
          BY <1>4, <4>1
        <5>2. here = IF at + (k + 1) < R THEN at + (k + 1) ELSE at + (k + 1) - R
          BY <1>0, <1>10, <2>2, <5>1
        <5>3. here # next /\ here \in 0..(R - 1)
          BY <1>0, <1>10, <2>4, <5>1, <5>2
        <5> QED BY <3>2, <5>2, <5>3
      <4>2. CASE ~(at + 1 < R)
        <5>1. next = 0 /\ at = R - 1
          BY <1>0, <1>10, <1>4, <4>2
        <5>2. here = k
          BY <1>0, <2>2, <2>4, <5>1
        <5>3. Place(at + (k + 1)) = k
          BY <1>0, <3>2, <5>1
        <5> QED BY <1>0, <2>4, <5>1, <5>2, <5>3
      <4> QED BY <4>1, <4>2
    <3>4. new.ring[here] = Retained(logs, k + 1)
      BY <1>1, <1>2, <3>1, <3>3 DEF at
    <3>5. Retained(logs, k + 1) = Retained(more, k)
      <4> DEFINE i == n + 1 - R + k
      <4>1. i \in Int /\ i <= n /\ i = n - R + (k + 1)
        BY <1>0, <1>6, <2>4
      <4>2. Retained(logs, k + 1) = IF i >= 1 THEN logs[i] ELSE 0
        BY <4>1 DEF Retained, n
      <4>3. Retained(more, k) = IF i >= 1 THEN more[i] ELSE 0
        <5>1. Len(more) - R + k = i
          BY <1>0, <1>6
        <5> HIDE DEF i
        <5> QED BY <5>1 DEF Retained
      <4> HIDE DEF i
      <4> QED BY <1>6, <4>1, <4>2, <4>3
    <3> QED BY <1>2, <3>4, <3>5 DEF here
  <2> QED BY <2>3, <2>4
<1> HIDE DEF R
<1>9. RingHas(new, more)
  BY <1>2, <1>7, <1>8 DEF RingHas, R
<1> QED BY <1>2, <1>9 DEF new, more

-----------------------------------------------------------------------------
\* Induction over the naturals, of a set of them.
LEMMA NatSetInduction ==
  ASSUME NEW T, T \subseteq Nat, 0 \in T, \A n \in T : n + 1 \in T
  PROVE  T = Nat
<1> SUFFICES ASSUME Nat \ T # {} PROVE FALSE
  OBVIOUS
<1>1. IsWellFoundedOn(OpToRel(<, Nat), Nat)
  BY NatLessThanWellFounded
<1>2. \E x \in Nat \ T : \A y \in Nat \ T : ~(<<y, x>> \in OpToRel(<, Nat))
  BY <1>1, WFMin
<1>3. PICK x \in Nat \ T : \A y \in Nat \ T : ~(y < x)
  BY <1>2 DEF OpToRel
<1>4. x # 0 /\ x - 1 \in Nat /\ x - 1 < x
  OBVIOUS
<1>5. x - 1 \in T
  BY <1>3, <1>4
<1>6. (x - 1) + 1 = x
  BY <1>4
<1> QED BY <1>5, <1>6

\* One turn of Dump's walk around the ring.
Collect(f, sink, k) ==
  IF k = 0 THEN <<>>
  ELSE LET msg == sink.ring[(sink.at + k) % RingSize]
           before == f[k - 1]
       IN  IF msg = 0 THEN before ELSE Append(before, msg)

\* The walk comes to an end.
LEMMA WalkEnds ==
  ASSUME NEW sink
  PROVE  \A m \in Nat : \E f : f = [k \in 0..m |-> Collect(f, sink, k)]
<1> DEFINE T == {m \in Nat : \E f : f = [k \in 0..m |-> Collect(f, sink, k)]}
<1>1. 0 \in T
  <2> DEFINE f == [k \in 0..0 |-> <<>>]
  <2>1. f = [k \in 0..0 |-> Collect(f, sink, k)]
    BY DEF Collect
  <2> QED BY <2>1
<1>2. ASSUME NEW m \in T PROVE m + 1 \in T
  <2>1. PICK f : f = [k \in 0..m |-> Collect(f, sink, k)]
    OBVIOUS
  <2> DEFINE g == [k \in 0..(m + 1) |-> IF k = m + 1 THEN Collect(f, sink, k) ELSE f[k]]
  <2>2. ASSUME NEW k \in 0..(m + 1) PROVE g[k] = Collect(g, sink, k)
    <3>1. CASE k = 0
      BY <2>1, <3>1 DEF Collect
    <3>2. CASE k # 0
      <4>1. k - 1 \in 0..m /\ k - 1 \in 0..(m + 1) /\ k - 1 # m + 1
        BY <3>2
      <4>2. g[k - 1] = f[k - 1]
        BY <4>1
      <4>3. Collect(f, sink, k) = Collect(g, sink, k)
        BY <4>2 DEF Collect
      <4>4. k # m + 1 => f[k] = Collect(f, sink, k)
        BY <2>1
      <4> QED BY <4>3, <4>4
    <3> QED BY <3>1, <3>2
  <2>3. g = [k \in 0..(m + 1) |-> Collect(g, sink, k)]
    BY <2>2
  <2> HIDE DEF g
  <2> QED BY <2>3
<1> HIDE DEF T
<1>3. T = Nat
  BY <1>1, <1>2, NatSetInduction DEF T
<1> QED BY <1>3 DEF T

\* What it collects are the last logs, oldest first.
LEMMA DumpIsLast ==
  ASSUME NEW sink, NEW logs \in Seq(Marks), RingHas(sink, logs)
  PROVE  LET n == Len(logs)
         IN  Dump(sink) = SubSeq(logs, (IF n > RingSize THEN n - RingSize ELSE 0) + 1, n)
<1>0. RingSize \in Nat \ {0}
  BY RecentBoundsAssumption
<1> DEFINE R == RingSize
           n == Len(logs)
           lo == IF n > R THEN n - R ELSE 0
           data == CHOOSE f : f = [k \in 0..R |-> Collect(f, sink, k)]
           Size(k) == IF n - R + k > lo THEN n - R + k - lo ELSE 0
           Done(k) == /\ data[k] \in Seq(Marks) /\ Len(data[k]) = Size(k)
                      /\ \A i \in 1..Size(k) : data[k][i] = logs[lo + i]
           T == {k \in Nat : k <= R => Done(k)}
<1>1. data = [k \in 0..R |-> Collect(data, sink, k)]
  BY <1>0, WalkEnds
<1>2. Dump(sink) = data[R]
  BY DEF Dump, Collect
<1> HIDE DEF data
<1>3. n \in Nat /\ lo \in Nat /\ lo <= n /\ (n > R => lo = n - R) /\ (~(n > R) => lo = 0)
  BY <1>0
<1>30. \A i \in 1..n : logs[i] \in Marks
  OBVIOUS
<1> HIDE DEF n, lo
<1>4. \A k \in 0..R : Size(k) \in Nat
  BY <1>0, <1>3
<1>5. 0 \in T
  <2>1. data[0] = <<>>
    BY <1>0, <1>1 DEF Collect
  <2>2. Size(0) = 0
    BY <1>0, <1>3
  <2> HIDE DEF Size
  <2>3. Done(0)
    BY <2>1, <2>2
  <2> HIDE DEF Done
  <2> QED BY <2>3
<1>6. ASSUME NEW k \in T PROVE k + 1 \in T
  <2> SUFFICES ASSUME k + 1 <= R PROVE Done(k + 1)
    OBVIOUS
  <2> HIDE DEF Done
  <2>1. k \in Nat /\ k \in 0..R /\ k + 1 \in 1..R /\ k + 1 \in 0..R /\ (k + 1) - 1 = k /\ Done(k)
    BY <1>0
  <2> HIDE DEF T
  <2> DEFINE q == data[k]
             msg == Retained(logs, k + 1)
             last == n - R + (k + 1)
  <2>2. data[k + 1] = IF msg = 0 THEN q ELSE Append(q, msg)
    <3>1. data[k + 1] = Collect(data, sink, k + 1)
      BY <1>1, <2>1
    <3>2. sink.ring[Place(sink.at + (k + 1))] = msg
      BY <2>1 DEF RingHas
    <3>3. k + 1 # 0
      BY <2>1
    <3> HIDE DEF msg
    <3> QED BY <2>1, <3>1, <3>2, <3>3 DEF Collect, Place
  <2>3. msg = IF last >= 1 THEN logs[last] ELSE 0
    BY DEF Retained, n
  <2>4. q \in Seq(Marks) /\ Len(q) = Size(k) /\ \A i \in 1..Size(k) : q[i] = logs[lo + i]
    BY <2>1 DEF Done
  <2> HIDE DEF q, msg
  <2>5. CASE last >= 1
    <3>1. last \in 1..n /\ last > lo /\ Size(k) = last - lo - 1 /\ Size(k + 1) = last - lo /\ Size(k) \in Nat
      BY <1>0, <1>3, <2>1, <2>5
    <3>2. msg = logs[last] /\ msg \in Marks /\ msg # 0
      BY <1>30, <2>3, <2>5, <3>1 DEF Marks
    <3>3. data[k + 1] = Append(q, msg)
      BY <2>2, <3>2
    <3> DEFINE a == Append(q, msg)
               z == Size(k)
    <3>4. a \in Seq(Marks) /\ Len(a) = z + 1 /\ a[z + 1] = msg /\ \A i \in 1..z : a[i] = q[i]
      BY <2>4, <3>2
    <3>5. Size(k + 1) = z + 1 /\ lo + (z + 1) = last /\ z \in Nat
      BY <1>0, <1>3, <2>1, <3>1
    <3> HIDE DEF a, z, last
    <3>6. \A i \in 1..(z + 1) : i \in 1..z \/ i = z + 1
      BY <3>5
    <3>7. \A i \in 1..(z + 1) : a[i] = logs[lo + i]
      BY <2>4, <3>2, <3>4, <3>5, <3>6 DEF z
    <3> HIDE DEF Size
    <3> QED BY <3>3, <3>4, <3>5, <3>7 DEF Done, a
  <2>6. CASE ~(last >= 1)
    <3>1. Size(k) = 0 /\ Size(k + 1) = 0
      BY <1>0, <1>3, <2>1, <2>6
    <3>2. data[k + 1] = q
      BY <2>2, <2>3, <2>6
    <3> HIDE DEF Size
    <3> QED BY <2>4, <3>1, <3>2 DEF Done
  <2> QED BY <2>5, <2>6
<1> HIDE DEF T
<1>7. T = Nat
  BY <1>5, <1>6, NatSetInduction DEF T
<1>8. Done(R)
  BY <1>0, <1>7 DEF T
<1>9. Size(R) = n - lo
  BY <1>0, <1>3
<1> DEFINE want == SubSeq(logs, lo + 1, n)
<1>10. want \in Seq(Marks) /\ Len(want) = n - lo /\ \A i \in 1..(n - lo) : want[i] = logs[lo + i]
  <2>1. \A i \in (lo + 1)..n : logs[i] \in Marks
    BY <1>3, <1>30
  <2> QED BY <1>3, <2>1 DEF n
<1> HIDE DEF want, Size
<1>11. data[R] = want
  BY <1>3, <1>8, <1>9, <1>10
<1> QED BY <1>2, <1>11 DEF want, n, lo

\* No step disturbs what the rings hold.
LEMMA RingStep ==
  ASSUME RingInv, [RecentNext]_recentVars
  PROVE  RingInv'
<1>1. CASE UNCHANGED <<dump, emitted, took>>
  BY <1>1 DEF RingInv
<1>2. ASSUME NEW d \in Dopplers, TakeLog(d) PROVE RingInv'
  <2> DEFINE sink == IF dump[d].run = "none" THEN NewDumpSink ELSE dump[d]
             logs == IF dump[d].run = "none" THEN <<>> ELSE took[d]
             msg == emitted.logs + 1
  <2>1. emitted' = [emitted EXCEPT !.logs = emitted.logs + 1] /\ msg \in Marks
    BY <1>2 DEF TakeLog, RingInv, Marks
  <2>2. /\ emitted'.logs \in Nat
        /\ emitted' = [logs |-> emitted'.logs, metrics |-> emitted'.metrics, load |-> emitted'.load]
    BY <2>1 DEF RingInv
  <2>3. CASE sink.run = "ended"
    <3>1. UNCHANGED <<dump, took>>
      BY <1>2, <2>3 DEF TakeLog
    <3> QED BY <2>2, <3>1 DEF RingInv
  <2>4. CASE sink.run # "ended"
    <3>1. /\ dump' = [dump EXCEPT ![d] = addMsg(sink, msg)]
          /\ took' = [took EXCEPT ![d] = Append(logs, msg)]
      BY <1>2, <2>4 DEF TakeLog
    <3>2. logs \in Seq(Marks) /\ RingHas(sink, logs)
      BY NewRing DEF RingInv
    <3> HIDE DEF sink, logs, msg
    <3>3. RingHas(addMsg(sink, msg), Append(logs, msg)) /\ Append(logs, msg) \in Seq(Marks)
      BY <2>1, <3>2, AddedToRing
    <3>4. dump' = [e \in Dopplers |-> dump'[e]] /\ took' \in [Dopplers -> Seq(Marks)]
      BY <3>1, <3>3 DEF RingInv
    <3>5. ASSUME NEW e \in Dopplers, dump'[e].run # "none" PROVE RingHas(dump'[e], took'[e])
      <4>1. CASE e = d
        <5>1. dump'[e] = addMsg(sink, msg) /\ took'[e] = Append(logs, msg)
          BY <3>1, <4>1 DEF RingInv
        <5> QED BY <3>3, <5>1
      <4>2. CASE e # d
        <5>1. dump'[e] = dump[e] /\ took'[e] = took[e]
          BY <3>1, <4>2 DEF RingInv
        <5> QED BY <3>5, <5>1 DEF RingInv
      <4> QED BY <4>1, <4>2
    <3>6. \A e \in Dopplers : dump'[e].run # "none" => RingHas(dump[e], took[e])'
      BY <3>5 DEF RingHas
    <3> QED BY <2>2, <3>4, <3>6 DEF RingInv
  <2> QED BY <2>3, <2>4
<1>3. ASSUME NEW d \in Dopplers, NEW v, dump' = [dump EXCEPT ![d] = v], UNCHANGED <<emitted, took>>,
             v.run # "none" => RingHas(v, took[d])
      PROVE  RingInv'
  <2>1. dump' = [e \in Dopplers |-> dump'[e]]
    BY <1>3 DEF RingInv
  <2>2. ASSUME NEW e \in Dopplers, dump'[e].run # "none" PROVE RingHas(dump'[e], took[e])
    <3>1. CASE e = d
      <4>1. dump'[e] = v
        BY <1>3, <3>1 DEF RingInv
      <4> QED BY <1>3, <2>2, <3>1, <4>1
    <3>2. CASE e # d
      <4>1. dump'[e] = dump[e]
        BY <1>3, <3>2 DEF RingInv
      <4> QED BY <2>2, <4>1 DEF RingInv
    <3> QED BY <3>1, <3>2
  <2>3. \A e \in Dopplers : dump'[e].run # "none" => RingHas(dump[e], took[e])'
    BY <1>3, <2>2 DEF RingHas
  <2> QED BY <1>3, <2>1, <2>3 DEF RingInv
<1>4. ASSUME NEW d \in Dopplers, DumpSinkExpires(d) PROVE RingInv'
  <2> DEFINE v == [dump[d] EXCEPT !.run = "ended"]
  <2>1. dump' = [dump EXCEPT ![d] = v] /\ UNCHANGED <<emitted, took>> /\ RingHas(dump[d], took[d])
    BY <1>4 DEF DumpSinkExpires, RingInv
  <2>2. RingHas(v, took[d])
    <3>1. dump[d] = [run |-> dump[d].run, ring |-> dump[d].ring, at |-> dump[d].at]
      BY <2>1 DEF RingHas
    <3>2. v.ring = dump[d].ring /\ v.at = dump[d].at /\ v = [run |-> v.run, ring |-> v.ring, at |-> v.at]
      BY <3>1
    <3> HIDE DEF v
    <3> QED BY <2>1, <3>2 DEF RingHas
  <2> HIDE DEF v
  <2> QED BY <1>3, <2>1, <2>2
<1>5. ASSUME NEW d \in Dopplers, UnregisterEnded(d) PROVE RingInv'
  <2>1. CASE dump' = [dump EXCEPT ![d] = NoSink] /\ UNCHANGED <<emitted, took>>
    <3>1. NoSink.run = "none"
      BY DEF NoSink
    <3> QED BY <1>3, <2>1, <3>1
  <2>2. CASE UNCHANGED <<dump, emitted, took>>
    BY <1>1, <2>2
  <2> QED BY <1>5, <2>1, <2>2 DEF UnregisterEnded
<1>6. ASSUME NEW d \in Dopplers, TakeMetric(d) PROVE RingInv'
  <2>1. emitted' = [emitted EXCEPT !.metrics = emitted.metrics + 1] /\ UNCHANGED <<dump, took>>
    BY <1>6 DEF TakeMetric
  <2>2. /\ emitted'.logs \in Nat
        /\ emitted' = [logs |-> emitted'.logs, metrics |-> emitted'.metrics, load |-> emitted'.load]
    BY <2>1 DEF RingInv
  <2> QED BY <2>1, <2>2 DEF RingInv
<1>7. ASSUME NEW d \in Dopplers, MetricSinkExpires(d) \/ Answer(d) \/ AnswerFails(d) PROVE RingInv'
  <2>1. UNCHANGED <<dump, emitted, took>>
    BY <1>7 DEF MetricSinkExpires, Answer, AnswerFails
  <2> QED BY <1>1, <2>1
<1>8. CASE Tick \/ Ask \/ Serve \/ UNCHANGED recentVars
  <2>1. UNCHANGED <<dump, emitted, took>>
    BY <1>8 DEF Tick, Ask, Serve, recentVars
  <2> QED BY <1>1, <2>1
<1> QED BY <1>2, <1>4, <1>5, <1>6, <1>7, <1>8 DEF RecentNext

\* For a ring of any size and any number of logs: what Dump returns is exactly
\* the last RingSize logs the sink has taken, oldest first.
THEOREM RecentLogsCorrect == RecentSpec => []RecentLogsAreLast
<1>1. RecentInit => RingInv
  <2> SUFFICES ASSUME RecentInit PROVE RingInv
    OBVIOUS
  <2>1. emitted.logs \in Nat /\ emitted = [logs |-> emitted.logs, metrics |-> emitted.metrics, load |-> emitted.load]
    BY DEF RecentInit
  <2>2. dump = [d \in Dopplers |-> dump[d]] /\ \A d \in Dopplers : dump[d].run = "none"
    BY DEF RecentInit, NoSink
  <2>3. took \in [Dopplers -> Seq(Marks)]
    BY DEF RecentInit
  <2> QED BY <2>1, <2>2, <2>3 DEF RingInv
<1>2. RingInv => RecentLogsAreLast
  <2> SUFFICES ASSUME RingInv, NEW d \in Dopplers, dump[d].run # "none"
               PROVE  LET n == Len(took[d])
                      IN  Dump(dump[d]) = SubSeq(took[d], (IF n > RingSize THEN n - RingSize ELSE 0) + 1, n)
    BY DEF RecentLogsAreLast
  <2>1. RingHas(dump[d], took[d]) /\ took[d] \in Seq(Marks)
    BY DEF RingInv
  <2> QED BY <2>1, DumpIsLast
<1> QED BY <1>1, <1>2, RingStep, PTL DEF RecentSpec

(***************************************************************************)
(* Container metrics.  A sink has of each instance the newest metric it was *)
(* told of, unless that one is outdated: then it may have an older one, or  *)
(* none, because the newest was deleted and an older one came later.        *)
(***************************************************************************)
Metric == Instances \X Marks

IsTop(seen, top) == top \in seen /\ \A t \in seen : t <= top

LatestOf(m, seen) ==
  /\ seen = {} => m = 0
  /\ seen # {} => \E top : /\ IsTop(seen, top)
                           /\ m = top \/ (Outdated(top) /\ (m = 0 \/ m \in seen))

MetricSink(s) ==
  /\ s = [run |-> s.run, metrics |-> s.metrics, seen |-> s.seen]
  /\ s.metrics \in [Instances -> Nat] /\ s.seen \in [Instances -> SUBSET Marks]
  /\ \A i \in Instances : LatestOf(s.metrics[i], s.seen[i])

MetricsInv ==
  /\ now \in Nat
  /\ cms = [d \in Dopplers |-> cms[d]]
  /\ \A d \in Dopplers : cms[d].run # "none" => MetricSink(cms[d])

\* What is appended to the results is what the answering dopplers knew.
QueryInv ==
  query.pc = "asking" =>
    /\ query = [pc |-> query.pc, kind |-> query.kind, limit |-> query.limit, todo |-> query.todo,
                results |-> query.results, newest |-> query.newest]
    /\ query.kind # "logs" => query.results \in Seq(Metric) /\ ToSet(query.results) = query.newest

-----------------------------------------------------------------------------
\* The clock only moves forward.
LEMMA LatestStays ==
  ASSUME NEW m \in Nat, NEW seen \in SUBSET Marks, LatestOf(m, seen), now \in Nat, now' \in Nat, now <= now'
  PROVE  LatestOf(m, seen)'
<1>1. \A top \in Nat : Outdated(top) => Outdated(top)'
  BY RecentBoundsAssumption DEF Outdated
<1>2. CASE seen = {}
  BY <1>2 DEF LatestOf
<1>3. CASE seen # {}
  <2>1. PICK top : /\ IsTop(seen, top)
                   /\ m = top \/ (Outdated(top) /\ (m = 0 \/ m \in seen))
    BY <1>3 DEF LatestOf
  <2>2. top \in Nat
    BY <2>1 DEF IsTop, Marks
  <2>3. m = top \/ (Outdated(top)' /\ (m = 0 \/ m \in seen))
    BY <1>1, <2>1, <2>2
  <2> QED BY <1>3, <2>1, <2>3 DEF LatestOf
<1> QED BY <1>2, <1>3

\* updateMetric.
LEMMA LatestTold ==
  ASSUME NEW m \in Nat, NEW seen \in SUBSET Marks, LatestOf(m, seen), NEW ts \in Marks
  PROVE  LatestOf(IF m = 0 \/ m < ts THEN ts ELSE m, seen \cup {ts})
<1> DEFINE new == IF m = 0 \/ m < ts THEN ts ELSE m
           more == seen \cup {ts}
<1>0. ts \in Nat /\ \A t \in seen : t \in Nat /\ t > 0
  BY DEF Marks
<1>1. CASE seen = {}
  <2>1. IsTop(more, ts) /\ new = ts
    BY <1>0, <1>1 DEF LatestOf, IsTop
  <2> QED BY <2>1 DEF LatestOf
<1>2. CASE seen # {}
  <2>1. PICK top : /\ IsTop(seen, top)
                   /\ m = top \/ (Outdated(top) /\ (m = 0 \/ m \in seen))
    BY <1>2 DEF LatestOf
  <2>2. top \in Nat /\ m <= top
    BY <1>0, <2>1 DEF IsTop
  <2>3. CASE ts >= top
    <3>1. IsTop(more, ts)
      BY <1>0, <2>1, <2>2, <2>3 DEF IsTop
    <3>2. new = ts
      BY <1>0, <2>2, <2>3
    <3> QED BY <3>1, <3>2 DEF LatestOf
  <2>4. CASE ~(ts >= top)
    <3>1. IsTop(more, top)
      BY <1>0, <2>1, <2>2, <2>4 DEF IsTop
    <3>2. new = top \/ (Outdated(top) /\ new \in more)
      BY <1>0, <2>1, <2>2, <2>4
    <3> QED BY <3>1, <3>2 DEF LatestOf
  <2> QED BY <2>3, <2>4
<1> QED BY <1>1, <1>2

\* GetLatest deletes what is outdated.
LEMMA LatestCleaned ==
  ASSUME NEW m \in Nat, NEW seen \in SUBSET Marks, LatestOf(m, seen), now \in Nat
  PROVE  LatestOf(IF Outdated(m) THEN 0 ELSE m, seen)
<1> DEFINE new == IF Outdated(m) THEN 0 ELSE m
<1>1. CASE seen = {}
  BY <1>1 DEF LatestOf
<1>2. CASE seen # {}
  <2>1. PICK top : /\ IsTop(seen, top)
                   /\ m = top \/ (Outdated(top) /\ (m = 0 \/ m \in seen))
    BY <1>2 DEF LatestOf
  <2>2. new = top \/ (Outdated(top) /\ (new = 0 \/ new \in seen))
    BY <2>1
  <2> HIDE DEF new
  <2>3. LatestOf(new, seen)
    BY <1>2, <2>1, <2>2 DEF LatestOf
  <2> QED BY <2>3 DEF new
<1> QED BY <1>1, <1>2

\* What GetLatest returns of an instance is the newest one it was told of, if
\* that is not outdated, and nothing otherwise.
LEMMA LatestIsMax ==
  ASSUME NEW m \in Nat, NEW seen \in SUBSET Marks, LatestOf(m, seen), now \in Nat
  PROVE  /\ (~Outdated(m) /\ m # 0) <=> (seen # {} /\ ~Outdated(Max(seen)))
         /\ ~Outdated(m) /\ m # 0 => m = Max(seen)
<1>1. CASE seen = {}
  BY <1>1 DEF LatestOf
<1>2. CASE seen # {}
  <2>1. PICK top : /\ IsTop(seen, top)
                   /\ m = top \/ (Outdated(top) /\ (m = 0 \/ m \in seen))
    BY <1>2 DEF LatestOf
  <2>2. top \in Nat /\ top # 0 /\ \A t \in seen : t \in Nat
    BY <2>1 DEF IsTop, Marks
  <2>3. Max(seen) = top
    <3>1. top \in seen /\ \A y \in seen : top >= y
      BY <2>1, <2>2 DEF IsTop
    <3>2. Max(seen) \in seen /\ \A y \in seen : Max(seen) >= y
      BY <3>1 DEF Max
    <3> DEFINE x == Max(seen)
    <3> HIDE DEF x
    <3>3. x \in Nat /\ x >= top /\ top >= x
      BY <2>2, <3>1, <3>2 DEF x
    <3>4. x = top
      BY <2>2, <3>3
    <3> QED BY <3>4 DEF x
  <2>4. m <= top
    BY <2>1, <2>2 DEF IsTop
  <2>5. Outdated(top) => Outdated(m)
    BY <2>2, <2>4, RecentBoundsAssumption DEF Outdated
  <2> QED BY <1>2, <2>1, <2>2, <2>3, <2>5
<1> QED BY <1>1, <1>2

\* There are finitely many instances.
LEMMA PairsFinite ==
  ASSUME NEW T \in SUBSET Instances, NEW m
  PROVE  IsFiniteSet({<<i, m[i]>> : i \in T})
<1> DEFINE S == {<<i, m[i]>> : i \in T}
           f == [i \in T |-> <<i, m[i]>>]
<1>1. IsFiniteSet(T)
  BY FS_Subset, RecentBoundsAssumption
<1>2. f \in [T -> S] /\ \A t \in S : \E i \in T : f[i] = t
  OBVIOUS
<1> HIDE DEF f, S
<1>3. f \in Surjection(T, S)
  BY <1>2 DEF Surjection
<1>4. IsFiniteSet(S)
  BY <1>1, <1>3, FS_Surjection
<1> QED BY <1>4 DEF S

\* A doppler's answer is what its sink was told of last and is not outdated.
LEMMA AnswerIsNewest ==
  ASSUME MetricsInv, NEW d \in Dopplers
  PROVE  LatestContainerMetrics(d) = Newest(d) /\ Newest(d) \subseteq Metric /\ IsFiniteSet(Newest(d))
<1>1. CASE cms[d].run = "none"
  BY <1>1, FS_EmptySet DEF LatestContainerMetrics, Newest
<1>2. CASE cms[d].run # "none"
  <2> DEFINE s == cms[d]
             A == {j \in Instances : Kept(s).metrics[j] # 0}
             B == {j \in Instances : s.seen[j] # {} /\ ~Outdated(Max(s.seen[j]))}
             m == s.metrics
             S == {<<i, m[i]>> : i \in A}
  <2>1. MetricSink(s) /\ now \in Nat
    BY <1>2 DEF MetricsInv
  <2>2. Kept(s).metrics = [i \in Instances |-> IF Outdated(m[i]) THEN 0 ELSE m[i]]
    BY <2>1 DEF Kept, MetricSink
  <2>3. LatestContainerMetrics(d) = S
    BY <1>2 DEF LatestContainerMetrics, GetLatest
  <2>4. Newest(d) = {<<i, Max(s.seen[i])>> : i \in B}
    BY <1>2 DEF Newest
  <2>40. m \in [Instances -> Nat] /\ s.seen \in [Instances -> SUBSET Marks]
         /\ \A i \in Instances : LatestOf(m[i], s.seen[i])
    BY <2>1 DEF MetricSink
  <2> HIDE DEF m, s
  <2>5. \A j \in Instances : /\ j \in A <=> (~Outdated(m[j]) /\ m[j] # 0)
                             /\ j \in A <=> j \in B
                             /\ j \in A => m[j] = Max(s.seen[j])
    <3> SUFFICES ASSUME NEW j \in Instances
                 PROVE  /\ j \in A <=> (~Outdated(m[j]) /\ m[j] # 0)
                        /\ j \in A <=> j \in B
                        /\ j \in A => m[j] = Max(s.seen[j])
      OBVIOUS
    <3>1. j \in A <=> (~Outdated(m[j]) /\ m[j] # 0)
      BY <2>2
    <3>2. /\ (~Outdated(m[j]) /\ m[j] # 0) <=> (s.seen[j] # {} /\ ~Outdated(Max(s.seen[j])))
          /\ ~Outdated(m[j]) /\ m[j] # 0 => m[j] = Max(s.seen[j])
      <4>1. m[j] \in Nat /\ s.seen[j] \in SUBSET Marks /\ LatestOf(m[j], s.seen[j])
        BY <2>40
      <4> QED BY <2>1, <4>1, LatestIsMax
    <3> QED BY <3>1, <3>2
  <2>6. A = B
    BY <2>5
  <2>7. S = Newest(d)
    BY <2>4, <2>5, <2>6
  <2>8. S \subseteq Metric
    BY <2>5, <2>40 DEF Metric, Marks
  <2>9. IsFiniteSet(S)
    BY A \in SUBSET Instances, PairsFinite
  <2> QED BY <2>3, <2>7, <2>8, <2>9
<1> QED BY <1>1, <1>2

\* A metric sink is given a metric.
LEMMA SinkTold ==
  ASSUME NEW s, MetricSink(s), NEW i \in Instances, NEW ts \in Marks
  PROVE  MetricSink(updateMetric(s, i, ts)) /\ updateMetric(s, i, ts).run = s.run
<1> DEFINE m == s.metrics
           b == s.seen
           v == IF m[i] = 0 \/ m[i] < ts THEN ts ELSE m[i]
           new == updateMetric(s, i, ts)
<1>1. /\ s = [run |-> s.run, metrics |-> m, seen |-> b]
      /\ m \in [Instances -> Nat] /\ b \in [Instances -> SUBSET Marks]
      /\ \A j \in Instances : LatestOf(m[j], b[j])
  BY DEF MetricSink
<1>2. new = [[s EXCEPT !.metrics[i] = v] EXCEPT !.seen[i] = b[i] \cup {ts}]
  BY <1>1 DEF updateMetric
<1> HIDE DEF m, b, v, new
<1>3. [s EXCEPT !.metrics[i] = v] = [run |-> s.run, metrics |-> [m EXCEPT ![i] = v], seen |-> b]
  BY <1>1
<1>4. new = [run |-> s.run, metrics |-> [m EXCEPT ![i] = v], seen |-> [b EXCEPT ![i] = b[i] \cup {ts}]]
  BY <1>2, <1>3
<1>5. /\ new.run = s.run
      /\ new.metrics = [m EXCEPT ![i] = v] /\ new.seen = [b EXCEPT ![i] = b[i] \cup {ts}]
      /\ new = [run |-> new.run, metrics |-> new.metrics, seen |-> new.seen]
  BY <1>4
<1>6. v \in Nat /\ b[i] \cup {ts} \in SUBSET Marks
  BY <1>1 DEF v, Marks
<1>7. new.metrics \in [Instances -> Nat] /\ new.seen \in [Instances -> SUBSET Marks]
  BY <1>1, <1>5, <1>6
<1>8. ASSUME NEW j \in Instances PROVE LatestOf(new.metrics[j], new.seen[j])
  <2>1. CASE j = i
    <3>1. new.metrics[j] = v /\ new.seen[j] = b[i] \cup {ts}
      BY <1>1, <1>5, <2>1
    <3>2. m[i] \in Nat /\ b[i] \in SUBSET Marks /\ LatestOf(m[i], b[i])
      BY <1>1
    <3>3. LatestOf(v, b[i] \cup {ts})
      BY <3>2, LatestTold DEF v
    <3> QED BY <3>1, <3>3
  <2>2. CASE j # i
    <3>1. new.metrics[j] = m[j] /\ new.seen[j] = b[j]
      BY <1>1, <1>5, <2>2
    <3> QED BY <1>1, <3>1
  <2> QED BY <2>1, <2>2
<1>9. MetricSink(new)
  BY <1>5, <1>7, <1>8 DEF MetricSink
<1> QED BY <1>5, <1>9 DEF new

\* Outdated metrics are deleted.
LEMMA SinkCleaned ==
  ASSUME NEW s, MetricSink(s), now \in Nat
  PROVE  MetricSink(Kept(s)) /\ Kept(s).run = s.run
<1> DEFINE m == s.metrics
           new == Kept(s)
           k == [i \in Instances |-> IF Outdated(m[i]) THEN 0 ELSE m[i]]
<1>1. /\ s = [run |-> s.run, metrics |-> m, seen |-> s.seen]
      /\ m \in [Instances -> Nat] /\ s.seen \in [Instances -> SUBSET Marks]
      /\ \A j \in Instances : LatestOf(m[j], s.seen[j])
  BY DEF MetricSink
<1>2. new = [s EXCEPT !.metrics = k]
  BY DEF Kept
<1>3. k \in [Instances -> Nat]
  BY <1>1
<1>4. \A j \in Instances : LatestOf(k[j], s.seen[j])
  BY <1>1, LatestCleaned
<1> HIDE DEF m, new, k
<1>5. /\ new.run = s.run /\ new.metrics = k /\ new.seen = s.seen
      /\ new = [run |-> new.run, metrics |-> new.metrics, seen |-> new.seen]
  BY <1>1, <1>2
<1>6. MetricSink(new)
  BY <1>1, <1>3, <1>4, <1>5 DEF MetricSink
<1> QED BY <1>5, <1>6 DEF new

\* A new metric sink knows nothing.
LEMMA NewSink == MetricSink(NewContainerMetricSink) /\ NewContainerMetricSink.run = "running"
BY DEF MetricSink, NewContainerMetricSink, LatestOf

\* No step disturbs what the metric sinks keep.
LEMMA MetricsStep ==
  ASSUME MetricsInv, [RecentNext]_recentVars
  PROVE  MetricsInv'
<1>1. CASE UNCHANGED <<now, cms>>
  BY <1>1 DEF MetricsInv, MetricSink, LatestOf, Outdated
<1>2. ASSUME NEW d \in Dopplers, NEW v, cms' = [cms EXCEPT ![d] = v], now' = now,
             v.run # "none" => MetricSink(v)
      PROVE  MetricsInv'
  <2>1. cms' = [e \in Dopplers |-> cms'[e]]
    BY <1>2 DEF MetricsInv
  <2>2. ASSUME NEW e \in Dopplers, cms'[e].run # "none" PROVE MetricSink(cms'[e])
    <3>1. cms'[e] = IF e = d THEN v ELSE cms[e]
      BY <1>2 DEF MetricsInv
    <3>2. CASE e = d
      BY <1>2, <2>2, <3>1, <3>2
    <3>3. CASE e # d
      <4>1. cms'[e] = cms[e]
        BY <3>1, <3>3
      <4> QED BY <2>2, <4>1 DEF MetricsInv
    <3> QED BY <3>2, <3>3
  <2>3. \A e \in Dopplers : cms'[e].run # "none" => MetricSink(cms[e])'
    BY <1>2, <2>2 DEF MetricSink, LatestOf, Outdated
  <2> QED BY <1>2, <2>1, <2>3 DEF MetricsInv
<1>3. CASE Tick
  <2>1. now' = now + 1 /\ now \in Nat /\ cms' = cms
    BY <1>3 DEF Tick, MetricsInv
  <2>2. ASSUME NEW e \in Dopplers, cms[e].run # "none" PROVE MetricSink(cms[e])'
    <3> DEFINE s == cms[e]
    <3>1. /\ s = [run |-> s.run, metrics |-> s.metrics, seen |-> s.seen]
          /\ s.metrics \in [Instances -> Nat] /\ s.seen \in [Instances -> SUBSET Marks]
          /\ \A j \in Instances : LatestOf(s.metrics[j], s.seen[j])
      BY <2>2 DEF MetricsInv, MetricSink
    <3>2. s' = s
      BY <2>1
    <3>3. ASSUME NEW j \in Instances PROVE LatestOf(s.metrics[j], s.seen[j])'
      <4> DEFINE x == cms[e].metrics[j]
                 y == cms[e].seen[j]
      <4>1. x \in Nat /\ y \in SUBSET Marks /\ LatestOf(x, y)
        BY <3>1
      <4>2. now' \in Nat /\ now <= now'
        BY <2>1
      <4>3. x' = x /\ y' = y
        BY <2>1
      <4>4. ASSUME NEW p \in Nat, NEW q \in SUBSET Marks, LatestOf(p, q) PROVE LatestOf(p, q)'
        BY <2>1, <4>2, <4>4, LatestStays
      <4>5. x = x' /\ y = y' /\ (\A p \in Nat, q \in SUBSET Marks : LatestOf(p, q) => LatestOf(p, q)')
        BY <4>3, <4>4
      <4> HIDE DEF x, y
      <4>6. LatestOf(x, y)'
        BY <4>1, <4>5 DEF LatestOf, IsTop, Outdated
      <4> QED BY <4>6 DEF x, y
    <3> QED BY <2>1, <3>1, <3>3 DEF MetricSink
  <2>3. cms' = [e \in Dopplers |-> cms'[e]] /\ now' \in Nat
    BY <2>1 DEF MetricsInv
  <2>4. \A e \in Dopplers : cms'[e].run # "none" => MetricSink(cms[e])'
    BY <2>1, <2>2
  <2> QED BY <2>3, <2>4 DEF MetricsInv
<1>4. ASSUME NEW d \in Dopplers, TakeMetric(d) PROVE MetricsInv'
  <2> DEFINE sink == IF cms[d].run = "none" THEN NewContainerMetricSink ELSE cms[d]
  <2>1. PICK i \in Instances, ts \in 1..now :
          cms' = [cms EXCEPT ![d] = IF sink.run = "ended" THEN cms[d] ELSE updateMetric(sink, i, ts)]
    BY <1>4 DEF TakeMetric
  <2>2. MetricSink(sink) /\ sink.run # "none"
    BY NewSink DEF MetricsInv
  <2>3. now' = now /\ ts \in Marks
    BY <1>4 DEF TakeMetric, MetricsInv, Marks
  <2>4. sink.run = "ended" => sink = cms[d]
    BY NewSink
  <2> HIDE DEF sink
  <2>5. MetricSink(updateMetric(sink, i, ts))
    BY <2>2, <2>3, SinkTold
  <2> DEFINE v == IF sink.run = "ended" THEN cms[d] ELSE updateMetric(sink, i, ts)
  <2>6. MetricSink(v) /\ cms' = [cms EXCEPT ![d] = v]
    BY <2>1, <2>2, <2>4, <2>5
  <2> HIDE DEF v
  <2> QED BY <1>2, <2>3, <2>6
<1>5. ASSUME NEW d \in Dopplers, MetricSinkExpires(d) PROVE MetricsInv'
  <2> DEFINE v == [cms[d] EXCEPT !.run = "ended"]
  <2>1. cms' = [cms EXCEPT ![d] = v] /\ now' = now /\ MetricSink(cms[d])
    BY <1>5 DEF MetricSinkExpires, MetricsInv
  <2>2. cms[d] = [run |-> cms[d].run, metrics |-> cms[d].metrics, seen |-> cms[d].seen]
    BY <2>1 DEF MetricSink
  <2>3. /\ v.metrics = cms[d].metrics /\ v.seen = cms[d].seen
        /\ v = [run |-> v.run, metrics |-> v.metrics, seen |-> v.seen]
    BY <2>2
  <2> HIDE DEF v
  <2>4. MetricSink(v)
    BY <2>1, <2>3 DEF MetricSink
  <2> QED BY <1>2, <2>1, <2>4
<1>6. ASSUME NEW d \in Dopplers, UnregisterEnded(d) PROVE MetricsInv'
  <2>1. CASE cms' = [cms EXCEPT ![d] = NoSink] /\ now' = now
    <3>1. NoSink.run = "none"
      BY DEF NoSink
    <3> QED BY <1>2, <2>1, <3>1
  <2>2. CASE UNCHANGED <<now, cms>>
    BY <1>1, <2>2
  <2> QED BY <1>6, <2>1, <2>2 DEF UnregisterEnded
<1>7. ASSUME NEW d \in Dopplers, Answer(d) PROVE MetricsInv'
  <2>1. CASE UNCHANGED <<now, cms>>
    BY <1>1, <2>1
  <2>2. CASE cms' = [cms EXCEPT ![d] = IF cms[d].run = "none" THEN cms[d] ELSE Kept(cms[d])] /\ now' = now
    <3> DEFINE v == IF cms[d].run = "none" THEN cms[d] ELSE Kept(cms[d])
    <3>1. cms[d].run # "none" => MetricSink(Kept(cms[d]))
      BY SinkCleaned DEF MetricsInv
    <3>2. cms' = [cms EXCEPT ![d] = v] /\ (v.run # "none" => MetricSink(v))
      BY <2>2, <3>1
    <3> HIDE DEF v
    <3> QED BY <1>2, <2>2, <3>2
  <2> QED BY <1>7, <2>1, <2>2 DEF Answer
<1>8. ASSUME NEW d \in Dopplers, TakeLog(d) \/ DumpSinkExpires(d) \/ AnswerFails(d) PROVE MetricsInv'
  <2>1. UNCHANGED <<now, cms>>
    BY <1>8 DEF TakeLog, DumpSinkExpires, AnswerFails
  <2> QED BY <1>1, <2>1
<1>9. CASE Ask \/ Serve \/ UNCHANGED recentVars
  <2>1. UNCHANGED <<now, cms>>
    BY <1>9 DEF Ask, Serve, recentVars
  <2> QED BY <1>1, <2>1
<1> QED BY <1>3, <1>4, <1>5, <1>6, <1>7, <1>8, <1>9 DEF RecentNext

-----------------------------------------------------------------------------
\* A set's elements in some order.
LEMMA InSomeOrder ==
  ASSUME NEW S, IsFiniteSet(S), NEW q \in SetToSeqs(S)
  PROVE  q \in Seq(S) /\ ToSet(q) = S /\ Len(q) = Cardinality(S)
<1> DEFINE n == Cardinality(S)
<1>1. n \in Nat
  BY FS_CardinalityType
<1>2. q \in [1..n -> S] /\ \A i, j \in 1..n : i # j => q[i] # q[j]
  BY DEF SetToSeqs
<1>3. IsFiniteSet(1..n) /\ Cardinality(1..n) = n
  <2>1. 1 \in Int /\ n \in Int
    BY <1>1
  <2>2. Cardinality(1..n) = IF 1 > n THEN 0 ELSE n - 1 + 1
    BY <2>1, FS_Interval
  <2> HIDE DEF n
  <2>3. Cardinality(1..n) = n
    BY <1>1, <2>2
  <2> QED BY <2>1, <2>3, FS_Interval
<1> HIDE DEF n
<1>4. q \in Injection(1..n, S)
  BY <1>2 DEF Injection, IsInjective
<1>5. q \in Surjection(1..n, S)
  BY <1>3, <1>4, FS_Injection DEF n
<1>6. q \in Seq(S) /\ Len(q) = n /\ DOMAIN q = 1..n
  BY <1>1, <1>2
<1>7. \A t \in S : \E i \in 1..n : q[i] = t
  BY <1>5 DEF Surjection
<1>8. ToSet(q) = S
  BY <1>2, <1>6, <1>7 DEF ToSet
<1> QED BY <1>6, <1>8 DEF n

\* One turn of deDupe's loop.
Keep(f, answers, n) ==
  IF n = 0 THEN [i \in Instances |-> 0]
  ELSE LET m == f[n - 1]
           e == answers[n]
       IN  IF m[e[1]] = 0 \/ m[e[1]] < e[2] THEN [m EXCEPT ![e[1]] = e[2]] ELSE m

\* The loop comes to an end.
LEMMA DeDupeEnds ==
  ASSUME NEW answers
  PROVE  \A m \in Nat : \E f : f = [k \in 0..m |-> Keep(f, answers, k)]
<1> DEFINE T == {m \in Nat : \E f : f = [k \in 0..m |-> Keep(f, answers, k)]}
<1>1. 0 \in T
  <2> DEFINE f == [k \in 0..0 |-> [i \in Instances |-> 0]]
  <2>1. f = [k \in 0..0 |-> Keep(f, answers, k)]
    BY DEF Keep
  <2> QED BY <2>1
<1>2. ASSUME NEW m \in T PROVE m + 1 \in T
  <2>1. PICK f : f = [k \in 0..m |-> Keep(f, answers, k)]
    OBVIOUS
  <2> DEFINE g == [k \in 0..(m + 1) |-> IF k = m + 1 THEN Keep(f, answers, k) ELSE f[k]]
  <2>2. ASSUME NEW k \in 0..(m + 1) PROVE g[k] = Keep(g, answers, k)
    <3>1. CASE k = 0
      BY <2>1, <3>1 DEF Keep
    <3>2. CASE k # 0
      <4>1. k - 1 \in 0..m /\ k - 1 \in 0..(m + 1) /\ k - 1 # m + 1
        BY <3>2
      <4>2. g[k - 1] = f[k - 1]
        BY <4>1
      <4>3. Keep(f, answers, k) = Keep(g, answers, k)
        BY <4>2 DEF Keep
      <4>4. k # m + 1 => f[k] = Keep(f, answers, k)
        BY <2>1
      <4> QED BY <4>3, <4>4
    <3> QED BY <3>1, <3>2
  <2>3. g = [k \in 0..(m + 1) |-> Keep(g, answers, k)]
    BY <2>2
  <2> HIDE DEF g
  <2> QED BY <2>3
<1> HIDE DEF T
<1>3. T = Nat
  BY <1>1, <1>2, NatSetInduction DEF T
<1> QED BY <1>3 DEF T

\* The newest of each instance.
Best(S) == {e \in S : \A f \in S : f[1] = e[1] => f[2] <= e[2]}

\* deDupe keeps them, and nothing else.
LEMMA DeDupeKeepsNewest ==
  ASSUME NEW answers \in Seq(Metric)
  PROVE  deDupe(answers) = Best(ToSet(answers)) /\ IsFiniteSet(deDupe(answers))
<1> DEFINE L == Len(answers)
           ms == CHOOSE f : f = [k \in 0..L |-> Keep(f, answers, k)]
           latest == ms[L]
           Done(n) == /\ ms[n] \in [Instances -> Nat]
                      /\ \A k \in 1..n : answers[k][2] <= ms[n][answers[k][1]]
                      /\ \A i \in Instances : ms[n][i] # 0 => \E k \in 1..n : answers[k] = <<i, ms[n][i]>>
           T == {n \in Nat : n <= L => Done(n)}
<1>1. ms = [k \in 0..L |-> Keep(ms, answers, k)] /\ L \in Nat
  BY DeDupeEnds, L \in Nat
<1>2. deDupe(answers) = {<<i, latest[i]>> : i \in {j \in Instances : latest[j] # 0}}
  BY DEF deDupe, Keep
<1>3. \A k \in 1..L : /\ answers[k] \in Metric /\ answers[k][1] \in Instances /\ answers[k][2] \in Nat \ {0}
                      /\ answers[k] = <<answers[k][1], answers[k][2]>>
  BY DEF Metric, Marks
<1>30. ToSet(answers) = {answers[k] : k \in 1..L}
  BY DEF ToSet
<1> HIDE DEF ms, L
<1>4. 0 \in T
  <2>1. ms[0] = [i \in Instances |-> 0]
    BY <1>1 DEF Keep
  <2>2. Done(0)
    BY <2>1
  <2> HIDE DEF Done
  <2> QED BY <2>2
<1> HIDE DEF Done
<1>5. ASSUME NEW n \in T PROVE n + 1 \in T
  <2> SUFFICES ASSUME n + 1 <= L PROVE Done(n + 1)
    OBVIOUS
  <2>1. n \in Nat /\ n + 1 \in 1..L /\ n + 1 \in 0..L /\ n + 1 # 0 /\ (n + 1) - 1 = n /\ Done(n)
    BY <1>1
  <2> HIDE DEF T
  <2> DEFINE m == ms[n]
             e == answers[n + 1]
             i == e[1]
             t == e[2]
             new == ms[n + 1]
  <2>2. new = IF m[i] = 0 \/ m[i] < t THEN [m EXCEPT ![i] = t] ELSE m
    BY <1>1, <2>1 DEF Keep
  <2>3. e = <<i, t>> /\ i \in Instances /\ t \in Nat \ {0}
    BY <1>3, <2>1
  <2>4. /\ m \in [Instances -> Nat]
        /\ \A k \in 1..n : answers[k][2] <= m[answers[k][1]]
        /\ \A j \in Instances : m[j] # 0 => \E k \in 1..n : answers[k] = <<j, m[j]>>
    BY <2>1 DEF Done
  <2>5. \A k \in 1..n : k \in 1..L /\ k \in 1..(n + 1)
    BY <1>1, <2>1
  <2>6. \A k \in 1..(n + 1) : k \in 1..n \/ k = n + 1
    BY <2>1
  <2>7. n + 1 \in 1..(n + 1)
    BY <2>1
  <2> HIDE DEF m, e, i, t, new
  <2>8. new \in [Instances -> Nat] /\ new[i] >= t /\ \A j \in Instances : new[j] >= m[j]
    BY <2>2, <2>3, <2>4
  <2>9. ASSUME NEW k \in 1..(n + 1) PROVE answers[k][2] <= new[answers[k][1]]
    <3>1. CASE k = n + 1
      <4>1. answers[k][2] = t /\ answers[k][1] = i
        BY <3>1 DEF i, t, e
      <4> QED BY <2>3, <2>8, <4>1
    <3>2. CASE k \in 1..n
      <4>1. answers[k][1] \in Instances /\ answers[k][2] \in Nat
        BY <1>3, <2>5, <3>2
      <4>2. answers[k][2] <= m[answers[k][1]]
        BY <2>4, <3>2
      <4>3. m[answers[k][1]] <= new[answers[k][1]] /\ m[answers[k][1]] \in Nat /\ new[answers[k][1]] \in Nat
        BY <2>4, <2>8, <4>1
      <4> QED BY <4>1, <4>2, <4>3
    <3> QED BY <2>6, <3>1, <3>2
  <2>10. ASSUME NEW j \in Instances, new[j] # 0 PROVE \E k \in 1..(n + 1) : answers[k] = <<j, new[j]>>
    <3>1. CASE new[j] = m[j]
      <4>1. PICK k \in 1..n : answers[k] = <<j, m[j]>>
        BY <2>4, <2>10, <3>1
      <4> QED BY <2>5, <3>1, <4>1
    <3>2. CASE new[j] # m[j]
      <4>1. j = i /\ new[j] = t
        BY <2>2, <2>3, <2>4, <3>2
      <4> QED BY <2>3, <2>7, <4>1 DEF e
    <3> QED BY <3>1, <3>2
  <2> QED BY <2>8, <2>9, <2>10 DEF Done, new
<1> HIDE DEF T
<1>6. T = Nat
  BY <1>4, <1>5, NatSetInduction DEF T
<1>7. Done(L)
  BY <1>1, <1>6 DEF T
<1>8. /\ latest \in [Instances -> Nat]
      /\ \A k \in 1..L : answers[k][2] <= latest[answers[k][1]]
      /\ \A i \in Instances : latest[i] # 0 => \E k \in 1..L : answers[k] = <<i, latest[i]>>
  BY <1>7 DEF Done
<1> HIDE DEF latest
<1> DEFINE S == ToSet(answers)
<1>9. \A f \in S : f[1] \in Instances /\ f[2] \in Nat \ {0} /\ f[2] <= latest[f[1]] /\ f = <<f[1], f[2]>>
  BY <1>3, <1>8, <1>30
<1>10. \A i \in Instances : latest[i] # 0 => <<i, latest[i]>> \in S
  BY <1>8, <1>30
<1> HIDE DEF S
<1>11. ASSUME NEW i \in Instances, latest[i] # 0 PROVE <<i, latest[i]>> \in Best(S)
  <2> DEFINE x == <<i, latest[i]>>
  <2>1. x \in S /\ x[1] = i /\ x[2] = latest[i]
    BY <1>10, <1>11
  <2>2. \A f \in S : f[1] = i => f[2] <= latest[i]
    BY <1>9
  <2> HIDE DEF x
  <2>3. x \in Best(S)
    BY <2>1, <2>2 DEF Best
  <2> QED BY <2>3 DEF x
<1>12. ASSUME NEW x \in Best(S) PROVE x[1] \in Instances /\ latest[x[1]] # 0 /\ x = <<x[1], latest[x[1]]>>
  <2> DEFINE i == x[1]
             y == <<i, latest[i]>>
  <2>1. /\ x \in S /\ i \in Instances /\ x[2] \in Nat \ {0} /\ x[2] <= latest[i] /\ x = <<i, x[2]>>
        /\ \A f \in S : f[1] = i => f[2] <= x[2]
    BY <1>9 DEF Best
  <2> HIDE DEF i
  <2>2. latest[i] # 0 /\ latest[i] \in Nat
    BY <1>8, <2>1
  <2>3. y \in S /\ y[1] = i /\ y[2] = latest[i]
    BY <1>10, <2>1, <2>2
  <2>4. latest[i] <= x[2]
    BY <2>1, <2>3
  <2>5. x[2] = latest[i]
    BY <2>1, <2>2, <2>4
  <2> QED BY <2>1, <2>2, <2>5 DEF i
<1>13. deDupe(answers) = Best(S)
  BY <1>2, <1>11, <1>12
<1>14. IsFiniteSet(deDupe(answers))
  <2> DEFINE U == {j \in Instances : latest[j] # 0}
  <2>1. U \in SUBSET Instances
    OBVIOUS
  <2> HIDE DEF U
  <2>2. IsFiniteSet({<<i, latest[i]>> : i \in U})
    BY <2>1, PairsFinite
  <2> QED BY <1>2, <2>2 DEF U
<1> QED BY <1>13, <1>14 DEF S

-----------------------------------------------------------------------------
\* No results yet.
LEMMA EmptyResult ==
  ASSUME NEW S
  PROVE  <<>> \in Seq(S) /\ ToSet(<<>>) = {}
<1>1. <<>> \in Seq(S) /\ DOMAIN <<>> = {}
  OBVIOUS
<1> QED BY <1>1 DEF ToSet

\* Every step of a query, and none of the others disturbs it.
LEMMA QueryStep ==
  ASSUME MetricsInv, QueryInv, NewestMetrics, [RecentNext]_recentVars
  PROVE  QueryInv' /\ NewestMetrics'
<1>1. CASE UNCHANGED query
  BY <1>1 DEF QueryInv, NewestMetrics
<1>2. CASE Ask
  <2>1. PICK kind \in {"logs", "metrics", "rlp metrics"}, limit \in Limits :
          query' = [pc |-> "asking", kind |-> kind, limit |-> limit, todo |-> Dopplers,
                    results |-> <<>>, newest |-> {}]
    BY <1>2 DEF Ask
  <2>2. /\ query'.pc = "asking" /\ query'.results = <<>> /\ query'.newest = {}
        /\ query' = [pc |-> query'.pc, kind |-> query'.kind, limit |-> query'.limit, todo |-> query'.todo,
                     results |-> query'.results, newest |-> query'.newest]
    BY <2>1
  <2>3. <<>> \in Seq(Metric) /\ ToSet(<<>>) = {}
    BY EmptyResult
  <2> QED BY <2>2, <2>3 DEF QueryInv, NewestMetrics
<1>3. ASSUME NEW d \in Dopplers, AnswerFails(d) PROVE QueryInv' /\ NewestMetrics'
  <2>1. query.pc = "asking" /\ query' = [query EXCEPT !.todo = query.todo \ {d}]
    BY <1>3 DEF AnswerFails
  <2>2. /\ query'.pc = "asking" /\ query'.kind = query.kind
        /\ query'.results = query.results /\ query'.newest = query.newest
        /\ query' = [pc |-> query'.pc, kind |-> query'.kind, limit |-> query'.limit, todo |-> query'.todo,
                     results |-> query'.results, newest |-> query'.newest]
    BY <2>1 DEF QueryInv
  <2> QED BY <2>1, <2>2 DEF QueryInv, NewestMetrics
<1>4. ASSUME NEW d \in Dopplers, Answer(d) PROVE QueryInv' /\ NewestMetrics'
  <2>0. /\ query.pc = "asking"
        /\ query = [pc |-> query.pc, kind |-> query.kind, limit |-> query.limit, todo |-> query.todo,
                    results |-> query.results, newest |-> query.newest]
    BY <1>4 DEF Answer, QueryInv
  <2>1. CASE query.kind = "logs"
    <3>1. query' = [query EXCEPT !.todo = query.todo \ {d}, !.results = query.results \o RecentLogsFor(d)]
      BY <1>4, <2>1 DEF Answer
    <3> DEFINE more == query.results \o RecentLogsFor(d)
               left == query.todo \ {d}
    <3> HIDE DEF more, left
    <3>2. query' = [pc |-> query.pc, kind |-> query.kind, limit |-> query.limit, todo |-> left,
                    results |-> more, newest |-> query.newest]
      BY <2>0, <3>1 DEF more, left
    <3>3. /\ query'.pc = "asking" /\ query'.kind = "logs"
          /\ query' = [pc |-> query'.pc, kind |-> query'.kind, limit |-> query'.limit, todo |-> query'.todo,
                       results |-> query'.results, newest |-> query'.newest]
      BY <2>0, <2>1, <3>2
    <3> QED BY <3>3 DEF QueryInv, NewestMetrics
  <2>2. CASE query.kind # "logs"
    <3>1. PICK order \in SetToSeqs(LatestContainerMetrics(d)) :
            query' = [query EXCEPT !.todo = query.todo \ {d}, !.results = query.results \o order,
                                   !.newest = query.newest \cup Newest(d)]
      BY <1>4, <2>2 DEF Answer
    <3> DEFINE N == Newest(d)
               r == query.results
    <3>2. N \subseteq Metric /\ IsFiniteSet(N) /\ order \in SetToSeqs(N)
      BY <3>1, AnswerIsNewest
    <3>3. r \in Seq(Metric) /\ ToSet(r) = query.newest
      BY <2>0, <2>2 DEF QueryInv
    <3> HIDE DEF N, r
    <3>4. order \in Seq(N) /\ ToSet(order) = N
      BY <3>2, InSomeOrder
    <3>5. order \in Seq(Metric)
      BY <3>2, <3>4
    <3>6. r \o order \in Seq(Metric) /\ ToSet(r \o order) = ToSet(r) \cup ToSet(order)
      <4> DEFINE a == r \o order
      <4>1. /\ a \in Seq(Metric) /\ DOMAIN a = 1..(Len(r) + Len(order))
            /\ Len(r) \in Nat /\ Len(order) \in Nat /\ DOMAIN r = 1..Len(r) /\ DOMAIN order = 1..Len(order)
            /\ \A i \in DOMAIN a : a[i] = IF i <= Len(r) THEN r[i] ELSE order[i - Len(r)]
        BY <3>3, <3>5
      <4> HIDE DEF a
      <4>2. \A i \in DOMAIN r : i \in DOMAIN a /\ a[i] = r[i]
        BY <4>1
      <4>3. \A i \in DOMAIN order : i + Len(r) \in DOMAIN a /\ a[i + Len(r)] = order[i]
        BY <4>1
      <4>4. \A i \in DOMAIN a : (i \in DOMAIN r /\ a[i] = r[i]) \/
                                (i - Len(r) \in DOMAIN order /\ a[i] = order[i - Len(r)])
        BY <4>1
      <4>5. ToSet(a) = ToSet(r) \cup ToSet(order)
        BY <4>2, <4>3, <4>4 DEF ToSet
      <4> QED BY <4>1, <4>5 DEF a
    <3>7. query' = [pc |-> query.pc, kind |-> query.kind, limit |-> query.limit, todo |-> query.todo \ {d},
                    results |-> r \o order, newest |-> query.newest \cup N]
      <4> DEFINE more == r \o order
                 best == query.newest \cup N
                 left == query.todo \ {d}
      <4>1. query' = [query EXCEPT !.todo = left, !.results = more, !.newest = best]
        BY <3>1 DEF r, N
      <4> HIDE DEF more, best, left
      <4>2. query' = [pc |-> query.pc, kind |-> query.kind, limit |-> query.limit, todo |-> left,
                      results |-> more, newest |-> best]
        BY <2>0, <4>1
      <4> QED BY <4>2 DEF more, best, left
    <3> DEFINE more == r \o order
               best == query.newest \cup N
               left == query.todo \ {d}
    <3>8. more \in Seq(Metric) /\ ToSet(more) = best
      BY <3>3, <3>4, <3>6
    <3>9. query' = [pc |-> query.pc, kind |-> query.kind, limit |-> query.limit, todo |-> left,
                    results |-> more, newest |-> best]
      BY <3>7
    <3> HIDE DEF more, best, left
    <3>10. /\ query'.pc = "asking" /\ query'.results = more /\ query'.newest = best
           /\ query' = [pc |-> query'.pc, kind |-> query'.kind, limit |-> query'.limit, todo |-> query'.todo,
                        results |-> query'.results, newest |-> query'.newest]
      BY <2>0, <3>9
    <3> QED BY <3>8, <3>10 DEF QueryInv, NewestMetrics
  <2> QED BY <2>1, <2>2
<1>5. CASE Serve
  <2>0. PICK resp \in Responses : \E n \in 0..Len(resp) :
          query' = [pc |-> IF n = Len(resp) THEN "served" ELSE "cut", kind |-> query.kind,
                    limit |-> query.limit, response |-> SubSeq(resp, 1, n), newest |-> query.newest]
    BY <1>5 DEF Serve
  <2>1. PICK n \in 0..Len(resp) :
          query' = [pc |-> IF n = Len(resp) THEN "served" ELSE "cut", kind |-> query.kind,
                    limit |-> query.limit, response |-> SubSeq(resp, 1, n), newest |-> query.newest]
    BY <2>0
  <2>2. /\ query'.pc = IF n = Len(resp) THEN "served" ELSE "cut"
        /\ query'.kind = query.kind /\ query'.newest = query.newest /\ query'.response = SubSeq(resp, 1, n)
    BY <2>1
  <2>3. QueryInv'
    BY <2>2 DEF QueryInv
  <2>4. query.kind # "logs" => query.results \in Seq(Metric) /\ ToSet(query.results) = query.newest
    BY <1>5 DEF Serve, QueryInv
  <2> DEFINE best == Best(query.newest)
  <2>5. ASSUME n = Len(resp), query.kind = "metrics"
        PROVE  ToSet(query'.response) = best /\ Len(query'.response) = Cardinality(best)
    <3>1. resp \in SetToSeqs(deDupe(query.results))
      BY <2>0, <2>5 DEF Responses
    <3>2. deDupe(query.results) = best /\ IsFiniteSet(best)
      BY <2>4, <2>5, DeDupeKeepsNewest
    <3> HIDE DEF best
    <3>3. resp \in Seq(best) /\ ToSet(resp) = best /\ Len(resp) = Cardinality(best)
      BY <3>1, <3>2, InSomeOrder
    <3>4. SubSeq(resp, 1, Len(resp)) = resp
      BY <3>3
    <3> QED BY <2>2, <2>5, <3>3, <3>4
  <2>6. ASSUME n = Len(resp), query.kind = "rlp metrics" PROVE best \subseteq ToSet(query'.response)
    <3>1. resp = query.results
      BY <2>0, <2>6 DEF Responses
    <3>2. SubSeq(resp, 1, Len(resp)) = resp /\ ToSet(resp) = query.newest
      <4>1. resp \in Seq(Metric) /\ ToSet(resp) = query.newest
        BY <2>4, <2>6, <3>1
      <4>2. ASSUME NEW q \in Seq(Metric) PROVE SubSeq(q, 1, Len(q)) = q
        OBVIOUS
      <4> QED BY <4>1, <4>2
    <3> QED BY <2>2, <2>6, <3>2 DEF Best
  <2>7. ASSUME query'.pc = "served" PROVE n = Len(resp)
    BY <2>2, <2>7
  <2>8. NewestMetrics'
    BY <2>2, <2>5, <2>6, <2>7 DEF NewestMetrics, Best
  <2> QED BY <2>3, <2>8
<1>6. ASSUME NEW d \in Dopplers,
             \/ TakeLog(d) \/ TakeMetric(d)
             \/ DumpSinkExpires(d) \/ MetricSinkExpires(d) \/ UnregisterEnded(d)
      PROVE  QueryInv' /\ NewestMetrics'
  <2>1. UNCHANGED query
    BY <1>6 DEF TakeLog, TakeMetric, DumpSinkExpires, MetricSinkExpires, UnregisterEnded
  <2> QED BY <1>1, <2>1
<1>7. CASE Tick \/ UNCHANGED recentVars
  <2>1. UNCHANGED query
    BY <1>7 DEF Tick, recentVars
  <2> QED BY <1>1, <2>1
<1> QED BY <1>2, <1>3, <1>4, <1>5, <1>6, <1>7 DEF RecentNext

\* For any number of dopplers, instances and metrics, late or in time: a client
\* of the traffic controller gets the newest current metric of every instance
\* that an answering doppler knew of, each once and nothing else; a client of
\* the reverse log proxy gets it among others.
THEOREM NewestMetricsCorrect == RecentSpec => []NewestMetrics
<1>1. RecentInit => MetricsInv /\ QueryInv /\ NewestMetrics
  BY DEF RecentInit, MetricsInv, QueryInv, NewestMetrics, NoSink, NoQuery
<1>2. MetricsInv /\ QueryInv /\ NewestMetrics /\ [RecentNext]_recentVars
        => MetricsInv' /\ QueryInv' /\ NewestMetrics'
  BY MetricsStep, QueryStep
<1> QED BY <1>1, <1>2, PTL DEF RecentSpec
=============================================================================
