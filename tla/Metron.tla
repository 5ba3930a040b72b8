------------------------------- MODULE Metron -------------------------------
(***************************************************************************)
(* metron's two pipelines, each down to its pool of connections.             *)
(*                                                                          *)
(* v1: datagrams pass a diode, are unmarshalled, aggregated, tagged,         *)
(* marshalled and written to the pool one by one; the metrics library emits  *)
(* envelopes into the same chain from goroutines of its own.                 *)
(*                                                                          *)
(* v2: gRPC handlers put envelopes into a diode; the transponder collects    *)
(* them in batches, and a batch is aggregated and written to the pool.  Among *)
(* the senders are the metric emitters of metron and of every other process: *)
(* a counter's delta is swapped for 0, sent, and put back if Send fails.     *)
(***************************************************************************)
EXTENDS ClientPool, Sequences, Diodes, FiniteSets

CONSTANTS
  Counters,      (* names of counters                                      *)
  DiodeSize,     (* buckets of the ingress diode                           *)
  BatchSize,     (* envelopes in a full batch                              *)
  MaxTotals,     (* counters above which the aggregator starts afresh      *)
  MaxIn,         (* bound, per version: datagrams, emissions, batches,     *)
                 (* pulses                                                 *)
  MaxIncs        (* bound: increments per counter                          *)

ASSUME MetronAssumption ==
  /\ DiodeSize \in Nat \ {0} /\ BatchSize \in Nat \ {0}
  /\ MaxTotals \in Nat /\ MaxIn \in [1..2 -> Nat] /\ MaxIncs \in Nat
ASSUME WritersAssumption ==
  /\ {"udp", "emitter"} \subseteq Writers[1] /\ IsFiniteSet(Writers[1])
  /\ Writers[2] = {"transponder"}

VARIABLES
  diode,         (* the ingress diode                                      *)
  totals,        (* the aggregator's counterTotals                         *)
  metrics,       (* what metron counts of itself                           *)
  writerSet,     (* the EventWriter has its writer                         *)
  batch,         (* the transponder's batch                                *)
  due,           (* batchInterval has passed since lastSent                *)
  arriving,      (* envelopes of a BatchSender's batch still to be set     *)
  uncounted,     (* envelopes set and not yet counted in ingress           *)
  delta,         (* per counter, its delta                                 *)
  swapped,       (* per counter, the delta being sent, or -1               *)
  stream,        (* per counter, its emitter's stream: open, and what is   *)
                 (* on its way to metron                                   *)
  incs, gone, ins  (* history: increments and deltas lost, per counter;    *)
                 (* inputs                                                 *)

v1Vars == <<writerSet>>
v2Vars == <<batch, due, arriving, uncounted, delta, swapped, stream, incs, gone>>
pipes == <<diode, totals, metrics, v1Vars, v2Vars, ins>>
vars == <<poolVars, pipes>>

\* An envelope: a log, a counter event with its delta, or a datagram that is not
\* valid or of an unknown type.
LogEnvelope == [type |-> "log", name |-> "", delta |-> 0]
CounterEvent(k, d) == [type |-> "counter", name |-> k, delta |-> d]
Datagrams == {LogEnvelope} \cup {CounterEvent(k, 1) : k \in Counters}
               \cup [type : {"invalid", "unknown"}, name : {""}, delta : {0}]

Inc(field, n) == metrics' = [metrics EXCEPT ![field] = @ + n]

-----------------------------------------------------------------------------
(* v1.                                                                      *)

\* StartReading: a datagram is read into the diode.
ReadFrom(e) ==
  /\ version = 1 /\ ins < MaxIn[version]
  /\ ins' = ins + 1
  /\ diode' = DiodeSet(diode, DiodeSize, e)
  /\ UNCHANGED <<poolVars, totals, metrics, v1Vars, v2Vars>>

\* A counter's total, and what an envelope adds to it.
TotalOf(ts, k) == IF k \in DOMAIN ts THEN ts[k] ELSE 0
DeltaOf(k, e) == IF e.type = "counter" /\ e.name = k THEN e.delta ELSE 0

\* MessageAggregator.Write: a counter event gets its total, under the lock.
Aggregate(ts, e) ==
  IF e.type # "counter" THEN ts
    ELSE [k \in DOMAIN ts \cup {e.name} |-> TotalOf(ts, k) + DeltaOf(k, e)]

\* UnmarshallMessage: an envelope whose event is missing is not valid, and one of
\* an unknown type is an error once it has been counted as received.
valid(e) == e.type # "invalid"
incrementReceiveCount(e) == e.type # "unknown"
UnmarshallMessage(e) == valid(e) /\ incrementReceiveCount(e)

\* StartWriting: the next datagram is counted and unmarshalled; what is not an
\* envelope goes no further.  The rest is aggregated, tagged, marshalled and written.
StartWriting ==
  /\ version = 1
  /\ task["udp"].at = "idle"
  /\ DiodeReady(diode)
  /\ diode' = DiodeTail(diode)
  /\ LET e == DiodeHead(diode)
         seen == [metrics EXCEPT !.ingress = @ + 1, !.missed = @ + diode.missed]
     IN  IF UnmarshallMessage(e)
           THEN /\ metrics' = seen
                /\ totals' = Aggregate(totals, e)
                /\ StartWrite("udp")
           ELSE /\ metrics' = [seen EXCEPT !.rejected = @ + 1]
                /\ UNCHANGED <<totals, task, delivered>>
  /\ UNCHANGED <<version, conn, state, closes, writes, reset, maintain, health,
                 v1Vars, v2Vars, ins>>

\* AppV1.Start gives the EventWriter its writer once the chain is built; the
\* metrics library is running by then.
SetWriter ==
  /\ version = 1 /\ ~writerSet
  /\ writerSet' = TRUE
  /\ UNCHANGED <<poolVars, diode, totals, metrics, v2Vars, ins>>

\* EventWriter.EmitEnvelope: refused until there is a writer.
EmitEnvelope(k) ==
  /\ version = 1 /\ ins < MaxIn[version]
  /\ task["emitter"].at = "idle"
  /\ ins' = ins + 1
  /\ IF writerSet
       THEN /\ totals' = Aggregate(totals, CounterEvent(k, 1))
            /\ StartWrite("emitter")
            /\ Inc("emitted", 1)
       ELSE UNCHANGED <<totals, task, delivered, metrics>>
  /\ UNCHANGED <<version, conn, state, closes, writes, reset, maintain, health,
                 diode, v1Vars, v2Vars>>

\* GRPCWrapper.Write: the pool's Write returned; the message is counted as sent,
\* its chainers incremented, or the error is counted.
GRPCWrapperReturns(w) ==
  /\ version = 1
  /\ task[w].at = "done"
  /\ Inc(IF task[w].ok THEN "egress" ELSE "dropped", 1)
  /\ task' = [task EXCEPT ![w] = NoTask]
  /\ UNCHANGED <<version, conn, state, closes, writes, reset, maintain, health, delivered,
                 diode, totals, v1Vars, v2Vars, ins>>

-----------------------------------------------------------------------------
(* The metric emitters: Counter and Client.pulse.                           *)

Increment(k) ==
  /\ version = 2 /\ incs[k] < MaxIncs
  /\ incs' = [incs EXCEPT ![k] = @ + 1]
  /\ delta' = [delta EXCEPT ![k] = @ + 1]
  /\ UNCHANGED <<poolVars, diode, totals, metrics, v1Vars, batch, due, arriving, uncounted,
                 swapped, stream, gone, ins>>

\* A pulse with a stream, or that opened one: the delta is swapped out.
Pulse(k) ==
  /\ version = 2 /\ ins < MaxIn[version]
  /\ swapped[k] = -1
  /\ ins' = ins + 1
  /\ stream' = [stream EXCEPT ![k].open = TRUE]
  /\ swapped' = [swapped EXCEPT ![k] = delta[k]]
  /\ delta' = [delta EXCEPT ![k] = 0]
  /\ UNCHANGED <<poolVars, diode, totals, metrics, v1Vars, batch, due, arriving, uncounted,
                 incs, gone>>

PulseSent(k) ==
  /\ swapped[k] # -1
  /\ stream[k].open
  /\ stream' = [stream EXCEPT ![k].sent = Append(@, swapped[k])]
  /\ swapped' = [swapped EXCEPT ![k] = -1]
  /\ UNCHANGED <<poolVars, diode, totals, metrics, v1Vars, batch, due, arriving, uncounted,
                 delta, incs, gone, ins>>

\* Mutant: the delta is put back over what was counted meanwhile.
PulseFailedStores(k) ==
  /\ swapped[k] # -1
  /\ delta' = [delta EXCEPT ![k] = swapped[k]]
  /\ swapped' = [swapped EXCEPT ![k] = -1]
  /\ stream' = [stream EXCEPT ![k].open = FALSE]
  /\ UNCHANGED <<poolVars, diode, totals, metrics, v1Vars, batch, due, arriving, uncounted,
                 incs, gone, ins>>

\* Send failed: the delta is added back and the stream given up.
PulseFailed(k) ==
  /\ swapped[k] # -1
  /\ delta' = [delta EXCEPT ![k] = @ + swapped[k]]
  /\ swapped' = [swapped EXCEPT ![k] = -1]
  /\ stream' = [stream EXCEPT ![k].open = FALSE]
  /\ UNCHANGED <<poolVars, diode, totals, metrics, v1Vars, batch, due, arriving, uncounted,
                 incs, gone, ins>>

\* What some numbers, or the events of counter k among some envelopes, add up to.
Added(ns) ==
  LET sum[n \in 0..Len(ns)] == IF n = 0 THEN 0 ELSE sum[n - 1] + ns[n]
  IN  sum[Len(ns)]
Deltas(k, es) == Added([i \in 1..Len(es) |-> DeltaOf(k, es[i])])

\* The stream breaks, and what was on its way is lost.
Break(k) ==
  /\ stream[k].open
  /\ stream' = [stream EXCEPT ![k] = [open |-> FALSE, sent |-> << >>]]
  /\ gone' = [gone EXCEPT ![k] = @ + Added(stream[k].sent)]
  /\ UNCHANGED <<poolVars, diode, totals, metrics, v1Vars, batch, due, arriving, uncounted,
                 delta, swapped, incs, ins>>

-----------------------------------------------------------------------------
(* v2.                                                                      *)

\* A handler sets an envelope in the diode; the next step counts it.
Set(e) ==
  /\ diode' = DiodeSet(diode, DiodeSize, e)
  /\ gone' = IF Len(diode.queue) < DiodeSize THEN gone
               ELSE [k \in Counters |-> gone[k] + Deltas(k, diode.queue)]

\* Receiver.Sender gets an emitter's envelope.
Sender(k) ==
  /\ stream[k].sent # << >>
  /\ Set(CounterEvent(k, Head(stream[k].sent)))
  /\ stream' = [stream EXCEPT ![k].sent = Tail(@)]
  /\ uncounted' = uncounted + 1
  /\ UNCHANGED <<poolVars, totals, metrics, v1Vars, batch, due, arriving, delta, swapped,
                 incs, ins>>

\* Receiver.BatchSender gets a batch of logs and sets them one by one.
BatchSender(n) ==
  /\ version = 2 /\ ins < MaxIn[version]
  /\ arriving = 0
  /\ ins' = ins + 1
  /\ arriving' = n
  /\ UNCHANGED <<poolVars, diode, totals, metrics, v1Vars, batch, due, uncounted, delta,
                 swapped, stream, incs, gone>>

BatchSenderSets ==
  /\ arriving > 0
  /\ Set(LogEnvelope)
  /\ arriving' = arriving - 1
  /\ uncounted' = uncounted + 1
  /\ UNCHANGED <<poolVars, totals, metrics, v1Vars, batch, due, delta, swapped, stream,
                 incs, ins>>

\* The ingress metric catches up with what was set.
CountIngress ==
  /\ uncounted > 0 /\ arriving = 0
  /\ Inc("ingress", uncounted)
  /\ uncounted' = 0
  /\ UNCHANGED <<poolVars, diode, totals, v1Vars, batch, due, arriving, delta, swapped,
                 stream, incs, gone, ins>>

\* Time passes: batchInterval is over.
IntervalPasses ==
  /\ version = 2 /\ ~due
  /\ due' = TRUE
  /\ UNCHANGED <<poolVars, diode, totals, metrics, v1Vars, batch, arriving, uncounted, delta,
                 swapped, stream, incs, gone, ins>>

\* Mutant: a batch waits until it is full.
batchReadyFull(b) == Len(b) >= BatchSize

batchReady(b) == b # << >> /\ (Len(b) >= BatchSize \/ due)

\* CounterAggregator.Write, for one envelope: too many totals are thrown away.
AggregateV2(a, e) ==
  LET full == e.type = "counter" /\ Cardinality(DOMAIN a.totals) > MaxTotals
  IN  [totals |-> Aggregate(IF full THEN << >> ELSE a.totals, e),
       gone |-> IF full THEN [k \in Counters |-> a.gone[k] + TotalOf(a.totals, k)]
                  ELSE a.gone]

\* ... and for a batch, in its order.
Aggregated(a, es) ==
  LET after[n \in 0..Len(es)] == IF n = 0 THEN a ELSE AggregateV2(after[n - 1], es[n])
  IN  after[Len(es)]

\* Transponder.write: the batch is aggregated and given to the pool.
Write(b) ==
  LET a == Aggregated([totals |-> totals, gone |-> gone], b)
  IN  totals' = a.totals /\ gone' = a.gone /\ StartWrite("transponder")

\* Transponder.Start, once round the loop with an envelope: it is tagged and
\* added; a batch that is ready is aggregated and written.
Collect ==
  /\ version = 2
  /\ task["transponder"].at = "idle"
  /\ DiodeReady(diode)
  /\ diode' = DiodeTail(diode)
  /\ Inc("missed", diode.missed)
  /\ batch' = Append(batch, DiodeHead(diode))
  /\ IF batchReady(batch')
       THEN Write(batch')
       ELSE UNCHANGED <<totals, gone, task, delivered>>
  /\ UNCHANGED <<version, conn, state, closes, writes, reset, maintain, health,
                 v1Vars, due, arriving, uncounted, delta, swapped, stream, incs, ins>>

\* ... and without one: a batch that has waited long enough is written.
Flush ==
  /\ version = 2
  /\ task["transponder"].at = "idle"
  /\ ~DiodeReady(diode)
  /\ batchReady(batch)
  /\ Write(batch)
  /\ UNCHANGED <<version, conn, state, closes, writes, reset, maintain, health, diode,
                 metrics, v1Vars, batch, due, arriving, uncounted, delta, swapped, stream,
                 incs, ins>>

\* Mutant: a dropped batch is counted as one envelope.
WrittenOnce ==
  /\ version = 2
  /\ task["transponder"].at = "done"
  /\ Inc(IF task["transponder"].ok THEN "egress" ELSE "dropped",
         IF task["transponder"].ok THEN Len(batch) ELSE 1)
  /\ batch' = << >>
  /\ due' = FALSE
  /\ task' = [task EXCEPT !["transponder"] = NoTask]
  /\ UNCHANGED <<version, conn, state, closes, writes, reset, maintain, health, delivered,
                 diode, totals, v1Vars, arriving, uncounted, delta, swapped, stream, incs,
                 gone, ins>>

\* Transponder.write returns: the batch was sent, or is dropped and counted.
Written ==
  /\ version = 2
  /\ task["transponder"].at = "done"
  /\ Inc(IF task["transponder"].ok THEN "egress" ELSE "dropped", Len(batch))
  /\ batch' = << >>
  /\ due' = FALSE
  /\ task' = [task EXCEPT !["transponder"] = NoTask]
  /\ UNCHANGED <<version, conn, state, closes, writes, reset, maintain, health, delivered,
                 diode, totals, v1Vars, arriving, uncounted, delta, swapped, stream, incs,
                 gone, ins>>

-----------------------------------------------------------------------------
Init ==
  /\ version \in 1..2
  /\ PoolInit
  /\ diode = EmptyDiode
  /\ totals = << >>
  /\ metrics = [ingress |-> 0, missed |-> 0, rejected |-> 0, emitted |-> 0, egress |-> 0,
                dropped |-> 0]
  /\ writerSet = FALSE
  /\ batch = << >> /\ due = FALSE
  /\ arriving = 0 /\ uncounted = 0
  /\ delta = [k \in Counters |-> 0]
  /\ swapped = [k \in Counters |-> -1]
  /\ stream = [k \in Counters |-> [open |-> FALSE, sent |-> << >>]]
  /\ incs = [k \in Counters |-> 0]
  /\ gone = [k \in Counters |-> 0] /\ ins = 0

PoolStep ==
  /\ \/ \E w \in Writers[version] : WriteStep(w)
     \/ \E m \in Managers : MaintainStep(m)
  /\ UNCHANGED pipes

V1Step == StartWriting \/ \E w \in Writers[1] : GRPCWrapperReturns(w)

EmitterStep(k) == PulseSent(k) \/ PulseFailed(k) \/ Sender(k)

V2Step ==
  \/ BatchSenderSets \/ CountIngress \/ Collect \/ Flush \/ Written \/ IntervalPasses
  \/ \E k \in Counters : EmitterStep(k)

Next ==
  \/ PoolStep
  \/ V1Step \/ SetWriter
  \/ \E e \in Datagrams : ReadFrom(e)
  \/ V2Step
  \/ \E k \in Counters : EmitEnvelope(k) \/ Increment(k) \/ Pulse(k) \/ Break(k)
  \/ \E n \in 1..2 : BatchSender(n)

Spec == Init /\ [][Next]_vars

\* Goroutines that can go on do, and time passes.  Nothing is assumed of dopplers:
\* connections may all fail.
Fairness ==
  /\ \A w \in AllWriters : WF_vars(WriteStep(w) /\ UNCHANGED pipes)
  /\ \A m \in Managers :
       /\ WF_vars(MaintainStep(m) /\ UNCHANGED pipes)
       /\ SF_vars(Check(m) /\ reset'[m] < reset[m] /\ UNCHANGED pipes)
  /\ WF_vars(V1Step)
  /\ WF_vars(Collect \/ Flush \/ Written) /\ WF_vars(IntervalPasses)

FairSpec == Spec /\ Fairness

-----------------------------------------------------------------------------
\* metron's own metrics account for every envelope: what came in was rejected, sent,
\* counted as dropped (by the diode or the pool), or is still inside.  No failure
\* of a connection, recycling or overwritten diode counts an envelope twice or not
\* at all.
Accounted ==
  LET m == metrics
  IN  IF version = 1
        THEN m.ingress + m.emitted =
               m.rejected + m.egress + m.dropped
                 + Cardinality({w \in Writers[1] : task[w].at # "idle"})
        ELSE m.ingress + uncounted =
               m.missed + diode.missed + m.egress + m.dropped
                 + Len(diode.queue) + Len(batch)

\* Every increment of a counter is in exactly one place: its delta, the pulse being
\* sent, the stream, the diode, the batch, the aggregator's total, or what was
\* lost on a broken stream, overwritten in the diode or thrown away with the
\* totals.  Pulses that fail while the counter goes on lose and repeat nothing.
IncrementsConserved ==
  version = 2 =>
    \A k \in Counters :
      incs[k] = delta[k] + (IF swapped[k] = -1 THEN 0 ELSE swapped[k])
                  + Added(stream[k].sent) + Deltas(k, diode.queue)
                  + (IF task["transponder"].at = "idle" THEN Deltas(k, batch) ELSE 0)
                  + TotalOf(totals, k) + gone[k]

\* Whatever is in the diode or in a batch leaves metron, sent or counted as dropped,
\* even if few envelopes follow and no connection is ever made: the input being
\* bounded, metron comes to rest empty.
ComesToRest ==
  <>[](~DiodeReady(diode) /\ batch = << >> /\ \A w \in AllWriters : task[w].at = "idle")
=============================================================================
