----------------------------- MODULE SinkManager -----------------------------
(***************************************************************************)
(* doppler's sinks: SinkManager, GroupedSinks, its AppGroup and firehose     *)
(* group, and the life of a sink, for one application and one firehose       *)
(* subscription.                                                             *)
(*                                                                          *)
(* Sinks are filed under their Identifier (Keys); <<k, n>> is the n-th sink  *)
(* made with identifier k.  They come and go from many goroutines: the       *)
(* message router (SendTo), the listeners for bound and unbound drains, one  *)
(* handler per websocket, and one goroutine per sink that runs it and then   *)
(* unregisters it.  GroupedSinks' and AppGroup's locks make every operation  *)
(* on the registry one step.                                                 *)
(***************************************************************************)
EXTENDS Integers, FiniteSets

CONSTANTS
  Urls,          (* drain URLs of the application                          *)
  Drains,        (* identifiers of syslog sinks                            *)
  Identifier,    (* [Urls -> Drains]: scheme, host and path, no query      *)
  BadUrls,       (* URLs that CheckUrl or NewWriter refuses                *)
  Streams,       (* remote addresses of websockets that stream the app     *)
  Firehoses,     (* remote addresses of websockets of the subscription     *)
  InputCap,      (* capacity of a sink's input channel                     *)
  ErrorCap,      (* capacity of errorChannel                               *)
  Patient,       (* bindings change only after the last change settled     *)
  MaxMade,       (* bound: [Keys -> Nat], sinks made per identifier        *)
  MaxBinds,      (* bound: drains the store reports as bound               *)
  MaxSends       (* bound: envelopes routed                                *)

Keys == {"dump", "metrics"} \cup Drains \cup Streams \cup Firehoses
Sinks == UNION {{k} \X (1..MaxMade[k]) : k \in Keys}
Callers == {"run", "delete", "handler"}

ASSUME IdentifierAssumption == Identifier \in [Urls -> Drains]
ASSUME CapAssumption == InputCap \in Nat \ {0} /\ ErrorCap \in Nat \ {0}
ASSUME MadeAssumption == MaxMade \in [Keys -> Nat]
ASSUME KeysAssumption == Drains \cap ({"dump", "metrics"} \cup Streams \cup Firehoses) = {}
ASSUME FiniteAssumption == IsFiniteSet(Keys)
ASSUME PatientAssumption == Patient \in BOOLEAN /\ MaxSends \in Nat /\ MaxBinds \in Nat

kind(k) ==
  CASE k \in Drains -> "syslog"
    [] k \in Streams -> "websocket"
    [] k \in Firehoses -> "firehose"
    [] OTHER -> k

Kinds == {kind(k) : k \in Keys}

VARIABLES
  wrappers,      (* per identifier, the n of the registered sink, or 0     *)
  made,          (* per identifier, sinks made so far                      *)
  run,           (* per sink, where its goroutine is                       *)
  input,         (* per sink, envelopes waiting for its Run                *)
  closed,        (* per sink, is its input channel closed?                 *)
  disconnected,  (* per sink, Disconnect was called                        *)
  unregister,    (* per caller and sink, the progress of UnregisterSink    *)
  metrics,       (* SinkManagerMetrics: sinks per kind                     *)
  errors,        (* messages in errorChannel                               *)
  bound, binds,  (* the drains the store says are bound; binds counts      *)
  new, deleted,  (* the two listeners' pc and the URL or sink in hand      *)
  router,        (* the message router's pc                                *)
  sends,         (* envelopes routed                                       *)
  stopped        (* doneChannel is closed                                  *)

listeners == <<bound, binds, new, deleted>>
vars == <<wrappers, made, run, input, closed, disconnected, unregister, metrics,
          errors, listeners, router, sends, stopped>>

Registered(s) == wrappers[s[1]] = s[2]
Idle == [pc |-> "idle"]

\* The goroutine that is registering a sink with such an identifier has filed
\* it and not yet gone on.
Launching(ks) == \E s \in Sinks : s[1] \in ks /\ run[s] = "added"

-----------------------------------------------------------------------------
(* RegisterSink, RegisterFirehoseSink.                                      *)

\* AddSink: a sink is made and filed, unless its identifier is taken.
AddSink(k) ==
  IF wrappers[k] # 0
    THEN UNCHANGED <<wrappers, made, run>>
    ELSE /\ made[k] < MaxMade[k]
         /\ made' = [made EXCEPT ![k] = @ + 1]
         /\ wrappers' = [wrappers EXCEPT ![k] = made[k] + 1]
         /\ run' = [run EXCEPT ![<<k, made[k] + 1>>] = "added"]

\* RegisterSink counts the sink and starts its goroutine.
Launch(s) ==
  /\ run[s] = "added"
  /\ run' = [run EXCEPT ![s] = "running"]
  /\ metrics' = [metrics EXCEPT ![kind(s[1])] = @ + 1]
  /\ UNCHANGED <<wrappers, made, input, closed, disconnected, unregister, errors,
                 listeners, router, sends, stopped>>

-----------------------------------------------------------------------------
(* UnregisterSink, UnregisterFirehoseSink.                                  *)

\* Mutant: the sink's channel is closed and the sink left in the map.
RemoveSinkKept(s) ==
  /\ closed' = [closed EXCEPT ![<<s[1], wrappers[s[1]]>>] = TRUE]
  /\ UNCHANGED wrappers

\* Mutant: the sink leaves the map and its channel stays open.
RemoveSinkOpen(s) ==
  /\ wrappers' = [wrappers EXCEPT ![s[1]] = 0]
  /\ UNCHANGED closed

\* removeSink: whatever sink is filed under s's identifier goes and its input
\* channel is closed.
RemoveSink(s) ==
  /\ closed' = [closed EXCEPT ![<<s[1], wrappers[s[1]]>>] = TRUE]
  /\ wrappers' = [wrappers EXCEPT ![s[1]] = 0]

\* Mutant: the metric is counted down whether or not a sink was removed.
UnregisterAnyway(by, s) ==
  /\ unregister[<<by, s>>] = "call"
  /\ IF wrappers[s[1]] # 0 THEN RemoveSink(s) ELSE UNCHANGED <<closed, wrappers>>
  /\ unregister' = [unregister EXCEPT ![<<by, s>>] = "removed"]
  /\ UNCHANGED <<made, run, input, disconnected, metrics, errors, listeners,
                 router, sends, stopped>>

\* CloseAndDelete; without a sink there is nothing more to do.
Unregister(by, s) ==
  /\ unregister[<<by, s>>] = "call"
  /\ IF wrappers[s[1]] # 0
       THEN /\ RemoveSink(s)
            /\ unregister' = [unregister EXCEPT ![<<by, s>>] = "removed"]
       ELSE /\ unregister' = [unregister EXCEPT ![<<by, s>>] = "done"]
            /\ UNCHANGED <<closed, wrappers>>
  /\ UNCHANGED <<made, run, input, disconnected, metrics, errors, listeners,
                 router, sends, stopped>>

\* Mutant: a removed syslog sink is not told to disconnect.
UncountOnly(by, s) ==
  /\ unregister[<<by, s>>] = "removed"
  /\ unregister' = [unregister EXCEPT ![<<by, s>>] = "done"]
  /\ metrics' = [metrics EXCEPT ![kind(s[1])] = @ - 1]
  /\ UNCHANGED <<wrappers, made, run, input, closed, disconnected, errors,
                 listeners, router, sends, stopped>>

\* After a removal: count down, and disconnect s if it is a syslog sink.
Uncount(by, s) ==
  /\ unregister[<<by, s>>] = "removed"
  /\ unregister' = [unregister EXCEPT ![<<by, s>>] = "done"]
  /\ metrics' = [metrics EXCEPT ![kind(s[1])] = @ - 1]
  /\ disconnected' = [disconnected EXCEPT ![s] = @ \/ kind(s[1]) = "syslog"]
  /\ UNCHANGED <<wrappers, made, run, input, closed, errors, listeners, router,
                 sends, stopped>>

-----------------------------------------------------------------------------
(* A sink's goroutine.  input[s] stands for the input channel and, behind it *)
(* in a syslog or websocket sink, the truncating buffer: a bounded queue    *)
(* that drops what it has no room for.                                      *)

Unheld == <<wrappers, made, closed, disconnected, metrics, listeners, router, sends,
            stopped>>

\* Run takes an envelope; a syslog sink has still to get it to the drain.
Take(s) ==
  /\ run[s] = "running"
  /\ input[s] > 0
  /\ input' = [input EXCEPT ![s] = @ - 1]
  /\ run' = [run EXCEPT ![s] = IF kind(s[1]) = "syslog" THEN "sending" ELSE @]
  /\ UNCHANGED <<unregister, errors, Unheld>>

\* The drain takes the envelope, after any number of writes that failed and
\* connections that were made anew.
Write(s) ==
  /\ run[s] = "sending"
  /\ run' = [run EXCEPT ![s] = "running"]
  /\ UNCHANGED <<input, unregister, errors, Unheld>>

\* Connect fails: the error is sent, which waits for room in errorChannel, and
\* the sink backs off.
ConnectFails(s) ==
  /\ run[s] = "sending"
  /\ errors < ErrorCap
  /\ errors' = errors + 1
  /\ run' = [run EXCEPT ![s] = "backoff"]
  /\ UNCHANGED <<input, unregister, Unheld>>

\* The backoff timer fires and the sink tries again.
Retry(s) ==
  /\ run[s] = "backoff"
  /\ run' = [run EXCEPT ![s] = "sending"]
  /\ UNCHANGED <<input, unregister, errors, Unheld>>

\* Run returns: the input channel is closed and empty or, for a syslog sink,
\* Disconnect was called, which it also sees while backing off.
MustReturn(s) ==
  \/ run[s] = "running" /\ closed[s] /\ input[s] = 0
  \/ run[s] \in {"running", "backoff"} /\ disconnected[s]

\* Run may also return by itself: no input for the inactivity period (dump and
\* container metric sinks), a failed write (websocket sinks).
MayReturn(s) ==
  /\ run[s] = "running"
  /\ kind(s[1]) # "syslog"
  /\ s[1] \in Streams \cup Firehoses => input[s] > 0

\* ... and the goroutine goes on to unregister its sink.
Return(s) ==
  /\ MustReturn(s) \/ MayReturn(s)
  /\ run' = [run EXCEPT ![s] = "returned"]
  /\ unregister' = [unregister EXCEPT ![<<"run", s>>] = "call"]
  /\ UNCHANGED <<input, errors, Unheld>>

-----------------------------------------------------------------------------
(* Websocket handlers: streamWebsocket.                                     *)

\* A client connects; remote addresses are not used twice.
Open(k) ==
  /\ made[k] = 0
  /\ AddSink(k)
  /\ UNCHANGED <<input, closed, disconnected, unregister, metrics, errors,
                 listeners, router, sends, stopped>>

\* KeepAlive.Run returned: the deferred unregister.
Hangup(s) ==
  /\ s[1] \in Streams \cup Firehoses
  /\ run[s] \notin {"none", "added"}
  /\ unregister[<<"handler", s>>] = "no"
  /\ unregister' = [unregister EXCEPT ![<<"handler", s>>] = "call"]
  /\ UNCHANGED <<wrappers, made, run, input, closed, disconnected, metrics, errors,
                 listeners, router, sends, stopped>>

-----------------------------------------------------------------------------
(* The listeners for bound and unbound drains.                              *)

\* Everything an earlier change of the bindings set going has ended.
Settled ==
  /\ new.pc = "idle" /\ deleted.pc = "idle"
  /\ \A s \in Sinks : s[1] \in Drains =>
       /\ run[s] # "added"
       /\ (run[s] # "none" /\ ~Registered(s)) =>
            run[s] = "returned" /\ unregister[<<"run", s>>] = "done"

\* The store's watcher sends a newly bound drain; the channel is unbuffered.
\* (Once doneChannel is closed the listener's select may still choose this.)
ReceiveNew(u) ==
  /\ u \notin bound /\ binds < MaxBinds
  /\ new.pc = "idle" /\ ~Launching(Drains)
  /\ Patient => Settled
  /\ bound' = bound \cup {u} /\ binds' = binds + 1
  /\ new' = [pc |-> "check", url |-> u]
  /\ UNCHANGED <<wrappers, made, run, input, closed, disconnected, unregister,
                 metrics, errors, deleted, router, sends, stopped>>

\* registerNewSyslogSink: the URL is good, the sink is registered.
RegisterDrain ==
  /\ new.pc = "check"
  /\ new.url \notin BadUrls
  /\ AddSink(Identifier[new.url])
  /\ new' = Idle
  /\ UNCHANGED <<input, closed, disconnected, unregister, metrics, errors, bound, binds,
                 deleted, router, sends, stopped>>

\* registerNewSyslogSink: the URL is refused, an error message is sent, which
\* waits for room in errorChannel.
RefuseDrain ==
  /\ new.pc = "check"
  /\ new.url \in BadUrls
  /\ errors < ErrorCap
  /\ errors' = errors + 1
  /\ new' = Idle
  /\ UNCHANGED <<wrappers, made, run, input, closed, disconnected, unregister,
                 metrics, bound, binds, deleted, router, sends, stopped>>

\* The watcher sends an unbound drain.
ReceiveDeleted(u) ==
  /\ u \in bound
  /\ deleted.pc = "idle"
  /\ Patient => Settled
  /\ bound' = bound \ {u}
  /\ deleted' = [pc |-> "find", url |-> u]
  /\ UNCHANGED <<wrappers, made, run, input, closed, disconnected, unregister,
                 metrics, errors, binds, new, router, sends, stopped>>

\* DrainFor looks the whole URL up among the identifiers.
FindDrain ==
  /\ deleted.pc = "find"
  /\ LET k == deleted.url
     IN  IF k \in Drains /\ wrappers[k] # 0
           THEN /\ deleted' = [pc |-> "unregister", sink |-> <<k, wrappers[k]>>]
                /\ unregister' = [unregister EXCEPT
                     ![<<"delete", <<k, wrappers[k]>>>>] = "call"]
           ELSE deleted' = Idle /\ UNCHANGED unregister
  /\ UNCHANGED <<wrappers, made, run, input, closed, disconnected, metrics, errors,
                 bound, binds, new, router, sends, stopped>>

\* The listener's UnregisterSink has returned.
DeleteDone ==
  /\ deleted.pc = "unregister"
  /\ unregister[<<"delete", deleted.sink>>] = "done"
  /\ deleted' = Idle
  /\ UNCHANGED <<wrappers, made, run, input, closed, disconnected, unregister,
                 metrics, errors, bound, binds, new, router, sends, stopped>>

-----------------------------------------------------------------------------
(* Messages.                                                                *)

\* The registered sinks of a set of identifiers.
Of(ks) == {s \in Sinks : s[1] \in ks /\ Registered(s)}

\* What a non-blocking send to each of a set of sinks leaves for them.
Sent(to) ==
  [s \in Sinks |-> IF s \in to /\ input[s] < InputCap THEN input[s] + 1 ELSE input[s]]

\* Every sink of the application in `ks`, and one firehose sink if there is any.
Broadcast(ks) ==
  \E to \in {Of(ks) \cup {f} : f \in Of(Firehoses)}
              \cup {t \in {Of(ks)} : Of(Firehoses) = {}} :
    input' = Sent(to)

\* SendTo: ensureRecentLogsSinkFor, ensureContainerMetricsSinkFor.
Ensure(k, at, next) ==
  /\ router = at
  /\ AddSink(k)
  /\ router' = next
  /\ UNCHANGED <<input, closed, disconnected, unregister, metrics, errors,
                 listeners, sends, stopped>>

EnsureRecentLogs == sends < MaxSends /\ Ensure("dump", "idle", "metrics")
EnsureContainerMetrics ==
  ~Launching({"dump"}) /\ Ensure("metrics", "metrics", "broadcast")

BroadcastMessage ==
  /\ router = "broadcast" /\ ~Launching({"metrics"})
  /\ Broadcast({"dump", "metrics"} \cup Drains \cup Streams)
  /\ router' = "idle"
  /\ sends' = sends + 1
  /\ UNCHANGED <<wrappers, made, run, closed, disconnected, unregister, metrics,
                 errors, listeners, stopped>>

\* listenForErrorMessages: sinks that ShouldReceiveErrors get the message.
BroadcastError ==
  /\ errors > 0
  /\ errors' = errors - 1
  /\ Broadcast({"dump"} \cup Streams)
  /\ UNCHANGED <<wrappers, made, run, closed, disconnected, unregister, metrics,
                 listeners, router, sends, stopped>>

\* Stop: the listeners end, DeleteAll empties the registry.
Stop ==
  /\ ~stopped
  /\ stopped' = TRUE
  /\ wrappers' = [k \in Keys |-> 0]
  /\ closed' = [s \in Sinks |-> closed[s] \/ Registered(s)]
  /\ UNCHANGED <<made, run, input, disconnected, unregister, metrics, errors,
                 listeners, router, sends>>

-----------------------------------------------------------------------------
Init ==
  /\ wrappers = [k \in Keys |-> 0]
  /\ made = [k \in Keys |-> 0]
  /\ run = [s \in Sinks |-> "none"]
  /\ input = [s \in Sinks |-> 0]
  /\ closed = [s \in Sinks |-> FALSE]
  /\ disconnected = [s \in Sinks |-> FALSE]
  /\ unregister = [c \in Callers \X Sinks |-> "no"]
  /\ metrics = [d \in Kinds |-> 0]
  /\ errors = 0
  /\ bound = {} /\ binds = 0
  /\ new = Idle
  /\ deleted = Idle
  /\ router = "idle"
  /\ sends = 0
  /\ stopped = FALSE

UnregisterStep(by, s) == Unregister(by, s) \/ Uncount(by, s)

RunStep(s) == Launch(s) \/ Take(s) \/ Write(s) \/ ConnectFails(s) \/ Return(s)

ListenerStep == RegisterDrain \/ RefuseDrain \/ FindDrain \/ DeleteDone

Next ==
  \/ \E s \in Sinks :
       \/ RunStep(s) \/ Retry(s) \/ Hangup(s)
       \/ \E by \in Callers : UnregisterStep(by, s)
  \/ \E k \in Streams \cup Firehoses : Open(k)
  \/ \E u \in Urls : ReceiveNew(u) \/ ReceiveDeleted(u)
  \/ ListenerStep
  \/ EnsureRecentLogs \/ EnsureContainerMetrics \/ BroadcastMessage
  \/ BroadcastError
  \/ Stop

Spec == Init /\ [][Next]_vars

\* What the Go scheduler guarantees: a goroutine that can go on does, and a
\* select with several cases ready chooses each of them sometimes.  Of the
\* drains it is assumed that none accepts connections and fails every write for
\* ever; a drain may refuse connections for ever, and clients may stay.
Fairness ==
  /\ \A s \in Sinks :
       /\ WF_vars(RunStep(s) /\ (run[s] = "running" => input[s] > 0 \/ MustReturn(s)))
       /\ WF_vars(\E by \in Callers : UnregisterStep(by, s))
       /\ s[1] \in Drains => SF_vars(Return(s) /\ disconnected[s])
  /\ WF_vars(ListenerStep)
  /\ WF_vars(~stopped /\ BroadcastError)

FairSpec == Spec /\ Fairness

-----------------------------------------------------------------------------
\* A sink is registered exactly as long as its input channel is open, whoever
\* removed it and however often UnregisterSink was called for it: BroadcastMessage
\* never sends on a closed channel (a panic), removeSink never closes one twice,
\* and no sink is left out of the registry with its goroutine waiting for input.
OpenWhileRegistered ==
  \A s \in Sinks : run[s] # "none" => (Registered(s) <=> ~closed[s])

\* SinkManagerMetrics agrees with the registry, up to the sinks that RegisterSink
\* has filed and not yet counted and those UnregisterSink has removed and not yet
\* counted down: concurrent unregistrations of one sink (its goroutine's, the
\* listener's, the websocket handler's) are counted once.  Stop counts nothing.
MetricsMatch ==
  ~stopped =>
    \A d \in Kinds :
      LET of == {s \in Sinks : kind(s[1]) = d}
      IN  metrics[d] =
            Cardinality({s \in of : Registered(s)})
              - Cardinality({s \in of : run[s] = "added"})
              + Cardinality({c \in Callers \X of : unregister[c] = "removed"})

\* Once everything a change of the bindings set going has ended, the application
\* has a syslog sink for exactly the acceptable drains that are bound to it.
DrainsMatch ==
  (Settled /\ ~stopped) =>
    \A u \in Urls \ BadUrls :
      wrappers[Identifier[u]] # 0 <=> \E v \in bound : Identifier[v] = Identifier[u]

\* A sink taken out of the registry ends: its Run returns, even if its drain
\* refuses every connection (Disconnect ends the backoff).  Stop does not
\* disconnect, so nothing is said of a stopped sink manager.
RemovedSinkEnds ==
  \A s \in Sinks : closed[s] ~> (run[s] = "returned" \/ stopped)
=============================================================================
