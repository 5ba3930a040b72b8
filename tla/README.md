# A verification project for Loggregator

Loggregator collects the logs and metrics of the applications and components of a
Cloud Foundry deployment and delivers them to their readers. This directory holds
TLA+ models of its five processes, the TLC configurations that check them on small
instances, and TLAPS proofs of what was worth proving for every instance.
`PROJECT.json` lists the components, the runs, the mutants that show each property
can fail, the source lines each definition stands for, the hazards found in the
code, the findings and the theorems. Source paths below are relative to
`src/src/code.cloudfoundry.org/loggregator/`.

## 1. The system

    application, component --> metron --> doppler --> drains (syslog, https)
                                             ^  |
                       finder / announcer ---+  +--> traffic controller --> websocket clients
                       (etcd)                   +--> reverse log proxy  --> gRPC clients
    cloud controller --> syslog drain binder --> etcd --> doppler's app service store

| Component | State | Operations | Hard behaviour | Module |
|---|---|---|---|---|
| **metron**, `metron/internal` | diode, counter totals, batch, a pool of connections | receive, aggregate, batch, write, recycle | writers share a connection pointer; a batch whose interval ends; a lapped diode | `Metron`, `ClientPool`, `Diodes` |
| **metric emitter**, `metricemitter` | a delta per counter | increment, swap and send, put back | increments during a send that fails | `Metron` |
| **doppler ingress**, `doppler/internal/listeners`, `grpcmanager` | one diode | decode, enqueue | streams that end in the middle | `DopplerGRPC` |
| **router and doppler server**, `doppler/internal/grpcmanager/v1` | subscriptions by filter and shard | Register, cleanup, SendTo, Subscribe | shards, a diode per subscription, cancellation | `DopplerGRPC` |
| **message router and sink manager**, `doppler/internal/sinkserver`, `groupedsinks` | registry of sinks, metrics, error channel | SendTo, RegisterSink, UnregisterSink, three listeners, Stop | sinks unregistered by three goroutines; drains bound and unbound by two listeners | `SinkManager` |
| **sinks and writers**, `doppler/internal/sinks` | ring of recent logs, latest metrics, a connection | Run, Connect, Write, Disconnect, Dump, GetLatest | inactivity timers, retry with back-off, watchers of connections | `SyslogSink`, `RecentData`, `SinkManager` |
| **truncating buffer**, `doppler/internal/truncatingbuffer` | output channel, three counters | Run, forwardMessage | what it counts depends on when the reader reads | `TruncatingBuffer` |
| **app service store**, `doppler/internal/store` | cache of bindings | watch, list, add, remove | watch errors | `AppServiceStore` |
| **syslog drain binder** | leader key, drains with a TTL | elect, poll, update | expiry against refresh, partial updates, crashes | `DrainBinder` |
| **finder, announcer**, `dopplerservice` | endpoints, channel of events | announce, watch, read, sendEvent | two watchers, one channel; watch errors | `Finder` |
| **gRPC connector and pool**, `plumbing` | clients with reference counts, slots of consumers, connections | Subscribe, finder events, consumeSubscription, queries, Close | lock-free slots, deferred release, a goroutine per consumer and doppler | `GRPCConnector` |
| **traffic controller** | a handler per client | authorize, proxy a subscription, keep alive, query | cancellation, slow clients, timers | `TrafficController`, `RecentData` |
| **reverse log proxy** | a buffer per stream, gauge and counters | stream, query, Stop | three goroutines per stream, graceful stop | `ReverseLogProxy`, `RecentData` |
| **envelope conversion**, `plumbing/conversion` | none, but shared maps | ToV1, ToV2 | a map changed through two references | `Conversion` |
| **assembly and configuration** | ports, goroutines, announcements | read the configuration, start, stop | the order of start-up steps, one of which fails | `Startup` |

Components interact through channels (router to sinks, finder to connector, store to
sink manager), through gRPC streams, through etcd, and through shared maps under a
lock. What makes each correct is in section 3.

## 2. Modules

`MC` modules only define the constants' values; `MCFront` also puts five modules side by
side (below). To run one: `tlc -workers 2 -config MCFront.cfg MCFront`; to check the
proofs: `tlapm FinderProofs.tla`, and so for each `*Proofs` module. Definitions keep the code's names. Those
commented as *mutant* are plausible bugs, used by no specification; `PROJECT.json` pairs
each with the definition it replaces and the property that then fails.

**TruncatingBuffer.** A goroutine moves messages from an input channel to a bounded
output channel. When the output is full it throws everything out, tells the reader how
much was lost with a log message and a counter event (the *notices*), and goes on with
the newest message. The reader receives at any moment, also between two receives of
`dropMessages`. `Word` is the modulus of the code's `uint64`. `lost`, `notices`, `taken`
and `raced` are history.

**GRPCConnector.** A consumer calls `Subscribe`, takes a slot of `consumerStates` by
compare-and-swap, and is served by one goroutine per doppler. `HandleFinderEvent(list)`
is one step, as it holds `c.mu`; what reads without the lock (`refCount`, `dead`, the
slots, the pool) does so in steps of its own. A doppler's n-th life is the pair
`<<address, n>>`. The pool keeps one connection per registration, which stands for its
`p.size` equal ones. `Readvertise` says whether a doppler may come back.

**SinkManager.** One application and one firehose subscription. A sink is
`<<identifier, n>>`. Registering is two steps, filing (`AddSink`) and counting and
starting (`Launch`); unregistering is two, removing (`Unregister`) and counting down and
disconnecting (`Uncount`), each by any of three callers. `input` is the input channel
and, behind it, the truncating buffer, as one bounded queue. With `Patient = TRUE` the
store changes a binding only when the effects of the last change are over.

**SyslogSink**, **DrainDelivery.** `SyslogSink` is one drain: `Run` with its two loops
and its timer (`armed`, `tick`: a tick of an earlier back-off may still be in the
channel), and the writer of the drain's scheme with its connection and, for plain TCP,
the goroutines that watch connections. A number stands for a connection as long as the
writer, the drain or a watcher has it, and is used again after that, so that a sink may
reconnect for ever. `DrainDelivery` says what a drain is promised, in
two actions: messages are delivered one at a time, in order, each once, until the sink
ends. The refinement mapping makes the message `Run` holds the head of `pending`, until
a `Write` of it succeeds.

**RecentData.** The dump sink's ring and the container metric sink's latest metrics in
every doppler, with the inactivity timers that end them, the query that goes to all
dopplers and the answers the traffic controller, the reverse log proxy and doppler's own
websocket server make of the results.

**DrainBinder**, **AppServiceStore.** The composition that turns a binding in the cloud
controller into a drain: binders that elect a leader through a key with a TTL, poll page
by page and write drains with a TTL; etcd and its watch; doppler's watcher with its
cache, and the two channels to the sink manager. Faults are a bounded number of requests
that fail before or after they took effect, lost watches, and crashes of a binder.
`missed` is history: a watch was lost.

**Finder.** Dopplers announce themselves under two roots; `Start` and two watchers share
two maps and one channel. An event is computed in one step and sent in another. The
range over an unlocked map is a step of its own, and a write in the middle of it may end
the process.

**ClientPool**, **Metron**, **Diodes.** metron from its inputs to its connections.
`version` chooses the v1 or the v2 pipeline, which share nothing. In v1 the UDP reader
and the goroutines of the metrics library write to the pool; in v2 the transponder
alone. The emitters of counters feed v2. A diode is a bounded queue whose full state is
overwritten as a whole (`Diodes`).

**DopplerGRPC.** Ingress streams of both versions and the UDP listener fill one diode;
the message router empties it into the gRPC router, which writes to the subscriptions'
diodes. Envelopes of no application are among the inputs.

**TrafficController.** A request from its log line to the end of its goroutines: the
authorizers' questions and answers, the three kinds of handler, the websocket server's
reader, the handler's loop and the keep-alive. Timers are abstracted to what may happen
before them. One goroutine writes at a time; a message has a deadline, a ping and the
close message have none, and wait while the client is `stalled`.

**ReverseLogProxy.** Start, Stop, the limit on connections, and each stream's three
goroutines with buffer, gauge and counters. An envelope is taken from the buffer in one
step and sent in the next.

**Conversion.** ToV1 and ToV2 as functions on envelopes of every message type, with tags
as strings, as typed values, or both. A *journey* converts an envelope there and back.

**Startup.** For each of the five processes, the steps of its goroutines in the order of
the code, and the configurations that make one of them fail: missing fields, TLS files,
cipher suites, intervals, the size of doppler's buffers, ports that cannot be listened on.

**MCFront.** `TrafficController`, `ReverseLogProxy`, `RecentData`, `Conversion` and
`SyslogSink` share no state, so one run explores them side by side: the initial state
chooses one of its `Parts`, and a behaviour is a behaviour of that part alone.

## 3. Properties and runs

| Run | Instance | Properties |
|---|---|---|
| `truncating_buffer` | buffer 3, words of 4 bits, 8 inputs | `TypeOK`, `NoticesCountedWhenFull`, `RoomAfterOverflow`, `ExactUnlessRaced`, `ShutsDown` |
| `grpc_connector` | 2 consumers, 2 slots, 1 doppler, 2 events, 1 query | `OneReader`, `NotClosedUnderReader`, `ListedIsRegistered`, `Covered` |
| `grpc_connector_live` | the same with 1 slot, 1 event | `ConsumersEnd` |
| `grpc_connector_readvertise` | 1 consumer, a doppler that returns | `ListedIsRegistered`, violated |
| `sinks` | a stream, a firehose, both caches, 2 envelopes | `OpenWhileRegistered`, `MetricsMatch` |
| `sinks_drains` | two lives of a drain, a refused URL, 2 changes | `DrainsMatch`, `RemovedSinkEnds` |
| `metron` | 2 managers, v1 with 2 writers, v2 with 1, 2 connections, 2 and 1 inputs, 1 increment | `ConnectionsKept`, `SentOnce`, `Accounted`, `IncrementsConserved`, `ComesToRest` |
| `finder` | 2 dopplers, one of them in the preferred zone, 2 hosts, 3 changes, 1 fault, channel of 2 | `SettledView`, `StartNeverStuck` |
| `drain_binding` | 2 binders, 2 pages, a drain that moves, 2 faults | `NoDrainLeftBehind`, `LeadershipKept`, `CacheFollowsController` |
| `doppler_grpc` | 2 subscriptions, 3 requests, 3 sources, 2 envelopes | `RouterMatchesStreams`, `SentToSubscriptionsOnce`, `EgressAccounted`, `StreamsEnd` |
| `front` | the proxies, recent data, conversion, drains: see `MCFront.cfg` | `ServedOnlyIfGranted`, `StreamsReleased`; `RlpAccounted`, `RlpStreamsEnd`; `RecentLogsAreLast`, `NewestMetrics`; `EnvelopesSurvive`; `DeliversInOrder`, `NoConnectionLeaks`, `DisconnectEnds` |
| `startup` | every process, every configuration one step from a sound one | `AnnouncedIsSound`, `NeverHalfUp` |

The comment above each property in its module says what it means of the code. What is
worth a reader's attention:

- *Truncating buffer*: the code never sees the reader take a notice, it infers it from
  its own sends, and at an overflow the inference is right. The count it then makes is
  exact unless a notice is taken while the buffer is being emptied.
- *Connector*: two goroutines may be spawned for one doppler and one consumer; at most
  one of them reads. If no doppler comes back after it was withdrawn, there is always one
  to read, and its connection is not closed under it.
- *Sinks*: whoever unregisters a sink, and however often, its channel is closed once,
  when it leaves the registry, and it is counted once. A removed sink ends.
- *Drains*: `DeliversInOrder` is the refinement of `DrainDelivery`: through refused and
  lost connections, stale ticks and watchers that close the wrong connection, no message
  is skipped, overtaken, or written again after a success.
- *Binding*: a drain that stays bound is served again and again, through elections,
  crashes, failed polls and lost watches; one that is unbound is dropped for good unless
  its expiry was lost with a watch. No binder takes the lead from another, also when it
  vacates after a request of its own failed and another leads by then.
- *Finder*: once all is quiet the connector knows what etcd lists, of the preferred zone
  when it has any, but for two exceptions that the property names (section 4). `Start` can meet a full channel, but
  only after as many changes as the channel has places.
- *metron*: every envelope that comes in is sent or counted as dropped, once; every
  increment of a counter is in one place; the last envelopes leave without new ones.
- *Doppler's streams*: what the router holds is what streams there are, every
  subscription gets what it asked for, and each member of a shard some of it.
- *Proxies*: nothing is served without a yes; every goroutine of a client that is gone,
  silent or too slow ends, but for a client that stays and never reads again while a ping
  or the close message is written to it; the reverse log proxy drains what it kept when it
  stops, and loses without counting it only the envelope whose `Send` failed.
- *Conversion*: an envelope of either version that goes there and back arrives as it
  was, in the normal form the module states, if it is none of those of item 8 below.
- *Start-up*: what a doppler announces, it serves, and what is wrong with its
  configuration ends it before, with the exceptions of item 11 below; no process stays
  half up, but for item 12.

### Bounds

Channels and diodes of 1 or 2 places stand for those of 10 to 10000: the properties ask
what happens when they are empty, full and overwritten. One doppler is enough for the
connector, as dopplers share only the lists; two consumers are needed for the slots and
for a second reference. The recent data needs two dopplers to merge, three logs for a
ring of two to wrap, and three ticks for a metric to outlive its TTL; loads are of logs
or of metrics, as the two sinks share nothing. A drain gets three messages; of its
connections three may exist at a time, so that two are lost while the watchers of both
still run, and `Dial` waits when there would be a fourth. It may connect and fail any
number of times. Two managers are enough for metron's pool to go on from one to the other, and
two connections for a manager to be connected again or for both to be connected. The
input of v2 is one batch of two logs, more than its diode holds, or one pulse of a
counter; a second pulse, and with it totals that are thrown away, is left to the theorem
`IncrementsKept`. One pong is enough to come in time, late, or with the timer's tick
already in its channel. The finder's channel has two places so that the three changes
fill it; of its two dopplers one is in the preferred zone, so that the zone is empty at
times and the other doppler counts.
Every bound is a constant of its module.

Runs do not report deadlock (`CHECK_DEADLOCK FALSE`): the environment of each model is
bounded, and after its last input every goroutine rightly waits, or the process has
ended. That nobody waits who should not is what the liveness properties are for.

### Fairness

Weak fairness of a goroutine's own steps: the Go scheduler runs a goroutine that can
run. Timers that run fire, and etcd drops keys that are not refreshed. `SF` of a choice
in a `select` or between a channel's readers that is ready again and again (a syslog
sink's return once it is disconnected, a manager's own check), of a control write on a
websocket whose client reads again and again, and of the expiry of an
unbound drain, which only the bound on unread events holds back. Nothing is assumed of
readers, drains, clients, dopplers and the finder except where a comment says so: a
stream whose context is done or whose connection is closed breaks, a query has a
deadline, and a message on a websocket has one. Pings and the close message have none
(`time.Time{}` in `keepalive.go:29` and `websocket_handler.go:44`), and nothing is assumed
of their being written to a client that does not read. Nor is a drain assumed to take
writes: `DisconnectEnds` names what never ends. `NewElector` need not return.

## 4. Where the code departs from what is said of it

The finding, with its run: `grpc_connector.go:291`, a goroutine of a doppler's first
life closes the pool registration of its second (`grpc_connector_readvertise`).

Met while modelling; each is excluded by a condition that the property states or a
constant names, and is found by TLC when the condition is dropped:

1. `truncating_buffer.go:88`: a reader that takes a notice during an overflow makes an
   unsigned difference negative, and the reported total exceed what was lost (`raced`).
2. `grouped_sinks.go:412`: a late unregistration, by identifier, removes the sink that
   was registered in its place (`Patient = FALSE`).
3. `sink_manager.go:222`: a drain whose URL has a query or user information is looked up
   by its whole URL and never removed (`Identifier`).
4. `conn_manager.go:58` of v1: with two writers a failed write may clear a newer
   connection, which is never closed (the second conjunct of `ConnectionsKept`).
5. `finder.go:256`, `:191`: of two views computed by two watchers the older may be sent
   last (`overtaken`); after a lost watch an expired doppler stays listed (`missed`).
6. `app_service_store_watcher.go:94`: a removal that happens while the watch is down is
   not seen (`missed`).
7. `router.go:77`: an envelope of no application reaches an unfiltered subscription
   twice, and may reach two members of one shard.
8. `tov1.go:245`: the attributes are deleted from the map the envelope itself keeps; a
   gauge or an Error with string tags loses them in the second conversion. The inputs
   leave those out.
9. `keepalive.go:29`, `websocket_handler.go:44`: control messages are written without a
   deadline, under the lock of all writes; a client that stays connected and stops
   reading holds up the keep-alive, or the handler's return, for as long as it likes
   (`HeldUp`).
10. `syslog_sink.go:74`: a disconnected sink that is in the loop of connecting and writing
   looks at `disconnectChannel` only when `Connect` fails. A TLS drain that accepts
   connections and fails them keeps it there. For a TCP drain one lost connection may do:
   the watcher of the old connection closes the new one (`syslog_writer.go:98-110`), whose
   watcher then closes the next (`LostWrite`, `PeerFault`).
11. `doppler/app/config.go:49`: `MessageDrainBufferSize` is neither validated nor given a
   default, and below 3 the first sink's truncating buffer panics; an interval in seconds
   that overflows, and a UDP or profiler's port that cannot be listened on, are met as
   late. All end a doppler that was announced (`Unvalidated`).
12. `traffic_controller.go:162`: `main` calls the finder's `Start`, which can wait for room
   in a channel whose reader `main` has yet to make (the second of the *Finder* remarks
   above); the traffic controller then opens none of its other ports.
13. `rlp/internal/egress/server.go:96-99`: the envelope whose `Send` failed, and what the
   buffer holds when a stream ends with an error, are neither sent nor counted (`InHand`).

Read, and not part of a property: a limit on recent logs keeps the oldest ones where
`docs/trafficcontroller.md` speaks of the most recent; the comment at
`traffic_controller.go:199` takes the profiler's port for a sign of readiness, but its
goroutine may be the first to listen; `rlp.go:144` promises a timeout that `Stop` does not
have; a healthy websocket client may be let go by a tick that was in the keep-alive's timer
before it was reset (`keepalive.go:33`); envelopes that reach a dump sink between its
inactivity timeout and its unregistration are lost.

## 5. Proofs

Eight modules, each named after what it is about, prove 35 theorems; `PROJECT.json` lists
the ones a reader should know of. A theorem about a property holds for every value of the
constants that the assumptions of the module allow, so for any number of goroutines,
clients, messages and failures; the bounds of section 3 are TLC's, not the proofs'.

| Module | Theorems | Of the properties |
|---|---|---|
| `TruncatingBufferProofs` | `Inductive`, `TypeCorrect`, `NoticesCounted`, `RoomForNotices`, `TotalExact` | `TypeOK`, `NoticesCountedWhenFull`, `RoomAfterOverflow`, `ExactUnlessRaced` |
| `GRPCConnectorProofs` | `OneReaderCorrect`, `Inductive`, `ListedRegistered`, `NotClosedUnder`, `EveryConsumerCovered` | `OneReader`, `ListedIsRegistered`, `NotClosedUnderReader`, `Covered` |
| `SinkManagerProofs` | `Inductive`, `SinkOpenWhileRegistered`, `MetricsCorrect`, `DrainsCorrect` | `OpenWhileRegistered`, `MetricsMatch`, `DrainsMatch` |
| `MetronProofs` | `Inductive`, `ConnectionsKeptCorrect`, `SentOnceCorrect`, `AccountedCorrect`, `IncrementsKept` | `ConnectionsKept`, `SentOnce`, `Accounted`, `IncrementsConserved` |
| `FrontProofs` | `ConnectionsClosed`, `SinkDelivers`, `NobodyElseServed`, `ProxyAccounts`, `RecentLogsCorrect`, `NewestMetricsCorrect` | `NoConnectionLeaks`, `DeliversInOrder`, `ServedOnlyIfGranted`, `RlpAccounted`, `RecentLogsAreLast`, `NewestMetrics` |
| `FinderProofs` | `Inductive`, `SettledCorrect`, `StartProceeds` | `SettledView`, `StartNeverStuck` |
| `DrainBindingProofs` | `LeaderSafe`, `Inductive`, `NothingLeftBehind` | `LeadershipKept`, `NoDrainLeftBehind` |
| `DopplerGRPCProofs` | `RouterCorrect`, `DropsCounted`, `SentAsAskedOnce`, `AnnouncedSound` | `RouterMatchesStreams`, `EgressAccounted`, `SentToSubscriptionsOnce`, `AnnouncedIsSound` |

`FrontProofs` is about `SyslogSink`, `TrafficController`, `ReverseLogProxy` and
`RecentData`; `DopplerGRPCProofs` is also about `Startup`.

Each proof has the same shape: an inductive invariant, a lemma that it holds initially, a
lemma per action (or per kind of step and conjunct) that it is kept, a temporal step, and
the property from the invariant. What the invariants add, and why it is needed:

- **Truncating buffer**: `Accounted`, between overflows: the channel's length is what was
  sent less what was taken, the notices left are at its head, and the guess falls behind
  only when sends and guess together fill the buffer, which makes it right when the
  channel is full. `Refilling`, during an overflow: the channel holds only notices.
  `TotalExact` adds what the reported total and `lost` differ by at each step of an
  overflow (`Exact`): what has been drained and not yet reported.
- **gRPC connector**: `OneReader` needs only what `tryAddDoppler` leaves in `dopplers`.
  The others need one invariant of registry, slots, reference counts and goroutines: a
  count is the number of goroutines that may read, and whoever was spawned and has not
  begun will find its registration. They are proved under `~Readvertise`, as
  `grpc_connector_readvertise` shows that the first of them fails when a doppler returns.
- **Sink manager**: sinks are made in order, and one not yet made is neither filed nor
  closed; for the metrics, that a call of `UnregisterSink` is not begun again while the
  sink it removed is still to be counted down. Proved for `Patient` and impatient stores.
  `DrainsCorrect` assumes `Plain`: a patient store, and URLs that are their own
  identifiers, as items 2 and 3 of section 4 refute it otherwise. Its invariant says that
  how far the calls about each sink of a drain have come (`Calm`), that at most one change of
  a binding is in hand (`OneChange`), and that a drain has a sink exactly if it is bound, but for what that
  change has still to do (`Matched`).
- **metron**: whose each connection is (`Owned`), what a single writer may rely on
  (`Single`), how often a call has sent by how far it has come (`Delivery`), and what
  every goroutine has taken and not yet counted. `IncrementsKept` is about each counter on
  its own. It needs little beyond itself (`CountTypes`: deltas are not negative, so the
  sentinel for "no pulse" is none), and what it takes is arithmetic of sums: what an
  envelope that is appended to or taken from a queue does to its sum (`DeltasOf`), and that
  aggregating a batch moves its deltas into totals and discarded totals, none lost and none
  twice (`AggregatedTotal`), by induction over the batch.
- **Drains**: `SinkDelivers` is the refinement of `DrainDelivery`. Every step of `Run`, its
  timers, writers and watchers is a delivery, the end, or a stutter, as the input and the
  message in hand are what is left of the messages, in order (`InOrder`).
- **Traffic controller, reverse log proxy**: what every place of a request implies of the
  answers it had; what each goroutine of a stream has sent, kept, dropped or has in hand.
- **A drain's connections**: what is open is the one the writer holds, and there is none
  while it dials (`Held`), whichever connection a watcher closes.
- **Recent data**: the places of a ring, counted from the sink's position, hold the last
  logs taken, and 0 where there were too few (`RingInv`); what `Dump` collects from such a
  ring is shown by induction over its places (`DumpIsLast`). A metric sink keeps the newest
  metric it has seen of each instance unless that is outdated (`MetricsInv`), the results of
  a query are what the answering dopplers knew (`QueryInv`), and `deDupe` keeps the best of
  any list, by induction over the list.
- **Finder**: for every key the last unread event that is no mere refresh carries what
  etcd holds (`Follows`), and the view of the maps as they are is held by who computed
  last, is the last in the channel, was taken, or was overtaken (`Fresh`). `Counted` says
  that before `Start` returns every event stands for a change.
- **Drain binding**: what is cached, listed or queued for addition is in etcd or its
  removal is queued behind it (`Follows`); what the sink manager has not taken is the
  difference of cache and drains (`Told`). `LeadershipKept` needs the types of the places.
- **Doppler's streams**: `Files` says where the router's map has each running
  subscription. What `cleanup`'s loop computes is shown by induction over the list
  (`RemainingOf`), with the least counterexample that `WFMin` gives in place of the
  library's induction rules. `DropsCounted` needs that a diode holds at most its size.
  `SentAsAskedOnce` follows every envelope from the stream or datagram it arrives by: it is
  in one place at a time, no place has it twice, and what was routed is nowhere else
  (`Unique`). With `Files` this gives `SentInv`: whatever a subscription was given is a
  routed envelope its filter matches, in order and once, though `SendTo` looks it up under
  four typed filters.
- **Start-up**: `StartInv` says what each of doppler's goroutines has left to do
  (`Programs`), that the announcement's interval is known and positive or only `main` has
  started (`TimerKnown`), and that once doppler is announced `main` reads no more of the
  configuration, and its ports are open, or nothing is announced and `main` opens them
  before it announces (`OpenedBefore`), so that only the unvalidated values are left.

Assumptions on constants are named in the modules that declare them and evaluated by TLC:
sets that are counted are finite (`ConsumersAssumption`, `FiniteAssumption`,
`WritersAssumption`, `RlpBoundsAssumption`, `RecentBoundsAssumption`, `BindingsAssumption`), bounds and sizes are
natural numbers and positive where the code's are (`SizesAssumption`, `PoolAssumption`,
`SyslogAssumption`, `FinderAssumption`), and the values that stand for nothing differ from
the others. The keys of drains are not those of other sinks (`KeysAssumption`), and a
filter of a request names at most one type of envelope, a oneof in `grpc.proto`
(`FiltersAssumption`). A truncating buffer has at least 3 places, the least its constructor accepts.

Only model-checked:

- Liveness, which is outside the prover's reach: `ShutsDown`, `ConsumersEnd`,
  `RemovedSinkEnds`, `ComesToRest`, `CacheFollowsController`, `StreamsEnd`,
  `StreamsReleased`, `RlpStreamsEnd`, `DisconnectEnds`, `NeverHalfUp`.
- `EnvelopesSurvive`: conversions of envelopes put strings together (`deployment/job`, the
  printed form of a decimal), for which the provers have no theory, and the property is
  about the inputs of `MCConversion`, which leave out those of item 8 of section 4.

Every other invariant a run checks, and the refinement `DeliversInOrder`, has its theorem.
Loops whose result a proof needs are recursive functions in the models (`remaining`,
`Dump`, `deDupe`, `Added`, `Aggregated`). The library's induction rules take an operator as
a parameter, which the provers cannot instantiate; the proofs use induction over a set of
numbers instead (`SetInduction`, `NatSetInduction`), from the least counterexample of
`WFMin`, and first show that the recursive function exists for every length.

## 6. Not modelled

- Generated code (`*.pb.go`, `bindata.go`), test servers, fakes, the acceptance and
  integration tests: not part of the program.
- `metron/internal/egress/v1/writer.go`, the v1 batch writer: no process builds one.
- `plumbing/envelope_averager.go` and the gauges: one number each. The averager's packed
  word is listed as a hazard.
- doppler's websocket keep-alive and the parsing of its request paths; the websocket
  sink's marshalling; the tagger's map of tags; the metrics the marshaller keeps by type.
- Formats: syslog frames, the access log, configuration files; IP ranges of the URL
  blacklist; profiling and health endpoints, TLS beyond which files must be there.
- Left out inside the modelled components: logging, the texts of messages, the metric
  batcher, and an application's siblings, which share nothing with it but a lock.

## 7. Plan

What the plan listed is modelled, checked and, where the provers reach, proved. What would
come next:

1. A specification of conversion over tags that are not strings, so that `V1Survives` could
   be proved for every envelope in normal form.
2. The averager's packed word (`envelope_averager.go:48`), with its 16 and 48 bits.
3. `DrainsMatch` for URLs with a query, once the lookup of a drain uses the identifier it
   was filed under.
