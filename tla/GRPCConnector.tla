---------------------------- MODULE GRPCConnector ----------------------------
(***************************************************************************)
(* plumbing: the GRPCConnector and its connection Pool, which the traffic   *)
(* controller and the reverse log proxy use to read from every doppler.     *)
(*                                                                         *)
(* A consumer subscribes once and is fed by one goroutine per doppler       *)
(* (consumeSubscription).  The finder announces lists of dopplers; the      *)
(* connector registers the new ones, spawns the missing goroutines and      *)
(* lets go of the dopplers that left the list, by a flag (disconnect) and a *)
(* reference count rather than at once.                                     *)
(*                                                                         *)
(* A critical section of c.mu is one step: everything it writes is read     *)
(* under c.mu, except refCount, dead, consumerStates and the pool, whose    *)
(* lock-free readers may run before or after the step.  Queries hold c.mu   *)
(* for reading across many steps and so keep the writers out.               *)
(***************************************************************************)
EXTENDS Naturals, FiniteSets

CONSTANTS
  Uris,            (* doppler addresses                                    *)
  Consumers,       (* callers of Subscribe, each one consumerState         *)
  Queries,         (* callers of ContainerMetrics and RecentLogs           *)
  MaxConnections,  (* maxConnections: length of consumerStates             *)
  BufferSize,      (* capacity of consumerState.data                       *)
  Nil,             (* the nil pointer of an empty slot                     *)
  Readvertise,     (* may a doppler come back after leaving the list?      *)
  MaxInfos,        (* bound: dopplerClientInfos made for one address       *)
  MaxEvents        (* bound: events read from the finder                   *)

ASSUME MaxConnectionsAssumption == MaxConnections \in Nat \ {0}
ASSUME BufferSizeAssumption == BufferSize \in Nat
ASSUME BoundsAssumption == MaxInfos \in Nat /\ MaxEvents \in Nat
ASSUME ReadvertiseAssumption == Readvertise \in BOOLEAN
ASSUME ConsumersAssumption == Nil \notin Consumers /\ IsFiniteSet(Consumers)

Slots == 1..MaxConnections
Infos == Uris \X (1..MaxInfos)  (* <<u, n>>: the n-th dopplerClientInfo of u *)
uri(d) == d[1]
Spawners == {"Subscribe", "finder"}
Goroutines == Consumers \X Infos \X Spawners

VARIABLES
  \* GRPCConnector
  clients,         (* the dopplerClientInfos in c.clients                  *)
  made,            (* per address, the dopplerClientInfos made so far      *)
  disconnect, refCount,           (* the fields of a dopplerClientInfo     *)
  consumerStates,  (* per slot, a consumer or Nil                          *)
  \* Subscribe and its consumerState
  subscribe,       (* per consumer, the pc, slot and pointer of its call   *)
  cancelled, dead, (* ctx is done; the flag a goroutine sets after that    *)
  dopplers, data,  (* dopplers map; messages in the data channel           *)
  \* consumeSubscription
  consume,         (* per goroutine, its pc and local variables            *)
  \* Pool
  pool,            (* per address, the info it was registered for, or 0    *)
  conn,            (* per registration: none, dialing, open or closed      *)
  \* ContainerMetrics and RecentLogs
  query,           (* per query, its pc, goroutines still out, results     *)
  \* the finder
  events, withdrawn

connector == <<clients, made, disconnect, refCount>>
consumer == <<cancelled, dead, dopplers, data>>
vars == <<connector, consumerStates, subscribe, consumer, consume, pool, conn,
          query, events, withdrawn>>

Readers == {q \in Queries : query[q].pc = "fetching"}

-----------------------------------------------------------------------------
(* Pool.  A registration is a slice of connections; one connection stands   *)
(* for its p.size equal ones.                                               *)

\* fetchClient finds a connection in the slice the address now has.
Available(u) == pool[u] # 0 /\ conn[<<u, pool[u]>>] = "open"

\* Close drops the registration and closes the connection it finds in it.
\* A connection still being dialed is not found.
ClosedPool(us) == [u \in Uris |-> IF u \in us THEN 0 ELSE pool[u]]
ClosedConn(us) ==
  [d \in Infos |->
     IF uri(d) \in us /\ d[2] = pool[uri(d)] /\ conn[d] = "open"
       THEN "closed" ELSE conn[d]]

\* connectToDoppler: the dial succeeds and the connection is stored.
ConnectToDoppler(d) ==
  /\ conn[d] = "dialing"
  /\ conn' = [conn EXCEPT ![d] = "open"]
  /\ UNCHANGED <<connector, consumerStates, subscribe, consumer, consume, pool,
                 query, events, withdrawn>>

-----------------------------------------------------------------------------
(* Subscribe.                                                               *)

\* The consumerState is made and addConsumerState starts its scan.
SubscribeCall(cs) ==
  /\ subscribe[cs].pc = "idle"
  /\ subscribe' = [subscribe EXCEPT ![cs] = [pc |-> "load", i |-> 1, state |-> Nil]]
  /\ UNCHANGED <<connector, consumerStates, consumer, consume, pool, conn, query,
                 events, withdrawn>>

Admitted == [pc |-> "connect", i |-> 1, state |-> Nil]

\* Past the last slot: "at connection limit".
NextSlot(cs) ==
  IF subscribe[cs].i = MaxConnections
    THEN [pc |-> "refused", i |-> 1, state |-> Nil]
    ELSE [pc |-> "load", i |-> subscribe[cs].i + 1, state |-> Nil]

\* The pointer is free to be replaced: nil, or its consumer is dead.
Replaceable(state) == state = Nil \/ dead[state]

\* addConsumerState: load the slot, go to the CAS or to the next slot.
LoadSlot(cs) ==
  /\ subscribe[cs].pc = "load"
  /\ LET state == consumerStates[subscribe[cs].i]
     IN  subscribe' = [subscribe EXCEPT ![cs] =
           IF Replaceable(state) THEN [@ EXCEPT !.pc = "cas", !.state = state]
                                 ELSE NextSlot(cs)]
  /\ UNCHANGED <<connector, consumerStates, consumer, consume, pool, conn, query,
                 events, withdrawn>>

\* addConsumerState: CompareAndSwapPointer, on failure on to the next slot.
CASSlot(cs) ==
  /\ subscribe[cs].pc = "cas"
  /\ LET i == subscribe[cs].i
         swapped == consumerStates[i] = subscribe[cs].state
     IN  /\ consumerStates' =
              IF swapped THEN [consumerStates EXCEPT ![i] = cs] ELSE consumerStates
         /\ subscribe' = [subscribe EXCEPT ![cs] =
              IF swapped THEN Admitted ELSE NextSlot(cs)]
  /\ UNCHANGED <<connector, consumer, consume, pool, conn, query, events,
                 withdrawn>>

\* The goroutines in S begin.
Started(S) ==
  [g \in Goroutines |-> IF g \in S THEN [consume[g] EXCEPT !.pc = "add"]
                                   ELSE consume[g]]

\* Under the read lock, one goroutine for every known doppler.
Connect(cs) ==
  /\ subscribe[cs].pc = "connect"
  /\ consume' = Started({<<cs, d, "Subscribe">> : d \in clients})
  /\ subscribe' = [subscribe EXCEPT ![cs].pc = "subscribed"]
  /\ UNCHANGED <<connector, consumerStates, consumer, pool, conn, query, events,
                 withdrawn>>

\* The caller's context ends.
Cancel(cs) ==
  /\ subscribe[cs].pc # "idle"
  /\ ~cancelled[cs]
  /\ cancelled' = [cancelled EXCEPT ![cs] = TRUE]
  /\ UNCHANGED <<connector, consumerStates, subscribe, dead, dopplers, data,
                 consume, pool, conn, query, events, withdrawn>>

\* The goroutine of Subscribe that waits for ctx.Done.
MarkDead(cs) ==
  /\ cancelled[cs]
  /\ ~dead[cs]
  /\ dead' = [dead EXCEPT ![cs] = TRUE]
  /\ UNCHANGED <<connector, consumerStates, subscribe, cancelled, dopplers, data,
                 consume, pool, conn, query, events, withdrawn>>

\* consumerState.Recv takes a message (with the context done it may not).
Recv(cs) ==
  /\ subscribe[cs].pc = "subscribed"
  /\ data[cs] > 0
  /\ data' = [data EXCEPT ![cs] = @ - 1]
  /\ UNCHANGED <<connector, consumerStates, subscribe, cancelled, dead, dopplers,
                 consume, pool, conn, query, events, withdrawn>>

-----------------------------------------------------------------------------
(* handleFinderEvent.                                                       *)

\* delta: the addresses without a client, the clients without an address.
NewURIs(list) == list \ {uri(d) : d \in clients}
DeadClients(list) == {d \in clients : uri(d) \notin list}

\* Mutant: the scan stops one slot short.
LiveConsumersButLast == {cs \in Consumers : ~dead[cs]
  /\ \E i \in Slots \ {MaxConnections} : consumerStates[i] = cs}

\* The consumers the scan over consumerStates finds alive.
LiveConsumers == {cs \in Consumers : ~dead[cs]
  /\ \E i \in Slots : consumerStates[i] = cs}

\* Mutant: a client that left the list is closed with its references.
IdleOrNot(list) == DeadClients(list)

\* The clients that left the list and are in nobody's use: closed at once.
Idle(list) == {d \in DeadClients(list) : refCount[d] = 0}

\* One event, once no query holds the lock.
EventReady(list) ==
  /\ events < MaxEvents
  /\ Readers = {}
  /\ \A u \in NewURIs(list) : made[u] < MaxInfos
  /\ Readvertise \/ list \cap withdrawn = {}

\* Register the new dopplers and spawn their goroutines, clear the flag of
\* those still listed (subtractClient), set it for the others and close those
\* without references.
HandleFinderEvent(list) ==
  LET fresh == {<<u, made[u] + 1>> : u \in NewURIs(list)}
      closed == {uri(d) : d \in Idle(list)}
  IN  /\ EventReady(list)
      /\ made' = [u \in Uris |-> IF u \in NewURIs(list) THEN made[u] + 1 ELSE made[u]]
      /\ clients' = (clients \cup fresh) \ Idle(list)
      /\ disconnect' = [d \in Infos |->
           IF d \in clients THEN uri(d) \notin list ELSE disconnect[d]]
      /\ consume' = Started(LiveConsumers \X fresh \X {"finder"})
      /\ pool' = [u \in Uris |->
           IF u \in NewURIs(list) THEN made[u] + 1 ELSE ClosedPool(closed)[u]]
      /\ conn' = [d \in Infos |->
           IF d \in fresh THEN "dialing" ELSE ClosedConn(closed)[d]]
      /\ events' = events + 1
      /\ withdrawn' = withdrawn \cup {uri(d) : d \in DeadClients(list)}
      /\ UNCHANGED <<refCount, consumerStates, subscribe, consumer, query>>

-----------------------------------------------------------------------------
(* consumeSubscription, goroutine g = <<cs, d, spawner>>.                   *)

Goto(g, l) == consume' = [consume EXCEPT ![g].pc = l]

\* Mutant: the goroutine does not ask whether another reads this doppler.
AddDoppler(g) ==
  /\ consume[g].pc = "add"
  /\ dopplers' = [dopplers EXCEPT ![g[1]] = @ \cup {uri(g[2])}]
  /\ Goto(g, "ref")
  /\ UNCHANGED <<connector, consumerStates, subscribe, cancelled, dead, data, pool,
                 conn, query, events, withdrawn>>

\* tryAddDoppler: return if another goroutine reads this address already.
TryAddDoppler(g) ==
  /\ consume[g].pc = "add"
  /\ dopplers' = [dopplers EXCEPT ![g[1]] = @ \cup {uri(g[2])}]
  /\ Goto(g, IF uri(g[2]) \in dopplers[g[1]] THEN "done" ELSE "ref")
  /\ UNCHANGED <<connector, consumerStates, subscribe, cancelled, dead, data, pool,
                 conn, query, events, withdrawn>>

AddRef(g) ==
  /\ consume[g].pc = "ref"
  /\ refCount' = [refCount EXCEPT ![g[2]] = @ + 1]
  /\ Goto(g, "loop")
  /\ UNCHANGED <<clients, made, disconnect, consumerStates, subscribe, consumer,
                 pool, conn, query, events, withdrawn>>

\* Top of the loop: load dead.
LoadDead(g) ==
  /\ consume[g].pc = "loop"
  /\ consume' = [consume EXCEPT ![g].pc = "check", ![g].ctxDisconnect = dead[g[1]]]
  /\ UNCHANGED <<connector, consumerStates, subscribe, consumer, pool, conn, query,
                 events, withdrawn>>

\* Read disconnect under the read lock; leave, or try once (more).
Check(g) ==
  /\ consume[g].pc = "check"
  /\ consume' = [consume EXCEPT ![g] =
       IF (consume[g].tried /\ disconnect[g[2]]) \/ consume[g].ctxDisconnect
         THEN [@ EXCEPT !.pc = "exit", !.tried = FALSE, !.ctxDisconnect = FALSE]
         ELSE [@ EXCEPT !.pc = "dial", !.tried = TRUE]]
  /\ UNCHANGED <<connector, consumerStates, subscribe, consumer, pool, conn, query,
                 events, withdrawn>>

\* pool.Subscribe succeeds: the stream runs over the registration found there.
Dial(g) ==
  /\ consume[g].pc = "dial"
  /\ Available(uri(g[2]))
  /\ consume' = [consume EXCEPT ![g].pc = "read", ![g].stream = pool[uri(g[2])]]
  /\ UNCHANGED <<connector, consumerStates, subscribe, consumer, pool, conn, query,
                 events, withdrawn>>

\* pool.Subscribe fails, for want of a connection or at the doppler: sleep
\* and go round again.
DialFails(g) ==
  /\ consume[g].pc = "dial"
  /\ Goto(g, "loop")
  /\ UNCHANGED <<connector, consumerStates, subscribe, consumer, pool, conn, query,
                 events, withdrawn>>

\* readStream receives a message from the stream.
ReadMessage(g) ==
  /\ consume[g].pc = "read"
  /\ conn[<<uri(g[2]), consume[g].stream>>] = "open"
  /\ Goto(g, "deliver")
  /\ UNCHANGED <<connector, consumerStates, subscribe, consumer, pool, conn, query,
                 events, withdrawn>>

\* readStream hands it to the consumer, when there is room.
Deliver(g) ==
  /\ consume[g].pc = "deliver"
  /\ data[g[1]] < BufferSize
  /\ data' = [data EXCEPT ![g[1]] = @ + 1]
  /\ Goto(g, "read")
  /\ UNCHANGED <<connector, consumerStates, subscribe, cancelled, dead, dopplers,
                 pool, conn, query, events, withdrawn>>

\* Mutant: readStream waits for room, whatever becomes of the consumer.
NeverAbandon(g) == FALSE /\ UNCHANGED vars

\* readStream drops the message of a consumer whose context is done.
Abandon(g) ==
  /\ consume[g].pc = "deliver"
  /\ cancelled[g[1]]
  /\ consume' = [consume EXCEPT ![g].pc = "loop", ![g].stream = 0]
  /\ UNCHANGED <<connector, consumerStates, subscribe, consumer, pool, conn, query,
                 events, withdrawn>>

\* Recv on the stream returns an error: the doppler failed, the connection was
\* closed or the context ended.
StreamError(g) ==
  /\ consume[g].pc = "read"
  /\ consume' = [consume EXCEPT ![g].pc = "loop", ![g].stream = 0]
  /\ UNCHANGED <<connector, consumerStates, subscribe, consumer, pool, conn, query,
                 events, withdrawn>>

\* The goroutine gives up the last reference to a doppler that left the list.
LastOut(d) == refCount[d] <= 1 /\ disconnect[d]

\* Mutant: the last one out closes the connection, listed or not.
ExitAlwaysCloses(g) ==
  LET d == g[2]
      last == refCount[d] <= 1
  IN  /\ consume[g].pc = "exit"
      /\ Readers = {}
      /\ refCount' = [refCount EXCEPT ![d] = @ - 1]
      /\ clients' = IF LastOut(d) THEN clients \ {d} ELSE clients
      /\ pool' = IF last THEN ClosedPool({uri(d)}) ELSE pool
      /\ conn' = IF last THEN ClosedConn({uri(d)}) ELSE conn
      /\ dopplers' = [dopplers EXCEPT ![g[1]] = @ \ {uri(d)}]
      /\ Goto(g, "done")
      /\ UNCHANGED <<made, disconnect, consumerStates, subscribe, cancelled, dead,
                     data, query, events, withdrawn>>

\* The deferred function, under c.mu.
Exit(g) ==
  LET d == g[2]
  IN  /\ consume[g].pc = "exit"
      /\ Readers = {}
      /\ refCount' = [refCount EXCEPT ![d] = @ - 1]
      /\ clients' = IF LastOut(d) THEN clients \ {d} ELSE clients
      /\ pool' = IF LastOut(d) THEN ClosedPool({uri(d)}) ELSE pool
      /\ conn' = IF LastOut(d) THEN ClosedConn({uri(d)}) ELSE conn
      /\ dopplers' = [dopplers EXCEPT ![g[1]] = @ \ {uri(d)}]
      /\ Goto(g, "done")
      /\ UNCHANGED <<made, disconnect, consumerStates, subscribe, cancelled, dead,
                     data, query, events, withdrawn>>

-----------------------------------------------------------------------------
(* ContainerMetrics and RecentLogs: the same code but for the request.      *)

\* RLock; one goroutine per doppler.
QueryCall(q) ==
  /\ query[q].pc = "idle"
  /\ query' = [query EXCEPT ![q] = [pc |-> "fetching", out |-> clients, results |-> 0]]
  /\ UNCHANGED <<connector, consumerStates, subscribe, consumer, consume, pool,
                 conn, events, withdrawn>>

\* A doppler answers, fails, or the context's deadline passes: one result in
\* every case, nil for an error.
QueryResult(q, d) ==
  /\ query[q].pc = "fetching"
  /\ d \in query[q].out
  /\ query' = [query EXCEPT ![q].out = @ \ {d}, ![q].results = @ + 1]
  /\ UNCHANGED <<connector, consumerStates, subscribe, consumer, consume, pool,
                 conn, events, withdrawn>>

\* The loop has received len(c.clients) results, a length read anew each time.
QueryReturn(q) ==
  /\ query[q].pc = "fetching"
  /\ query[q].results >= Cardinality(clients)
  /\ query' = [query EXCEPT ![q].pc = "returned"]
  /\ UNCHANGED <<connector, consumerStates, subscribe, consumer, consume, pool,
                 conn, events, withdrawn>>

-----------------------------------------------------------------------------
Init ==
  /\ clients = {}
  /\ made = [u \in Uris |-> 0]
  /\ disconnect = [d \in Infos |-> FALSE]
  /\ refCount = [d \in Infos |-> 0]
  /\ consumerStates = [i \in Slots |-> Nil]
  /\ subscribe = [cs \in Consumers |-> [pc |-> "idle", i |-> 1, state |-> Nil]]
  /\ cancelled = [cs \in Consumers |-> FALSE]
  /\ dead = [cs \in Consumers |-> FALSE]
  /\ dopplers = [cs \in Consumers |-> {}]
  /\ data = [cs \in Consumers |-> 0]
  /\ consume = [g \in Goroutines |->
       [pc |-> "none", tried |-> FALSE, ctxDisconnect |-> FALSE, stream |-> 0]]
  /\ pool = [u \in Uris |-> 0]
  /\ conn = [d \in Infos |-> "none"]
  /\ query = [q \in Queries |-> [pc |-> "idle", out |-> {}, results |-> 0]]
  /\ events = 0
  /\ withdrawn = {}

SubscribeStep(cs) ==
  SubscribeCall(cs) \/ LoadSlot(cs) \/ CASSlot(cs) \/ Connect(cs) \/ MarkDead(cs)

ConsumeStep(g) ==
  \/ TryAddDoppler(g) \/ AddRef(g) \/ LoadDead(g) \/ Check(g) \/ Dial(g)
  \/ DialFails(g) \/ ReadMessage(g) \/ Deliver(g) \/ Abandon(g)
  \/ StreamError(g) \/ Exit(g)

QueryStep(q) == QueryReturn(q) \/ \E d \in Infos : QueryResult(q, d)

Next ==
  \/ \E d \in Infos : ConnectToDoppler(d)
  \/ \E cs \in Consumers : SubscribeStep(cs) \/ Cancel(cs) \/ Recv(cs)
  \/ \E list \in SUBSET Uris : HandleFinderEvent(list)
  \/ \E g \in Goroutines : ConsumeStep(g)
  \/ \E q \in Queries : QueryCall(q) \/ QueryStep(q)

Spec == Init /\ [][Next]_vars

(* Goroutines keep running, the connection of a closed registration or of   *)
(* a done context breaks its stream, and a query's context has a deadline,   *)
(* so each of its goroutines ends.                                           *)
Broken(g) ==
  /\ consume[g].pc = "read"
  /\ cancelled[g[1]] \/ conn[<<uri(g[2]), consume[g].stream>>] # "open"

GoroutineStep(g) ==
  \/ TryAddDoppler(g) \/ AddRef(g) \/ LoadDead(g) \/ Check(g) \/ DialFails(g)
  \/ Abandon(g) \/ Exit(g) \/ (Broken(g) /\ StreamError(g))

Fairness ==
  /\ \A cs \in Consumers : WF_vars(MarkDead(cs))
  /\ \A g \in Goroutines : WF_vars(GoroutineStep(g))
  /\ \A q \in Queries : WF_vars(QueryStep(q))

FairSpec == Spec /\ Fairness

-----------------------------------------------------------------------------
(* Properties.                                                              *)

Running == {"ref", "loop", "check", "dial", "read", "deliver", "exit"}
\* A consumer never gets a doppler's messages twice: Subscribe and
\* handleFinderEvent may both spawn a goroutine, only one passes tryAddDoppler.
OneReader ==
  \A cs \in Consumers, u \in Uris :
    Cardinality({g \in Goroutines : /\ g[1] = cs /\ uri(g[2]) = u
                                    /\ consume[g].pc \in Running}) <= 1

\* The connector never closes a connection under a goroutine that reads from it.
NotClosedUnderReader ==
  \A g \in Goroutines :
    consume[g].pc \in {"read", "deliver"} =>
      conn[<<uri(g[2]), consume[g].stream>>] = "open"

\* Every doppler on the finder's list has its registration in the pool, so new
\* subscriptions and queries can reach it.
ListedIsRegistered ==
  \A d \in clients : ~disconnect[d] => pool[uri(d)] = d[2]

\* A connected consumer has a goroutine, not on its way out, for every doppler
\* on the finder's list, whatever the order of Subscribe and the events, as long
\* as no doppler comes back after it was withdrawn (Readvertise = FALSE): the
\* cases of a doppler that returns are not promised anything here.
Covered ==
  \A cs \in Consumers, d \in clients :
    (subscribe[cs].pc = "subscribed" /\ ~cancelled[cs] /\ ~disconnect[d]) =>
      \E s \in Spawners : consume[<<cs, d, s>>].pc \in {"add"} \cup (Running \ {"exit"})

\* Once a consumer's context is done all its goroutines end, even one that is
\* waiting for room in the data channel nobody reads any more.
ConsumersEnd ==
  \A cs \in Consumers :
    cancelled[cs] ~> [](\A g \in Goroutines :
                          g[1] = cs => consume[g].pc \in {"none", "done"})
=============================================================================
