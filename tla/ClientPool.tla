----------------------------- MODULE ClientPool -----------------------------
(***************************************************************************)
(* metron's connections to dopplers: a pool of N ConnManagers, each with a   *)
(* pointer to its current connection.  Goroutines that write load the        *)
(* pointer and use what they loaded; after a failed write or MaxWrites good  *)
(* ones they clear it, close the connection and wake the manager's own       *)
(* goroutine, which connects anew.  The v1 and the v2 API have each a pool:  *)
(* the same code but for recycling and for who writes (v1: the UDP reader    *)
(* and the goroutines of the metrics library; v2: the transponder alone).    *)
(* The two pools share nothing, and `version` says which one is meant.       *)
(***************************************************************************)
EXTENDS Integers, FiniteSets

CONSTANTS
  N,             (* ConnManagers of the pool                               *)
  MaxWrites,     (* writes after which a connection is recycled            *)
  ResetCap,      (* capacity of the channel reset                          *)
  Writers,       (* [1..2 -> goroutines that write to the pool]            *)
  MaxConns       (* bound: connections made                                *)

ASSUME PoolAssumption ==
  /\ N \in Nat \ {0}
  /\ MaxWrites \in Nat \ {0} /\ ResetCap \in Nat \ {0} /\ MaxConns \in Nat

VARIABLES
  version,       (* 1 or 2                                                 *)
  conn,          (* per manager, its current connection, or 0              *)
  state,         (* per connection: none, open or closed                   *)
  closes,        (* per connection, calls of its Close                     *)
  writes,        (* per connection, good writes                            *)
  reset,         (* per manager, messages in reset                         *)
  maintain,      (* per manager, where its goroutine is                    *)
  health,        (* gauges: connections and streams to dopplers            *)
  task,          (* per goroutine, its call of the pool's Write            *)
  delivered      (* per goroutine, times this call's message was sent      *)

poolVars == <<version, conn, state, closes, writes, reset, maintain, health, task,
              delivered>>

Managers == 0 .. N - 1
Conns == 1 .. MaxConns
AllWriters == Writers[1] \cup Writers[2]
NoTask == [at |-> "idle", seed |-> 0, i |-> 0, c |-> 0, ok |-> FALSE]
Waiting == [at |-> "wait", c |-> 0]

\* NewConnManager: no connection yet, and maintainConn's first message to itself.
PoolInit ==
  /\ conn = [m \in Managers |-> 0]
  /\ state = [c \in Conns |-> "none"]
  /\ closes = [c \in Conns |-> 0]
  /\ writes = [c \in Conns |-> 0]
  /\ reset = [m \in Managers |-> 1]
  /\ maintain = [m \in Managers |-> Waiting]
  /\ health = [connections |-> 0, streams |-> 0]
  /\ task = [w \in AllWriters |-> NoTask]
  /\ delivered = [w \in AllWriters |-> 0]

-----------------------------------------------------------------------------
(* ClientPool.Write and, for each manager it tries, ConnManager.Write.      *)

\* Write begins with a manager chosen at random.
StartWrite(w) ==
  /\ \E seed \in Managers :
       task' = [task EXCEPT ![w] = [NoTask EXCEPT !.at = "load", !.seed = seed]]
  /\ delivered' = [delivered EXCEPT ![w] = 0]

\* The manager being tried.
Manager(w) == (task[w].i + task[w].seed) % N

\* The manager's Write returned: the pool's Write returns at the first success,
\* goes on to the next manager after an error, and fails after the last.
Return(t, ok) ==
  IF ~ok /\ t.i + 1 < N
    THEN [t EXCEPT !.at = "load", !.i = @ + 1, !.c = 0]
    ELSE [NoTask EXCEPT !.at = "done", !.ok = ok]

Step(w, at) == task' = [task EXCEPT ![w].at = at]

\* The pointer is loaded; without a connection the write fails.
Load(w) ==
  /\ task[w].at = "load"
  /\ LET c == conn[Manager(w)]
     IN  task' = [task EXCEPT ![w] =
                    IF c = 0 THEN Return(@, FALSE) ELSE [@ EXCEPT !.at = "send", !.c = c]]
  /\ UNCHANGED <<version, conn, state, closes, writes, reset, maintain, health, delivered>>

\* client.Send, on a connection that others may have closed.
Send(w) ==
  /\ task[w].at = "send"
  /\ \/ /\ state[task[w].c] = "open"
        /\ delivered' = [delivered EXCEPT ![w] = @ + 1]
        /\ Step(w, "count")
     \/ Step(w, "unset") /\ UNCHANGED delivered
  /\ UNCHANGED <<version, conn, state, closes, writes, reset, maintain, health>>

\* The send failed: whatever connection is current is forgotten.
Unset(w) ==
  /\ task[w].at = "unset"
  /\ conn' = [conn EXCEPT ![Manager(w)] = 0]
  /\ Step(w, "close")
  /\ UNCHANGED <<version, state, closes, writes, reset, maintain, health, delivered>>

Count(w) ==
  /\ task[w].at = "count"
  /\ LET c == task[w].c
     IN  /\ writes' = [writes EXCEPT ![c] = @ + 1]
         /\ task' = [task EXCEPT ![w] =
              IF writes[c] + 1 >= MaxWrites THEN [@ EXCEPT !.at = "recycle"] ELSE Return(@, TRUE)]
  /\ UNCHANGED <<version, conn, state, closes, reset, maintain, health, delivered>>

\* Mutant: whoever finds the connection already replaced reports an error.
RecycleFails(w) ==
  /\ task[w].at = "recycle" /\ version = 1
  /\ IF conn[Manager(w)] = task[w].c
       THEN /\ conn' = [conn EXCEPT ![Manager(w)] = 0]
            /\ task' = [task EXCEPT ![w].at = "close", ![w].ok = TRUE]
       ELSE /\ task' = [task EXCEPT ![w] = Return(@, FALSE)]
            /\ UNCHANGED conn
  /\ UNCHANGED <<version, state, closes, writes, reset, maintain, health, delivered>>

\* v1 recycles by compare-and-swap: one of the goroutines closes.
Recycle(w) ==
  /\ task[w].at = "recycle" /\ version = 1
  /\ IF conn[Manager(w)] = task[w].c
       THEN /\ conn' = [conn EXCEPT ![Manager(w)] = 0]
            /\ task' = [task EXCEPT ![w].at = "close", ![w].ok = TRUE]
       ELSE /\ task' = [task EXCEPT ![w] = Return(@, TRUE)]
            /\ UNCHANGED conn
  /\ UNCHANGED <<version, state, closes, writes, reset, maintain, health, delivered>>

\* v2 recycles with a plain store.
RecycleV2(w) ==
  /\ task[w].at = "recycle" /\ version = 2
  /\ conn' = [conn EXCEPT ![Manager(w)] = 0]
  /\ task' = [task EXCEPT ![w].at = "close", ![w].ok = TRUE]
  /\ UNCHANGED <<version, state, closes, writes, reset, maintain, health, delivered>>

\* Mutant: the connection is not closed.
CloseLeaks(w) ==
  /\ task[w].at = "close"
  /\ Step(w, "reset")
  /\ UNCHANGED <<version, conn, state, closes, writes, reset, maintain, health, delivered>>

\* decrementingCloser.Close.
Close(w) ==
  /\ task[w].at = "close"
  /\ state' = [state EXCEPT ![task[w].c] = "closed"]
  /\ closes' = [closes EXCEPT ![task[w].c] = @ + 1]
  /\ health' = [connections |-> health.connections - 1, streams |-> health.streams - 1]
  /\ Step(w, "reset")
  /\ UNCHANGED <<version, conn, writes, reset, maintain, delivered>>

\* m.reset <- true, which waits for room; then Write returns.
Reset(w) ==
  /\ task[w].at = "reset"
  /\ reset[Manager(w)] < ResetCap
  /\ reset' = [reset EXCEPT ![Manager(w)] = @ + 1]
  /\ task' = [task EXCEPT ![w] = Return(@, @.ok)]
  /\ UNCHANGED <<version, conn, state, closes, writes, maintain, health, delivered>>

WriteStep(w) ==
  \/ Load(w) \/ Send(w) \/ Unset(w) \/ Count(w) \/ Recycle(w) \/ RecycleV2(w)
  \/ Close(w) \/ Reset(w)

-----------------------------------------------------------------------------
(* maintainConn, one goroutine per manager.                                 *)

\* checkConnectionTimer returns, for a message in reset or a tick, and the pointer
\* is loaded: without a connection, Connect is called.
Check(m) ==
  /\ maintain[m].at = "wait"
  /\ \/ reset[m] > 0 /\ reset' = [reset EXCEPT ![m] = @ - 1]
     \/ UNCHANGED reset
  /\ maintain' = [maintain EXCEPT ![m].at = IF conn[m] = 0 THEN "connect" ELSE "wait"]
  /\ UNCHANGED <<version, conn, state, closes, writes, health, task, delivered>>

\* The next connection to be made.
Fresh(c) == state[c] = "none" /\ \A d \in 1..(c - 1) : state[d] # "none"

\* GRPCConnector.Connect: no balancer's NextHostPort finds an address, or Fetch
\* cannot dial.
ConnectFails(m) ==
  /\ maintain[m].at = "connect"
  /\ maintain' = [maintain EXCEPT ![m] = Waiting]
  /\ UNCHANGED <<version, conn, state, closes, writes, reset, health, task, delivered>>

\* PusherFetcher.Fetch, SenderFetcher.Fetch: the dial succeeds and the stream fails;
\* the connection is closed, and stays counted.
FetchFails(m) ==
  /\ maintain[m].at = "connect"
  /\ \E c \in Conns : Fresh(c) /\ state' = [state EXCEPT ![c] = "closed"]
  /\ maintain' = [maintain EXCEPT ![m] = Waiting]
  /\ health' = [health EXCEPT !.connections = @ + 1]
  /\ UNCHANGED <<version, conn, closes, writes, reset, task, delivered>>

\* Fetch returns a connection with a stream.
Fetch(m) ==
  /\ maintain[m].at = "connect"
  /\ \E c \in Conns :
       /\ Fresh(c)
       /\ state' = [state EXCEPT ![c] = "open"]
       /\ maintain' = [maintain EXCEPT ![m] = [at |-> "store", c |-> c]]
  /\ health' = [connections |-> health.connections + 1, streams |-> health.streams + 1]
  /\ UNCHANGED <<version, conn, closes, writes, reset, task, delivered>>

Store(m) ==
  /\ maintain[m].at = "store"
  /\ conn' = [conn EXCEPT ![m] = maintain[m].c]
  /\ maintain' = [maintain EXCEPT ![m] = Waiting]
  /\ UNCHANGED <<version, state, closes, writes, reset, health, task, delivered>>

MaintainStep(m) ==
  Check(m) \/ ConnectFails(m) \/ FetchFails(m) \/ Fetch(m) \/ Store(m)

-----------------------------------------------------------------------------
\* A manager's pointer never names a closed connection, though several goroutines
\* may be closing the one they loaded; and with a single writer (the v2 pool) every
\* open connection is current, about to become so, or about to be closed, and is
\* closed once: none is left behind open.
ConnectionsKept ==
  /\ \A m \in Managers : conn[m] # 0 => state[conn[m]] = "open"
  /\ Cardinality(Writers[version]) = 1 =>
       /\ \A c \in Conns : state[c] = "open" =>
            \/ \E m \in Managers : conn[m] = c \/ maintain[m].c = c
            \/ \E w \in AllWriters : task[w].c = c /\ task[w].at = "close"
       /\ \A c \in Conns : closes[c] <= 1

\* A message is sent on at most one connection, and the pool's Write returns
\* success exactly if it was sent.
SentOnce ==
  \A w \in AllWriters :
    /\ delivered[w] <= 1
    /\ task[w].at = "done" => (task[w].ok <=> delivered[w] = 1)

=============================================================================
