------------------------- MODULE GRPCConnectorProofs -------------------------
(***************************************************************************)
(* What the GRPCConnector promises its consumers, for any number of         *)
(* dopplers, consumers, slots, queries and events.                          *)
(*                                                                          *)
(* OneReader holds however the finder's list changes.  The others hold as   *)
(* long as no doppler comes back after leaving the list (~Readvertise): the *)
(* run grpc_connector_readvertise shows how ListedIsRegistered fails        *)
(* otherwise.                                                               *)
(***************************************************************************)
EXTENDS GRPCConnector, FiniteSetTheorems, TLAPS

Pcs == Running \cup {"none", "add", "done"}
Locals == [pc : Pcs, tried : BOOLEAN, ctxDisconnect : BOOLEAN, stream : Nat]

Types ==
  /\ consume \in [Goroutines -> Locals]
  /\ dopplers \in [Consumers -> SUBSET Uris]
  /\ pool \in [Uris -> Nat] /\ made \in [Uris -> Nat]
  /\ dead \in [Consumers -> BOOLEAN]

\* The dopplers map holds the address of every goroutine that reads, and each
\* of its entries is one goroutine's.
SoleReader ==
  /\ \A g \in Goroutines :
       consume[g].pc \in Running => uri(g[2]) \in dopplers[g[1]]
  /\ \A g, h \in Goroutines :
       /\ consume[g].pc \in Running /\ consume[h].pc \in Running
       /\ g[1] = h[1] /\ uri(g[2]) = uri(h[2])
       => g = h

ReaderInv == Types /\ SoleReader

\* The steps of consumeSubscription between tryAddDoppler and the deferred
\* function.
Inside(g) ==
  \/ AddRef(g) \/ LoadDead(g) \/ Check(g) \/ Dial(g) \/ DialFails(g)
  \/ ReadMessage(g) \/ Deliver(g) \/ Abandon(g) \/ StreamError(g)

-----------------------------------------------------------------------------
\* What goroutines and dopplerClientInfos are.
LEMMA Shapes ==
  /\ \A d \in Infos : uri(d) \in Uris /\ d[2] \in 1..MaxInfos /\ d = <<uri(d), d[2]>>
  /\ \A u \in Uris, n \in 1..MaxInfos : <<u, n>> \in Infos /\ uri(<<u, n>>) = u
  /\ \A g \in Goroutines : /\ g[1] \in Consumers /\ g[2] \in Infos /\ g[3] \in Spawners
                           /\ g = <<g[1], g[2], g[3]>>
  /\ \A cs \in Consumers, d \in Infos, s \in Spawners : <<cs, d, s>> \in Goroutines
  /\ MaxInfos \in Nat
  BY BoundsAssumption DEF Infos, Goroutines, uri

\* A goroutine that is past tryAddDoppler moves on, and nothing but its own
\* variables, its reference and the consumer's data change.
LEMMA InsideMoves ==
  ASSUME Types, NEW g \in Goroutines, Inside(g)
  PROVE  /\ consume[g].pc \in Running \ {"exit"}
         /\ \E r \in Locals : /\ consume' = [consume EXCEPT ![g] = r]
                              /\ r.pc \in Running \ {"ref"}
                              /\ r.pc = "exit" => \/ disconnect[g[2]]
                                                  \/ consume[g].ctxDisconnect
                              /\ r.ctxDisconnect => consume[g].ctxDisconnect \/ dead[g[1]]
         /\ UNCHANGED <<clients, made, disconnect, consumerStates, subscribe, cancelled,
                        dead, dopplers, pool, conn, events, withdrawn>>
<1> USE Shapes DEF Types
<1>0. consume[g] \in Locals
  OBVIOUS
<1>1. CASE AddRef(g)
  <2> DEFINE r == [consume[g] EXCEPT !.pc = "loop"]
  <2>1. consume' = [consume EXCEPT ![g] = r] /\ consume[g].pc = "ref"
    BY <1>1 DEF AddRef, Goto
  <2>2. r \in Locals /\ r.pc = "loop" /\ r.ctxDisconnect = consume[g].ctxDisconnect
    BY <1>0 DEF Locals, Pcs, Running
  <2> QED BY <1>1, <2>1, <2>2 DEF AddRef, Running, consumer
<1>2. CASE LoadDead(g)
  <2> DEFINE r == [consume[g] EXCEPT !.pc = "check", !.ctxDisconnect = dead[g[1]]]
  <2>1. consume' = [consume EXCEPT ![g] = r] /\ consume[g].pc = "loop"
    BY <1>2 DEF LoadDead
  <2>2. r \in Locals /\ r.pc = "check" /\ r.ctxDisconnect = dead[g[1]]
    BY <1>0 DEF Locals, Pcs, Running
  <2> QED BY <1>2, <2>1, <2>2 DEF LoadDead, Running, connector, consumer
<1>3. CASE Check(g)
  <2> DEFINE leave == (consume[g].tried /\ disconnect[g[2]]) \/ consume[g].ctxDisconnect
             out == [consume[g] EXCEPT !.pc = "exit", !.tried = FALSE, !.ctxDisconnect = FALSE]
             on == [consume[g] EXCEPT !.pc = "dial", !.tried = TRUE]
             r == IF leave THEN out ELSE on
  <2>1. consume' = [consume EXCEPT ![g] = r] /\ consume[g].pc = "check"
    BY <1>3 DEF Check
  <2>2. out \in Locals /\ out.pc = "exit" /\ out.ctxDisconnect = FALSE
    BY <1>0 DEF Locals, Pcs, Running
  <2>3. on \in Locals /\ on.pc = "dial" /\ on.ctxDisconnect = consume[g].ctxDisconnect
    BY <1>0 DEF Locals, Pcs, Running
  <2> HIDE DEF out, on
  <2>4. r \in Locals /\ r.pc \in {"exit", "dial"} /\ (r.pc = "exit" => leave)
        /\ (r.ctxDisconnect => consume[g].ctxDisconnect)
    BY <2>2, <2>3
  <2> HIDE DEF r
  <2> QED BY <1>3, <2>1, <2>4 DEF Check, Running, connector, consumer
<1>4. CASE Dial(g)
  <2> DEFINE r == [consume[g] EXCEPT !.pc = "read", !.stream = pool[uri(g[2])]]
  <2>1. consume' = [consume EXCEPT ![g] = r] /\ consume[g].pc = "dial"
    BY <1>4 DEF Dial
  <2>2. r \in Locals /\ r.pc = "read" /\ r.ctxDisconnect = consume[g].ctxDisconnect
    BY <1>0 DEF Locals, Pcs, Running
  <2> QED BY <1>4, <2>1, <2>2 DEF Dial, Running, connector, consumer
<1>5. CASE DialFails(g)
  <2> DEFINE r == [consume[g] EXCEPT !.pc = "loop"]
  <2>1. consume' = [consume EXCEPT ![g] = r] /\ consume[g].pc = "dial"
    BY <1>5 DEF DialFails, Goto
  <2>2. r \in Locals /\ r.pc = "loop" /\ r.ctxDisconnect = consume[g].ctxDisconnect
    BY <1>0 DEF Locals, Pcs, Running
  <2> QED BY <1>5, <2>1, <2>2 DEF DialFails, Running, connector, consumer
<1>6. CASE ReadMessage(g)
  <2> DEFINE r == [consume[g] EXCEPT !.pc = "deliver"]
  <2>1. consume' = [consume EXCEPT ![g] = r] /\ consume[g].pc = "read"
    BY <1>6 DEF ReadMessage, Goto
  <2>2. r \in Locals /\ r.pc = "deliver" /\ r.ctxDisconnect = consume[g].ctxDisconnect
    BY <1>0 DEF Locals, Pcs, Running
  <2> QED BY <1>6, <2>1, <2>2 DEF ReadMessage, Running, connector, consumer
<1>7. CASE Deliver(g)
  <2> DEFINE r == [consume[g] EXCEPT !.pc = "read"]
  <2>1. consume' = [consume EXCEPT ![g] = r] /\ consume[g].pc = "deliver"
    BY <1>7 DEF Deliver, Goto
  <2>2. r \in Locals /\ r.pc = "read" /\ r.ctxDisconnect = consume[g].ctxDisconnect
    BY <1>0 DEF Locals, Pcs, Running
  <2> QED BY <1>7, <2>1, <2>2 DEF Deliver, Running, connector
<1>8. CASE Abandon(g) \/ StreamError(g)
  <2> DEFINE r == [consume[g] EXCEPT !.pc = "loop", !.stream = 0]
  <2>1. consume' = [consume EXCEPT ![g] = r] /\ consume[g].pc \in {"read", "deliver"}
    BY <1>8 DEF Abandon, StreamError
  <2>2. r \in Locals /\ r.pc = "loop" /\ r.ctxDisconnect = consume[g].ctxDisconnect
    BY <1>0 DEF Locals, Pcs, Running
  <2> QED BY <1>8, <2>1, <2>2 DEF Abandon, StreamError, Running, connector, consumer
<1> QED BY <1>1, <1>2, <1>3, <1>4, <1>5, <1>6, <1>7, <1>8 DEF Inside

\* tryAddDoppler, as a move of its goroutine.
LEMMA AddMoves ==
  ASSUME Types, NEW g \in Goroutines, TryAddDoppler(g)
  PROVE  /\ consume[g].pc = "add"
         /\ \E r \in Locals :
              /\ consume' = [consume EXCEPT ![g] = r]
              /\ r.pc = IF uri(g[2]) \in dopplers[g[1]] THEN "done" ELSE "ref"
              /\ r.ctxDisconnect = consume[g].ctxDisconnect
         /\ dopplers' = [dopplers EXCEPT ![g[1]] = @ \cup {uri(g[2])}]
         /\ UNCHANGED <<clients, made, disconnect, refCount, consumerStates, subscribe,
                        cancelled, dead, pool, conn, events, withdrawn>>
<1> DEFINE l == IF uri(g[2]) \in dopplers[g[1]] THEN "done" ELSE "ref"
           r == [consume[g] EXCEPT !.pc = l]
<1>1. consume' = [consume EXCEPT ![g] = r] /\ consume[g].pc = "add"
  BY DEF TryAddDoppler, Goto
<1>2. consume[g] \in Locals /\ l \in Pcs
  BY DEF Types, Pcs, Running
<1> HIDE DEF l
<1>3. r \in Locals /\ r.pc = l /\ r.ctxDisconnect = consume[g].ctxDisconnect
  BY <1>2 DEF Locals
<1> HIDE DEF r
<1> QED BY <1>1, <1>3 DEF TryAddDoppler, l, connector

\* The deferred function, as a move of its goroutine.
LEMMA ExitMoves ==
  ASSUME Types, NEW g \in Goroutines, Exit(g)
  PROVE  /\ consume[g].pc = "exit"
         /\ \E r \in Locals : /\ consume' = [consume EXCEPT ![g] = r]
                              /\ r.pc = "done"
                              /\ r.ctxDisconnect = consume[g].ctxDisconnect
         /\ dopplers' = [dopplers EXCEPT ![g[1]] = @ \ {uri(g[2])}]
         /\ UNCHANGED <<made, disconnect, consumerStates, subscribe, cancelled, dead,
                        events, withdrawn>>
<1> DEFINE r == [consume[g] EXCEPT !.pc = "done"]
<1>1. consume' = [consume EXCEPT ![g] = r] /\ consume[g].pc = "exit"
  BY DEF Exit, Goto
<1>2. consume[g] \in Locals
  BY DEF Types
<1>3. r \in Locals /\ r.pc = "done" /\ r.ctxDisconnect = consume[g].ctxDisconnect
  BY <1>2 DEF Locals, Pcs
<1> HIDE DEF r
<1> QED BY <1>1, <1>3 DEF Exit

\* Goroutines begin, by Subscribe's or the finder's hand.
LEMMA StartedMoves ==
  ASSUME Types, NEW S, consume' = Started(S)
  PROVE  /\ consume' \in [Goroutines -> Locals]
         /\ \A g \in Goroutines :
              /\ g \in S => consume'[g].pc = "add"
              /\ g \notin S => consume'[g] = consume[g]
              /\ consume'[g].ctxDisconnect = consume[g].ctxDisconnect
<1>1. ASSUME NEW g \in Goroutines
      PROVE  LET r == [consume[g] EXCEPT !.pc = "add"]
             IN  r \in Locals /\ r.pc = "add" /\ r.ctxDisconnect = consume[g].ctxDisconnect
  <2>1. consume[g] \in Locals
    BY DEF Types
  <2> QED BY <2>1 DEF Locals, Pcs
<1> QED BY <1>1 DEF Started, Types

\* Whatever step is taken, it is one of these.
LEMMA Steps ==
  ASSUME [Next]_vars
  PROVE  \/ \E g \in Goroutines : Inside(g) \/ TryAddDoppler(g) \/ Exit(g)
         \/ \E cs \in Consumers : Connect(cs)
         \/ \E list \in SUBSET Uris : HandleFinderEvent(list)
         \/ \E d \in Infos : ConnectToDoppler(d)
         \/ \E cs \in Consumers : SubscribeCall(cs) \/ LoadSlot(cs) \/ CASSlot(cs)
         \/ \E cs \in Consumers : MarkDead(cs) \/ Cancel(cs)
         \/ \E cs \in Consumers : Recv(cs)
         \/ \E q \in Queries : QueryCall(q) \/ QueryStep(q)
         \/ UNCHANGED vars
  BY DEF Next, ConsumeStep, SubscribeStep, Inside

\* The types hold and each doppler has one reader, whatever is done.
LEMMA StepReader == ReaderInv /\ [Next]_vars => ReaderInv'
<1> SUFFICES ASSUME ReaderInv, [Next]_vars PROVE ReaderInv'
  OBVIOUS
<1> USE Shapes DEF ReaderInv
<1>1. ASSUME NEW g \in Goroutines, Inside(g) PROVE ReaderInv'
  <2>1. PICK r \in Locals : consume' = [consume EXCEPT ![g] = r] /\ r.pc \in Running
    BY <1>1, InsideMoves
  <2>2. consume[g].pc \in Running /\ UNCHANGED <<dopplers, pool, made, dead>>
    BY <1>1, InsideMoves
  <2>3. Types'
    BY <2>1, <2>2 DEF Types
  <2>4. \A h \in Goroutines : consume'[h].pc \in Running <=> consume[h].pc \in Running
    BY <2>1, <2>2 DEF Types
  <2> QED BY <2>2, <2>3, <2>4 DEF SoleReader
<1>2. ASSUME NEW g \in Goroutines, TryAddDoppler(g) PROVE ReaderInv'
  <2>1. PICK r \in Locals : /\ consume' = [consume EXCEPT ![g] = r]
                            /\ r.pc = IF uri(g[2]) \in dopplers[g[1]] THEN "done" ELSE "ref"
    BY <1>2, AddMoves
  <2>2. /\ dopplers' = [dopplers EXCEPT ![g[1]] = @ \cup {uri(g[2])}]
        /\ UNCHANGED <<pool, made, dead>>
    BY <1>2, AddMoves
  <2>3. Types'
    BY <2>1, <2>2 DEF Types
  <2>4. \A h \in Goroutines :
          consume'[h].pc \in Running =>
            \/ h = g /\ uri(g[2]) \notin dopplers[g[1]]
            \/ h # g /\ consume[h].pc \in Running
    BY <2>1 DEF Types, Running
  <2>5. \A cs \in Consumers : dopplers[cs] \subseteq dopplers'[cs]
    BY <2>2 DEF Types
  <2>6. uri(g[2]) \in dopplers'[g[1]]
    BY <2>2 DEF Types
  <2> QED BY <2>3, <2>4, <2>5, <2>6 DEF SoleReader
<1>3. ASSUME NEW g \in Goroutines, Exit(g) PROVE ReaderInv'
  <2>1. PICK r \in Locals : consume' = [consume EXCEPT ![g] = r] /\ r.pc = "done"
    BY <1>3, ExitMoves
  <2>2. /\ dopplers' = [dopplers EXCEPT ![g[1]] = @ \ {uri(g[2])}]
        /\ consume[g].pc \in Running
        /\ UNCHANGED <<made, dead>>
    BY <1>3, ExitMoves DEF Running
  <2>3. Types'
    BY <1>3, <2>1, <2>2 DEF Types, Exit, ClosedPool
  <2>4. \A h \in Goroutines : consume'[h].pc \in Running => h # g /\ consume[h].pc \in Running
    BY <2>1 DEF Types, Running
  <2>5. \A h \in Goroutines :
          h # g /\ consume[h].pc \in Running => uri(h[2]) \in dopplers'[h[1]]
    BY <2>2 DEF SoleReader, Types
  <2> QED BY <2>3, <2>4, <2>5 DEF SoleReader
<1>4. ASSUME NEW S, consume' = Started(S), Types', UNCHANGED dopplers PROVE ReaderInv'
  <2>1. \A h \in Goroutines : consume'[h].pc \in Running => consume[h].pc \in Running
    BY <1>4, StartedMoves DEF Running
  <2> QED BY <1>4, <2>1 DEF SoleReader
<1>5. ASSUME NEW cs \in Consumers, Connect(cs) PROVE ReaderInv'
  <2>1. consume' = Started({<<cs, d, "Subscribe">> : d \in clients})
        /\ UNCHANGED <<dopplers, pool, made, dead>>
    BY <1>5 DEF Connect, connector, consumer
  <2>2. Types'
    BY <2>1, StartedMoves DEF Types
  <2> QED BY <1>4, <2>1, <2>2
<1>6. ASSUME NEW list \in SUBSET Uris, HandleFinderEvent(list) PROVE ReaderInv'
  <2> DEFINE S == LiveConsumers \X {<<u, made[u] + 1>> : u \in NewURIs(list)} \X {"finder"}
  <2>1. consume' = Started(S) /\ UNCHANGED <<dopplers, dead>>
    BY <1>6 DEF HandleFinderEvent, consumer
  <2>2. made' \in [Uris -> Nat] /\ pool' \in [Uris -> Nat]
    BY <1>6 DEF HandleFinderEvent, ClosedPool, Types
  <2> HIDE DEF S
  <2>3. Types'
    BY <2>1, <2>2, StartedMoves DEF Types
  <2> QED BY <1>4, <2>1, <2>3
<1>7. ASSUME UNCHANGED <<consume, dopplers, pool, made, dead>> PROVE ReaderInv'
  BY <1>7 DEF Types, SoleReader
<1>8. ASSUME NEW cs \in Consumers, MarkDead(cs) \/ Cancel(cs) PROVE ReaderInv'
  <2>1. Types'
    BY <1>8 DEF MarkDead, Cancel, Types, connector
  <2> QED BY <1>8, <2>1 DEF MarkDead, Cancel, SoleReader
<1>9. ASSUME NEW cs \in Consumers,
             SubscribeCall(cs) \/ LoadSlot(cs) \/ CASSlot(cs) \/ Recv(cs)
      PROVE  ReaderInv'
  BY <1>7, <1>9 DEF SubscribeCall, LoadSlot, CASSlot, Recv, connector, consumer
<1>10. ASSUME NEW d \in Infos, ConnectToDoppler(d) PROVE ReaderInv'
  BY <1>7, <1>10 DEF ConnectToDoppler, connector, consumer
<1>11. ASSUME NEW q \in Queries, QueryCall(q) \/ QueryStep(q) PROVE ReaderInv'
  BY <1>7, <1>11 DEF QueryCall, QueryStep, QueryResult, QueryReturn, connector, consumer
<1>12. CASE UNCHANGED vars
  BY <1>7, <1>12 DEF vars, connector, consumer
<1> HIDE DEF ReaderInv
<1> QED BY <1>1, <1>2, <1>3, <1>5, <1>6, <1>8, <1>9, <1>10, <1>11, <1>12, Steps

\* Initially there are no readers.
LEMMA InitReader == Init => ReaderInv
<1> SUFFICES ASSUME Init PROVE ReaderInv
  OBVIOUS
<1>1. Types
  BY DEF Init, Types, Locals, Pcs
<1>2. SoleReader
  BY DEF Init, SoleReader, Running
<1> QED BY <1>1, <1>2 DEF ReaderInv

\* A set without two different members has at most one.
LEMMA AtMostOne ==
  ASSUME NEW S, \A x, y \in S : x = y
  PROVE  Cardinality(S) <= 1
<1>1. CASE S = {}
  BY <1>1, FS_EmptySet
<1>2. CASE S # {}
  <2>1. PICK x \in S : S = {x}
    BY <1>2
  <2>2. Cardinality(S) = 1
    BY <2>1, FS_Singleton
  <2> QED BY <2>2
<1> QED BY <1>1, <1>2

\* A consumer never gets a doppler's messages twice: of the goroutines that
\* Subscribe and handleFinderEvent spawn for a consumer and an address, at most
\* one is past tryAddDoppler.
THEOREM OneReaderCorrect == Spec => []OneReader
<1>1. ReaderInv => OneReader
  <2> SUFFICES ASSUME ReaderInv, NEW cs \in Consumers, NEW u \in Uris
               PROVE  Cardinality({g \in Goroutines : /\ g[1] = cs /\ uri(g[2]) = u
                                                      /\ consume[g].pc \in Running}) <= 1
    BY DEF OneReader
  <2> QED BY AtMostOne DEF ReaderInv, SoleReader
<1> QED BY <1>1, InitReader, StepReader, PTL DEF Spec

-----------------------------------------------------------------------------
(* Without readvertising: one dopplerClientInfo per address.                *)

\* A doppler that was ever listed has left the list or is registered; it is a
\* client exactly as long as it is registered.
Registry ==
  /\ clients \subseteq Infos /\ withdrawn \subseteq Uris
  /\ disconnect \in [Infos -> BOOLEAN]
  /\ \A u \in Uris :
       /\ made[u] <= 1 /\ made[u] <= MaxInfos /\ pool[u] <= made[u]
       /\ u \in withdrawn => made[u] = 1
       /\ made[u] = 1 /\ u \notin withdrawn => pool[u] = 1
  /\ \A d \in Infos :
       /\ d \in clients <=> d[2] = 1 /\ pool[uri(d)] = 1
       /\ disconnect[d] <=> d[2] = 1 /\ uri(d) \in withdrawn

\* What every step but those of the finder and the deferred function leaves.
registry == <<clients, made, disconnect, pool, withdrawn>>

\* Any step but those two.
LEMMA RegistryKept ==
  ASSUME Types, [Next]_vars
  PROVE  \/ UNCHANGED registry
         \/ \E g \in Goroutines : Exit(g)
         \/ \E list \in SUBSET Uris : HandleFinderEvent(list)
<1>1. ASSUME NEW g \in Goroutines, Inside(g) PROVE UNCHANGED registry
  BY <1>1, InsideMoves DEF registry
<1>2. ASSUME NEW g \in Goroutines, TryAddDoppler(g) PROVE UNCHANGED registry
  BY <1>2, AddMoves DEF registry
<1>3. ASSUME NEW cs \in Consumers,
             \/ Connect(cs) \/ SubscribeCall(cs) \/ LoadSlot(cs) \/ CASSlot(cs)
             \/ MarkDead(cs) \/ Cancel(cs) \/ Recv(cs)
      PROVE  UNCHANGED registry
  BY <1>3 DEF Connect, SubscribeCall, LoadSlot, CASSlot, MarkDead, Cancel, Recv, registry,
              connector
<1>4. ASSUME NEW d \in Infos, ConnectToDoppler(d) PROVE UNCHANGED registry
  BY <1>4 DEF ConnectToDoppler, registry, connector
<1>5. ASSUME NEW q \in Queries, QueryCall(q) \/ QueryStep(q) PROVE UNCHANGED registry
  BY <1>5 DEF QueryCall, QueryStep, QueryResult, QueryReturn, registry, connector
<1>6. CASE UNCHANGED vars
  BY <1>6 DEF vars, connector, registry
<1> QED BY <1>1, <1>2, <1>3, <1>4, <1>5, <1>6, Steps

\* What a finder event makes of the registry, address by address.
LEMMA EventEffect ==
  ASSUME ~Readvertise, Types, Registry, NEW list \in SUBSET Uris, HandleFinderEvent(list)
  PROVE  /\ \A u \in NewURIs(list) : made[u] = 0 /\ made'[u] = 1 /\ pool'[u] = 1 /\ MaxInfos >= 1
         /\ \A u \in Uris \ NewURIs(list) : made'[u] = made[u] /\ pool'[u] \in {0, pool[u]}
         /\ \A u \in Uris \ NewURIs(list) :
              pool'[u] # pool[u] => /\ pool[u] = 1 /\ u \notin list
                                    /\ \A d \in Infos : d[2] = 1 /\ uri(d) = u => refCount[d] = 0
         /\ \A u \in Uris : u \in withdrawn' <=> u \in withdrawn \/ (pool[u] = 1 /\ u \notin list)
         /\ list \cap withdrawn = {}
         /\ \A d \in Infos : d \in clients' <=> \/ d \in clients /\ d \notin Idle(list)
                                                \/ d[2] = 1 /\ uri(d) \in NewURIs(list)
<1> USE Shapes
<1> DEFINE fresh == {<<u, made[u] + 1>> : u \in NewURIs(list)}
           closed == {uri(d) : d \in Idle(list)}
<1>1. list \cap withdrawn = {} /\ \A u \in NewURIs(list) : made[u] < MaxInfos
  BY DEF HandleFinderEvent, EventReady
<1>2. NewURIs(list) \subseteq list /\ NewURIs(list) \subseteq Uris
  BY DEF NewURIs
<1>3. ASSUME NEW u \in NewURIs(list) PROVE made[u] = 0 /\ MaxInfos >= 1 /\ pool[u] = 0
  <2>1. u \in Uris /\ u \notin withdrawn /\ made[u] < MaxInfos
    BY <1>1, <1>2
  <2>2. made[u] \in Nat /\ pool[u] \in Nat /\ MaxInfos >= 1
    BY <2>1 DEF Types
  <2>3. <<u, 1>> \in Infos
    BY <2>1, <2>2
  <2>4. <<u, 1>> \notin clients
    BY <2>3 DEF NewURIs
  <2>5. pool[u] # 1
    BY <2>1, <2>3, <2>4 DEF Registry
  <2> QED BY <2>1, <2>2, <2>5 DEF Registry
<1>4. \A d \in Idle(list) : /\ d \in clients /\ d \in Infos /\ d[2] = 1 /\ pool[uri(d)] = 1
                            /\ uri(d) \notin list /\ refCount[d] = 0
  BY DEF Idle, DeadClients, Registry
<1>5. \A u \in NewURIs(list) : made'[u] = 1 /\ pool'[u] = 1
  BY <1>2, <1>3 DEF HandleFinderEvent
<1>6. \A u \in Uris \ NewURIs(list) :
        made'[u] = made[u] /\ pool'[u] = IF u \in closed THEN 0 ELSE pool[u]
  BY DEF HandleFinderEvent, ClosedPool
<1>7. ASSUME NEW u \in Uris \ NewURIs(list), pool'[u] # pool[u]
      PROVE  /\ pool[u] = 1 /\ u \notin list
             /\ \A d \in Infos : d[2] = 1 /\ uri(d) = u => refCount[d] = 0
  <2>1. u \in closed
    BY <1>6, <1>7
  <2>2. PICK e \in Idle(list) : uri(e) = u
    BY <2>1
  <2>3. e \in Infos /\ e[2] = 1 /\ refCount[e] = 0 /\ pool[u] = 1 /\ u \notin list
    BY <1>4, <2>2
  <2>4. \A d \in Infos : d[2] = 1 /\ uri(d) = u => d = e
    BY <2>2, <2>3
  <2> QED BY <2>3, <2>4
<1>8. ASSUME NEW u \in Uris
      PROVE  u \in withdrawn' <=> u \in withdrawn \/ (pool[u] = 1 /\ u \notin list)
  <2>1. withdrawn' = withdrawn \cup {uri(d) : d \in DeadClients(list)}
    BY DEF HandleFinderEvent
  <2>2. \A d \in DeadClients(list) : pool[uri(d)] = 1 /\ uri(d) \notin list
    BY DEF DeadClients, Registry
  <2>3. pool[u] = 1 /\ u \notin list => \E d \in DeadClients(list) : uri(d) = u
    <3> SUFFICES ASSUME pool[u] = 1, u \notin list PROVE \E d \in DeadClients(list) : uri(d) = u
      OBVIOUS
    <3>1. MaxInfos >= 1
      BY DEF Registry, Types
    <3>2. <<u, 1>> \in Infos /\ uri(<<u, 1>>) = u
      BY <3>1
    <3>3. <<u, 1>> \in clients
      BY <3>2 DEF Registry
    <3> QED BY <3>2, <3>3 DEF DeadClients
  <2> QED BY <2>1, <2>2, <2>3
<1>9. ASSUME NEW d \in Infos
      PROVE  d \in clients' <=> \/ d \in clients /\ d \notin Idle(list)
                                \/ d[2] = 1 /\ uri(d) \in NewURIs(list)
  <2>1. clients' = (clients \cup fresh) \ Idle(list)
    BY DEF HandleFinderEvent
  <2>2. d \in fresh <=> d[2] = 1 /\ uri(d) \in NewURIs(list)
    <3>1. fresh = {<<u, 1>> : u \in NewURIs(list)}
      BY <1>3
    <3>2. d \in {<<u, 1>> : u \in NewURIs(list)} <=> d[2] = 1 /\ uri(d) \in NewURIs(list)
      BY <1>2
    <3> QED BY <3>1, <3>2
  <2>3. uri(d) \in NewURIs(list) => d \notin Idle(list)
    BY <1>2, <1>4
  <2> QED BY <2>1, <2>2, <2>3
<1> QED BY <1>1, <1>2, <1>3, <1>5, <1>6, <1>7, <1>8, <1>9

\* The registry stays in order.
LEMMA StepRegistry ==
  ASSUME ~Readvertise, Types, Types', Registry, [Next]_vars
  PROVE  Registry'
<1> USE Shapes
<1>1. CASE UNCHANGED registry
  BY <1>1 DEF registry, Registry
<1>2. ASSUME NEW g \in Goroutines, Exit(g) PROVE Registry'
  <2> DEFINE d == g[2]
  <2>1. UNCHANGED <<made, disconnect, withdrawn>>
    BY <1>2 DEF Exit
  <2>2. CASE ~LastOut(d)
    BY <1>2, <2>1, <2>2 DEF Exit, Registry
  <2>3. CASE LastOut(d)
    <3>1. /\ clients' = clients \ {d}
          /\ \A u \in Uris : pool'[u] = IF u = uri(d) THEN 0 ELSE pool[u]
      BY <1>2, <2>3 DEF Exit, ClosedPool
    <3>2. d \in Infos /\ d[2] = 1 /\ uri(d) \in withdrawn
      BY <2>3 DEF LastOut, Registry
    <3>3. \A e \in Infos : e \in clients' <=> e[2] = 1 /\ pool'[uri(e)] = 1
      BY <3>1, <3>2 DEF Registry
    <3>4. \A u \in Uris : pool'[u] \in Nat /\ pool'[u] <= made[u]
                          /\ (made[u] = 1 /\ u \notin withdrawn => pool'[u] = 1)
      BY <3>1, <3>2 DEF Registry, Types
    <3> QED BY <2>1, <3>1, <3>3, <3>4 DEF Registry
  <2> QED BY <2>2, <2>3
<1>3. ASSUME NEW list \in SUBSET Uris, HandleFinderEvent(list) PROVE Registry'
  <2>1. clients' \subseteq Infos /\ withdrawn' \subseteq Uris
    <3>1. \A u \in NewURIs(list) : made[u] = 0 /\ u \in Uris /\ 1 \in 1..MaxInfos
      BY <1>3, EventEffect DEF NewURIs
    <3>2. {<<u, made[u] + 1>> : u \in NewURIs(list)} \subseteq Infos
      BY <3>1
    <3>3. {uri(d) : d \in DeadClients(list)} \subseteq Uris
      BY DEF DeadClients, Registry
    <3> QED BY <1>3, <3>2, <3>3 DEF HandleFinderEvent, Registry
  <2>2. disconnect' \in [Infos -> BOOLEAN]
    BY <1>3 DEF HandleFinderEvent, Registry
  <2>3. ASSUME NEW u \in Uris
        PROVE  /\ made'[u] <= 1 /\ made'[u] <= MaxInfos /\ pool'[u] <= made'[u]
               /\ u \in withdrawn' => made'[u] = 1
               /\ made'[u] = 1 /\ u \notin withdrawn' => pool'[u] = 1
    <3>1. CASE u \in NewURIs(list)
      BY <1>3, <3>1, EventEffect
    <3>2. CASE u \notin NewURIs(list)
      <4>1. /\ made'[u] = made[u] /\ pool'[u] \in {0, pool[u]}
            /\ pool'[u] # pool[u] => pool[u] = 1 /\ u \notin list
        BY <1>3, <3>2, EventEffect
      <4>2. u \in withdrawn' <=> u \in withdrawn \/ (pool[u] = 1 /\ u \notin list)
        BY <1>3, EventEffect
      <4>3. /\ made[u] \in Nat /\ pool[u] \in Nat
            /\ made[u] <= 1 /\ made[u] <= MaxInfos /\ pool[u] <= made[u]
            /\ u \in withdrawn => made[u] = 1
            /\ made[u] = 1 /\ u \notin withdrawn => pool[u] = 1
        BY DEF Registry, Types
      <4> QED BY <4>1, <4>2, <4>3
    <3> QED BY <3>1, <3>2
  <2>4. ASSUME NEW d \in Infos
        PROVE  d \in clients' <=> d[2] = 1 /\ pool'[uri(d)] = 1
    <3>1. CASE uri(d) \in NewURIs(list)
      <4>1. d \notin clients
        BY <3>1 DEF NewURIs
      <4> QED BY <1>3, <3>1, <4>1, EventEffect
    <3>2. CASE uri(d) \notin NewURIs(list)
      <4>1. d \in clients' <=> d \in clients /\ d \notin Idle(list)
        BY <1>3, <3>2, EventEffect
      <4>2. d[2] = 1 => (pool'[uri(d)] # pool[uri(d)] <=> d \in Idle(list))
        <5>1. ASSUME d[2] = 1, pool'[uri(d)] # pool[uri(d)] PROVE d \in Idle(list)
          <6>1. uri(d) \notin list /\ pool[uri(d)] = 1 /\ refCount[d] = 0
            BY <1>3, <3>2, <5>1, EventEffect
          <6> QED BY <5>1, <6>1 DEF Idle, DeadClients, Registry
        <5>2. ASSUME d \in Idle(list) PROVE pool'[uri(d)] # pool[uri(d)]
          <6>1. d \in clients /\ pool[uri(d)] = 1
            BY <5>2 DEF Idle, DeadClients, Registry
          <6>2. pool'[uri(d)] = 0
            BY <1>3, <3>2, <5>2 DEF HandleFinderEvent, ClosedPool
          <6> QED BY <6>1, <6>2
        <5> QED BY <5>1, <5>2
      <4>3. pool'[uri(d)] \in {0, pool[uri(d)]} /\ pool[uri(d)] \in Nat
        BY <1>3, <3>2, EventEffect DEF Types
      <4>4. d \in Idle(list) => pool[uri(d)] = 1 /\ d[2] = 1 /\ d \in clients
        BY DEF Idle, DeadClients, Registry
      <4>5. d \in clients <=> d[2] = 1 /\ pool[uri(d)] = 1
        BY DEF Registry
      <4> QED BY <4>1, <4>2, <4>3, <4>4, <4>5
    <3> QED BY <3>1, <3>2
  <2>5. ASSUME NEW d \in Infos
        PROVE  disconnect'[d] <=> d[2] = 1 /\ uri(d) \in withdrawn'
    <3>1. disconnect'[d] = IF d \in clients THEN uri(d) \notin list ELSE disconnect[d]
      BY <1>3 DEF HandleFinderEvent
    <3>2. uri(d) \in withdrawn' <=> uri(d) \in withdrawn \/ (pool[uri(d)] = 1 /\ uri(d) \notin list)
      BY <1>3, EventEffect
    <3>3. /\ d \in clients <=> d[2] = 1 /\ pool[uri(d)] = 1
          /\ disconnect[d] <=> d[2] = 1 /\ uri(d) \in withdrawn
      BY DEF Registry
    <3>4. uri(d) \in list => uri(d) \notin withdrawn
      BY <1>3, EventEffect
    <3> QED BY <3>1, <3>2, <3>3, <3>4
  <2> QED BY <2>1, <2>2, <2>3, <2>4, <2>5 DEF Registry
<1> QED BY <1>1, <1>2, <1>3, RegistryKept

-----------------------------------------------------------------------------
(* The slots of consumerStates.                                             *)

Calls == [pc : {"idle", "load", "cas", "connect", "subscribed", "refused"},
          i : Slots, state : Consumers \cup {Nil}]

\* A consumer that is admitted and not dead keeps its slot: only a slot that
\* was seen empty or left by a dead consumer is replaced, and a consumer that
\* died stays dead.
Slotted ==
  /\ subscribe \in [Consumers -> Calls]
  /\ consumerStates \in [Slots -> Consumers \cup {Nil}]
  /\ cancelled \in [Consumers -> BOOLEAN]
  /\ \A cs \in Consumers :
       /\ subscribe[cs].pc = "cas" => Replaceable(subscribe[cs].state)
       /\ subscribe[cs].pc \in {"connect", "subscribed"} /\ ~dead[cs] =>
            \E i \in Slots : consumerStates[i] = cs
       /\ dead[cs] => cancelled[cs]

\* The next slot is a slot.
LEMMA NextSlotType ==
  ASSUME Slotted, NEW cs \in Consumers
  PROVE  NextSlot(cs) \in Calls /\ NextSlot(cs).pc \in {"refused", "load"} /\ 1 \in Slots
<1>1. subscribe[cs].i \in 1..MaxConnections /\ MaxConnections \in Nat \ {0}
  BY MaxConnectionsAssumption DEF Slotted, Calls, Slots
<1> QED BY <1>1 DEF NextSlot, Calls, Slots

\* Subscribe's own steps and the end of a consumer's context.
LEMMA StepSlotted == ASSUME Types, Slotted, [Next]_vars PROVE Slotted'
<1> USE NextSlotType DEF Types, Slotted
<1>1. ASSUME NEW cs \in Consumers, SubscribeCall(cs) PROVE Slotted'
  <2> DEFINE r == [pc |-> "load", i |-> 1, state |-> Nil]
  <2>1. /\ subscribe' = [subscribe EXCEPT ![cs] = r]
        /\ UNCHANGED <<consumerStates, cancelled, dead>>
    BY <1>1 DEF SubscribeCall, consumer
  <2>2. r \in Calls /\ r.pc = "load"
    BY DEF Calls
  <2> QED BY <2>1, <2>2 DEF Replaceable
<1>2. ASSUME NEW cs \in Consumers, LoadSlot(cs) PROVE Slotted'
  <2> DEFINE state == consumerStates[subscribe[cs].i]
             r == [subscribe[cs] EXCEPT !.pc = "cas", !.state = state]
             new == IF Replaceable(state) THEN r ELSE NextSlot(cs)
  <2>1. /\ subscribe' = [subscribe EXCEPT ![cs] = new]
        /\ UNCHANGED <<consumerStates, cancelled, dead>>
    BY <1>2 DEF LoadSlot, consumer
  <2>2. subscribe[cs] \in Calls /\ state \in Consumers \cup {Nil}
    BY DEF Calls
  <2>3. r \in Calls /\ r.pc = "cas" /\ r.state = state
    BY <2>2 DEF Calls
  <2>4. new \in Calls /\ new.pc \in {"cas", "refused", "load"}
        /\ (new.pc = "cas" => Replaceable(new.state))
    BY <2>3
  <2> HIDE DEF new
  <2> QED BY <2>1, <2>4 DEF Replaceable
<1>3. ASSUME NEW cs \in Consumers, CASSlot(cs) PROVE Slotted'
  <2> DEFINE i == subscribe[cs].i
             swapped == consumerStates[i] = subscribe[cs].state
             new == IF swapped THEN Admitted ELSE NextSlot(cs)
  <2>1. /\ subscribe' = [subscribe EXCEPT ![cs] = new]
        /\ consumerStates' = IF swapped THEN [consumerStates EXCEPT ![i] = cs]
                                        ELSE consumerStates
        /\ UNCHANGED <<cancelled, dead>>
    BY <1>3 DEF CASSlot, consumer
  <2>2. i \in Slots /\ Replaceable(subscribe[cs].state)
    BY <1>3 DEF CASSlot, Calls
  <2>3. Admitted \in Calls /\ Admitted.pc = "connect"
    BY DEF Admitted, Calls
  <2>4. new \in Calls /\ new.pc \in {"connect", "refused", "load"} /\ (new.pc = "connect" => swapped)
    BY <2>3
  <2>5. /\ subscribe' \in [Consumers -> Calls]
        /\ consumerStates' \in [Slots -> Consumers \cup {Nil}]
    BY <2>1, <2>2, <2>4
  <2>6. \A c \in Consumers : c # cs => subscribe'[c] = subscribe[c]
    BY <2>1
  <2>7. subscribe'[cs] = new
    BY <2>1
  <2>8. ASSUME NEW c \in Consumers, subscribe'[c].pc \in {"connect", "subscribed"}, ~dead[c]
        PROVE  \E j \in Slots : consumerStates'[j] = c
    <3>1. CASE c = cs
      <4>1. swapped
        BY <2>4, <2>7, <2>8, <3>1
      <4>2. consumerStates'[i] = cs
        BY <2>1, <2>2, <4>1
      <4> QED BY <2>2, <3>1, <4>2
    <3>2. CASE c # cs
      <4>1. PICK j \in Slots : consumerStates[j] = c
        BY <2>6, <2>8, <3>2
      <4>2. CASE swapped /\ j = i
        <5>1. Replaceable(c)
          BY <2>2, <4>1, <4>2
        <5> QED BY <2>8, <5>1, ConsumersAssumption DEF Replaceable
      <4>3. CASE ~(swapped /\ j = i)
        <5>1. consumerStates'[j] = c
          BY <2>1, <4>1, <4>3
        <5> QED BY <5>1
      <4> QED BY <4>2, <4>3
    <3> QED BY <3>1, <3>2
  <2>9. ASSUME NEW c \in Consumers, subscribe'[c].pc = "cas"
        PROVE  Replaceable(subscribe'[c].state)
    <3>1. c # cs
      BY <2>4, <2>7, <2>9
    <3> QED BY <2>6, <2>9, <3>1
  <2> HIDE DEF new, swapped, i
  <2> QED BY <2>1, <2>5, <2>8, <2>9 DEF Replaceable
<1>4. ASSUME NEW cs \in Consumers, Connect(cs) PROVE Slotted'
  <2> DEFINE r == [subscribe[cs] EXCEPT !.pc = "subscribed"]
  <2>1. /\ subscribe' = [subscribe EXCEPT ![cs] = r] /\ subscribe[cs].pc = "connect"
        /\ UNCHANGED <<consumerStates, cancelled, dead>>
    BY <1>4 DEF Connect, consumer
  <2>2. r \in Calls /\ r.pc = "subscribed"
    <3>1. subscribe[cs] \in Calls
      OBVIOUS
    <3> QED BY <3>1 DEF Calls
  <2> HIDE DEF r
  <2> QED BY <2>1, <2>2 DEF Replaceable
<1>5. ASSUME NEW cs \in Consumers, MarkDead(cs) PROVE Slotted'
  BY <1>5 DEF MarkDead, Replaceable
<1>6. ASSUME NEW cs \in Consumers, Cancel(cs) PROVE Slotted'
  BY <1>6 DEF Cancel, Replaceable
<1>7. ASSUME UNCHANGED <<subscribe, consumerStates, cancelled, dead>> PROVE Slotted'
  BY <1>7 DEF Replaceable
<1>8. ASSUME NEW g \in Goroutines, Inside(g) \/ TryAddDoppler(g) \/ Exit(g) PROVE Slotted'
  BY <1>7, <1>8, InsideMoves, AddMoves, ExitMoves
<1>9. ASSUME NEW list \in SUBSET Uris, HandleFinderEvent(list) PROVE Slotted'
  BY <1>7, <1>9 DEF HandleFinderEvent, consumer
<1>10. ASSUME NEW d \in Infos, ConnectToDoppler(d) PROVE Slotted'
  BY <1>7, <1>10 DEF ConnectToDoppler, consumer
<1>11. ASSUME NEW cs \in Consumers, Recv(cs) PROVE Slotted'
  BY <1>7, <1>11 DEF Recv
<1>12. ASSUME NEW q \in Queries, QueryCall(q) \/ QueryStep(q) PROVE Slotted'
  BY <1>7, <1>12 DEF QueryCall, QueryStep, QueryResult, QueryReturn, consumer
<1>13. CASE UNCHANGED vars
  BY <1>7, <1>13 DEF vars, consumer
<1> HIDE DEF Slotted, Types
<1> QED BY <1>1, <1>2, <1>3, <1>4, <1>5, <1>6, <1>8, <1>9, <1>10, <1>11, <1>12, <1>13, Steps

-----------------------------------------------------------------------------
(* The goroutines and their references.                                     *)

\* A goroutine that was spawned reads a doppler that was listed; Subscribe
\* spawns its own when it is done.
Spawned ==
  \A g \in Goroutines :
    consume[g].pc # "none" =>
      /\ g[2][2] = 1 /\ made[uri(g[2])] = 1
      /\ g[3] = "Subscribe" => subscribe[g[1]].pc = "subscribed"

\* The goroutines that hold a reference to d.
Held == Running \ {"ref"}
InUse(d) ==
  {c \in Consumers \X Spawners : consume[<<c[1], d, c[2]>>].pc \in Held}

References ==
  refCount \in [Infos -> Int] /\ \A d \in Infos : refCount[d] = Cardinality(InUse(d))

\* A goroutine reads over its own doppler's connection, which is open.
Reading ==
  /\ conn \in [Infos -> {"none", "dialing", "open", "closed"}]
  /\ \A g \in Goroutines :
       consume[g].pc \in {"read", "deliver"} => consume[g].stream = 1 /\ conn[g[2]] = "open"

\* The goroutines a step starts had not been spawned before.
LEMMA ConnectFresh ==
  ASSUME Types, Registry, Slotted, Spawned, NEW cs \in Consumers, Connect(cs)
  PROVE  \A g \in Goroutines :
           IF g[1] = cs /\ g[2] \in clients /\ g[3] = "Subscribe"
             THEN /\ consume[g].pc = "none" /\ consume'[g].pc = "add"
                  /\ g[2][2] = 1 /\ made[uri(g[2])] = 1
             ELSE consume'[g] = consume[g]
<1> USE Shapes
<1> DEFINE S == {<<cs, d, "Subscribe">> : d \in clients}
<1>1. consume' = Started(S) /\ subscribe[cs].pc = "connect"
  BY DEF Connect
<1>2. ASSUME NEW g \in Goroutines
      PROVE  g \in S <=> g[1] = cs /\ g[2] \in clients /\ g[3] = "Subscribe"
  OBVIOUS
<1> HIDE DEF S
<1>3. ASSUME NEW g \in Goroutines, g \in S
      PROVE  consume[g].pc = "none" /\ g[2][2] = 1 /\ made[uri(g[2])] = 1
  <2>1. g[2] \in Infos /\ g[2] \in clients
    BY <1>2, <1>3
  <2>2. g[2][2] = 1 /\ pool[uri(g[2])] = 1
    BY <2>1 DEF Registry
  <2>3. made[uri(g[2])] = 1
    BY <2>1, <2>2 DEF Registry, Types
  <2> QED BY <1>1, <1>2, <1>3, <2>2, <2>3 DEF Spawned
<1>4. \A g \in Goroutines : /\ g \in S => consume'[g].pc = "add"
                            /\ g \notin S => consume'[g] = consume[g]
  BY <1>1, StartedMoves
<1> QED BY <1>2, <1>3, <1>4

\* The finder's are those of new dopplers and live consumers.
LEMMA EventFresh ==
  ASSUME ~Readvertise, Types, Registry, Spawned,
         NEW list \in SUBSET Uris, HandleFinderEvent(list)
  PROVE  \A g \in Goroutines :
           IF g[1] \in LiveConsumers /\ g[2][2] = 1 /\ uri(g[2]) \in NewURIs(list)
                /\ g[3] = "finder"
             THEN /\ consume[g].pc = "none" /\ consume'[g].pc = "add"
                  /\ made'[uri(g[2])] = 1
             ELSE consume'[g] = consume[g]
<1> USE Shapes
<1> DEFINE fresh == {<<u, made[u] + 1>> : u \in NewURIs(list)}
           S == LiveConsumers \X fresh \X {"finder"}
<1>1. consume' = Started(S)
  BY DEF HandleFinderEvent
<1>2. \A u \in NewURIs(list) : u \in Uris /\ made[u] = 0 /\ made'[u] = 1
  BY EventEffect DEF NewURIs
<1>3. ASSUME NEW d \in Infos PROVE d \in fresh <=> d[2] = 1 /\ uri(d) \in NewURIs(list)
  <2>1. fresh = {<<u, 1>> : u \in NewURIs(list)}
    BY <1>2
  <2>2. d \in {<<u, 1>> : u \in NewURIs(list)} <=> d[2] = 1 /\ uri(d) \in NewURIs(list)
    BY <1>2
  <2> QED BY <2>1, <2>2
<1> HIDE DEF fresh
<1>4. ASSUME NEW g \in Goroutines
      PROVE  g \in S <=> /\ g[1] \in LiveConsumers /\ g[2][2] = 1
                         /\ uri(g[2]) \in NewURIs(list) /\ g[3] = "finder"
  <2>1. g \in S <=> g[1] \in LiveConsumers /\ g[2] \in fresh /\ g[3] = "finder"
    OBVIOUS
  <2> QED BY <1>3, <2>1
<1> HIDE DEF S
<1>5. \A g \in Goroutines : /\ g \in S => consume'[g].pc = "add"
                            /\ g \notin S => consume'[g] = consume[g]
  BY <1>1, StartedMoves
<1>6. ASSUME NEW g \in Goroutines, g \in S PROVE consume[g].pc = "none"
  <2>1. made[uri(g[2])] = 0
    BY <1>2, <1>4, <1>6
  <2> QED BY <2>1 DEF Spawned
<1> QED BY <1>2, <1>4, <1>5, <1>6

\* The first to add a reference; everyone else inside holds one already.
LEMMA InsideReference ==
  ASSUME Types, NEW g \in Goroutines, Inside(g)
  PROVE  \/ /\ consume[g].pc = "ref"
            /\ refCount' = [refCount EXCEPT ![g[2]] = @ + 1]
         \/ consume[g].pc \in Held /\ UNCHANGED refCount
  BY DEF Inside, AddRef, LoadDead, Check, Dial, DialFails, ReadMessage, Deliver, Abandon,
         StreamError, Held, Running, connector

\* Which connection a goroutine reads.
LEMMA InsideStream ==
  ASSUME Types, NEW g \in Goroutines, Inside(g),
         consume'[g].pc \in {"read", "deliver"}
  PROVE  \/ consume[g].pc \in {"read", "deliver"} /\ consume'[g].stream = consume[g].stream
         \/ Available(uri(g[2])) /\ consume'[g].stream = pool[uri(g[2])]
<1> USE DEF Types
<1>0. consume[g] \in Locals
  OBVIOUS
<1>1. CASE AddRef(g) \/ LoadDead(g) \/ DialFails(g) \/ Abandon(g) \/ StreamError(g)
  BY <1>0, <1>1 DEF AddRef, LoadDead, DialFails, Abandon, StreamError, Goto, Locals
<1>2. CASE Check(g)
  BY <1>0, <1>2 DEF Check, Locals
<1>3. CASE Dial(g)
  BY <1>0, <1>3 DEF Dial, Locals
<1>4. CASE ReadMessage(g) \/ Deliver(g)
  BY <1>0, <1>4 DEF ReadMessage, Deliver, Goto, Locals
<1> QED BY <1>1, <1>2, <1>3, <1>4 DEF Inside

\* A goroutine, once spawned, stays so.
LEMMA StepSpawned ==
  ASSUME ~Readvertise, Types, Registry, Registry', Slotted, Spawned, [Next]_vars
  PROVE  Spawned'
<1> USE Shapes
<1>1. ASSUME NEW g \in Goroutines, Inside(g) \/ TryAddDoppler(g) \/ Exit(g) PROVE Spawned'
  <2>1. PICK r \in Locals : consume' = [consume EXCEPT ![g] = r]
    BY <1>1, InsideMoves, AddMoves, ExitMoves
  <2>2. consume[g].pc # "none" /\ UNCHANGED <<made, subscribe>>
    BY <1>1, InsideMoves, AddMoves, ExitMoves DEF Running
  <2> QED BY <2>1, <2>2 DEF Types, Spawned
<1>2. ASSUME NEW cs \in Consumers, Connect(cs) PROVE Spawned'
  <2>1. made' = made /\ subscribe'[cs].pc = "subscribed"
        /\ \A c \in Consumers : c # cs => subscribe'[c] = subscribe[c]
    BY <1>2 DEF Connect, connector, Slotted, Calls
  <2> QED BY <1>2, <2>1, ConnectFresh DEF Spawned
<1>3. ASSUME NEW list \in SUBSET Uris, HandleFinderEvent(list) PROVE Spawned'
  <2>1. subscribe' = subscribe
    BY <1>3 DEF HandleFinderEvent
  <2>2. \A u \in Uris : made[u] = 1 => made'[u] = 1
    BY <1>3, EventEffect
  <2>3. "finder" # "Subscribe"
    OBVIOUS
  <2> QED BY <1>3, <2>1, <2>2, <2>3, EventFresh DEF Spawned
<1>4. ASSUME UNCHANGED <<consume, made>>,
             \A c \in Consumers : subscribe[c].pc = "subscribed" => subscribe'[c].pc = "subscribed"
      PROVE  Spawned'
  BY <1>4 DEF Spawned
<1>5. ASSUME NEW cs \in Consumers, SubscribeCall(cs) \/ LoadSlot(cs) \/ CASSlot(cs)
      PROVE  Spawned'
  BY <1>4, <1>5 DEF SubscribeCall, LoadSlot, CASSlot, connector, Slotted
<1>6. ASSUME NEW cs \in Consumers, MarkDead(cs) \/ Cancel(cs) \/ Recv(cs) PROVE Spawned'
  BY <1>4, <1>6 DEF MarkDead, Cancel, Recv, connector
<1>7. ASSUME NEW d \in Infos, ConnectToDoppler(d) PROVE Spawned'
  BY <1>4, <1>7 DEF ConnectToDoppler, connector
<1>8. ASSUME NEW q \in Queries, QueryCall(q) \/ QueryStep(q) PROVE Spawned'
  BY <1>4, <1>8 DEF QueryCall, QueryStep, QueryResult, QueryReturn, connector
<1>9. CASE UNCHANGED vars
  BY <1>4, <1>9 DEF vars, connector
<1> QED BY <1>1, <1>2, <1>3, <1>5, <1>6, <1>7, <1>8, <1>9, Steps

\* The references to a doppler can be counted.
LEMMA InUseFinite ==
  ASSUME NEW d \in Infos
  PROVE  IsFiniteSet(InUse(d)) /\ Cardinality(InUse(d)) \in Nat
<1>1. IsFiniteSet({"Subscribe"})
  BY FS_Singleton
<1>2. Spawners = {"Subscribe"} \cup {"finder"}
  BY DEF Spawners
<1>3. IsFiniteSet(Spawners)
  BY <1>1, <1>2, FS_AddElement
<1>4. IsFiniteSet(Consumers \X Spawners)
  BY <1>3, ConsumersAssumption, FS_Product
<1>5. InUse(d) \in SUBSET (Consumers \X Spawners)
  BY DEF InUse
<1> QED BY <1>4, <1>5, FS_Subset, FS_CardinalityType

\* As long as every goroutine keeps its reference, the count is right.
LEMMA ReferencesKept ==
  ASSUME References, UNCHANGED refCount,
         \A g \in Goroutines : consume'[g].pc \in Held <=> consume[g].pc \in Held
  PROVE  References'
<1>1. ASSUME NEW d \in Infos PROVE InUse(d)' = InUse(d)
  BY Shapes DEF InUse
<1> QED BY <1>1 DEF References

\* refCount counts the goroutines between AddRef and the deferred function.
LEMMA StepReferences ==
  ASSUME ~Readvertise, Types, Registry, Slotted, Spawned, References, [Next]_vars
  PROVE  References'
<1> USE Shapes
<1>1. ASSUME NEW g \in Goroutines, Inside(g) PROVE References'
  <2>1. PICK r \in Locals : consume' = [consume EXCEPT ![g] = r] /\ r.pc \in Held
    BY <1>1, InsideMoves DEF Held
  <2>2. CASE consume[g].pc \in Held /\ UNCHANGED refCount
    <3>1. \A h \in Goroutines : consume'[h].pc \in Held <=> consume[h].pc \in Held
      BY <2>1, <2>2 DEF Types
    <3> QED BY <2>2, <3>1, ReferencesKept
  <2>3. CASE consume[g].pc = "ref" /\ refCount' = [refCount EXCEPT ![g[2]] = @ + 1]
    <3> DEFINE c0 == <<g[1], g[3]>>
    <3>1. c0 \in Consumers \X Spawners /\ c0[1] = g[1] /\ c0[2] = g[3]
      OBVIOUS
    <3>2. \A c \in Consumers \X Spawners : c # c0 => c[1] # g[1] \/ c[2] # g[3]
      OBVIOUS
    <3> HIDE DEF c0
    <3>3. InUse(g[2])' = InUse(g[2]) \cup {c0} /\ c0 \notin InUse(g[2])
      <4>1. ASSUME NEW c \in Consumers \X Spawners
            PROVE  consume'[<<c[1], g[2], c[2]>>].pc \in Held <=>
                     consume[<<c[1], g[2], c[2]>>].pc \in Held \/ c = c0
        <5>1. <<c[1], g[2], c[2]>> \in Goroutines /\ (<<c[1], g[2], c[2]>> = g <=> c = c0)
          BY <3>1, <3>2
        <5> QED BY <2>1, <5>1 DEF Types
      <4>2. consume[<<c0[1], g[2], c0[2]>>].pc \notin Held
        BY <2>3, <3>1 DEF Held
      <4> QED BY <3>1, <4>1, <4>2 DEF InUse
    <3>4. ASSUME NEW d \in Infos, d # g[2] PROVE InUse(d)' = InUse(d)
      BY <2>1, <3>4 DEF InUse, Types
    <3>5. Cardinality(InUse(g[2])') = Cardinality(InUse(g[2])) + 1
      BY <3>3, InUseFinite, FS_AddElement
    <3> QED BY <2>3, <3>4, <3>5 DEF References
  <2> QED BY <1>1, <2>2, <2>3, InsideReference
<1>2. ASSUME NEW g \in Goroutines, TryAddDoppler(g) PROVE References'
  <2>1. PICK r \in Locals : consume' = [consume EXCEPT ![g] = r] /\ r.pc \in {"done", "ref"}
    BY <1>2, AddMoves
  <2>2. consume[g].pc = "add" /\ UNCHANGED refCount
    BY <1>2, AddMoves
  <2>3. \A h \in Goroutines : consume'[h].pc \in Held <=> consume[h].pc \in Held
    BY <2>1, <2>2 DEF Types, Held, Running
  <2> QED BY <2>2, <2>3, ReferencesKept
<1>3. ASSUME NEW g \in Goroutines, Exit(g) PROVE References'
  <2>1. PICK r \in Locals : consume' = [consume EXCEPT ![g] = r] /\ r.pc = "done"
    BY <1>3, ExitMoves
  <2>2. consume[g].pc = "exit" /\ refCount' = [refCount EXCEPT ![g[2]] = @ - 1]
    BY <1>3 DEF Exit
  <2> DEFINE c0 == <<g[1], g[3]>>
  <2>3. c0 \in Consumers \X Spawners /\ c0[1] = g[1] /\ c0[2] = g[3]
    OBVIOUS
  <2>4. \A c \in Consumers \X Spawners : c # c0 => c[1] # g[1] \/ c[2] # g[3]
    OBVIOUS
  <2> HIDE DEF c0
  <2>5. InUse(g[2])' = InUse(g[2]) \ {c0} /\ c0 \in InUse(g[2])
    <3>1. ASSUME NEW c \in Consumers \X Spawners
          PROVE  consume'[<<c[1], g[2], c[2]>>].pc \in Held <=>
                   consume[<<c[1], g[2], c[2]>>].pc \in Held /\ c # c0
      <4>1. <<c[1], g[2], c[2]>> \in Goroutines /\ (<<c[1], g[2], c[2]>> = g <=> c = c0)
        BY <2>3, <2>4
      <4> QED BY <2>1, <4>1 DEF Types, Held, Running
    <3>2. consume[<<c0[1], g[2], c0[2]>>].pc \in Held
      BY <2>2, <2>3 DEF Held, Running
    <3> QED BY <2>3, <3>1, <3>2 DEF InUse
  <2>6. ASSUME NEW d \in Infos, d # g[2] PROVE InUse(d)' = InUse(d)
    BY <2>1, <2>6 DEF InUse, Types
  <2>7. Cardinality(InUse(g[2])') = Cardinality(InUse(g[2])) - 1
    BY <2>5, InUseFinite, FS_RemoveElement
  <2> QED BY <2>2, <2>6, <2>7 DEF References
<1>4. ASSUME NEW cs \in Consumers, Connect(cs) PROVE References'
  <2>1. \A g \in Goroutines : consume'[g].pc \in Held <=> consume[g].pc \in Held
    BY <1>4, ConnectFresh DEF Held, Running
  <2>2. UNCHANGED refCount
    BY <1>4 DEF Connect, connector
  <2> QED BY <2>1, <2>2, ReferencesKept
<1>5. ASSUME NEW list \in SUBSET Uris, HandleFinderEvent(list) PROVE References'
  <2>1. \A g \in Goroutines : consume'[g].pc \in Held <=> consume[g].pc \in Held
    BY <1>5, EventFresh DEF Held, Running
  <2>2. UNCHANGED refCount
    BY <1>5 DEF HandleFinderEvent
  <2> QED BY <2>1, <2>2, ReferencesKept
<1>6. ASSUME UNCHANGED <<consume, refCount>> PROVE References'
  BY <1>6, ReferencesKept
<1>7. ASSUME NEW cs \in Consumers,
             \/ SubscribeCall(cs) \/ LoadSlot(cs) \/ CASSlot(cs)
             \/ MarkDead(cs) \/ Cancel(cs) \/ Recv(cs)
      PROVE  References'
  BY <1>6, <1>7 DEF SubscribeCall, LoadSlot, CASSlot, MarkDead, Cancel, Recv, connector
<1>8. ASSUME NEW d \in Infos, ConnectToDoppler(d) PROVE References'
  BY <1>6, <1>8 DEF ConnectToDoppler, connector
<1>9. ASSUME NEW q \in Queries, QueryCall(q) \/ QueryStep(q) PROVE References'
  BY <1>6, <1>9 DEF QueryCall, QueryStep, QueryResult, QueryReturn, connector
<1>10. CASE UNCHANGED vars
  BY <1>6, <1>10 DEF vars, connector
<1> QED BY <1>1, <1>2, <1>3, <1>4, <1>5, <1>7, <1>8, <1>9, <1>10, Steps

\* Of a doppler with one reference, one goroutine at most holds it.
LEMMA OneReference ==
  ASSUME References, NEW g \in Goroutines, NEW h \in Goroutines, g[2] = h[2],
         consume[g].pc \in Held, consume[h].pc \in Held, refCount[g[2]] <= 1
  PROVE  g = h
<1> USE Shapes
<1> DEFINE U == InUse(g[2])
           c == <<g[1], g[3]>>
           e == <<h[1], h[3]>>
<1>1. c \in U /\ e \in U
  BY DEF InUse
<1>2. IsFiniteSet(U) /\ Cardinality(U) \in Nat /\ Cardinality(U) <= 1
  BY InUseFinite DEF References
<1> HIDE DEF U
<1>3. IsFiniteSet(U \ {c}) /\ Cardinality(U \ {c}) = Cardinality(U) - 1
  BY <1>1, <1>2, FS_RemoveElement
<1>4. Cardinality(U \ {c}) \in Nat
  BY <1>3, FS_CardinalityType
<1>5. U \ {c} = {}
  BY <1>2, <1>3, <1>4, FS_EmptySet
<1>6. c = e
  BY <1>1, <1>5
<1> QED BY <1>6

\* ... and without a reference, none.
LEMMA NoReference ==
  ASSUME References, NEW g \in Goroutines, consume[g].pc \in Held, refCount[g[2]] = 0
  PROVE  FALSE
<1> USE Shapes
<1>1. <<g[1], g[3]>> \in InUse(g[2])
  BY DEF InUse
<1>2. IsFiniteSet(InUse(g[2])) /\ Cardinality(InUse(g[2])) = 0
  BY InUseFinite DEF References
<1> QED BY <1>1, <1>2, FS_EmptySet

\* Close only ever closes.
LEMMA ClosedConnType ==
  ASSUME Reading, NEW us
  PROVE  ClosedConn(us) \in [Infos -> {"none", "dialing", "open", "closed"}]
<1> DEFINE hit(d) == uri(d) \in us /\ d[2] = pool[uri(d)] /\ conn[d] = "open"
<1>1. ClosedConn(us) = [d \in Infos |-> IF hit(d) THEN "closed" ELSE conn[d]]
  BY DEF ClosedConn
<1> HIDE DEF hit
<1> QED BY <1>1 DEF Reading

\* No connection is closed under its readers.
LEMMA StepReading ==
  ASSUME ~Readvertise, Types, Registry, Slotted, Spawned, References, Reading, [Next]_vars
  PROVE  Reading'
<1> USE Shapes
<1>1. ASSUME NEW g \in Goroutines, Inside(g) PROVE Reading'
  <2>1. PICK r \in Locals : consume' = [consume EXCEPT ![g] = r]
    BY <1>1, InsideMoves
  <2>2. UNCHANGED <<conn, pool>> /\ consume[g].pc # "none"
    BY <1>1, InsideMoves DEF Running
  <2>3. \A h \in Goroutines : h # g => consume'[h] = consume[h]
    BY <2>1 DEF Types
  <2>4. ASSUME consume'[g].pc \in {"read", "deliver"}
        PROVE  consume'[g].stream = 1 /\ conn[g[2]] = "open"
    <3>1. CASE consume[g].pc \in {"read", "deliver"} /\ consume'[g].stream = consume[g].stream
      BY <3>1 DEF Reading
    <3>2. CASE Available(uri(g[2])) /\ consume'[g].stream = pool[uri(g[2])]
      <4>1. g[2][2] = 1
        BY <2>2 DEF Spawned
      <4>2. pool[uri(g[2])] = 1
        BY <3>2 DEF Available, Registry, Types
      <4> QED BY <3>2, <4>1, <4>2 DEF Available
    <3> QED BY <1>1, <2>4, <3>1, <3>2, InsideStream
  <2> QED BY <2>2, <2>3, <2>4 DEF Reading
<1>2. ASSUME NEW g \in Goroutines, TryAddDoppler(g) PROVE Reading'
  <2>1. PICK r \in Locals : consume' = [consume EXCEPT ![g] = r] /\ r.pc \in {"done", "ref"}
    BY <1>2, AddMoves
  <2>2. UNCHANGED conn
    BY <1>2, AddMoves
  <2> QED BY <2>1, <2>2 DEF Types, Reading
<1>3. ASSUME NEW g \in Goroutines, Exit(g) PROVE Reading'
  <2>1. PICK r \in Locals : consume' = [consume EXCEPT ![g] = r] /\ r.pc = "done"
    BY <1>3, ExitMoves
  <2>2. \A h \in Goroutines :
          consume'[h].pc \in {"read", "deliver"} => h # g /\ consume'[h] = consume[h]
    BY <2>1 DEF Types
  <2>3. CASE ~LastOut(g[2])
    <3>1. conn' = conn
      BY <1>3, <2>3 DEF Exit
    <3> QED BY <2>2, <3>1 DEF Reading
  <2>4. CASE LastOut(g[2])
    <3>1. conn' = ClosedConn({uri(g[2])}) /\ refCount[g[2]] <= 1 /\ consume[g].pc \in Held
      BY <1>3, <2>4 DEF Exit, LastOut, Held, Running
    <3>2. conn' \in [Infos -> {"none", "dialing", "open", "closed"}]
      BY <3>1, ClosedConnType
    <3>3. ASSUME NEW h \in Goroutines, consume'[h].pc \in {"read", "deliver"}
          PROVE  consume'[h].stream = 1 /\ conn'[h[2]] = "open"
      <4>1. h # g /\ consume'[h] = consume[h] /\ consume[h].pc \in {"read", "deliver"}
        BY <2>2, <3>3
      <4>2. consume[h].stream = 1 /\ conn[h[2]] = "open"
        BY <4>1 DEF Reading
      <4>3. h[2] # g[2]
        BY <3>1, <4>1, OneReference DEF Held, Running
      <4>4. h[2][2] = 1 /\ g[2][2] = 1
        BY <3>1, <4>1 DEF Spawned, Held, Running
      <4>5. uri(h[2]) # uri(g[2])
        BY <4>3, <4>4
      <4> QED BY <3>1, <4>1, <4>2, <4>5 DEF ClosedConn
    <3> QED BY <3>2, <3>3 DEF Reading
  <2> QED BY <2>3, <2>4
<1>4. ASSUME NEW cs \in Consumers, Connect(cs) PROVE Reading'
  <2>1. UNCHANGED conn
    BY <1>4 DEF Connect
  <2> QED BY <1>4, <2>1, ConnectFresh DEF Reading
<1>5. ASSUME NEW list \in SUBSET Uris, HandleFinderEvent(list) PROVE Reading'
  <2> DEFINE fresh == {<<u, made[u] + 1>> : u \in NewURIs(list)}
             closed == {uri(d) : d \in Idle(list)}
  <2>1. \A d \in Infos : conn'[d] = IF d \in fresh THEN "dialing" ELSE ClosedConn(closed)[d]
    BY <1>5 DEF HandleFinderEvent
  <2>2. conn' \in [Infos -> {"none", "dialing", "open", "closed"}]
    <3>1. conn' = [d \in Infos |-> IF d \in fresh THEN "dialing" ELSE ClosedConn(closed)[d]]
      BY <1>5 DEF HandleFinderEvent
    <3> HIDE DEF fresh, closed
    <3> QED BY <3>1, ClosedConnType
  <2>3. ASSUME NEW g \in Goroutines, consume'[g].pc \in {"read", "deliver"}
        PROVE  consume'[g].stream = 1 /\ conn'[g[2]] = "open"
    <3>1. consume'[g] = consume[g] /\ consume[g].pc \in {"read", "deliver"}
      BY <1>5, <2>3, EventFresh
    <3>2. /\ consume[g].stream = 1 /\ conn[g[2]] = "open"
          /\ g[2][2] = 1 /\ made[uri(g[2])] = 1
      BY <3>1 DEF Reading, Spawned
    <3>3. g[2] \notin fresh
      <4>1. \A u \in NewURIs(list) : made[u] = 0
        BY <1>5, EventEffect
      <4> QED BY <3>2, <4>1
    <3>4. uri(g[2]) \notin closed
      <4> SUFFICES ASSUME NEW e \in Idle(list), uri(e) = uri(g[2]) PROVE FALSE
        OBVIOUS
      <4>1. e \in Infos /\ e[2] = 1 /\ refCount[e] = 0
        BY DEF Idle, DeadClients, Registry
      <4>2. e = g[2]
        BY <3>2, <4>1
      <4> QED BY <3>1, <4>1, <4>2, NoReference DEF Held, Running
    <3> QED BY <2>1, <3>1, <3>2, <3>3, <3>4 DEF ClosedConn
  <2> QED BY <2>2, <2>3 DEF Reading
<1>6. ASSUME NEW d \in Infos, ConnectToDoppler(d) PROVE Reading'
  BY <1>6 DEF ConnectToDoppler, Reading
<1>7. ASSUME UNCHANGED <<consume, conn>> PROVE Reading'
  BY <1>7 DEF Reading
<1>8. ASSUME NEW cs \in Consumers,
             \/ SubscribeCall(cs) \/ LoadSlot(cs) \/ CASSlot(cs)
             \/ MarkDead(cs) \/ Cancel(cs) \/ Recv(cs)
      PROVE  Reading'
  BY <1>7, <1>8 DEF SubscribeCall, LoadSlot, CASSlot, MarkDead, Cancel, Recv
<1>9. ASSUME NEW q \in Queries, QueryCall(q) \/ QueryStep(q) PROVE Reading'
  BY <1>7, <1>9 DEF QueryCall, QueryStep, QueryResult, QueryReturn
<1>10. CASE UNCHANGED vars
  BY <1>7, <1>10 DEF vars
<1> QED BY <1>1, <1>2, <1>3, <1>4, <1>5, <1>6, <1>8, <1>9, <1>10, Steps

-----------------------------------------------------------------------------
(* Every consumer is served.                                                *)

Active == {"add"} \cup (Running \ {"exit"})

\* The dopplers map holds nothing but what goroutines read.
Read ==
  \A cs \in Consumers, u \in Uris :
    u \in dopplers[cs] =>
      \E g \in Goroutines : g[1] = cs /\ uri(g[2]) = u /\ consume[g].pc \in Running

\* A goroutine leaves only a doppler that left the list, or a consumer whose
\* context is done.
Leaving ==
  \A g \in Goroutines :
    /\ consume[g].ctxDisconnect => dead[g[1]]
    /\ consume[g].pc = "exit" => disconnect[g[2]] \/ cancelled[g[1]]

\* Where a goroutine was spawned one is active, unless it had reason to leave.
Served ==
  \A cs \in Consumers, d \in Infos :
    ((\E s \in Spawners : consume[<<cs, d, s>>].pc # "none") /\ ~cancelled[cs] /\ ~disconnect[d])
      => \E s \in Spawners : consume[<<cs, d, s>>].pc \in Active

\* A subscribed consumer had a goroutine spawned for every client.
Reached ==
  \A cs \in Consumers, d \in clients :
    (subscribe[cs].pc = "subscribed" /\ ~cancelled[cs]) =>
      \E s \in Spawners : consume[<<cs, d, s>>].pc # "none"

\* The steps outside the goroutines that move none of this.
LEMMA Outside ==
  ASSUME [Next]_vars
  PROVE  \/ UNCHANGED <<clients, disconnect, cancelled, dead, dopplers, consume>>
               /\ \A cs \in Consumers : Slotted /\ subscribe'[cs].pc = "subscribed" =>
                                          subscribe[cs].pc = "subscribed"
         \/ \E g \in Goroutines : Inside(g) \/ TryAddDoppler(g) \/ Exit(g)
         \/ \E cs \in Consumers : Connect(cs)
         \/ \E list \in SUBSET Uris : HandleFinderEvent(list)
         \/ \E cs \in Consumers : MarkDead(cs) \/ Cancel(cs)
<1> DEFINE still == UNCHANGED <<clients, disconnect, cancelled, dead, dopplers, consume>>
           later == \A cs \in Consumers : Slotted /\ subscribe'[cs].pc = "subscribed" =>
                                            subscribe[cs].pc = "subscribed"
<1>1. ASSUME NEW cs \in Consumers, SubscribeCall(cs) PROVE still /\ later
  <2>1. subscribe' = [subscribe EXCEPT ![cs] = [pc |-> "load", i |-> 1, state |-> Nil]]
    BY <1>1 DEF SubscribeCall
  <2>2. later
    BY <2>1 DEF Slotted
  <2> QED BY <1>1, <2>2 DEF SubscribeCall, connector, consumer
<1>2. ASSUME NEW cs \in Consumers, LoadSlot(cs) \/ CASSlot(cs) PROVE still /\ later
  <2>1. ASSUME Slotted, NEW c \in Consumers, subscribe'[c].pc = "subscribed"
        PROVE  subscribe[c].pc = "subscribed"
    <3>1. PICK r : subscribe' = [subscribe EXCEPT ![cs] = r] /\ r.pc # "subscribed"
      <4>1. NextSlot(cs).pc # "subscribed"
        BY <2>1, NextSlotType
      <4>2. Admitted.pc # "subscribed"
        BY DEF Admitted
      <4>3. \A x : [subscribe[cs] EXCEPT !.pc = "cas", !.state = x].pc = "cas"
        <5>1. subscribe[cs] \in Calls
          BY <2>1 DEF Slotted
        <5> QED BY <5>1 DEF Calls
      <4>4. CASE LoadSlot(cs)
        <5> DEFINE state == consumerStates[subscribe[cs].i]
                   r == IF Replaceable(state)
                          THEN [subscribe[cs] EXCEPT !.pc = "cas", !.state = state]
                          ELSE NextSlot(cs)
        <5>1. subscribe' = [subscribe EXCEPT ![cs] = r]
          BY <4>4 DEF LoadSlot
        <5>2. r.pc # "subscribed"
          BY <4>1, <4>3
        <5> QED BY <5>1, <5>2
      <4>5. CASE CASSlot(cs)
        BY <4>1, <4>2, <4>5 DEF CASSlot
      <4> QED BY <1>2, <4>4, <4>5
    <3> QED BY <2>1, <3>1 DEF Slotted
  <2> QED BY <1>2, <2>1 DEF LoadSlot, CASSlot, connector, consumer
<1>3. ASSUME NEW cs \in Consumers, Recv(cs) PROVE still /\ later
  BY <1>3 DEF Recv, connector
<1>4. ASSUME NEW d \in Infos, ConnectToDoppler(d) PROVE still /\ later
  BY <1>4 DEF ConnectToDoppler, connector, consumer
<1>5. ASSUME NEW q \in Queries, QueryCall(q) \/ QueryStep(q) PROVE still /\ later
  BY <1>5 DEF QueryCall, QueryStep, QueryResult, QueryReturn, connector, consumer
<1>6. ASSUME UNCHANGED vars PROVE still /\ later
  BY <1>6 DEF vars, connector, consumer
<1> HIDE DEF still, later
<1>7. \/ still /\ later
      \/ \E g \in Goroutines : Inside(g) \/ TryAddDoppler(g) \/ Exit(g)
      \/ \E cs \in Consumers : Connect(cs)
      \/ \E list \in SUBSET Uris : HandleFinderEvent(list)
      \/ \E cs \in Consumers : MarkDead(cs) \/ Cancel(cs)
  BY <1>1, <1>2, <1>3, <1>4, <1>5, <1>6, Steps
<1> QED BY <1>7 DEF still, later

\* Without readvertising a doppler that left the list stays disconnected.
LEMMA DisconnectStays ==
  ASSUME ~Readvertise, Types, Registry, NEW list \in SUBSET Uris, HandleFinderEvent(list)
  PROVE  \A d \in Infos : disconnect[d] => disconnect'[d]
<1> SUFFICES ASSUME NEW d \in Infos, disconnect[d] PROVE disconnect'[d]
  OBVIOUS
<1>1. uri(d) \notin list
  BY EventEffect DEF Registry
<1> QED BY <1>1 DEF HandleFinderEvent

\* Only a goroutine that goes on to read is entered in the map, and on its way
\* out it takes its entry along.
LEMMA StepRead ==
  ASSUME ~Readvertise, ReaderInv, Registry, Slotted, Spawned, Read, [Next]_vars
  PROVE  Read'
<1> USE Shapes DEF ReaderInv
<1>0. ASSUME UNCHANGED dopplers,
             \A g \in Goroutines : consume[g].pc \in Running => consume'[g].pc \in Running
      PROVE  Read'
  BY <1>0 DEF Read
<1>1. ASSUME NEW g \in Goroutines, Inside(g) PROVE Read'
  <2>1. PICK r \in Locals : consume' = [consume EXCEPT ![g] = r] /\ r.pc \in Running
    BY <1>1, InsideMoves
  <2>2. UNCHANGED dopplers
    BY <1>1, InsideMoves
  <2> QED BY <1>0, <2>1, <2>2 DEF Types
<1>2. ASSUME NEW g \in Goroutines, TryAddDoppler(g) PROVE Read'
  <2>1. PICK r \in Locals : /\ consume' = [consume EXCEPT ![g] = r]
                            /\ r.pc = IF uri(g[2]) \in dopplers[g[1]] THEN "done" ELSE "ref"
    BY <1>2, AddMoves
  <2>2. /\ dopplers' = [dopplers EXCEPT ![g[1]] = @ \cup {uri(g[2])}]
        /\ consume[g].pc = "add"
    BY <1>2, AddMoves
  <2>3. \A h \in Goroutines : consume[h].pc \in Running => consume'[h].pc \in Running
    BY <2>1, <2>2 DEF Types, Running
  <2>4. ASSUME NEW cs \in Consumers, NEW u \in Uris, u \in dopplers'[cs]
        PROVE  \E h \in Goroutines : h[1] = cs /\ uri(h[2]) = u /\ consume'[h].pc \in Running
    <3>1. CASE u \in dopplers[cs]
      BY <2>3, <3>1 DEF Read
    <3>2. CASE u \notin dopplers[cs]
      <4>1. cs = g[1] /\ u = uri(g[2])
        BY <2>2, <2>4, <3>2 DEF Types
      <4>2. consume'[g].pc = "ref"
        BY <2>1, <3>2, <4>1 DEF Types
      <4> QED BY <4>1, <4>2 DEF Running
    <3> QED BY <3>1, <3>2
  <2> QED BY <2>4 DEF Read
<1>3. ASSUME NEW g \in Goroutines, Exit(g) PROVE Read'
  <2>1. PICK r \in Locals : consume' = [consume EXCEPT ![g] = r] /\ r.pc = "done"
    BY <1>3, ExitMoves
  <2>2. dopplers' = [dopplers EXCEPT ![g[1]] = @ \ {uri(g[2])}]
    BY <1>3, ExitMoves
  <2>3. ASSUME NEW cs \in Consumers, NEW u \in Uris, u \in dopplers'[cs]
        PROVE  \E h \in Goroutines : h[1] = cs /\ uri(h[2]) = u /\ consume'[h].pc \in Running
    <3>1. u \in dopplers[cs] /\ ~(cs = g[1] /\ u = uri(g[2]))
      BY <2>2, <2>3 DEF Types
    <3>2. PICK h \in Goroutines : h[1] = cs /\ uri(h[2]) = u /\ consume[h].pc \in Running
      BY <3>1 DEF Read
    <3>3. h # g
      BY <3>1, <3>2
    <3> QED BY <2>1, <3>2, <3>3 DEF Types
  <2> QED BY <2>3 DEF Read
<1>4. ASSUME NEW cs \in Consumers, Connect(cs) PROVE Read'
  <2>1. UNCHANGED dopplers
    BY <1>4 DEF Connect, consumer
  <2>2. \A g \in Goroutines : consume[g].pc \in Running => consume'[g].pc \in Running
    BY <1>4, ConnectFresh DEF Running
  <2> QED BY <1>0, <2>1, <2>2
<1>5. ASSUME NEW list \in SUBSET Uris, HandleFinderEvent(list) PROVE Read'
  <2>1. UNCHANGED dopplers
    BY <1>5 DEF HandleFinderEvent, consumer
  <2>2. \A g \in Goroutines : consume[g].pc \in Running => consume'[g].pc \in Running
    BY <1>5, EventFresh DEF Running
  <2> QED BY <1>0, <2>1, <2>2
<1>6. ASSUME NEW cs \in Consumers, MarkDead(cs) \/ Cancel(cs) PROVE Read'
  BY <1>0, <1>6 DEF MarkDead, Cancel
<1>7. CASE UNCHANGED <<clients, disconnect, cancelled, dead, dopplers, consume>>
  BY <1>0, <1>7
<1> QED BY <1>1, <1>2, <1>3, <1>4, <1>5, <1>6, <1>7, Outside

\* A goroutine has seen the flag of its doppler or its consumer's end.
LEMMA StepLeaving ==
  ASSUME ~Readvertise, Types, Registry, Slotted, Spawned, Leaving, [Next]_vars
  PROVE  Leaving'
<1> USE Shapes
<1>0. ASSUME \A g \in Goroutines : /\ dead[g[1]] => dead'[g[1]]
                                   /\ disconnect[g[2]] => disconnect'[g[2]]
                                   /\ cancelled[g[1]] => cancelled'[g[1]],
             \A g \in Goroutines : /\ consume'[g].ctxDisconnect => consume[g].ctxDisconnect
                                   /\ consume'[g].pc = "exit" => consume[g].pc = "exit"
      PROVE  Leaving'
  BY <1>0 DEF Leaving
<1>1. ASSUME NEW g \in Goroutines, Inside(g) PROVE Leaving'
  <2>1. PICK r \in Locals : /\ consume' = [consume EXCEPT ![g] = r]
                            /\ r.pc = "exit" => disconnect[g[2]] \/ consume[g].ctxDisconnect
                            /\ r.ctxDisconnect => consume[g].ctxDisconnect \/ dead[g[1]]
    BY <1>1, InsideMoves
  <2>2. UNCHANGED <<dead, disconnect, cancelled>>
    BY <1>1, InsideMoves
  <2>3. consume'[g] = r /\ \A h \in Goroutines : h # g => consume'[h] = consume[h]
    BY <2>1 DEF Types
  <2>4. consume[g].ctxDisconnect => dead[g[1]] /\ cancelled[g[1]]
    BY DEF Leaving, Slotted
  <2> QED BY <2>1, <2>2, <2>3, <2>4 DEF Leaving
<1>2. ASSUME NEW g \in Goroutines, TryAddDoppler(g) \/ Exit(g) PROVE Leaving'
  <2>1. PICK r \in Locals : /\ consume' = [consume EXCEPT ![g] = r]
                            /\ r.pc # "exit" /\ r.ctxDisconnect = consume[g].ctxDisconnect
    BY <1>2, AddMoves, ExitMoves
  <2>2. UNCHANGED <<dead, disconnect, cancelled>>
    BY <1>2, AddMoves, ExitMoves
  <2> QED BY <1>0, <2>1, <2>2 DEF Types
<1>3. ASSUME NEW cs \in Consumers, Connect(cs) PROVE Leaving'
  <2>1. UNCHANGED <<dead, disconnect, cancelled>>
    BY <1>3 DEF Connect, consumer, connector
  <2>2. \A g \in Goroutines : consume'[g].ctxDisconnect = consume[g].ctxDisconnect
    BY <1>3, StartedMoves DEF Connect
  <2>3. \A g \in Goroutines : consume'[g].pc = "exit" => consume[g].pc = "exit"
    BY <1>3, ConnectFresh
  <2> QED BY <1>0, <2>1, <2>2, <2>3
<1>4. ASSUME NEW list \in SUBSET Uris, HandleFinderEvent(list) PROVE Leaving'
  <2>1. UNCHANGED <<dead, cancelled>> /\ \A d \in Infos : disconnect[d] => disconnect'[d]
    BY <1>4, DisconnectStays DEF HandleFinderEvent, consumer
  <2>2. \A g \in Goroutines : consume'[g].ctxDisconnect = consume[g].ctxDisconnect
    BY <1>4, StartedMoves DEF HandleFinderEvent
  <2>3. \A g \in Goroutines : consume'[g].pc = "exit" => consume[g].pc = "exit"
    BY <1>4, EventFresh
  <2> QED BY <1>0, <2>1, <2>2, <2>3
<1>5. ASSUME NEW cs \in Consumers, MarkDead(cs) \/ Cancel(cs) PROVE Leaving'
  BY <1>0, <1>5 DEF MarkDead, Cancel, connector, Types, Slotted
<1>6. CASE UNCHANGED <<clients, disconnect, cancelled, dead, dopplers, consume>>
  BY <1>0, <1>6
<1> QED BY <1>1, <1>2, <1>3, <1>4, <1>5, <1>6, Outside

\* A goroutine returns from tryAddDoppler only where another reads.
LEMMA StepServed ==
  ASSUME ~Readvertise, ReaderInv, Registry, Slotted, Spawned, Read, Leaving, Served, [Next]_vars
  PROVE  Served'
<1> USE Shapes DEF ReaderInv
<1>0. ASSUME \A cs \in Consumers : cancelled[cs] => cancelled'[cs],
             \A d \in Infos : disconnect[d] => disconnect'[d],
             \A g \in Goroutines :
               /\ consume[g].pc = "none" => consume'[g].pc \in {"none"} \cup Active
               /\ consume[g].pc \in Active => consume'[g].pc \in Active
      PROVE  Served'
  <2> SUFFICES ASSUME NEW cs \in Consumers, NEW d \in Infos, NEW s \in Spawners,
                      consume'[<<cs, d, s>>].pc # "none", ~cancelled'[cs], ~disconnect'[d]
               PROVE  \E x \in Spawners : consume'[<<cs, d, x>>].pc \in Active
    BY DEF Served
  <2>1. CASE consume[<<cs, d, s>>].pc = "none"
    BY <1>0, <2>1
  <2>2. CASE consume[<<cs, d, s>>].pc # "none"
    <3>1. PICK x \in Spawners : consume[<<cs, d, x>>].pc \in Active
      BY <1>0, <2>2 DEF Served
    <3> QED BY <1>0, <3>1
  <2> QED BY <2>1, <2>2
<1>1. ASSUME NEW g \in Goroutines, UNCHANGED <<disconnect, cancelled>>, NEW r \in Locals,
             consume' = [consume EXCEPT ![g] = r],
             consume[g].pc # "none",
             disconnect[g[2]] \/ cancelled[g[1]]
               \/ \E x \in Spawners : consume'[<<g[1], g[2], x>>].pc \in Active
      PROVE  Served'
  <2> SUFFICES ASSUME NEW cs \in Consumers, NEW d \in Infos, NEW s \in Spawners,
                      consume'[<<cs, d, s>>].pc # "none", ~cancelled[cs], ~disconnect[d]
               PROVE  \E x \in Spawners : consume'[<<cs, d, x>>].pc \in Active
    BY <1>1 DEF Served
  <2>1. CASE cs = g[1] /\ d = g[2]
    BY <1>1, <2>1
  <2>2. CASE ~(cs = g[1] /\ d = g[2])
    <3>1. \A x \in Spawners : consume'[<<cs, d, x>>] = consume[<<cs, d, x>>]
      <4> SUFFICES ASSUME NEW x \in Spawners PROVE consume'[<<cs, d, x>>] = consume[<<cs, d, x>>]
        OBVIOUS
      <4>1. <<cs, d, x>> # g /\ <<cs, d, x>> \in Goroutines
        BY <2>2
      <4> QED BY <1>1, <4>1 DEF Types
    <3> QED BY <3>1 DEF Served
  <2> QED BY <2>1, <2>2
<1>2. ASSUME NEW g \in Goroutines, Inside(g) PROVE Served'
  <2>1. PICK r \in Locals : /\ consume' = [consume EXCEPT ![g] = r]
                            /\ r.pc \in Running
                            /\ r.pc = "exit" => disconnect[g[2]] \/ consume[g].ctxDisconnect
    BY <1>2, InsideMoves
  <2>2. UNCHANGED <<disconnect, cancelled>> /\ consume[g].pc # "none"
    BY <1>2, InsideMoves DEF Running
  <2>3. consume[g].ctxDisconnect => cancelled[g[1]]
    BY DEF Leaving, Slotted
  <2>4. consume'[g] = r /\ g = <<g[1], g[2], g[3]>> /\ g[3] \in Spawners
    BY <2>1 DEF Types
  <2>5. disconnect[g[2]] \/ cancelled[g[1]] \/ r.pc \in Active
    BY <2>1, <2>3 DEF Active
  <2>6. \/ disconnect[g[2]] \/ cancelled[g[1]]
        \/ \E x \in Spawners : consume'[<<g[1], g[2], x>>].pc \in Active
    BY <2>4, <2>5
  <2> QED BY <1>1, <2>1, <2>2, <2>6
<1>3. ASSUME NEW g \in Goroutines, TryAddDoppler(g) PROVE Served'
  <2>1. PICK r \in Locals : /\ consume' = [consume EXCEPT ![g] = r]
                            /\ r.pc = IF uri(g[2]) \in dopplers[g[1]] THEN "done" ELSE "ref"
    BY <1>3, AddMoves
  <2>2. UNCHANGED <<disconnect, cancelled>> /\ consume[g].pc = "add"
    BY <1>3, AddMoves
  <2>3. consume'[g] = r /\ g = <<g[1], g[2], g[3]>> /\ g[3] \in Spawners
    BY <2>1 DEF Types
  <2>4. \/ disconnect[g[2]] \/ cancelled[g[1]]
        \/ \E x \in Spawners : consume'[<<g[1], g[2], x>>].pc \in Active
    <3>1. CASE uri(g[2]) \notin dopplers[g[1]]
      <4>1. consume'[<<g[1], g[2], g[3]>>].pc \in Active
        BY <2>1, <2>3, <3>1 DEF Active, Running
      <4> QED BY <4>1
    <3>2. CASE uri(g[2]) \in dopplers[g[1]]
      <4>1. PICK h \in Goroutines :
              h[1] = g[1] /\ uri(h[2]) = uri(g[2]) /\ consume[h].pc \in Running
        BY <3>2 DEF Read
      <4>2. h # g
        BY <2>2, <4>1 DEF Running
      <4>3. h[2] = g[2]
        <5>1. h[2][2] = 1 /\ g[2][2] = 1
          BY <2>2, <4>1 DEF Spawned, Running
        <5> QED BY <4>1, <5>1
      <4>4. consume'[h] = consume[h] /\ h = <<g[1], g[2], h[3]>> /\ h[3] \in Spawners
        BY <2>1, <4>1, <4>2, <4>3 DEF Types
      <4>5. consume[h].pc = "exit" => disconnect[g[2]] \/ cancelled[g[1]]
        BY <4>1, <4>3 DEF Leaving
      <4>6. consume[h].pc # "exit" => consume[h].pc \in Active
        BY <4>1 DEF Active
      <4> QED BY <4>4, <4>5, <4>6
    <3> QED BY <3>1, <3>2
  <2> QED BY <1>1, <2>1, <2>2, <2>4
<1>4. ASSUME NEW g \in Goroutines, Exit(g) PROVE Served'
  <2>1. PICK r \in Locals : consume' = [consume EXCEPT ![g] = r]
    BY <1>4, ExitMoves
  <2>2. UNCHANGED <<disconnect, cancelled>> /\ consume[g].pc = "exit"
    BY <1>4, ExitMoves
  <2>3. disconnect[g[2]] \/ cancelled[g[1]]
    BY <2>2 DEF Leaving
  <2> QED BY <1>1, <2>1, <2>2, <2>3
<1>5. ASSUME NEW cs \in Consumers, Connect(cs) PROVE Served'
  <2>1. UNCHANGED <<disconnect, cancelled>>
    BY <1>5 DEF Connect, consumer, connector
  <2> QED BY <1>0, <1>5, <2>1, ConnectFresh DEF Active
<1>6. ASSUME NEW list \in SUBSET Uris, HandleFinderEvent(list) PROVE Served'
  <2>1. UNCHANGED cancelled /\ \A d \in Infos : disconnect[d] => disconnect'[d]
    BY <1>6, DisconnectStays DEF HandleFinderEvent, consumer
  <2> QED BY <1>0, <1>6, <2>1, EventFresh DEF Active
<1>7. ASSUME NEW cs \in Consumers, MarkDead(cs) \/ Cancel(cs) PROVE Served'
  BY <1>0, <1>7 DEF MarkDead, Cancel, connector, Slotted
<1>8. CASE UNCHANGED <<clients, disconnect, cancelled, dead, dopplers, consume>>
  BY <1>0, <1>8
<1> QED BY <1>2, <1>3, <1>4, <1>5, <1>6, <1>7, <1>8, Outside

\* Whether Subscribe or the finder's event comes first, the goroutine is
\* spawned: the finder's scan sees every admitted consumer that is not dead, and
\* Subscribe every client there is.
LEMMA StepReached ==
  ASSUME ~Readvertise, Types, Registry, Registry', Slotted, Spawned, Reached, [Next]_vars
  PROVE  Reached'
<1> USE Shapes
<1>0. ASSUME clients' \subseteq clients,
             \A cs \in Consumers : /\ cancelled[cs] => cancelled'[cs]
                                   /\ subscribe'[cs].pc = "subscribed" =>
                                        subscribe[cs].pc = "subscribed",
             \A g \in Goroutines : consume[g].pc # "none" => consume'[g].pc # "none"
      PROVE  Reached'
  BY <1>0 DEF Reached, Registry
<1>1. ASSUME NEW g \in Goroutines, Inside(g) \/ TryAddDoppler(g) PROVE Reached'
  <2>1. PICK r \in Locals : consume' = [consume EXCEPT ![g] = r] /\ r.pc # "none"
    BY <1>1, InsideMoves, AddMoves DEF Running
  <2>2. UNCHANGED <<clients, cancelled, subscribe>>
    BY <1>1, InsideMoves, AddMoves
  <2> QED BY <1>0, <2>1, <2>2 DEF Types
<1>2. ASSUME NEW g \in Goroutines, Exit(g) PROVE Reached'
  <2>1. PICK r \in Locals : consume' = [consume EXCEPT ![g] = r] /\ r.pc # "none"
    BY <1>2, ExitMoves
  <2>2. UNCHANGED <<cancelled, subscribe>>
    BY <1>2, ExitMoves
  <2>3. clients' \subseteq clients
    BY <1>2 DEF Exit
  <2> QED BY <1>0, <2>1, <2>2, <2>3 DEF Types
<1>3. ASSUME NEW cs \in Consumers, Connect(cs) PROVE Reached'
  <2>1. /\ UNCHANGED <<clients, cancelled>>
        /\ \A c \in Consumers : c # cs => subscribe'[c] = subscribe[c]
    BY <1>3 DEF Connect, connector, consumer, Slotted
  <2> SUFFICES ASSUME NEW c \in Consumers, NEW d \in clients,
                      subscribe'[c].pc = "subscribed", ~cancelled[c]
               PROVE  \E s \in Spawners : consume'[<<c, d, s>>].pc # "none"
    BY <2>1 DEF Reached
  <2>2. d \in Infos
    BY DEF Registry
  <2>3. CASE c = cs
    <3>1. <<cs, d, "Subscribe">> \in Goroutines /\ "Subscribe" \in Spawners
      BY <2>2 DEF Spawners
    <3>2. consume'[<<cs, d, "Subscribe">>].pc = "add"
      BY <1>3, <3>1, ConnectFresh
    <3> QED BY <2>3, <3>1, <3>2
  <2>4. CASE c # cs
    <3>1. PICK s \in Spawners : consume[<<c, d, s>>].pc # "none"
      BY <2>1, <2>4 DEF Reached
    <3>2. <<c, d, s>> \in Goroutines
      BY <2>2
    <3>3. consume'[<<c, d, s>>] = consume[<<c, d, s>>]
      BY <1>3, <2>4, <3>2, ConnectFresh
    <3> QED BY <3>1, <3>3
  <2> QED BY <2>3, <2>4
<1>4. ASSUME NEW list \in SUBSET Uris, HandleFinderEvent(list) PROVE Reached'
  <2>1. UNCHANGED <<subscribe, cancelled>>
    BY <1>4 DEF HandleFinderEvent, consumer
  <2> SUFFICES ASSUME NEW cs \in Consumers, NEW d \in clients',
                      subscribe[cs].pc = "subscribed", ~cancelled[cs]
               PROVE  \E s \in Spawners : consume'[<<cs, d, s>>].pc # "none"
    BY <2>1 DEF Reached
  <2>2. d \in Infos
    BY DEF Registry
  <2>3. CASE d \in clients
    <3>1. PICK s \in Spawners : consume[<<cs, d, s>>].pc # "none"
      BY <2>3 DEF Reached
    <3>2. <<cs, d, s>> \in Goroutines
      BY <2>2
    <3>3. consume'[<<cs, d, s>>] = consume[<<cs, d, s>>]
      BY <1>4, <3>1, <3>2, EventFresh
    <3> QED BY <3>1, <3>3
  <2>4. CASE d \notin clients
    <3>1. d[2] = 1 /\ uri(d) \in NewURIs(list)
      BY <1>4, <2>2, <2>4, EventEffect
    <3>2. cs \in LiveConsumers
      BY DEF Slotted, LiveConsumers, Types
    <3>3. <<cs, d, "finder">> \in Goroutines /\ "finder" \in Spawners
      BY <2>2 DEF Spawners
    <3>4. consume'[<<cs, d, "finder">>].pc = "add"
      BY <1>4, <3>1, <3>2, <3>3, EventFresh
    <3> QED BY <3>3, <3>4
  <2> QED BY <2>3, <2>4
<1>5. ASSUME NEW cs \in Consumers, MarkDead(cs) \/ Cancel(cs) PROVE Reached'
  BY <1>0, <1>5 DEF MarkDead, Cancel, connector, Slotted
<1>6. CASE /\ UNCHANGED <<clients, disconnect, cancelled, dead, dopplers, consume>>
           /\ \A cs \in Consumers : Slotted /\ subscribe'[cs].pc = "subscribed" =>
                                      subscribe[cs].pc = "subscribed"
  BY <1>0, <1>6
<1> QED BY <1>1, <1>2, <1>3, <1>4, <1>5, <1>6, Outside

-----------------------------------------------------------------------------
IInv == /\ ReaderInv /\ Registry /\ Slotted /\ Spawned /\ References /\ Reading
        /\ Read /\ Leaving /\ Served /\ Reached

\* Initially nothing is registered, subscribed or read.
LEMMA InitIInv == Init => IInv
<1> SUFFICES ASSUME Init PROVE IInv
  OBVIOUS
<1> USE Shapes DEF Init
<1>1. ReaderInv
  BY InitReader
<1>2. Registry
  BY DEF Registry
<1>3. Slotted
  BY MaxConnectionsAssumption DEF Slotted, Calls, Slots
<1>4. Spawned
  BY DEF Spawned
<1>5. References
  <2>1. ASSUME NEW d \in Infos PROVE InUse(d) = {}
    <3>1. \A g \in Goroutines : consume[g].pc \notin Held
      BY DEF Held, Running
    <3>2. \A c \in Consumers \X Spawners : <<c[1], d, c[2]>> \in Goroutines
      OBVIOUS
    <3> QED BY <3>1, <3>2 DEF InUse
  <2>2. refCount \in [Infos -> Int] /\ \A d \in Infos : refCount[d] = 0
    OBVIOUS
  <2>3. \A d \in Infos : Cardinality(InUse(d)) = 0
    BY ONLY <2>1, FS_EmptySet
  <2> QED BY ONLY <2>2, <2>3 DEF References
<1>6. Reading
  BY DEF Reading
<1>7. Read /\ Leaving
  BY DEF Read, Leaving
<1>8. Served
  <2>1. \A g \in Goroutines : consume[g].pc = "none"
    OBVIOUS
  <2> QED BY <2>1 DEF Served
<1>9. Reached
  BY DEF Reached
<1> QED BY <1>1, <1>2, <1>3, <1>4, <1>5, <1>6, <1>7, <1>8, <1>9 DEF IInv

\* The inductive invariant: registry, slots, references and goroutines agree in
\* every reachable state, if no doppler comes back after leaving the list.
THEOREM Inductive == ASSUME ~Readvertise PROVE Spec => []IInv
<1>1. IInv /\ [Next]_vars => IInv'
  <2> SUFFICES ASSUME IInv, [Next]_vars PROVE IInv'
    OBVIOUS
  <2>1. ReaderInv'
    BY StepReader DEF IInv
  <2>2. Types /\ Types'
    BY <2>1 DEF IInv, ReaderInv
  <2>3. Registry'
    BY <2>2, StepRegistry DEF IInv
  <2>4. Slotted'
    BY <2>2, StepSlotted DEF IInv
  <2>5. Spawned'
    BY <2>2, <2>3, StepSpawned DEF IInv
  <2>6. References' /\ Reading'
    BY <2>2, StepReferences, StepReading DEF IInv
  <2>7. Read' /\ Leaving'
    BY <2>2, StepRead, StepLeaving DEF IInv
  <2>8. Served' /\ Reached'
    BY <2>2, <2>3, StepServed, StepReached DEF IInv
  <2> QED BY <2>1, <2>3, <2>4, <2>5, <2>6, <2>7, <2>8 DEF IInv
<1> QED BY <1>1, InitIInv, PTL DEF Spec

\* Every doppler on the finder's list has its registration in the pool.
THEOREM ListedRegistered == ASSUME ~Readvertise PROVE Spec => []ListedIsRegistered
<1>1. IInv => ListedIsRegistered
  BY DEF IInv, Registry, ListedIsRegistered
<1> QED BY <1>1, Inductive, PTL

\* The connector never closes a connection under a goroutine that reads from it:
\* the reference count it consults is the number of goroutines that may.
THEOREM NotClosedUnder == ASSUME ~Readvertise PROVE Spec => []NotClosedUnderReader
<1>1. IInv => NotClosedUnderReader
  <2> SUFFICES ASSUME IInv, NEW g \in Goroutines, consume[g].pc \in {"read", "deliver"}
               PROVE  conn[<<uri(g[2]), consume[g].stream>>] = "open"
    BY DEF NotClosedUnderReader
  <2>1. consume[g].stream = 1 /\ conn[g[2]] = "open"
    BY DEF IInv, Reading
  <2>2. g[2][2] = 1
    BY DEF IInv, Spawned
  <2> QED BY <2>1, <2>2, Shapes
<1> QED BY <1>1, Inductive, PTL

\* A connected consumer has an active goroutine for every doppler on the list,
\* whatever the order of Subscribe, tryAddDoppler and the finder's events.
THEOREM EveryConsumerCovered == ASSUME ~Readvertise PROVE Spec => []Covered
<1>1. IInv => Covered
  <2> SUFFICES ASSUME IInv, NEW cs \in Consumers, NEW d \in clients,
                      subscribe[cs].pc = "subscribed", ~cancelled[cs], ~disconnect[d]
               PROVE  \E s \in Spawners : consume[<<cs, d, s>>].pc \in {"add"} \cup (Running \ {"exit"})
    BY DEF Covered
  <2>1. d \in Infos
    BY DEF IInv, Registry
  <2>2. \E s \in Spawners : consume[<<cs, d, s>>].pc # "none"
    BY DEF IInv, Reached
  <2> QED BY <2>1, <2>2 DEF IInv, Served, Active
<1> QED BY <1>1, Inductive, PTL
==============================================================================
