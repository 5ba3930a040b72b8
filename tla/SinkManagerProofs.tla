-------------------------- MODULE SinkManagerProofs --------------------------
(***************************************************************************)
(* The registry of doppler's sinks is right for every number of drains,     *)
(* streams and firehoses and of sinks made for each, whatever the bindings  *)
(* do (Patient or not), and for every interleaving of the goroutines that   *)
(* register and unregister sinks.                                           *)
(*                                                                          *)
(* OpenWhileRegistered is not inductive: it says nothing of a sink that is  *)
(* not made yet.  The strengthening says that sinks are made in order and   *)
(* that one not yet made is neither filed nor closed.  MetricsMatch needs   *)
(* in addition that nobody's call of UnregisterSink is begun again while    *)
(* the sink it removed is still to be counted down.                         *)
(*                                                                          *)
(* DrainsMatch holds only of a store that waits until a change has settled  *)
(* and of URLs that are their own identifiers (Plain).  DrainInv says where *)
(* the one change in hand is, and what it has still to do to the registry.  *)
(***************************************************************************)
EXTENDS SinkManager, FiniteSetTheorems, TLAPS

Phases == {"none", "added", "running", "sending", "backoff", "returned"}

Types ==
  /\ wrappers \in [Keys -> Nat] /\ made \in [Keys -> Nat]
  /\ run \in [Sinks -> Phases]
  /\ closed \in [Sinks -> BOOLEAN] /\ disconnected \in [Sinks -> BOOLEAN]
  /\ unregister \in [Callers \X Sinks -> {"no", "call", "removed", "done"}]
  /\ metrics \in [Kinds -> Int]

\* Sinks are made in order; a registered sink is one of those made, and what
\* is not made is not closed.
Filed ==
  /\ \A k \in Keys : wrappers[k] <= made[k] /\ made[k] <= MaxMade[k]
  /\ \A s \in Sinks : /\ run[s] = "none" <=> s[2] > made[s[1]]
                      /\ closed[s] => s[2] <= made[s[1]]

\* A sink's goroutine unregisters it after Run, and the listener unregisters
\* one sink at a time.
CalledOnce ==
  \A s \in Sinks :
    /\ unregister[<<"run", s>>] # "no" => run[s] = "returned"
    /\ unregister[<<"delete", s>>] \in {"call", "removed"} =>
         deleted.pc = "unregister" /\ deleted.sink = s

\* The drain a listener holds is one of the application's.
InHand == new.pc = "check" => new.url \in Urls

IInv == Types /\ Filed /\ OpenWhileRegistered /\ CalledOnce /\ InHand

-----------------------------------------------------------------------------
\* What a sink is: an identifier and a number.
LEMMA SinkPairs ==
  /\ \A s \in Sinks : s[1] \in Keys /\ s[2] \in 1..MaxMade[s[1]] /\ s = <<s[1], s[2]>>
  /\ \A k \in Keys : \A n \in 1..MaxMade[k] : <<k, n>> \in Sinks
  /\ \A k \in Keys : MaxMade[k] \in Nat
  BY MadeAssumption DEF Sinks

\* Initially nothing is registered.
LEMMA InitIInv == Init => IInv
<1> SUFFICES ASSUME Init PROVE IInv
  OBVIOUS
<1> USE SinkPairs DEF Init
<1>1. Types
  BY DEF Types, Phases
<1>2. Filed
  BY DEF Filed
<1>3. OpenWhileRegistered
  BY DEF OpenWhileRegistered
<1>4. CalledOnce /\ InHand
  BY DEF CalledOnce, InHand, Callers, Idle
<1> QED BY <1>1, <1>2, <1>3, <1>4 DEF IInv

\* AddSink files the next sink of its identifier, which nobody has seen yet.
LEMMA AddSinkIInv ==
  ASSUME IInv, NEW k \in Keys, AddSink(k),
         UNCHANGED <<closed, disconnected, unregister, metrics, deleted>>, InHand'
  PROVE  IInv'
<1> USE SinkPairs DEF IInv
<1>1. CASE wrappers[k] # 0
  BY <1>1 DEF AddSink, Types, Filed, OpenWhileRegistered, CalledOnce, InHand, Registered
<1>2. CASE wrappers[k] = 0
  <2> DEFINE s == <<k, made[k] + 1>>
  <2>1. /\ made[k] < MaxMade[k]
        /\ made' = [made EXCEPT ![k] = @ + 1]
        /\ wrappers' = [wrappers EXCEPT ![k] = made[k] + 1]
        /\ run' = [run EXCEPT ![s] = "added"]
    BY <1>2 DEF AddSink
  <2>2. s \in Sinks /\ s[1] = k /\ s[2] = made[k] + 1
    BY <2>1 DEF Types
  <2>3. run[s] = "none" /\ ~closed[s]
    BY <2>2 DEF Types, Filed
  <2>4. Types'
    BY <2>1, <2>2 DEF Types, Phases
  <2>5. Filed'
    <3>1. ASSUME NEW t \in Sinks
          PROVE  /\ run'[t] = "none" <=> t[2] > made'[t[1]]
                 /\ closed'[t] => t[2] <= made'[t[1]]
      <4>1. CASE t = s
        BY <4>1, <2>1, <2>2, <2>3 DEF Types
      <4>2. CASE t # s
        <5>1. t[1] = k => t[2] # made[k] + 1
          BY <4>2
        <5>2. run'[t] = run[t] /\ closed'[t] = closed[t]
          BY <4>2, <2>1 DEF Types
        <5>3. /\ made'[t[1]] = IF t[1] = k THEN made[k] + 1 ELSE made[t[1]]
              /\ t[2] \in Nat /\ made[t[1]] \in Nat
          BY <2>1 DEF Types
        <5>4. /\ run[t] = "none" <=> t[2] > made[t[1]]
              /\ closed[t] => t[2] <= made[t[1]]
          BY DEF Filed
        <5> QED BY ONLY <5>1, <5>2, <5>3, <5>4
      <4> QED BY <4>1, <4>2
    <3>2. \A j \in Keys : wrappers'[j] <= made'[j] /\ made'[j] <= MaxMade[j]
      BY <2>1 DEF Types, Filed
    <3> QED BY <3>1, <3>2 DEF Filed
  <2>6. OpenWhileRegistered'
    BY <1>2, <2>1, <2>2, <2>3 DEF Types, Filed, OpenWhileRegistered, Registered
  <2>7. CalledOnce'
    BY <2>1, <2>2, <2>3 DEF Types, CalledOnce
  <2> QED BY <2>4, <2>5, <2>6, <2>7
<1> QED BY <1>1, <1>2

\* Every step keeps the invariant: an action that leaves the registry alone
\* by its types, one that adds a sink by AddSinkIInv.
LEMMA StepIInv == IInv /\ [Next]_vars => IInv'
<1> SUFFICES ASSUME IInv, [Next]_vars PROVE IInv'
  OBVIOUS
<1> USE SinkPairs DEF IInv
<1>1. ASSUME NEW s \in Sinks, Launch(s) PROVE IInv'
  BY <1>1 DEF Launch, listeners, Types, Phases, Filed, OpenWhileRegistered, CalledOnce, InHand, Registered, Kinds
<1>2. ASSUME NEW s \in Sinks, Take(s) \/ Write(s) \/ ConnectFails(s) \/ Retry(s) PROVE IInv'
  <2>1. /\ UNCHANGED <<wrappers, made, closed, disconnected, unregister, metrics, new, deleted>>
        /\ run[s] # "none" /\ run[s] # "added" /\ run[s] # "returned"
        /\ \E l \in {"running", "sending", "backoff"} : run' = [run EXCEPT ![s] = l]
    BY <1>2 DEF Take, Write, ConnectFails, Retry, Unheld, listeners, Types
  <2> QED
    BY <2>1 DEF Types, Phases, Filed, OpenWhileRegistered, CalledOnce, InHand, Registered
<1>3. ASSUME NEW s \in Sinks, Return(s) PROVE IInv'
  <2>1. /\ UNCHANGED <<wrappers, made, closed, disconnected, metrics, new, deleted>>
        /\ run[s] # "none"
        /\ run' = [run EXCEPT ![s] = "returned"]
        /\ unregister' = [unregister EXCEPT ![<<"run", s>>] = "call"]
    BY <1>3 DEF Return, MustReturn, MayReturn, Unheld, listeners
  <2>2. Types'
    BY <2>1 DEF Types, Phases, Callers
  <2>3. Filed' /\ OpenWhileRegistered' /\ InHand'
    BY <2>1 DEF Types, Filed, OpenWhileRegistered, InHand, Registered
  <2>4. CalledOnce'
    BY <2>1 DEF Types, CalledOnce, Callers
  <2> QED BY <2>2, <2>3, <2>4
<1>4. ASSUME NEW s \in Sinks, Hangup(s) PROVE IInv'
  <2>1. Types' /\ Filed' /\ OpenWhileRegistered' /\ InHand'
    BY <1>4 DEF Hangup, listeners, Types, Callers, Filed, OpenWhileRegistered, InHand, Registered
  <2>2. CalledOnce'
    BY <1>4 DEF Hangup, listeners, Types, CalledOnce, Callers
  <2> QED BY <2>1, <2>2
<1>5. ASSUME NEW s \in Sinks, NEW by \in Callers, Unregister(by, s) PROVE IInv'
  <2> DEFINE k == s[1]
             r == <<k, wrappers[k]>>
  <2>1. /\ UNCHANGED <<made, run, disconnected, metrics, new, deleted>>
        /\ unregister[<<by, s>>] = "call"
        /\ \E l \in {"removed", "done"} : unregister' = [unregister EXCEPT ![<<by, s>>] = l]
    BY <1>5 DEF Unregister, listeners
  <2>2. CalledOnce'
    BY <2>1 DEF Types, CalledOnce, Callers
  <2>3. InHand' /\ unregister' \in [Callers \X Sinks -> {"no", "call", "removed", "done"}]
    BY <2>1 DEF InHand, Types
  <2>4. CASE wrappers[k] = 0
    <3>1. UNCHANGED <<closed, wrappers>>
      BY <1>5, <2>4 DEF Unregister
    <3> QED BY <2>1, <2>2, <2>3, <3>1 DEF Types, Filed, OpenWhileRegistered, Registered
  <2>5. CASE wrappers[k] # 0
    <3>1. /\ closed' = [closed EXCEPT ![r] = TRUE]
          /\ wrappers' = [wrappers EXCEPT ![k] = 0]
      BY <1>5, <2>5 DEF Unregister, RemoveSink
    <3>2. r \in Sinks /\ r[1] = k /\ r[2] = wrappers[k]
      BY <2>5 DEF Types, Filed
    <3>3. Types' /\ Filed'
      BY <2>1, <2>3, <3>1, <3>2 DEF Types, Filed
    <3>4. OpenWhileRegistered'
      BY <2>1, <3>1, <3>2 DEF Types, OpenWhileRegistered, Registered
    <3> QED BY <2>2, <2>3, <3>3, <3>4
  <2> QED BY <2>4, <2>5
<1>6. ASSUME NEW s \in Sinks, NEW by \in Callers, Uncount(by, s) PROVE IInv'
  <2>1. Types'
    BY <1>6 DEF Uncount, Types, Kinds
  <2>2. Filed' /\ OpenWhileRegistered' /\ InHand'
    BY <1>6 DEF Uncount, listeners, Filed, OpenWhileRegistered, InHand, Registered
  <2>3. CalledOnce'
    BY <1>6 DEF Uncount, listeners, Types, CalledOnce, Callers
  <2> QED BY <2>1, <2>2, <2>3
<1>7. ASSUME NEW k \in Streams \cup Firehoses, Open(k) PROVE IInv'
  <2>1. k \in Keys
    BY DEF Keys
  <2> QED BY <1>7, <2>1, AddSinkIInv DEF Open, listeners, InHand
<1>8. ASSUME NEW u \in Urls, ReceiveNew(u) \/ ReceiveDeleted(u) PROVE IInv'
  <2>1. /\ UNCHANGED <<wrappers, made, run, closed, disconnected, unregister, metrics>>
        /\ UNCHANGED new \/ new' = [pc |-> "check", url |-> u]
        /\ UNCHANGED deleted \/ deleted.pc = "idle"
    BY <1>8 DEF ReceiveNew, ReceiveDeleted
  <2>2. Types' /\ Filed' /\ OpenWhileRegistered' /\ InHand'
    BY <2>1 DEF Types, Filed, OpenWhileRegistered, InHand, Registered
  <2>3. CalledOnce'
    BY <2>1 DEF CalledOnce
  <2> QED BY <2>2, <2>3
<1>9. CASE RegisterDrain
  <2>1. Identifier[new.url] \in Keys
    BY <1>9, IdentifierAssumption DEF RegisterDrain, InHand, Keys
  <2>2. InHand'
    BY <1>9 DEF RegisterDrain, InHand, Idle
  <2> QED BY <1>9, <2>1, <2>2, AddSinkIInv DEF RegisterDrain
<1>10. CASE RefuseDrain
  <2>1. InHand'
    BY <1>10 DEF RefuseDrain, InHand, Idle
  <2> QED
    BY <1>10, <2>1 DEF RefuseDrain, Types, Filed, OpenWhileRegistered, CalledOnce, Registered
<1>11. CASE FindDrain
  <2>1. UNCHANGED <<wrappers, made, run, closed, disconnected, metrics, new>>
    BY <1>11 DEF FindDrain
  <2>2. Filed' /\ OpenWhileRegistered' /\ InHand'
    BY <2>1 DEF Filed, OpenWhileRegistered, InHand, Registered
  <2>3. CASE UNCHANGED unregister
    BY <1>11, <2>1, <2>2, <2>3 DEF FindDrain, Types, CalledOnce, Idle
  <2>4. CASE ~UNCHANGED unregister
    <3> DEFINE k == deleted.url
               s == <<k, wrappers[k]>>
    <3>1. /\ k \in Drains /\ wrappers[k] # 0
          /\ deleted' = [pc |-> "unregister", sink |-> s]
          /\ unregister' = [unregister EXCEPT ![<<"delete", s>>] = "call"]
      BY <1>11, <2>4 DEF FindDrain
    <3>2. s \in Sinks
      BY <3>1 DEF Types, Filed, Keys
    <3>3. Types'
      BY <2>1, <3>1, <3>2 DEF Types, Callers
    <3>4. deleted.pc = "find"
      BY <1>11 DEF FindDrain
    <3>5. CalledOnce'
      BY <2>1, <3>1, <3>2, <3>4 DEF Types, CalledOnce, Callers
    <3> QED BY <2>2, <3>3, <3>5
  <2> QED BY <2>3, <2>4
<1>12. CASE DeleteDone
  <2>1. Types' /\ Filed' /\ OpenWhileRegistered' /\ InHand'
    BY <1>12 DEF DeleteDone, Types, Filed, OpenWhileRegistered, InHand, Registered
  <2>2. CalledOnce'
    BY <1>12 DEF DeleteDone, CalledOnce, Idle
  <2> QED BY <2>1, <2>2
<1>13. CASE EnsureRecentLogs \/ EnsureContainerMetrics
  <2>1. "dump" \in Keys /\ "metrics" \in Keys
    BY DEF Keys
  <2>2. InHand'
    BY <1>13 DEF EnsureRecentLogs, EnsureContainerMetrics, Ensure, listeners, InHand
  <2> QED
    BY <1>13, <2>1, <2>2, AddSinkIInv
    DEF EnsureRecentLogs, EnsureContainerMetrics, Ensure, listeners
<1>14. CASE BroadcastMessage \/ BroadcastError
  BY <1>14 DEF BroadcastMessage, BroadcastError, listeners, Types, Filed,
               OpenWhileRegistered, CalledOnce, InHand, Registered
<1>15. CASE Stop
  <2>1. /\ wrappers' = [k \in Keys |-> 0]
        /\ closed' = [s \in Sinks |-> closed[s] \/ Registered(s)]
        /\ UNCHANGED <<made, run, disconnected, unregister, metrics, new, deleted>>
    BY <1>15 DEF Stop, listeners
  <2>2. Types' /\ CalledOnce' /\ InHand'
    BY <2>1 DEF Types, CalledOnce, InHand
  <2>3. Filed'
    BY <2>1 DEF Types, Filed, Registered
  <2>4. ASSUME NEW s \in Sinks, run'[s] # "none"
        PROVE  (wrappers'[s[1]] = s[2]) <=> ~closed'[s]
    <3>1. wrappers'[s[1]] # s[2]
      BY <2>1
    <3>2. closed[s] \/ Registered(s)
      BY <2>1, <2>4 DEF Types, OpenWhileRegistered
    <3> QED BY <2>1, <3>1, <3>2
  <2>5. OpenWhileRegistered'
    BY <2>4 DEF OpenWhileRegistered, Registered
  <2> QED BY <2>2, <2>3, <2>5
<1>16. CASE UNCHANGED vars
  BY <1>16 DEF vars, listeners, Types, Filed, OpenWhileRegistered, CalledOnce, InHand, Registered
<1>17. ASSUME NEW s \in Sinks, RunStep(s) \/ Retry(s) \/ Hangup(s) PROVE IInv'
  BY <1>1, <1>2, <1>3, <1>4, <1>17 DEF RunStep
<1>18. ASSUME NEW s \in Sinks, NEW by \in Callers, UnregisterStep(by, s) PROVE IInv'
  BY <1>5, <1>6, <1>18 DEF UnregisterStep
<1>19. CASE ListenerStep
  BY <1>9, <1>10, <1>11, <1>12, <1>19 DEF ListenerStep
<1> HIDE DEF IInv
<1> QED
  BY <1>7, <1>8, <1>13, <1>14, <1>15, <1>16, <1>17, <1>18, <1>19 DEF Next

\* The invariant holds in every reachable state.
THEOREM Inductive == Spec => []IInv
<1>1. Init => IInv
  BY InitIInv
<1>2. IInv /\ [Next]_vars => IInv'
  BY StepIInv
<1> QED BY <1>1, <1>2, PTL DEF Spec

\* A sink is registered exactly as long as its input channel is open: nothing
\* is sent on a closed channel, none is closed twice, and no sink that left
\* the registry waits for input for ever.
THEOREM SinkOpenWhileRegistered == Spec => []OpenWhileRegistered
<1>1. IInv => OpenWhileRegistered
  BY DEF IInv
<1> QED BY <1>1, Inductive, PTL

-----------------------------------------------------------------------------
(* SinkManagerMetrics.                                                      *)

OfKind(d) == {s \in Sinks : kind(s[1]) = d}
RegisteredOf(d) == {s \in OfKind(d) : Registered(s)}
AddedOf(d) == {s \in OfKind(d) : run[s] = "added"}
RemovedOf(d) == {c \in Callers \X OfKind(d) : unregister[c] = "removed"}

\* What MetricsMatch says of one kind.
Matches(d) ==
  metrics[d] = Cardinality(RegisteredOf(d)) - Cardinality(AddedOf(d))
                 + Cardinality(RemovedOf(d))

\* ... and MetricsMatch says it of all.
LEMMA MatchesAll == MetricsMatch <=> (~stopped => \A d \in Kinds : Matches(d))
  BY DEF MetricsMatch, Matches, RegisteredOf, AddedOf, RemovedOf, OfKind

\* There are finitely many sinks of each kind, in whatever state.
LEMMA FiniteSinks == IsFiniteSet(Sinks)
<1>1. ASSUME NEW k \in Keys PROVE IsFiniteSet({k} \X (1..MaxMade[k]))
  <2>1. IsFiniteSet({k})
    BY FS_Singleton
  <2>2. IsFiniteSet(1..MaxMade[k])
    <3>1. 1 \in Int /\ MaxMade[k] \in Int
      BY SinkPairs
    <3> HIDE SinkPairs
    <3> QED BY <3>1, FS_Interval
  <2> QED BY <2>1, <2>2, FS_Product
<1> DEFINE Row == {{k} \X (1..MaxMade[k]) : k \in Keys}
<1>2. IsFiniteSet(Row)
  <2> DEFINE f == [k \in Keys |-> {k} \X (1..MaxMade[k])]
  <2>1. f \in Surjection(Keys, Row)
    BY DEF Surjection
  <2> QED BY <2>1, FiniteAssumption, FS_Surjection
<1>3. IsFiniteSet(UNION Row)
  BY <1>1, <1>2, FS_UNION
<1> QED BY <1>3 DEF Sinks

\* So the cardinalities that are compared are numbers.
LEMMA FiniteOfKind ==
  ASSUME NEW d
  PROVE  /\ IsFiniteSet(RegisteredOf(d)) /\ IsFiniteSet(AddedOf(d)) /\ IsFiniteSet(RemovedOf(d))
         /\ Cardinality(RegisteredOf(d)) \in Nat
         /\ Cardinality(AddedOf(d)) \in Nat
         /\ Cardinality(RemovedOf(d)) \in Nat
<1>1. IsFiniteSet(OfKind(d))
  BY FiniteSinks, FS_Subset DEF OfKind
<1>2. IsFiniteSet(RegisteredOf(d)) /\ IsFiniteSet(AddedOf(d))
  <2>1. RegisteredOf(d) \in SUBSET OfKind(d) /\ AddedOf(d) \in SUBSET OfKind(d)
    BY DEF RegisteredOf, AddedOf
  <2> QED BY <1>1, <2>1, FS_Subset
<1>3. IsFiniteSet(RemovedOf(d))
  <2>1. IsFiniteSet({"run"}) /\ IsFiniteSet({"run", "delete"}) /\ IsFiniteSet(Callers)
    <3>1. IsFiniteSet({"run"})
      BY FS_Singleton
    <3>2. {"run", "delete"} = {"run"} \cup {"delete"} /\ Callers = {"run", "delete"} \cup {"handler"}
      BY DEF Callers
    <3>3. IsFiniteSet({"run", "delete"})
      BY <3>1, <3>2, FS_AddElement
    <3> QED BY <3>1, <3>2, <3>3, FS_AddElement
  <2>2. IsFiniteSet(Callers \X OfKind(d))
    BY <1>1, <2>1, FS_Product
  <2>3. RemovedOf(d) \in SUBSET (Callers \X OfKind(d))
    BY DEF RemovedOf
  <2> QED BY <2>2, <2>3, FS_Subset
<1> QED BY <1>2, <1>3, FS_CardinalityType

\* A sink is removed and not yet counted down as long as the calls that removed
\* it are, and no others.
LEMMA RemovedSame ==
  ASSUME NEW d,
         \A c \in Callers \X Sinks : unregister'[c] = "removed" <=> unregister[c] = "removed"
  PROVE  RemovedOf(d)' = RemovedOf(d)
<1>1. OfKind(d)' = OfKind(d) /\ Callers \X OfKind(d) \subseteq Callers \X Sinks
  BY DEF OfKind
<1> QED BY <1>1 DEF RemovedOf

\* The call by removes the sink s, of kind d.
LEMMA RemovedMore ==
  ASSUME NEW d, NEW by \in Callers, NEW s \in Sinks, kind(s[1]) = d,
         \A c \in Callers \X Sinks :
           unregister'[c] = "removed" <=> unregister[c] = "removed" \/ c = <<by, s>>
  PROVE  RemovedOf(d)' = RemovedOf(d) \cup {<<by, s>>}
<1>1. OfKind(d)' = OfKind(d) /\ Callers \X OfKind(d) \subseteq Callers \X Sinks
  BY DEF OfKind
<1>2. <<by, s>> \in Callers \X OfKind(d)
  BY DEF OfKind
<1> QED BY <1>1, <1>2 DEF RemovedOf

\* A call of UnregisterSink goes on, without removing or counting a sink.
LEMMA RemovedKept ==
  ASSUME Types, NEW d, NEW by \in Callers, NEW s \in Sinks, NEW v \in {"call", "done"},
         unregister[<<by, s>>] # "removed",
         unregister' = [unregister EXCEPT ![<<by, s>>] = v]
  PROVE  RemovedOf(d)' = RemovedOf(d)
<1>1. \A c \in Callers \X Sinks : unregister'[c] = IF c = <<by, s>> THEN v ELSE unregister[c]
  BY DEF Types
<1> QED BY <1>1, RemovedSame

\* AddSink: one more registered, one more not yet counted.
LEMMA AddSinkMatches ==
  ASSUME IInv, NEW k \in Keys, AddSink(k), UNCHANGED <<unregister, metrics>>,
         NEW d \in Kinds, Matches(d)
  PROVE  Matches(d)'
<1> USE SinkPairs
<1>1. RemovedOf(d)' = RemovedOf(d) /\ metrics'[d] = metrics[d]
  BY DEF RemovedOf, OfKind
<1>2. CASE wrappers[k] # 0
  <2>1. RegisteredOf(d)' = RegisteredOf(d) /\ AddedOf(d)' = AddedOf(d)
    BY <1>2 DEF AddSink, RegisteredOf, AddedOf, OfKind, Registered
  <2> QED BY <1>1, <2>1 DEF Matches
<1>3. CASE wrappers[k] = 0
  <2> DEFINE s == <<k, made[k] + 1>>
  <2>1. /\ made[k] < MaxMade[k]
        /\ wrappers' = [wrappers EXCEPT ![k] = made[k] + 1]
        /\ run' = [run EXCEPT ![s] = "added"]
    BY <1>3 DEF AddSink
  <2>2. s \in Sinks /\ s[1] = k /\ s[2] = made[k] + 1
    BY <2>1 DEF IInv, Types
  <2>3. run[s] = "none"
    BY <2>2 DEF IInv, Types, Filed
  <2>4. ~Registered(s)
    BY <1>3, <2>2 DEF IInv, Types, Registered
  <2>5. CASE kind(k) # d
    <3>1. RegisteredOf(d)' = RegisteredOf(d)
      BY <2>1, <2>5 DEF IInv, Types, RegisteredOf, OfKind, Registered
    <3>2. AddedOf(d)' = AddedOf(d)
      BY <2>1, <2>2, <2>5 DEF IInv, Types, AddedOf, OfKind
    <3> QED BY <1>1, <3>1, <3>2 DEF Matches
  <2>6. CASE kind(k) = d
    <3>1. RegisteredOf(d)' = RegisteredOf(d) \cup {s} /\ s \notin RegisteredOf(d)
      BY <1>3, <2>1, <2>2, <2>4, <2>6 DEF IInv, Types, RegisteredOf, OfKind, Registered
    <3>2. AddedOf(d)' = AddedOf(d) \cup {s} /\ s \notin AddedOf(d)
      BY <2>1, <2>2, <2>3, <2>6 DEF IInv, Types, AddedOf, OfKind
    <3>3. /\ Cardinality(RegisteredOf(d)') = Cardinality(RegisteredOf(d)) + 1
          /\ Cardinality(AddedOf(d)') = Cardinality(AddedOf(d)) + 1
      BY <3>1, <3>2, FiniteOfKind, FS_AddElement
    <3> QED BY <1>1, <3>3, FiniteOfKind DEF Matches
  <2> QED BY <2>5, <2>6
<1> QED BY <1>2, <1>3

\* Every step keeps the count, as long as the sink manager is not stopped.
LEMMA StepMatches ==
  ASSUME IInv, [Next]_vars, ~stopped', NEW d \in Kinds, Matches(d)
  PROVE  Matches(d)'
<1> USE SinkPairs
<1>1. ASSUME NEW s \in Sinks, Launch(s) PROVE Matches(d)'
  <2>1. RegisteredOf(d)' = RegisteredOf(d) /\ RemovedOf(d)' = RemovedOf(d)
    BY <1>1 DEF Launch, RegisteredOf, RemovedOf, OfKind, Registered
  <2>2. CASE kind(s[1]) # d
    <3>1. AddedOf(d)' = AddedOf(d) /\ metrics'[d] = metrics[d]
      BY <1>1, <2>2 DEF Launch, IInv, Types, AddedOf, OfKind
    <3> QED BY <2>1, <3>1 DEF Matches
  <2>3. CASE kind(s[1]) = d
    <3>1. AddedOf(d)' = AddedOf(d) \ {s} /\ s \in AddedOf(d)
      BY <1>1, <2>3 DEF Launch, IInv, Types, AddedOf, OfKind
    <3>2. metrics'[d] = metrics[d] + 1
      BY <1>1, <2>3 DEF Launch, IInv, Types
    <3>3. Cardinality(AddedOf(d)') = Cardinality(AddedOf(d)) - 1
      BY <3>1, FiniteOfKind, FS_RemoveElement
    <3> QED BY <2>1, <3>2, <3>3, FiniteOfKind DEF Matches, IInv, Types
  <2> QED BY <2>2, <2>3
<1>2. ASSUME NEW s \in Sinks, Take(s) \/ Write(s) \/ ConnectFails(s) \/ Retry(s) \/ Return(s)
      PROVE  Matches(d)'
  <2>1. /\ UNCHANGED <<wrappers, metrics>>
        /\ run[s] # "added"
        /\ \E l \in {"running", "sending", "backoff", "returned"} : run' = [run EXCEPT ![s] = l]
        /\ \/ UNCHANGED unregister
           \/ run[s] # "returned" /\ unregister' = [unregister EXCEPT ![<<"run", s>>] = "call"]
    BY <1>2 DEF Take, Write, ConnectFails, Retry, Return, MustReturn, MayReturn, Unheld, IInv, Types
  <2>2. RegisteredOf(d)' = RegisteredOf(d)
    BY <2>1 DEF RegisteredOf, OfKind, Registered
  <2>3. AddedOf(d)' = AddedOf(d)
    BY <2>1 DEF AddedOf, OfKind, IInv, Types
  <2>4. RemovedOf(d)' = RemovedOf(d)
    <3>1. CASE UNCHANGED unregister
      BY <3>1 DEF RemovedOf, OfKind
    <3>2. CASE run[s] # "returned" /\ unregister' = [unregister EXCEPT ![<<"run", s>>] = "call"]
      <4>1. unregister[<<"run", s>>] # "removed" /\ "run" \in Callers
        BY <3>2 DEF IInv, CalledOnce, Callers
      <4>2. Types /\ "call" \in {"call", "done"}
        BY DEF IInv
      <4> HIDE SinkPairs
      <4> QED BY <3>2, <4>1, <4>2, RemovedKept
    <3> QED BY <2>1, <3>1, <3>2
  <2> QED BY <2>1, <2>2, <2>3, <2>4 DEF Matches
<1>3. ASSUME NEW s \in Sinks, Hangup(s) PROVE Matches(d)'
  <2>1. RemovedOf(d)' = RemovedOf(d)
    BY <1>3 DEF Hangup, RemovedOf, OfKind, IInv, Types, Callers
  <2>2. RegisteredOf(d)' = RegisteredOf(d) /\ AddedOf(d)' = AddedOf(d) /\ metrics' = metrics
    BY <1>3 DEF Hangup, RegisteredOf, AddedOf, OfKind, Registered
  <2> QED BY <2>1, <2>2 DEF Matches
<1>4. ASSUME NEW s \in Sinks, NEW by \in Callers, Unregister(by, s) PROVE Matches(d)'
  <2> DEFINE k == s[1]
             r == <<k, wrappers[k]>>
  <2>1. AddedOf(d)' = AddedOf(d) /\ metrics' = metrics /\ unregister[<<by, s>>] = "call"
    BY <1>4 DEF Unregister, AddedOf, OfKind
  <2>2. CASE wrappers[k] = 0
    <3>1. UNCHANGED wrappers /\ unregister' = [unregister EXCEPT ![<<by, s>>] = "done"]
      BY <1>4, <2>2 DEF Unregister
    <3>2. RegisteredOf(d)' = RegisteredOf(d)
      BY <3>1 DEF RegisteredOf, OfKind, Registered
    <3>3. RemovedOf(d)' = RemovedOf(d)
      <4>1. Types /\ "done" \in {"call", "done"}
        BY DEF IInv
      <4> HIDE SinkPairs
      <4> QED BY <2>1, <3>1, <4>1, RemovedKept
    <3> QED BY <2>1, <3>2, <3>3 DEF Matches
  <2>3. CASE wrappers[k] # 0
    <3>1. /\ wrappers' = [wrappers EXCEPT ![k] = 0]
          /\ unregister' = [unregister EXCEPT ![<<by, s>>] = "removed"]
      BY <1>4, <2>3 DEF Unregister, RemoveSink
    <3>2. r \in Sinks /\ r[1] = k /\ r[2] = wrappers[k]
      BY <2>3 DEF IInv, Types, Filed
    <3>3. CASE kind(k) # d
      <4>1. RegisteredOf(d)' = RegisteredOf(d)
        BY <3>1, <3>3 DEF RegisteredOf, OfKind, Registered, IInv, Types
      <4>2. RemovedOf(d)' = RemovedOf(d)
        BY <3>1, <3>3 DEF RemovedOf, OfKind, IInv, Types
      <4> QED BY <2>1, <4>1, <4>2 DEF Matches
    <3>4. CASE kind(k) = d
      <4>1. RegisteredOf(d)' = RegisteredOf(d) \ {r} /\ r \in RegisteredOf(d)
        BY <3>1, <3>2, <3>4 DEF RegisteredOf, OfKind, Registered, IInv, Types
      <4>2. RemovedOf(d)' = RemovedOf(d) \cup {<<by, s>>} /\ <<by, s>> \notin RemovedOf(d)
        <5>1. <<by, s>> \notin RemovedOf(d)
          BY <2>1 DEF RemovedOf
        <5>2. \A c \in Callers \X Sinks :
                unregister'[c] = "removed" <=> unregister[c] = "removed" \/ c = <<by, s>>
          BY <3>1 DEF IInv, Types
        <5> QED BY <3>4, <5>1, <5>2, RemovedMore
      <4>3. /\ Cardinality(RegisteredOf(d)') = Cardinality(RegisteredOf(d)) - 1
            /\ Cardinality(RemovedOf(d)') = Cardinality(RemovedOf(d)) + 1
        <5> HIDE SinkPairs
        <5>1. Cardinality(RegisteredOf(d)') = Cardinality(RegisteredOf(d)) - 1
          <6> HIDE DEF r
          <6>1. IsFiniteSet(RegisteredOf(d))
            BY FiniteOfKind
          <6> QED BY <4>1, <6>1, FS_RemoveElement
        <5>2. Cardinality(RemovedOf(d)') = Cardinality(RemovedOf(d)) + 1
          BY <4>2, FiniteOfKind, FS_AddElement
        <5> QED BY <5>1, <5>2
      <4> QED BY <2>1, <4>3, FiniteOfKind DEF Matches
    <3> QED BY <3>3, <3>4
  <2> QED BY <2>2, <2>3
<1>5. ASSUME NEW s \in Sinks, NEW by \in Callers, Uncount(by, s) PROVE Matches(d)'
  <2>1. RegisteredOf(d)' = RegisteredOf(d) /\ AddedOf(d)' = AddedOf(d)
    BY <1>5 DEF Uncount, RegisteredOf, AddedOf, OfKind, Registered
  <2>2. CASE kind(s[1]) # d
    <3>1. RemovedOf(d)' = RemovedOf(d) /\ metrics'[d] = metrics[d]
      BY <1>5, <2>2 DEF Uncount, IInv, Types, RemovedOf, OfKind
    <3> QED BY <2>1, <3>1 DEF Matches
  <2>3. CASE kind(s[1]) = d
    <3>1. RemovedOf(d)' = RemovedOf(d) \ {<<by, s>>} /\ <<by, s>> \in RemovedOf(d)
      BY <1>5, <2>3 DEF Uncount, IInv, Types, RemovedOf, OfKind
    <3>2. metrics'[d] = metrics[d] - 1
      BY <1>5, <2>3 DEF Uncount, IInv, Types
    <3>3. Cardinality(RemovedOf(d)') = Cardinality(RemovedOf(d)) - 1
      BY <3>1, FiniteOfKind, FS_RemoveElement
    <3> QED BY <2>1, <3>2, <3>3, FiniteOfKind DEF Matches, IInv, Types
  <2> QED BY <2>2, <2>3
<1>6. ASSUME NEW k \in Streams \cup Firehoses, Open(k) PROVE Matches(d)'
  <2>1. k \in Keys
    BY DEF Keys
  <2> QED BY <1>6, <2>1, AddSinkMatches DEF Open
<1>7. CASE RegisterDrain
  <2>1. Identifier[new.url] \in Keys
    BY <1>7, IdentifierAssumption DEF RegisterDrain, IInv, InHand, Keys
  <2> QED BY <1>7, <2>1, AddSinkMatches DEF RegisterDrain
<1>8. CASE EnsureRecentLogs \/ EnsureContainerMetrics
  <2>1. "dump" \in Keys /\ "metrics" \in Keys
    BY DEF Keys
  <2> QED BY <1>8, <2>1, AddSinkMatches DEF EnsureRecentLogs, EnsureContainerMetrics, Ensure
<1>9. CASE FindDrain
  <2>1. RegisteredOf(d)' = RegisteredOf(d) /\ AddedOf(d)' = AddedOf(d) /\ metrics' = metrics
    BY <1>9 DEF FindDrain, RegisteredOf, AddedOf, OfKind, Registered
  <2>2. RemovedOf(d)' = RemovedOf(d)
    <3> DEFINE s == <<deleted.url, wrappers[deleted.url]>>
    <3>1. CASE UNCHANGED unregister
      BY <3>1 DEF RemovedOf, OfKind
    <3>2. CASE ~UNCHANGED unregister
      <4>1. /\ deleted.url \in Keys /\ wrappers[deleted.url] # 0 /\ deleted.pc = "find"
            /\ unregister' = [unregister EXCEPT ![<<"delete", s>>] = "call"]
        BY <1>9, <3>2 DEF FindDrain, Keys
      <4>2. s \in Sinks
        <5>1. wrappers[deleted.url] \in 1..MaxMade[deleted.url]
          BY <4>1 DEF IInv, Types, Filed
        <5> QED BY <4>1, <5>1
      <4>3. unregister[<<"delete", s>>] # "removed"
        BY <4>1, <4>2 DEF IInv, CalledOnce
      <4>4. Types /\ "delete" \in Callers /\ "call" \in {"call", "done"}
        BY DEF IInv, Callers
      <4> HIDE SinkPairs DEF s
      <4> QED BY <4>1, <4>2, <4>3, <4>4, RemovedKept
    <3> QED BY <3>1, <3>2
  <2> QED BY <2>1, <2>2 DEF Matches
<1>10. ASSUME UNCHANGED <<wrappers, run, unregister, metrics>> PROVE Matches(d)'
  BY <1>10 DEF Matches, RegisteredOf, AddedOf, RemovedOf, OfKind, Registered
<1>11. ASSUME NEW u \in Urls, ReceiveNew(u) \/ ReceiveDeleted(u) PROVE Matches(d)'
  BY <1>10, <1>11 DEF ReceiveNew, ReceiveDeleted
<1>12. CASE RefuseDrain \/ DeleteDone \/ BroadcastMessage \/ BroadcastError \/ UNCHANGED vars
  BY <1>10, <1>12 DEF RefuseDrain, DeleteDone, BroadcastMessage, BroadcastError, vars
<1>13. ASSUME NEW s \in Sinks, RunStep(s) \/ Retry(s) \/ Hangup(s) PROVE Matches(d)'
  BY <1>1, <1>2, <1>3, <1>13 DEF RunStep
<1>14. ASSUME NEW s \in Sinks, NEW by \in Callers, UnregisterStep(by, s) PROVE Matches(d)'
  BY <1>4, <1>5, <1>14 DEF UnregisterStep
<1>15. CASE Stop
  BY <1>15 DEF Stop
<1> QED
  BY <1>6, <1>7, <1>8, <1>9, <1>11, <1>12, <1>13, <1>14, <1>15 DEF Next, ListenerStep

\* A sink manager that was stopped stays so.
LEMMA StaysStopped == [Next]_vars /\ stopped => stopped'
  BY DEF Next, vars, RunStep, UnregisterStep, ListenerStep, Launch, Take, Write, ConnectFails,
         Return, Retry, Hangup, Unregister, Uncount, Open, ReceiveNew, ReceiveDeleted,
         RegisterDrain, RefuseDrain, FindDrain, DeleteDone, EnsureRecentLogs,
         EnsureContainerMetrics, Ensure, BroadcastMessage, BroadcastError, Stop, Unheld

\* SinkManagerMetrics agrees with the registry, up to the calls that are under
\* way: however many goroutines unregister a sink, it is counted down once.
THEOREM MetricsCorrect == Spec => []MetricsMatch
<1>1. Init => MetricsMatch
  <2> SUFFICES ASSUME Init, NEW d \in Kinds PROVE Matches(d)
    BY MatchesAll
  <2>1. RegisteredOf(d) = {} /\ AddedOf(d) = {}
    BY SinkPairs DEF Init, RegisteredOf, AddedOf, OfKind, Registered
  <2>3. RemovedOf(d) = {}
    <3>1. Callers \X OfKind(d) \subseteq Callers \X Sinks
      BY DEF OfKind
    <3>2. \A c \in Callers \X Sinks : unregister[c] = "no"
      BY DEF Init
    <3> QED BY <3>1, <3>2 DEF RemovedOf
  <2>2. metrics[d] = 0
    BY DEF Init
  <2> QED BY <2>1, <2>2, <2>3, FS_EmptySet DEF Matches
<1>2. IInv /\ MetricsMatch /\ [Next]_vars => MetricsMatch'
  <2> SUFFICES ASSUME IInv, MetricsMatch, [Next]_vars, ~stopped', NEW d \in Kinds
               PROVE  Matches(d)'
    BY DEF MetricsMatch, Matches, RegisteredOf, AddedOf, RemovedOf, OfKind
  <2>1. ~stopped
    BY StaysStopped
  <2> QED BY <2>1, MatchesAll, StepMatches
<1> QED BY <1>1, <1>2, Inductive, PTL DEF Spec

-----------------------------------------------------------------------------
(* The drains.  When bindings change one at a time and no URL has a query,   *)
(* the application's syslog sinks are those of its drains.  A sink that left *)
(* the registry calls UnregisterSink once more when its Run returns, and     *)
(* that call would remove a newer sink of the same drain: what has to be     *)
(* shown is that nothing is filed under an identifier before every call for  *)
(* its earlier sinks has ended.                                              *)

DrainSinks == {s \in Sinks : s[1] \in Drains}

\* A sink's goroutine has come to its end.
Over(s) == run[s] = "returned" /\ unregister[<<"run", s>>] = "done"

\* What the goroutines of drains' sinks are about to do to the registry: only the
\* listener's call is for a sink that is registered, and while one is, every
\* other sink of its identifier is over.
CalmAt(s) ==
  /\ unregister[<<"handler", s>>] = "no"
  /\ run[s] = "none" =>
       ~disconnected[s] /\ \A by \in Callers : unregister[<<by, s>>] = "no"
  /\ Registered(s) =>
       /\ run[s] # "returned" /\ ~disconnected[s]
       /\ unregister[<<"run", s>>] = "no"
       /\ unregister[<<"delete", s>>] \in {"no", "call"}
  /\ wrappers[s[1]] # 0 /\ ~Registered(s) /\ run[s] # "none" =>
       Over(s) /\ unregister[<<"delete", s>>] \in {"no", "done"}

Calm == \A s \in DrainSinks : CalmAt(s)

\* The listeners have at most one change in hand between them, and a new drain
\* is in hand only when all that went before is over.
OneChange ==
  /\ bound \subseteq Urls
  /\ new.pc \in {"idle", "check"}
  /\ new.pc = "check" =>
       /\ new.url \in bound /\ deleted.pc = "idle"
       /\ \A s \in DrainSinks : /\ run[s] # "added"
                                /\ run[s] # "none" /\ ~Registered(s) => Over(s)
  /\ deleted.pc \in {"idle", "find", "unregister"}
  /\ deleted.pc = "find" => deleted.url \in Urls \ bound
  /\ deleted.pc = "unregister" => deleted.sink \in Sinks /\ deleted.sink[1] \in Urls \ bound

\* A drain has a sink if it is bound, except that the change in hand is not made.
Matched ==
  \A u \in Urls \ BadUrls :
    wrappers[u] # 0 <=>
      \/ u \in bound /\ ~(new.pc = "check" /\ new.url = u)
      \/ deleted.pc = "find" /\ deleted.url = u
      \/ /\ deleted.pc = "unregister" /\ deleted.sink[1] = u
         /\ unregister[<<"delete", deleted.sink>>] = "call"

DrainInv == ~stopped => Calm /\ OneChange /\ Matched

\* What is assumed of store and URLs: a change only after the last one settled,
\* and no URL with a query, so that DrainFor finds what was registered.
Plain == Patient /\ \A u \in Urls : Identifier[u] = u

\* Facts about identifiers that the steps below share.
LEMMA DrainKeys ==
  ASSUME Plain
  PROVE  /\ Urls \subseteq Drains /\ Drains \subseteq Keys
         /\ \A k \in Drains : k \notin {"dump", "metrics"} \cup Streams \cup Firehoses
         /\ \A k \in Drains : kind(k) = "syslog"
         /\ \A s \in DrainSinks : s \in Sinks /\ s[1] \in Drains
  BY IdentifierAssumption, KeysAssumption DEF Plain, Keys, kind, DrainSinks

\* A registered sink is made, and open.
LEMMA RegisteredMade ==
  ASSUME IInv, NEW s \in Sinks, Registered(s)
  PROVE  run[s] # "none" /\ ~closed[s] /\ wrappers[s[1]] # 0
<1>1. wrappers[s[1]] = s[2] /\ s[2] \in Nat \ {0} /\ s[2] <= made[s[1]] /\ made[s[1]] \in Nat
  BY SinkPairs DEF IInv, Types, Filed, Registered
<1>2. run[s] # "none"
  BY <1>1 DEF IInv, Filed
<1> QED BY <1>1, <1>2 DEF IInv, OpenWhileRegistered

\* A step that has to do with other sinks.
LEMMA Elsewhere ==
  ASSUME Plain, Calm, OneChange, Matched, UNCHANGED <<new, deleted, bound>>,
         \A k \in Drains : wrappers'[k] = wrappers[k],
         \A s \in DrainSinks : /\ run'[s] = run[s] /\ disconnected'[s] = disconnected[s]
                               /\ \A by \in Callers : unregister'[<<by, s>>] = unregister[<<by, s>>]
  PROVE  Calm' /\ OneChange' /\ Matched'
<1>1. \A s \in DrainSinks : /\ Registered(s)' <=> Registered(s)
                            /\ wrappers'[s[1]] = wrappers[s[1]]
                            /\ Over(s)' <=> Over(s)
  BY DrainKeys DEF Registered, Over, Callers
<1>2. Calm'
  <2> SUFFICES ASSUME NEW s \in DrainSinks PROVE CalmAt(s)'
    BY DEF Calm
  <2>1. CalmAt(s) /\ \A by \in Callers : unregister'[<<by, s>>] = unregister[<<by, s>>]
    BY DEF Calm
  <2> QED BY <1>1, <2>1 DEF CalmAt, Callers
<1>3. OneChange'
  BY <1>1, DrainKeys DEF OneChange
<1>4. Matched'
  <2>1. deleted.pc = "unregister" => deleted.sink \in DrainSinks
    BY DrainKeys DEF OneChange, DrainSinks
  <2> QED BY <2>1, DrainKeys DEF Matched, Callers
<1> QED BY <1>2, <1>3, <1>4

\* A sink of a drain whose goroutine goes on, and is not at its end.
LEMMA DrainRuns ==
  ASSUME IInv, Plain, Calm, OneChange, Matched, NEW s \in DrainSinks,
         NEW l \in {"running", "sending", "backoff"},
         run[s] \notin {"none", "returned"}, run' = [run EXCEPT ![s] = l],
         UNCHANGED <<wrappers, disconnected, unregister, new, deleted, bound>>
  PROVE  Calm' /\ OneChange' /\ Matched'
<1>1. \A t \in DrainSinks : /\ Registered(t)' <=> Registered(t)
                            /\ run'[t] = IF t = s THEN l ELSE run[t]
                            /\ Over(t)' <=> Over(t)
  BY DrainKeys DEF Registered, Over, IInv, Types
<1>2. Calm'
  BY <1>1, DrainKeys DEF Calm, CalmAt
<1>3. OneChange'
  BY <1>1, DrainKeys DEF OneChange
<1>4. Matched'
  BY DEF Matched
<1> QED BY <1>2, <1>3, <1>4

\* Run of a drain's sink returns only when the sink is registered no longer, and
\* before anything else is filed under its identifier.
LEMMA DrainReturns ==
  ASSUME IInv, Plain, Calm, OneChange, Matched, NEW s \in DrainSinks, Return(s)
  PROVE  Calm' /\ OneChange' /\ Matched'
<1>1. /\ run[s] \in {"running", "backoff"} /\ (closed[s] \/ disconnected[s])
      /\ run' = [run EXCEPT ![s] = "returned"]
      /\ unregister' = [unregister EXCEPT ![<<"run", s>>] = "call"]
      /\ UNCHANGED <<wrappers, disconnected, new, deleted, bound>>
  BY DrainKeys DEF Return, MustReturn, MayReturn, Unheld, listeners
<1>2. ~Registered(s)
  BY <1>1, RegisteredMade, DrainKeys DEF Calm, CalmAt
<1>3. wrappers[s[1]] = 0 /\ new.pc # "check"
  BY <1>1, <1>2 DEF Calm, CalmAt, OneChange, Over
<1>4. \A t \in DrainSinks : /\ Registered(t)' <=> Registered(t)
                            /\ run'[t] = IF t = s THEN "returned" ELSE run[t]
                            /\ \A by \in Callers : unregister'[<<by, t>>] =
                                 IF by = "run" /\ t = s THEN "call" ELSE unregister[<<by, t>>]
  BY <1>1, DrainKeys DEF Registered, IInv, Types
<1>5. Calm'
  <2> SUFFICES ASSUME NEW t \in DrainSinks PROVE CalmAt(t)'
    BY DEF Calm
  <2>1. CASE t = s
    BY <1>1, <1>2, <1>3, <1>4, <2>1 DEF Calm, CalmAt, Callers
  <2>2. CASE t # s
    BY <1>1, <1>4, <2>2 DEF Calm, CalmAt, Callers, Over
  <2> QED BY <2>1, <2>2
<1>6. OneChange'
  BY <1>1, <1>3 DEF OneChange
<1>7. Matched'
  <2>1. deleted.pc = "unregister" => deleted.sink \in DrainSinks
    BY DrainKeys DEF OneChange, DrainSinks
  <2> QED BY <1>1, <1>4, <2>1 DEF Matched, Callers
<1> QED BY <1>5, <1>6, <1>7

\* A call of UnregisterSink for a drain's sink: if there is a sink to remove,
\* it is that one, and the call is the listener's.
LEMMA DrainUnregisters ==
  ASSUME IInv, Plain, Calm, OneChange, Matched, NEW s \in DrainSinks, NEW by \in Callers,
         Unregister(by, s)
  PROVE  Calm' /\ OneChange' /\ Matched'
<1> DEFINE k == s[1]
           l == unregister'[<<by, s>>]
<1>1. /\ unregister[<<by, s>>] = "call"
      /\ UNCHANGED <<run, disconnected, new, deleted, bound>>
      /\ k \in Drains /\ k \in Keys /\ s \in Sinks
  BY DrainKeys DEF Unregister, listeners
<1>2. by \in {"run", "delete"} /\ run[s] # "none"
  BY <1>1 DEF Calm, CalmAt, Callers
<1>3. \A t \in DrainSinks, c \in Callers : unregister'[<<c, t>>] =
         IF c = by /\ t = s THEN l ELSE unregister[<<c, t>>]
  BY <1>1, DrainKeys DEF Unregister, IInv, Types
<1>4. by = "delete" => deleted.pc = "unregister" /\ deleted.sink = s
  BY <1>1 DEF IInv, CalledOnce
<1>5. by = "run" => unregister[<<"run", s>>] # "done"
  BY <1>1
<1>6. new.pc # "check"
  <2>1. Registered(s) => by = "delete"
    BY <1>1, <1>2 DEF Calm, CalmAt
  <2> QED BY <1>2, <1>4, <1>5, <2>1 DEF OneChange, Over
<1>7. CASE wrappers[k] # 0
  <2>1. Registered(s) /\ by = "delete"
    BY <1>1, <1>2, <1>7 DEF Calm, CalmAt, Over
  <2>2. wrappers' = [wrappers EXCEPT ![k] = 0] /\ l = "removed"
    BY <1>1, <1>7 DEF Unregister, RemoveSink, IInv, Types
  <2>3. \A t \in DrainSinks : /\ wrappers'[t[1]] = IF t[1] = k THEN 0 ELSE wrappers[t[1]]
                              /\ Registered(t)' <=> (Registered(t) /\ t[1] # k)
    <3>1. \A t \in DrainSinks : t[1] \in Keys /\ t[2] \in Nat \ {0}
      BY SinkPairs, DrainKeys
    <3> QED BY <2>2, <3>1 DEF Registered, IInv, Types
  <2>4. Calm'
    <3> SUFFICES ASSUME NEW t \in DrainSinks PROVE CalmAt(t)'
      BY DEF Calm
    <3>1. CASE t = s
      BY <1>1, <1>2, <1>3, <2>1, <2>2, <2>3, <3>1 DEF Calm, CalmAt, Callers
    <3>2. CASE t # s
      <4>1. CalmAt(t)
        BY DEF Calm
      <4>2. \A c \in Callers : unregister'[<<c, t>>] = unregister[<<c, t>>]
        BY <1>3, <3>2
      <4>3. Over(t)' <=> Over(t)
        BY <1>1, <4>2 DEF Over, Callers
      <4>4. wrappers'[t[1]] # 0 => wrappers[t[1]] # 0
        BY <2>3
      <4> QED BY <1>1, <2>3, <4>1, <4>2, <4>3, <4>4 DEF CalmAt, Callers
    <3> QED BY <3>1, <3>2
  <2>5. OneChange'
    BY <1>1, <1>6 DEF OneChange
  <2>6. Matched'
    <3>1. ASSUME NEW u \in Urls \ BadUrls
          PROVE  wrappers'[u] # 0 <=>
                   \/ u \in bound /\ ~(new.pc = "check" /\ new.url = u)
                   \/ deleted.pc = "find" /\ deleted.url = u
                   \/ /\ deleted.pc = "unregister" /\ deleted.sink[1] = u
                      /\ unregister'[<<"delete", deleted.sink>>] = "call"
      <4>1. u \in Keys /\ (wrappers'[u] = IF u = k THEN 0 ELSE wrappers[u])
        BY <2>2, DrainKeys DEF IInv, Types
      <4>2. deleted.pc = "unregister" /\ deleted.sink = s /\ k \in Urls \ bound
        BY <1>4, <2>1 DEF OneChange
      <4>3. unregister'[<<"delete", s>>] # "call"
        BY <2>1, <2>2
      <4> QED BY <4>1, <4>2, <4>3 DEF Matched
    <3> QED BY <1>1, <3>1 DEF Matched
  <2> QED BY <2>4, <2>5, <2>6
<1>8. CASE wrappers[k] = 0
  <2>1. UNCHANGED wrappers /\ l = "done"
    BY <1>1, <1>8 DEF Unregister, IInv, Types
  <2>2. ~Registered(s) /\ \A t \in DrainSinks : Registered(t)' <=> Registered(t)
    BY <1>1, <1>8, <2>1, RegisteredMade DEF Registered
  <2>3. Calm'
    <3> SUFFICES ASSUME NEW t \in DrainSinks PROVE CalmAt(t)'
      BY DEF Calm
    <3>1. CASE t = s
      BY <1>1, <1>2, <1>3, <1>8, <2>1, <2>2, <3>1 DEF Calm, CalmAt, Callers
    <3>2. CASE t # s
      BY <1>1, <1>3, <2>1, <2>2, <3>2 DEF Calm, CalmAt, Callers, Over
    <3> QED BY <3>1, <3>2
  <2>4. OneChange'
    BY <1>1, <1>6 DEF OneChange
  <2>5. Matched'
    <3>1. deleted.pc = "unregister" => deleted.sink \in DrainSinks
      BY DrainKeys DEF OneChange, DrainSinks
    <3>2. ASSUME NEW u \in Urls \ BadUrls, deleted.pc = "unregister", deleted.sink[1] = u,
                 unregister[<<"delete", deleted.sink>>] = "call"
          PROVE  unregister'[<<"delete", deleted.sink>>] = "call"
      <4>1. wrappers[u] # 0
        BY <3>2 DEF Matched
      <4>2. deleted.sink # s
        BY <1>8, <3>2, <4>1
      <4> QED BY <1>3, <3>1, <3>2, <4>2 DEF Callers
    <3>3. unregister'[<<"delete", deleted.sink>>] = "call" /\ deleted.pc = "unregister"
             => unregister[<<"delete", deleted.sink>>] = "call"
      BY <1>1, <1>3, <3>1, <2>1 DEF Callers
    <3> QED BY <1>1, <2>1, <3>2, <3>3 DEF Matched
  <2> QED BY <2>3, <2>4, <2>5
<1> QED BY <1>7, <1>8

\* A removed sink is counted down and disconnected: nothing is filed under its
\* identifier yet.
LEMMA DrainUncounts ==
  ASSUME IInv, Plain, Calm, OneChange, Matched, NEW s \in DrainSinks, NEW by \in Callers,
         Uncount(by, s)
  PROVE  Calm' /\ OneChange' /\ Matched'
<1>1. /\ unregister[<<by, s>>] = "removed"
      /\ unregister' = [unregister EXCEPT ![<<by, s>>] = "done"]
      /\ disconnected' = [disconnected EXCEPT ![s] = @ \/ kind(s[1]) = "syslog"]
      /\ UNCHANGED <<wrappers, run, new, deleted, bound>>
      /\ s \in Sinks /\ s[1] \in Drains
  BY DrainKeys DEF Uncount, listeners
<1>2. by \in {"run", "delete"} /\ run[s] # "none" /\ ~Registered(s)
  BY <1>1 DEF Calm, CalmAt, Callers
<1>3. wrappers[s[1]] = 0
  BY <1>1, <1>2 DEF Calm, CalmAt, Over
<1>4. new.pc # "check"
  <2>1. by = "delete" => deleted.pc = "unregister"
    BY <1>1 DEF IInv, CalledOnce
  <2> QED BY <1>1, <1>2, <2>1 DEF OneChange, Over
<1>5. \A t \in DrainSinks : /\ Registered(t)' <=> Registered(t)
                            /\ t # s => disconnected'[t] = disconnected[t]
                            /\ \A c \in Callers : unregister'[<<c, t>>] =
                                 IF c = by /\ t = s THEN "done" ELSE unregister[<<c, t>>]
  BY <1>1, DrainKeys DEF Registered, IInv, Types
<1>6. Calm'
  <2> SUFFICES ASSUME NEW t \in DrainSinks PROVE CalmAt(t)'
    BY DEF Calm
  <2>1. CASE t = s
    BY <1>1, <1>2, <1>3, <1>5, <2>1 DEF Calm, CalmAt, Callers
  <2>2. CASE t # s
    BY <1>1, <1>5, <2>2 DEF Calm, CalmAt, Callers, Over
  <2> QED BY <2>1, <2>2
<1>7. OneChange'
  BY <1>1, <1>4 DEF OneChange
<1>8. Matched'
  <2>1. deleted.pc = "unregister" => deleted.sink \in DrainSinks
    BY DrainKeys DEF OneChange, DrainSinks
  <2> QED BY <1>1, <1>5, <2>1 DEF Matched, Callers
<1> QED BY <1>6, <1>7, <1>8

\* The new drain is filed: all earlier sinks of its identifier are over, and stay so.
LEMMA DrainRegisters ==
  ASSUME IInv, Plain, Calm, OneChange, Matched, RegisterDrain
  PROVE  Calm' /\ OneChange' /\ Matched'
<1> DEFINE k == new.url
           s == <<k, made[k] + 1>>
<1>1. /\ new.pc = "check" /\ k \in Urls \ BadUrls /\ Identifier[k] = k
      /\ AddSink(k) /\ new' = Idle
      /\ UNCHANGED <<disconnected, unregister, deleted, bound>>
  BY DEF RegisterDrain, IInv, InHand, Plain
<1>2. deleted.pc = "idle" /\ wrappers[k] = 0 /\ k \in Drains /\ k \in Keys /\ k \in bound
  BY <1>1, DrainKeys DEF OneChange, Matched
<1>3. /\ made[k] < MaxMade[k] /\ made[k] \in Nat
      /\ wrappers' = [wrappers EXCEPT ![k] = made[k] + 1]
      /\ run' = [run EXCEPT ![s] = "added"]
  BY <1>1, <1>2 DEF AddSink, IInv, Types
<1>4. s \in Sinks /\ s \in DrainSinks /\ s[1] = k /\ s[2] = made[k] + 1
  BY <1>2, <1>3, SinkPairs DEF DrainSinks
<1>5. run[s] = "none"
  BY <1>3, <1>4 DEF IInv, Filed
<1>6. \A t \in DrainSinks : /\ run'[t] = IF t = s THEN "added" ELSE run[t]
                            /\ t[1] # k => wrappers'[t[1]] = wrappers[t[1]]
                            /\ t[1] = k => wrappers'[t[1]] = made[k] + 1
                            /\ t = s => Registered(t)'
                            /\ t # s /\ t[1] = k => ~Registered(t)' /\ ~Registered(t)
                            /\ t[1] # k => (Registered(t)' <=> Registered(t))
  <2>1. \A t \in DrainSinks : /\ t \in Sinks /\ t[1] \in Keys /\ t[2] \in Nat \ {0}
                              /\ t = <<t[1], t[2]>>
    BY SinkPairs, DrainKeys
  <2> QED BY <1>2, <1>3, <1>4, <2>1 DEF Registered, IInv, Types
<1>7. Calm'
  <2> SUFFICES ASSUME NEW t \in DrainSinks PROVE CalmAt(t)'
    BY DEF Calm
  <2>1. CASE t = s
    <3>1. unregister[<<"run", t>>] = "no" /\ unregister[<<"delete", t>>] = "no" /\ ~disconnected[t]
          /\ unregister[<<"handler", t>>] = "no"
      BY <1>5, <2>1 DEF Calm, CalmAt, Callers
    <3>2. run'[t] = "added" /\ Registered(t)'
      BY <1>6, <2>1
    <3> QED BY <1>1, <1>5, <1>6, <2>1, <3>1, <3>2 DEF CalmAt
  <2>2. CASE t # s /\ t[1] = k
    <3>1. run[t] # "none" => Over(t)
      BY <1>1, <1>6, <2>2 DEF OneChange
    <3>2. unregister[<<"delete", t>>] \notin {"call", "removed"}
      BY <1>2, DrainKeys DEF IInv, CalledOnce
    <3>3. unregister[<<"delete", t>>] \in {"no", "done"}
      BY <3>2, DrainKeys DEF IInv, Types, Callers
    <3>4. Over(t)' <=> Over(t)
      BY <1>1, <1>6, <2>2 DEF Over
    <3> QED BY <1>1, <1>6, <2>2, <3>1, <3>3, <3>4 DEF Calm, CalmAt
  <2>3. CASE t[1] # k
    <3>1. run'[t] = run[t] /\ (Over(t)' <=> Over(t))
      BY <1>1, <1>4, <1>6, <2>3 DEF Over
    <3> QED BY <1>1, <1>6, <2>3, <3>1 DEF Calm, CalmAt
  <2> QED BY <2>1, <2>2, <2>3
<1>8. OneChange'
  BY <1>1, <1>2 DEF OneChange, Idle
<1>9. Matched'
  <2>1. ASSUME NEW u \in Urls \ BadUrls PROVE wrappers'[u] # 0 <=> u \in bound
    <3>1. u \in Keys
      BY DrainKeys
    <3>2. wrappers'[u] = IF u = k THEN made[k] + 1 ELSE wrappers[u]
      BY <1>3, <3>1 DEF IInv, Types
    <3>3. u # k => (wrappers[u] # 0 <=> u \in bound)
      BY <1>1, <1>2 DEF Matched
    <3> QED BY <1>2, <1>3, <3>2, <3>3
  <2>2. new'.pc = "idle" /\ deleted'.pc = "idle"
    BY <1>1, <1>2 DEF Idle
  <2> QED BY <1>1, <2>1, <2>2 DEF Matched
<1> QED BY <1>7, <1>8, <1>9

\* What the listeners do besides: they take a change in hand when all is settled,
\* refuse a URL, look a drain up and wait for the call to return.
LEMMA ListenersListen ==
  ASSUME IInv, Plain, Calm, OneChange, Matched,
         \/ \E u \in Urls : ReceiveNew(u) \/ ReceiveDeleted(u)
         \/ RefuseDrain \/ FindDrain \/ DeleteDone
  PROVE  Calm' /\ OneChange' /\ Matched'
<1>0. UNCHANGED <<wrappers, run, disconnected>>
  BY DEF ReceiveNew, ReceiveDeleted, RefuseDrain, FindDrain, DeleteDone
<1>1. \A t \in DrainSinks : Registered(t)' <=> Registered(t)
  BY <1>0 DEF Registered
<1>2. ASSUME UNCHANGED unregister PROVE Calm'
  BY <1>0, <1>1, <1>2 DEF Calm, CalmAt, Over
<1>3. ASSUME NEW u \in Urls, ReceiveNew(u) PROVE Calm' /\ OneChange' /\ Matched'
  <2>1. /\ Settled /\ u \notin bound /\ bound' = bound \cup {u} /\ UNCHANGED <<unregister, deleted>>
        /\ new' = [pc |-> "check", url |-> u]
    BY <1>3 DEF ReceiveNew, Plain
  <2>2. new.pc = "idle" /\ deleted.pc = "idle"
    BY <2>1 DEF Settled
  <2>3. OneChange'
    <3>1. \A s \in DrainSinks : /\ run[s] # "added"
                                /\ run[s] # "none" /\ ~Registered(s) => Over(s)
      BY <2>1, DrainKeys DEF Settled, Over
    <3>2. \A s \in DrainSinks : Over(s)' <=> Over(s)
      BY <1>0, <2>1 DEF Over
    <3> QED BY <1>0, <1>1, <2>1, <2>2, <3>1, <3>2 DEF OneChange
  <2>4. Matched'
    BY <1>0, <2>1, <2>2 DEF Matched
  <2> QED BY <1>2, <2>1, <2>3, <2>4
<1>4. ASSUME NEW u \in Urls, ReceiveDeleted(u) PROVE Calm' /\ OneChange' /\ Matched'
  <2>1. /\ Settled /\ u \in bound /\ bound' = bound \ {u} /\ UNCHANGED <<unregister, new>>
        /\ deleted' = [pc |-> "find", url |-> u]
    BY <1>4 DEF ReceiveDeleted, Plain
  <2>2. new.pc = "idle" /\ deleted.pc = "idle"
    BY <2>1 DEF Settled
  <2>3. OneChange'
    BY <2>1, <2>2 DEF OneChange
  <2>4. Matched'
    BY <1>0, <2>1, <2>2 DEF Matched
  <2> QED BY <1>2, <2>1, <2>3, <2>4
<1>5. CASE RefuseDrain
  <2>1. /\ new.pc = "check" /\ new.url \in BadUrls /\ new' = Idle
        /\ UNCHANGED <<unregister, deleted, bound>>
    BY <1>5 DEF RefuseDrain
  <2>2. OneChange'
    BY <2>1 DEF OneChange, Idle
  <2>3. Matched'
    BY <1>0, <2>1 DEF Matched, Idle
  <2> QED BY <1>2, <2>1, <2>2, <2>3
<1>6. CASE FindDrain
  <2> DEFINE k == deleted.url
             s == <<k, wrappers[k]>>
  <2>1. deleted.pc = "find" /\ UNCHANGED <<new, bound>>
    BY <1>6 DEF FindDrain
  <2>2. k \in Urls \ bound /\ k \in Drains /\ k \in Keys /\ new.pc # "check"
    BY <2>1, DrainKeys DEF OneChange
  <2>3. CASE wrappers[k] = 0
    <3>1. deleted' = Idle /\ UNCHANGED unregister
      BY <1>6, <2>3 DEF FindDrain
    <3>2. OneChange'
      BY <2>1, <2>2, <3>1 DEF OneChange, Idle
    <3>3. Matched'
      BY <1>0, <2>1, <2>3, <3>1 DEF Matched, Idle
    <3> QED BY <1>2, <3>1, <3>2, <3>3
  <2>4. CASE wrappers[k] # 0
    <3>1. /\ deleted' = [pc |-> "unregister", sink |-> s]
          /\ unregister' = [unregister EXCEPT ![<<"delete", s>>] = "call"]
      BY <1>6, <2>2, <2>4 DEF FindDrain
    <3>2. s \in Sinks /\ s \in DrainSinks /\ s[1] = k /\ Registered(s)
      <4>1. wrappers[k] \in 1..MaxMade[k]
        BY <2>2, <2>4, SinkPairs DEF IInv, Types, Filed
      <4> QED BY <2>2, <4>1, SinkPairs DEF DrainSinks, Registered
    <3>3. \A t \in DrainSinks, c \in Callers : unregister'[<<c, t>>] =
             IF c = "delete" /\ t = s THEN "call" ELSE unregister[<<c, t>>]
      BY <3>1, <3>2, DrainKeys DEF IInv, Types
    <3>4. run[s] # "none"
      BY <3>2, RegisteredMade
    <3>5. Calm'
      <4> HIDE DEF s
      <4> SUFFICES ASSUME NEW t \in DrainSinks PROVE CalmAt(t)'
        BY DEF Calm
      <4>1. CASE t = s
        BY <1>0, <1>1, <3>2, <3>3, <3>4, <4>1 DEF Calm, CalmAt, Callers
      <4>2. CASE t # s
        BY <1>0, <1>1, <3>3, <4>2 DEF Calm, CalmAt, Callers, Over
      <4> QED BY <4>1, <4>2
    <3>6. OneChange'
      BY <2>1, <2>2, <3>1, <3>2 DEF OneChange
    <3>7. Matched'
      <4>1. unregister'[<<"delete", s>>] = "call" /\ deleted'.pc = "unregister" /\ deleted'.sink = s
        BY <3>1, <3>2, <3>3 DEF Callers
      <4>2. ASSUME NEW u \in Urls \ BadUrls
            PROVE  wrappers'[u] # 0 <=> u \in bound \/ s[1] = u
        BY <1>0, <2>1, <2>2, <3>2 DEF Matched
      <4>3. new'.pc # "check"
        BY <2>1, <2>2
      <4> HIDE DEF s
      <4> QED BY <2>1, <4>1, <4>2, <4>3 DEF Matched
    <3> QED BY <3>5, <3>6, <3>7
  <2> QED BY <2>3, <2>4
<1>7. CASE DeleteDone
  <2>1. /\ deleted.pc = "unregister" /\ unregister[<<"delete", deleted.sink>>] = "done"
        /\ deleted' = Idle /\ UNCHANGED <<unregister, new, bound>>
    BY <1>7 DEF DeleteDone
  <2>2. OneChange'
    BY <2>1 DEF OneChange, Idle
  <2>3. Matched'
    BY <1>0, <2>1 DEF Matched, Idle
  <2> QED BY <1>2, <2>1, <2>2, <2>3
<1> QED BY <1>3, <1>4, <1>5, <1>6, <1>7

\* Every step of a sink manager that is not stopped.
LEMMA StepDrains ==
  ASSUME IInv, Plain, Calm, OneChange, Matched, [Next]_vars, ~stopped, ~stopped'
  PROVE  Calm' /\ OneChange' /\ Matched'
<1>1. ASSUME NEW s \in DrainSinks, Launch(s) \/ Take(s) \/ Write(s) \/ ConnectFails(s) \/ Retry(s)
      PROVE  Calm' /\ OneChange' /\ Matched'
  <2>1. /\ run[s] \notin {"none", "returned"}
        /\ \E l \in {"running", "sending", "backoff"} : run' = [run EXCEPT ![s] = l]
        /\ UNCHANGED <<wrappers, disconnected, unregister, new, deleted, bound>>
    BY <1>1, DrainKeys DEF Launch, Take, Write, ConnectFails, Retry, Unheld, listeners
  <2> QED BY <2>1, DrainRuns
<1>2. ASSUME NEW s \in Sinks \ DrainSinks, RunStep(s) \/ Retry(s) \/ Hangup(s)
      PROVE  Calm' /\ OneChange' /\ Matched'
  <2>1. /\ UNCHANGED <<wrappers, disconnected, new, deleted, bound>>
        /\ UNCHANGED run \/ \E l \in Phases : run' = [run EXCEPT ![s] = l]
        /\ UNCHANGED unregister
             \/ \E c \in {"run", "handler"} : unregister' = [unregister EXCEPT ![<<c, s>>] = "call"]
    BY <1>2 DEF RunStep, Launch, Take, Write, ConnectFails, Return, Retry, Hangup, Unheld, listeners,
                Phases, IInv, Types
  <2>2. \A t \in DrainSinks : /\ t # s /\ run'[t] = run[t]
                              /\ \A by \in Callers : unregister'[<<by, t>>] = unregister[<<by, t>>]
    BY <2>1, DrainKeys DEF IInv, Types
  <2> QED BY <2>1, <2>2, Elsewhere
<1>3. ASSUME NEW s \in DrainSinks, Hangup(s) PROVE Calm' /\ OneChange' /\ Matched'
  BY <1>3, DrainKeys DEF Hangup
<1>4. ASSUME NEW s \in Sinks \ DrainSinks, NEW by \in Callers, UnregisterStep(by, s)
      PROVE  Calm' /\ OneChange' /\ Matched'
  <2>1. /\ UNCHANGED <<run, new, deleted, bound>>
        /\ UNCHANGED wrappers \/ wrappers' = [wrappers EXCEPT ![s[1]] = 0]
        /\ UNCHANGED disconnected
             \/ disconnected' = [disconnected EXCEPT ![s] = @ \/ kind(s[1]) = "syslog"]
        /\ \E l \in {"removed", "done"} : unregister' = [unregister EXCEPT ![<<by, s>>] = l]
    BY <1>4 DEF UnregisterStep, Unregister, Uncount, RemoveSink, listeners
  <2>2. s[1] \notin Drains
    BY DEF DrainSinks
  <2>3. \A k \in Drains : wrappers'[k] = wrappers[k]
    BY <2>1, <2>2, DrainKeys DEF IInv, Types
  <2>4. \A t \in DrainSinks : /\ t # s /\ disconnected'[t] = disconnected[t]
                              /\ \A c \in Callers : unregister'[<<c, t>>] = unregister[<<c, t>>]
    BY <2>1, DrainKeys DEF IInv, Types
  <2> QED BY <2>1, <2>3, <2>4, Elsewhere
<1>5. ASSUME NEW k \in Keys \ Drains, AddSink(k),
             UNCHANGED <<disconnected, unregister, new, deleted, bound>>
      PROVE  Calm' /\ OneChange' /\ Matched'
  <2>1. \/ UNCHANGED <<wrappers, run>>
        \/ /\ wrappers' = [wrappers EXCEPT ![k] = made[k] + 1]
           /\ run' = [run EXCEPT ![<<k, made[k] + 1>>] = "added"]
    BY <1>5 DEF AddSink
  <2>2. \A j \in Drains : wrappers'[j] = wrappers[j]
    BY <2>1, DrainKeys DEF IInv, Types
  <2>3. \A t \in DrainSinks : run'[t] = run[t]
    <3>1. \A t \in DrainSinks : t # <<k, made[k] + 1>> /\ t \in Sinks
      BY DrainKeys, SinkPairs
    <3> QED BY <2>1, <3>1 DEF IInv, Types
  <2> QED BY <1>5, <2>2, <2>3, Elsewhere
<1>6. ASSUME NEW k \in Streams \cup Firehoses, Open(k) PROVE Calm' /\ OneChange' /\ Matched'
  <2>1. k \in Keys \ Drains
    BY DrainKeys DEF Keys
  <2> QED BY <1>5, <1>6, <2>1 DEF Open, listeners
<1>7. CASE EnsureRecentLogs \/ EnsureContainerMetrics
  <2>1. "dump" \in Keys \ Drains /\ "metrics" \in Keys \ Drains
    BY DrainKeys DEF Keys
  <2> QED BY <1>5, <1>7, <2>1 DEF EnsureRecentLogs, EnsureContainerMetrics, Ensure, listeners
<1>8. CASE BroadcastMessage \/ BroadcastError \/ UNCHANGED vars
  <2>1. UNCHANGED <<wrappers, run, disconnected, unregister, new, deleted, bound>>
    BY <1>8 DEF BroadcastMessage, BroadcastError, vars, listeners
  <2> QED BY <2>1, Elsewhere
<1>9. ASSUME NEW s \in Sinks, RunStep(s) \/ Retry(s) \/ Hangup(s)
      PROVE  Calm' /\ OneChange' /\ Matched'
  BY <1>1, <1>2, <1>3, <1>9, DrainReturns DEF RunStep
<1>10. ASSUME NEW s \in Sinks, NEW by \in Callers, UnregisterStep(by, s)
       PROVE  Calm' /\ OneChange' /\ Matched'
  BY <1>4, <1>10, DrainUnregisters, DrainUncounts DEF UnregisterStep
<1>11. CASE ListenerStep
  BY <1>11, DrainRegisters, ListenersListen DEF ListenerStep
<1>12. ASSUME NEW u \in Urls, ReceiveNew(u) \/ ReceiveDeleted(u)
       PROVE  Calm' /\ OneChange' /\ Matched'
  BY <1>12, ListenersListen
<1>13. ~Stop
  BY DEF Stop
<1> QED BY <1>6, <1>7, <1>8, <1>9, <1>10, <1>11, <1>12, <1>13 DEF Next

\* When bindings change one at a time and no URL has a query, every acceptable
\* drain that is bound has a sink and no other has, as soon as what the last
\* change set going has ended, however sinks and listeners interleave.
THEOREM DrainsCorrect == ASSUME Plain PROVE Spec => []DrainsMatch
<1>1. Init => DrainInv
  <2> SUFFICES ASSUME Init PROVE DrainInv
    OBVIOUS
  <2>1. Calm
    BY DrainKeys, SinkPairs DEF Init, Calm, CalmAt, Registered, Callers
  <2>2. OneChange
    BY DEF Init, OneChange, Idle
  <2>3. Matched
    BY DrainKeys DEF Init, Matched, Idle
  <2> QED BY <2>1, <2>2, <2>3 DEF DrainInv
<1>2. IInv /\ DrainInv /\ [Next]_vars => DrainInv'
  <2> SUFFICES ASSUME IInv, DrainInv, [Next]_vars, ~stopped'
               PROVE  Calm' /\ OneChange' /\ Matched'
    BY DEF DrainInv
  <2>1. ~stopped
    BY StaysStopped
  <2> QED BY <2>1, StepDrains DEF DrainInv
<1>3. IInv /\ DrainInv => DrainsMatch
  <2> SUFFICES ASSUME IInv, DrainInv, Settled, ~stopped, NEW u \in Urls \ BadUrls
               PROVE  wrappers[Identifier[u]] # 0
                        <=> \E v \in bound : Identifier[v] = Identifier[u]
    BY DEF DrainsMatch
  <2>1. wrappers[u] # 0 <=> u \in bound
    BY DEF DrainInv, Matched, Settled
  <2>2. Identifier[u] = u /\ \A v \in bound : v \in Urls /\ Identifier[v] = v
    BY DEF Plain, DrainInv, OneChange
  <2> QED BY <2>1, <2>2
<1> QED BY <1>1, <1>2, <1>3, Inductive, PTL DEF Spec
==============================================================================
