---- MODULE DrainBindingProofs ----
(***************************************************************************)
(* Drain binding for any number of binders, apps and URLs: who may take the *)
(* leader node away, and why doppler is left with no drain that etcd does   *)
(* not hold.                                                                *)
(*                                                                         *)
(* NoDrainLeftBehind speaks of the watcher at rest.  What makes it hold is  *)
(* what is said of the watcher at work: whatever it has cached, has listed  *)
(* or is yet to add from its queue is either in etcd or its removal is in   *)
(* the queue, behind it (Follows); and the additions and removals the sink  *)
(* manager has not taken make up the difference between cache and drains    *)
(* (Told).                                                                  *)
(***************************************************************************)
EXTENDS AppServiceStore, FiniteSetTheorems, TLAPS

(***************************************************************************)
(* The invariant.                                                           *)
(***************************************************************************)
Ids == Apps \X Urls
HostSet == {b.host : b \in (UNION Range(Bindings)) \cup {NoBinding}}
BindingSet == [host : HostSet, urls : SUBSET Urls]
NodeSet == [app : Apps, host : HostSet, url : Urls]

\* events of a drain, and of the directory of an app
Events == [type : {"set", "delete"}, node : NodeSet] \cup [type : {"deleteDir"}, app : Apps]
Messages == [op : {"add", "remove"}, id : Ids]

Typed == bpc = [b \in Binders |-> bpc[b]]

BinderTypes ==
  /\ cc \in [Apps -> BindingSet]
  /\ Typed
  /\ polled \in [Binders -> [Apps -> BindingSet]]
  /\ todo \in [Binders -> SUBSET Apps]
  /\ services \subseteq NodeSet
  /\ watch \in Seq(Events)

\* what is cached decodes, as it was added; it is listed once
StoreTypes ==
  /\ wpc = "watch" => DOMAIN cache = {}
  /\ wpc # "list" => listed = {}
  /\ wpc = "broken" => missed
  /\ listed \subseteq NodeSet
  /\ IsFiniteSet(DOMAIN cache)
  /\ DOMAIN cache \subseteq {x \in Ids : UrlKind[x[2]] # "quoted"}
  /\ drains \subseteq Ids
  /\ out \in Seq(Messages)

\* what the sink manager has not taken is the difference of cache and drains
Told ==
  /\ \A i, j \in 1..Len(out) : out[i].id = out[j].id => i = j
  /\ \A i \in 1..Len(out) : out[i].op = "add" <=> out[i].id \in DOMAIN cache
  /\ \A x \in Ids : (\A i \in 1..Len(out) : out[i].id # x) => (x \in drains <=> x \in DOMAIN cache)

\* an event that takes the drain x out of the cache
Removes(e, x) == \/ e.type = "delete" /\ Id(e.node) = x
                 \/ e.type = "deleteDir" /\ e.app = x[1]

\* x is in etcd, or its removal is in the queue q from place k on
Backed(nodes, q, k, x) == \/ \E n \in nodes : Id(n) = x
                          \/ \E j \in k..Len(q) : Removes(q[j], x)

Follows ==
  ~missed /\ wpc # "stopped" =>
    /\ \A x \in DOMAIN cache : Backed(services, watch, 1, x)
    /\ \A n \in listed : Backed(services, watch, 1, Id(n))
    /\ \A i \in 1..Len(watch) :
         watch[i].type = "set" => Backed(services, watch, i + 1, Id(watch[i].node))

IInv == BinderTypes /\ StoreTypes /\ Told /\ Follows

(***************************************************************************)
(* The leader.                                                              *)
(***************************************************************************)
\* The places of the binders are a function of the binders.
LEMMA PlacesTyped == Spec => []Typed
<1>1. Init => Typed
  BY DEF Init, BinderInit, Typed
<1>2. Typed /\ [Next]_vars => Typed'
  <2> SUFFICES ASSUME Typed, [Next]_vars PROVE Typed'
    OBVIOUS
  <2>1. CASE bpc' = bpc
    BY <2>1 DEF Typed
  <2>2. ASSUME NEW b \in Binders, NEW p, bpc' = [bpc EXCEPT ![b] = p]
        PROVE  Typed'
    BY <2>2 DEF Typed
  <2>3. ASSUME NEW b \in Binders, BinderStep(b) \/ BinderCrashes(b)
        PROVE  Typed'
    BY <2>1, <2>2, <2>3 DEF BinderStep, StayAsLeader, RunForElection, PollPage, UpdateDrains, BinderCrashes,
                            Poll, GiveUp
  <2>4. CASE bpc' # bpc
    BY <2>3, <2>4 DEF Next, BinderNext, Rebind, LeaderExpires, DrainExpires, WatcherStep, Watch, Register,
                      HandleEvent, Rewatch, Deliver, Unread, WatchFails, Stop, AppDeleted, vars, bindingVars,
                      binderVars, storeVars
  <2> QED BY <2>1, <2>4
<1> QED BY <1>1, <1>2, PTL DEF Spec

\* However many binders there are and whatever fails, a binder that does
\* something while another one's name is in the leader node leaves it there,
\* when it vacates after a failure too, and only the one named begins a round.
THEOREM LeaderSafe == Spec => LeadershipKept
<1>1. ASSUME NEW b \in Binders, BinderStep(b) \/ BinderCrashes(b)
      PROVE  leader \in {b, NoLeader} \/ leader' = leader
  <2>1. GiveUp(b) => leader \in {b, NoLeader} \/ leader' = leader
    BY DEF GiveUp, Vacate
  <2> QED BY <1>1, <2>1 DEF BinderStep, StayAsLeader, RunForElection, PollPage, UpdateDrains, BinderCrashes
<1>2. ASSUME Typed, [Next]_vars, NEW b \in Binders, bpc[b] = "tick", bpc'[b] = "poll"
      PROVE  leader' = b
  <2>1. ASSUME NEW c \in Binders, BinderStep(c) \/ BinderCrashes(c)
        PROVE  c = b
    <3>1. bpc' = bpc \/ \E p : bpc' = [bpc EXCEPT ![c] = p]
      BY <2>1 DEF BinderStep, StayAsLeader, RunForElection, PollPage, UpdateDrains, BinderCrashes, Poll, GiveUp
    <3> QED BY <1>2, <2>1, <3>1 DEF Typed
  <2>2. \E c \in Binders : BinderStep(c) \/ BinderCrashes(c)
    BY <1>2 DEF Next, BinderNext, Rebind, LeaderExpires, DrainExpires, WatcherStep, Watch, Register,
           HandleEvent, Rewatch, Deliver, Unread, WatchFails, Stop, AppDeleted, vars, bindingVars,
           binderVars, storeVars
  <2>3. BinderStep(b) \/ BinderCrashes(b)
    BY <2>1, <2>2
  <2>4. GiveUp(b) => bpc'[b] = "tick"
    BY <1>2 DEF GiveUp, Typed
  <2>5. StayAsLeader(b) \/ RunForElection(b)
    BY <1>2, <2>3, <2>4 DEF BinderStep, PollPage, UpdateDrains, BinderCrashes, Typed
  <2> QED BY <1>2, <2>4, <2>5 DEF StayAsLeader, RunForElection
<1> DEFINE Safe == \A b \in Binders :
                     /\ BinderStep(b) \/ BinderCrashes(b) => leader \in {b, NoLeader} \/ leader' = leader
                     /\ bpc[b] = "tick" /\ bpc'[b] = "poll" => leader' = b
<1>3. Typed /\ [Next]_vars => [Safe]_bindingVars
  BY <1>1, <1>2
<1> QED BY <1>3, PlacesTyped, PTL DEF Spec, LeadershipKept

(***************************************************************************)
(* Sequences of a set.                                                      *)
(***************************************************************************)
\* A finite set has a sequence with each element once.
LEMMA SetToSeqOf ==
  ASSUME NEW S, IsFiniteSet(S)
  PROVE  /\ SetToSeq(S) \in Seq(S)
         /\ \A x \in S : \E i \in 1..Len(SetToSeq(S)) : SetToSeq(S)[i] = x
         /\ \A i, j \in 1..Len(SetToSeq(S)) : SetToSeq(S)[i] = SetToSeq(S)[j] => i = j
<1> DEFINE n == Cardinality(S)
           q == SetToSeq(S)
<1>1. n \in Nat /\ ExistsBijection(1..n, S)
  BY FS_CardinalityType
<1>2. \E f \in [1..n -> S] : IsInjective(f)
  BY <1>1 DEF ExistsBijection, Bijection, Injection
<1>3. q \in [1..n -> S] /\ IsInjective(q)
  BY <1>2 DEF SetToSeq
<1> HIDE DEF q
<1>4. q \in Injection(1..n, S)
  BY <1>3 DEF Injection
<1>5. IsFiniteSet(1..n) /\ Cardinality(1..n) = n
  BY <1>1, FS_Interval
<1>6. q \in Surjection(1..n, S)
  BY <1>4, <1>5, FS_Injection
<1>7. \A x \in S : \E i \in 1..n : q[i] = x
  BY <1>6 DEF Surjection
<1>8. q \in Seq(S) /\ Len(q) = n
  BY <1>1, <1>3
<1>9. \A i, j \in 1..n : q[i] = q[j] => i = j
  BY <1>3 DEF IsInjective
<1> QED BY <1>7, <1>8, <1>9 DEF q

\* What a write of some of an app's drains puts in the queue is finite.
LEMMA WriteFinite ==
  ASSUME NEW a, NEW binding \in BindingSet, NEW part \in SUBSET DrainNodes(a, binding)
  PROVE  IsFiniteSet({[type |-> "set", node |-> n] : n \in part})
<1> DEFINE S == {v \in binding.urls : UrlKind[v] # "blank"}
           N == DrainNodes(a, binding)
           T == {[type |-> "set", node |-> n] : n \in part}
           f == [u \in S |-> [app |-> a, host |-> binding.host, url |-> u]]
           g == [n \in part |-> [type |-> "set", node |-> n]]
<1>1. IsFiniteSet(S)
  BY BindingsAssumption, FS_Subset DEF BindingSet
<1>2. f \in Surjection(S, N)
  BY DEF Surjection, DrainNodes
<1>3. IsFiniteSet(N)
  BY <1>1, <1>2, FS_Surjection
<1>4. IsFiniteSet(part)
  BY <1>3, FS_Subset
<1> HIDE DEF N
<1>5. g \in Surjection(part, T)
  BY DEF Surjection
<1> QED BY <1>4, <1>5, FS_Surjection

\* So are the removals of what is cached.
LEMMA RemovalsFinite ==
  ASSUME NEW S, IsFiniteSet(S)
  PROVE  IsFiniteSet({[op |-> "remove", id |-> i] : i \in S})
<1> DEFINE T == {[op |-> "remove", id |-> i] : i \in S}
           f == [i \in S |-> [op |-> "remove", id |-> i]]
<1>1. f \in Surjection(S, T)
  BY DEF Surjection
<1> QED BY <1>1, FS_Surjection

(***************************************************************************)
(* The queue.                                                               *)
(***************************************************************************)
\* Events are added at the end.
LEMMA BackedConcat ==
  ASSUME NEW q \in Seq(Events), NEW t \in Seq(Events), NEW k \in 1..(Len(q) + 1), NEW x,
         NEW nodes, NEW more, Backed(nodes, q, k, x),
         \A n \in nodes : n \in more \/ \E j \in 1..Len(t) : Removes(t[j], Id(n))
  PROVE  Backed(more, q \o t, k, x)
<1> DEFINE a == q \o t
<1>1. /\ Len(a) = Len(q) + Len(t) /\ Len(q) \in Nat /\ Len(t) \in Nat
      /\ \A i \in 1..Len(q) : a[i] = q[i]
      /\ \A i \in 1..Len(t) : a[Len(q) + i] = t[i]
  OBVIOUS
<1> HIDE DEF a
<1>2. CASE \E n \in nodes : Id(n) = x
  <2>1. PICK n \in nodes : Id(n) = x
    BY <1>2
  <2>2. CASE n \in more
    BY <2>1, <2>2 DEF Backed
  <2>3. CASE \E j \in 1..Len(t) : Removes(t[j], x)
    <3>1. PICK j \in 1..Len(t) : Removes(t[j], x)
      BY <2>3
    <3>2. Len(q) + j \in k..Len(a) /\ a[Len(q) + j] = t[j]
      BY <1>1
    <3> QED BY <3>1, <3>2 DEF Backed, a
  <2> QED BY <2>1, <2>2, <2>3
<1>3. CASE \E j \in k..Len(q) : Removes(q[j], x)
  <2>1. PICK j \in k..Len(q) : Removes(q[j], x)
    BY <1>3
  <2>2. j \in k..Len(a) /\ a[j] = q[j]
    BY <1>1
  <2> QED BY <2>1, <2>2 DEF Backed, a
<1> QED BY <1>2, <1>3 DEF Backed

\* The first event is taken.
LEMMA BackedTail ==
  ASSUME NEW q \in Seq(Events), q # <<>>, NEW nodes, NEW x
  PROVE  /\ Backed(nodes, q, 1, x) /\ ~Removes(Head(q), x) => Backed(nodes, Tail(q), 1, x)
         /\ \A k \in 1..Len(q) : Backed(nodes, q, k + 1, x) => Backed(nodes, Tail(q), k, x)
<1> DEFINE a == Tail(q)
<1>1. /\ Len(q) = Len(a) + 1 /\ Len(a) \in Nat
      /\ q[1] = Head(q) /\ \A i \in 1..Len(a) : a[i] = q[i + 1]
  OBVIOUS
<1> HIDE DEF a
<1>2. ASSUME NEW k \in 1..Len(q), \E j \in (k + 1)..Len(q) : Removes(q[j], x)
      PROVE  \E j \in k..Len(a) : Removes(a[j], x)
  <2>1. PICK j \in (k + 1)..Len(q) : Removes(q[j], x)
    BY <1>2
  <2>2. j - 1 \in k..Len(a) /\ j - 1 \in 1..Len(a) /\ (j - 1) + 1 = j
    BY <1>1
  <2>3. a[j - 1] = q[j]
    BY <1>1, <2>2
  <2> QED BY <2>1, <2>2, <2>3
<1>3. ASSUME NEW j \in 1..Len(q), Removes(q[j], x), ~Removes(Head(q), x)
      PROVE  j \in (1 + 1)..Len(q) /\ 1 \in 1..Len(q)
  <2>1. j # 1
    BY <1>1, <1>3
  <2> QED BY <1>1, <2>1
<1>4. Backed(nodes, q, 1, x) /\ ~Removes(Head(q), x) => Backed(nodes, a, 1, x)
  BY <1>2, <1>3 DEF Backed
<1>5. \A k \in 1..Len(q) : Backed(nodes, q, k + 1, x) => Backed(nodes, a, k, x)
  BY <1>2 DEF Backed
<1> QED BY <1>4, <1>5 DEF a

\* Etcd changes and the watcher's queue grows by the events of it.
LEMMA FollowsExtend ==
  ASSUME IInv, UNCHANGED <<cache, listed, missed, wpc>>,
         NEW t \in Seq(Events), watch' = watch \o t,
         \A n \in services : n \in services' \/ \E j \in 1..Len(t) : Removes(t[j], Id(n)),
         \A j \in 1..Len(t) : t[j].type = "set" => t[j].node \in services'
  PROVE  Follows'
<1> SUFFICES ASSUME ~missed, wpc # "stopped"
             PROVE  /\ \A x \in DOMAIN cache : Backed(services', watch', 1, x)
                    /\ \A n \in listed : Backed(services', watch', 1, Id(n))
                    /\ \A i \in 1..Len(watch') :
                         watch'[i].type = "set" => Backed(services', watch', i + 1, Id(watch'[i].node))
  BY DEF Follows
<1>1. /\ \A x \in DOMAIN cache : Backed(services, watch, 1, x)
      /\ \A n \in listed : Backed(services, watch, 1, Id(n))
      /\ \A i \in 1..Len(watch) :
           watch[i].type = "set" => Backed(services, watch, i + 1, Id(watch[i].node))
      /\ watch \in Seq(Events)
  BY DEF IInv, Follows, BinderTypes
<1>2. ASSUME NEW k \in 1..(Len(watch) + 1), NEW x, Backed(services, watch, k, x)
      PROVE  Backed(services', watch', k, x)
  <2>1. Backed(services', watch \o t, k, x)
    BY <1>1, <1>2, BackedConcat
  <2> QED BY <2>1
<1>3. 1 \in 1..(Len(watch) + 1)
  BY <1>1
<1>4. ASSUME NEW i \in 1..Len(watch'), watch'[i].type = "set"
      PROVE  Backed(services', watch', i + 1, Id(watch'[i].node))
  <2>1. CASE i \in 1..Len(watch)
    <3>1. watch'[i] = watch[i] /\ i + 1 \in 1..(Len(watch) + 1)
      BY <1>1, <2>1
    <3> QED BY <1>1, <1>2, <1>4, <2>1, <3>1
  <2>2. CASE i \notin 1..Len(watch)
    <3>1. i - Len(watch) \in 1..Len(t) /\ watch'[i] = t[i - Len(watch)]
      BY <1>1, <2>2
    <3>2. watch'[i].node \in services'
      BY <1>4, <3>1
    <3> QED BY <3>2 DEF Backed
  <2> QED BY <2>1, <2>2
<1> QED BY <1>1, <1>2, <1>3, <1>4

(***************************************************************************)
(* The binders, and what else changes etcd.                                 *)
(***************************************************************************)
\* Whatever the cloud controller holds is a binding.
LEMMA BindingsTyped ==
  ASSUME NEW a \in Apps, NEW b \in Bindings[a] \cup {NoBinding}
  PROVE  b \in BindingSet
<1>1. CASE b = NoBinding
  BY <1>1 DEF BindingSet, HostSet, NoBinding
<1>2. CASE b \in Bindings[a]
  <2>1. Bindings[a] \in Range(Bindings)
    BY BindingsAssumption DEF Range
  <2>2. b \in UNION Range(Bindings)
    BY <1>2, <2>1
  <2>3. b.host \in HostSet
    BY <2>2 DEF HostSet
  <2> QED BY <2>2, <2>3, BindingsAssumption DEF BindingSet
<1> QED BY <1>1, <1>2

\* What is left of bindings by Filter are bindings.
LEMMA FilterTyped ==
  ASSUME NEW bs \in [Apps -> BindingSet]
  PROVE  Filter(bs) \in [Apps -> BindingSet]
<1>1. NoBinding \in BindingSet
  BY DEF BindingSet, HostSet, NoBinding
<1>2. ASSUME NEW b \in BindingSet
      PROVE  [host |-> b.host, urls |-> {u \in b.urls : UrlKind[u] \notin {"unparsable", "v2"}}] \in BindingSet
  BY DEF BindingSet
<1> QED BY <1>1, <1>2 DEF Filter

\* Nothing in the initial state needs a removal.
LEMMA InitInv == Init => IInv
<1> SUFFICES ASSUME Init PROVE IInv
  OBVIOUS
<1>1. cc \in [Apps -> BindingSet]
  <2>1. cc \in [Apps -> (UNION Range(Bindings)) \cup {NoBinding}] /\ \A a \in Apps : cc[a] \in Bindings[a] \cup {NoBinding}
    BY DEF Init, BinderInit
  <2>2. \A a \in Apps : cc[a] \in BindingSet
    BY <2>1, BindingsTyped
  <2> QED BY <2>1, <2>2
<1>2. NoBinding \in BindingSet
  BY DEF BindingSet, HostSet, NoBinding
<1>3. BinderTypes
  BY <1>1, <1>2 DEF Init, BinderInit, BinderTypes, Typed
<1>4. DOMAIN cache = {} /\ IsFiniteSet({})
  BY FS_EmptySet DEF Init, Empty
<1>5. StoreTypes /\ Told /\ Follows
  BY <1>4 DEF Init, BinderInit, StoreTypes, Told, Follows
<1> QED BY <1>3, <1>5 DEF IInv

\* A step of a binder keeps the types of what it has polled and has to write.
LEMMA BinderTyped ==
  ASSUME IInv, NEW b \in Binders, BinderStep(b) \/ BinderCrashes(b)
  PROVE  Typed' /\ polled' \in [Binders -> [Apps -> BindingSet]] /\ todo' \in [Binders -> SUBSET Apps]
<1>1. /\ Typed /\ polled \in [Binders -> [Apps -> BindingSet]] /\ todo \in [Binders -> SUBSET Apps]
      /\ cc \in [Apps -> BindingSet]
  BY DEF IInv, BinderTypes
<1>2. Typed'
  BY <1>1 DEF Typed, BinderStep, StayAsLeader, RunForElection, PollPage, UpdateDrains, BinderCrashes, Poll, GiveUp
<1>3. Nothing \in [Apps -> BindingSet]
  BY DEF Nothing, BindingSet, HostSet, NoBinding
<1>4. ForgetPoll(b) => polled' \in [Binders -> [Apps -> BindingSet]]
  BY <1>1, <1>3 DEF ForgetPoll
<1>5. CASE StayAsLeader(b) \/ RunForElection(b)
  BY <1>1, <1>2, <1>4, <1>5 DEF StayAsLeader, RunForElection, Poll, GiveUp
<1>6. CASE UpdateDrains(b) \/ BinderCrashes(b)
  BY <1>1, <1>2, <1>4, <1>6 DEF UpdateDrains, BinderCrashes, GiveUp
<1>7. CASE PollPage(b)
  <2> DEFINE result == [polled[b] EXCEPT ![Pages[page[b]]] = cc[Pages[page[b]]]]
             Done(bs) == /\ todo' = [todo EXCEPT ![b] = {x \in Apps : Filter(bs)[x].urls # {}}]
                         /\ polled' = [polled EXCEPT ![b] = Filter(bs)]
  <2>1. result \in [Apps -> BindingSet]
    BY <1>1
  <2>2. ASSUME NEW bs \in [Apps -> BindingSet], Done(bs)
        PROVE  polled' \in [Binders -> [Apps -> BindingSet]] /\ todo' \in [Binders -> SUBSET Apps]
    BY <1>1, <2>2, FilterTyped
  <2>3. \/ Done(result) \/ Done(polled[b])
        \/ polled' = [polled EXCEPT ![b] = result] /\ todo' = todo
        \/ ForgetPoll(b) /\ todo' = todo
    BY <1>7 DEF PollPage, GiveUp
  <2> HIDE DEF Done, result
  <2> QED BY <1>1, <1>2, <1>4, <2>1, <2>2, <2>3
<1> QED BY <1>5, <1>6, <1>7 DEF BinderStep

\* What a binder writes, or the part of it that a failed write leaves, is
\* added to etcd and told to the watcher.
LEMMA SetMultiInv ==
  ASSUME IInv, UNCHANGED storeVars, NEW a \in Apps, NEW binding \in BindingSet,
         NEW N \in SUBSET DrainNodes(a, binding), SetMulti(N)
  PROVE  services' \subseteq NodeSet /\ watch' \in Seq(Events) /\ Follows'
<1> DEFINE T == {[type |-> "set", node |-> n] : n \in N}
           t == SetToSeq(T)
<1>1. N \subseteq NodeSet
  BY DEF DrainNodes, NodeSet, BindingSet
<1>2. services \subseteq NodeSet /\ watch \in Seq(Events)
  BY DEF IInv, BinderTypes
<1>3. IsFiniteSet(T)
  BY WriteFinite
<1>4. t \in Seq(T)
  BY <1>3, SetToSeqOf
<1>5. services' = services \cup N /\ watch' = watch \o t
  BY DEF SetMulti
<1> HIDE DEF t
<1>6. T \subseteq Events
  BY <1>1 DEF Events
<1>7. t \in Seq(Events)
  BY <1>4, <1>6
<1>8. \A j \in 1..Len(t) : t[j] \in T
  BY <1>4
<1>9. \A j \in 1..Len(t) : t[j].type = "set" => t[j].node \in services'
  BY <1>5, <1>8
<1>10. Follows'
  BY <1>5, <1>7, <1>9, FollowsExtend DEF storeVars
<1> QED BY <1>1, <1>2, <1>5, <1>7, <1>10

\* Etcd drops nodes and tells the watcher so with one event.
LEMMA DroppedInv ==
  ASSUME IInv, UNCHANGED storeVars, NEW e \in Events, e.type # "set", watch' = Append(watch, e),
         services' \subseteq services, \A n \in services \ services' : Removes(e, Id(n))
  PROVE  services' \subseteq NodeSet /\ watch' \in Seq(Events) /\ Follows'
<1>1. services \subseteq NodeSet /\ watch \in Seq(Events)
  BY DEF IInv, BinderTypes
<1> DEFINE t == <<e>>
<1>2. t \in Seq(Events) /\ Len(t) = 1 /\ t[1] = e /\ watch' = watch \o t
  BY <1>1
<1> HIDE DEF t
<1>3. 1 \in 1..Len(t) /\ \A j \in 1..Len(t) : t[j].type # "set"
  BY <1>2
<1>4. \A n \in services : n \in services' \/ \E j \in 1..Len(t) : Removes(t[j], Id(n))
  BY <1>2, <1>3
<1>5. Follows'
  BY <1>2, <1>3, <1>4, FollowsExtend DEF storeVars
<1> QED BY <1>1, <1>2, <1>5

\* Nothing the binders or etcd do disturbs the invariant.
LEMMA BinderInv ==
  ASSUME IInv, BinderNext \/ (\E a \in Apps : AppDeleted(a)), UNCHANGED storeVars
  PROVE  IInv'
<1>1. /\ cc \in [Apps -> BindingSet] /\ Typed
      /\ polled \in [Binders -> [Apps -> BindingSet]] /\ todo \in [Binders -> SUBSET Apps]
      /\ services \subseteq NodeSet /\ watch \in Seq(Events)
      /\ Follows
  BY DEF IInv, BinderTypes
<1>2. StoreTypes' /\ Told'
  BY DEF IInv, StoreTypes, Told, storeVars
<1>3. UNCHANGED <<services, watch>> => services' \subseteq NodeSet /\ watch' \in Seq(Events) /\ Follows'
  BY <1>1 DEF Follows, storeVars
<1>4. UNCHANGED <<bpc, polled, todo>> => Typed' /\ polled' \in [Binders -> [Apps -> BindingSet]]
                                         /\ todo' \in [Binders -> SUBSET Apps]
  BY <1>1 DEF Typed
<1>5. ASSUME NEW a \in Apps, Rebind(a)
      PROVE  IInv'
  <2>1. PICK b \in Bindings[a] \cup {NoBinding} : cc' = [cc EXCEPT ![a] = b]
    BY <1>5 DEF Rebind
  <2>2. cc' \in [Apps -> BindingSet]
    BY <1>1, <2>1, BindingsTyped
  <2> QED BY <1>2, <1>3, <1>4, <1>5, <2>2 DEF Rebind, binderVars, IInv, BinderTypes
<1>6. ASSUME NEW b \in Binders, BinderStep(b) \/ BinderCrashes(b)
      PROVE  IInv'
  <2>1. cc' = cc
    BY <1>6 DEF BinderStep, StayAsLeader, RunForElection, PollPage, UpdateDrains, BinderCrashes
  <2>2. \/ UNCHANGED <<services, watch>>
        \/ \E a \in todo[b] : \E part \in SUBSET DrainNodes(a, polled[b][a]) : SetMulti(part)
    BY <1>6 DEF BinderStep, StayAsLeader, RunForElection, PollPage, UpdateDrains, BinderCrashes
  <2>3. services' \subseteq NodeSet /\ watch' \in Seq(Events) /\ Follows'
    <3>1. ASSUME NEW a \in todo[b], NEW part \in SUBSET DrainNodes(a, polled[b][a]), SetMulti(part)
          PROVE  services' \subseteq NodeSet /\ watch' \in Seq(Events) /\ Follows'
      <4>1. a \in Apps /\ polled[b][a] \in BindingSet
        BY <1>1
      <4> QED BY <3>1, <4>1, SetMultiInv
    <3> QED BY <1>3, <2>2, <3>1
  <2>4. Typed' /\ polled' \in [Binders -> [Apps -> BindingSet]] /\ todo' \in [Binders -> SUBSET Apps]
    BY <1>6, BinderTyped
  <2> QED BY <1>1, <1>2, <2>1, <2>3, <2>4 DEF IInv, BinderTypes
<1>7. CASE LeaderExpires
  BY <1>1, <1>2, <1>3, <1>4, <1>7 DEF LeaderExpires, IInv, BinderTypes
<1>8. ASSUME NEW n \in services, DrainExpires(n)
      PROVE  IInv'
  <2> DEFINE e == [type |-> "delete", node |-> n]
  <2>1. e \in Events /\ e.type # "set" /\ Removes(e, Id(n))
    BY <1>1 DEF Events, Removes
  <2>2. watch' = Append(watch, e) /\ services' \subseteq services /\ \A m \in services \ services' : m = n
    BY <1>8 DEF DrainExpires
  <2>3. UNCHANGED <<cc, bpc, polled, todo>>
    BY <1>8 DEF DrainExpires, binderVars
  <2> HIDE DEF e
  <2>4. services' \subseteq NodeSet /\ watch' \in Seq(Events) /\ Follows'
    BY <2>1, <2>2, DroppedInv
  <2> QED BY <1>1, <1>2, <1>4, <2>3, <2>4 DEF IInv, BinderTypes
<1>9. ASSUME NEW a \in Apps, AppDeleted(a)
      PROVE  IInv'
  <2> DEFINE e == [type |-> "deleteDir", app |-> a]
  <2>1. e \in Events /\ e.type # "set" /\ \A m \in services : m.app = a => Removes(e, Id(m))
    BY DEF Events, Removes, Id
  <2>2. watch' = Append(watch, e) /\ services' \subseteq services /\ \A m \in services \ services' : m.app = a
    BY <1>9 DEF AppDeleted
  <2>3. UNCHANGED <<cc, bpc, polled, todo>>
    BY <1>9 DEF AppDeleted, binderVars
  <2> HIDE DEF e
  <2>4. services' \subseteq NodeSet /\ watch' \in Seq(Events) /\ Follows'
    BY <2>1, <2>2, DroppedInv
  <2> QED BY <1>1, <1>2, <1>4, <2>3, <2>4 DEF IInv, BinderTypes
<1> QED BY <1>5, <1>6, <1>7, <1>8, <1>9 DEF BinderNext

(***************************************************************************)
(* The watcher.                                                             *)
(***************************************************************************)
\* What the cache holds and what the channels owe the sink manager.
CacheTypes ==
  /\ IsFiniteSet(DOMAIN cache)
  /\ DOMAIN cache \subseteq {x \in Ids : UrlKind[x[2]] # "quoted"}
  /\ drains \subseteq Ids
  /\ out \in Seq(Messages)

\* A drain is cached once, and the sink manager told when it is new.
LEMMA AddInv ==
  ASSUME IInv, out = <<>>, drains' = drains, NEW n \in NodeSet, Add(n)
  PROVE  CacheTypes' /\ Told' /\ DOMAIN cache' \subseteq DOMAIN cache \cup {Id(n)}
<1>1. CacheTypes /\ Told
  BY DEF IInv, StoreTypes, CacheTypes
<1>2. CASE UNCHANGED <<cache, out>>
  BY <1>1, <1>2 DEF CacheTypes, Told
<1>3. CASE ~UNCHANGED <<cache, out>>
  <2> DEFINE x == Id(n)
             m == [op |-> "add", id |-> x]
  <2>1. x \notin DOMAIN cache /\ UrlKind[n.url] # "quoted" /\ DOMAIN cache' = DOMAIN cache \cup {x} /\ out' = Append(out, m)
    BY <1>3 DEF Add, Exists, Decodes, CacheAdd
  <2>2. x \in Ids /\ x[2] = n.url
    BY DEF Id, Ids, NodeSet
  <2>3. m \in Messages /\ m.op = "add" /\ m.id = x
    BY <2>2 DEF Messages
  <2> HIDE DEF x, m
  <2>4. out' = <<m>>
    BY <2>1
  <2>5. Len(out') = 1 /\ out'[1] = m /\ out' \in Seq(Messages)
    BY <2>3, <2>4
  <2>6. \A i \in 1..Len(out') : i = 1
    BY <2>5
  <2>7. \A y \in Ids : y \in drains <=> y \in DOMAIN cache
    BY <1>1 DEF Told
  <2>8. IsFiniteSet(DOMAIN cache')
    BY <1>1, <2>1, FS_AddElement DEF CacheTypes
  <2>9. CacheTypes'
    BY <1>1, <2>1, <2>2, <2>5, <2>8 DEF CacheTypes
  <2>10. Told'
    <3>1. \A i, j \in 1..Len(out') : out'[i].id = out'[j].id => i = j
      BY <2>6
    <3>2. \A i \in 1..Len(out') : out'[i].op = "add" <=> out'[i].id \in DOMAIN cache'
      BY <2>1, <2>3, <2>5, <2>6
    <3>3. ASSUME NEW y \in Ids, \A i \in 1..Len(out') : out'[i].id # y
          PROVE  y \in drains' <=> y \in DOMAIN cache'
      <4>1. y # x
        BY <2>3, <2>5, <3>3
      <4> QED BY <2>1, <2>7, <4>1
    <3> QED BY <3>1, <3>2, <3>3 DEF Told
  <2> QED BY <2>1, <2>9, <2>10 DEF x
<1> QED BY <1>2, <1>3

\* What leaves the cache is what the sink manager is told to remove.
LEMMA RemoveInv ==
  ASSUME IInv, out = <<>>, drains' = drains, NEW ids, RemoveIds(ids)
  PROVE  CacheTypes' /\ Told' /\ DOMAIN cache' = DOMAIN cache \ ids
<1> DEFINE gone == ids \cap DOMAIN cache
           T == {[op |-> "remove", id |-> i] : i \in gone}
           t == SetToSeq(T)
<1>1. CacheTypes /\ Told
  BY DEF IInv, StoreTypes, CacheTypes
<1>2. DOMAIN cache' = DOMAIN cache \ ids
  BY DEF RemoveIds, CacheRemove
<1>3. IsFiniteSet(gone) /\ IsFiniteSet(DOMAIN cache')
  BY <1>1, <1>2, FS_Subset DEF CacheTypes
<1>4. IsFiniteSet(T)
  BY <1>3, RemovalsFinite
<1>5. /\ t \in Seq(T)
      /\ \A x \in T : \E i \in 1..Len(t) : t[i] = x
      /\ \A i, j \in 1..Len(t) : t[i] = t[j] => i = j
  BY <1>4, SetToSeqOf
<1>6. out' = out \o t
  BY DEF RemoveIds
<1>7. /\ \A m \in T : m.op = "remove" /\ m.id \in gone /\ m \in Messages
      /\ \A m, k \in T : m.id = k.id => m = k
      /\ \A x \in gone : \E m \in T : m.id = x
  <2>1. gone \subseteq Ids
    BY <1>1 DEF CacheTypes
  <2> HIDE DEF gone
  <2>2. \A i \in gone : [op |-> "remove", id |-> i] \in Messages
    BY <2>1 DEF Messages
  <2>3. \A i \in gone : [op |-> "remove", id |-> i] \in T
    OBVIOUS
  <2>4. \A m \in T : \E i \in gone : m = [op |-> "remove", id |-> i]
    OBVIOUS
  <2> HIDE DEF T
  <2>5. \A m \in T : m.op = "remove" /\ m.id \in gone /\ m \in Messages
    BY <2>2, <2>4
  <2>6. \A m, k \in T : m.id = k.id => m = k
    BY <2>4
  <2>7. \A x \in gone : \E m \in T : m.id = x
    BY <2>3
  <2> QED BY <2>5, <2>6, <2>7
<1> HIDE DEF T
<1>8. out' \in Seq(T) /\ out' = t
  BY <1>5, <1>6
<1>9. /\ \A i \in 1..Len(out') : out'[i] \in T
      /\ \A x \in T : \E i \in 1..Len(out') : out'[i] = x
      /\ \A i, j \in 1..Len(out') : out'[i] = out'[j] => i = j
  BY <1>5, <1>8
<1>10. out' \in Seq(Messages)
  BY <1>7, <1>8
<1>11. \A y \in Ids : y \in drains <=> y \in DOMAIN cache
  BY <1>1 DEF Told
<1>12. CacheTypes'
  BY <1>1, <1>2, <1>3, <1>10 DEF CacheTypes
<1>13. Told'
  <2>1. \A i, j \in 1..Len(out') : out'[i].id = out'[j].id => i = j
    BY <1>7, <1>9
  <2>2. \A i \in 1..Len(out') : out'[i].op = "add" <=> out'[i].id \in DOMAIN cache'
    BY <1>2, <1>7, <1>9
  <2>3. ASSUME NEW y \in Ids, \A i \in 1..Len(out') : out'[i].id # y
        PROVE  y \in drains' <=> y \in DOMAIN cache'
    <3>1. y \notin gone
      BY <1>7, <1>9, <2>3
    <3> QED BY <1>2, <1>11, <3>1
  <2> QED BY <2>1, <2>2, <2>3 DEF Told
<1> QED BY <1>2, <1>12, <1>13

\* The sink manager takes the first of what it is owed.
LEMMA DeliverInv == IInv /\ Deliver => IInv'
<1> SUFFICES ASSUME IInv, Deliver PROVE IInv'
  OBVIOUS
<1> DEFINE m == Head(out)
           r == out'
<1>1. BinderTypes' /\ Follows'
  BY DEF IInv, Deliver, bindingVars, binderVars, BinderTypes, Typed, Follows
<1>2. out \in Seq(Messages) /\ out # <<>> /\ r = Tail(out)
  BY DEF IInv, StoreTypes, Deliver
<1>3. /\ Len(out) = Len(r) + 1 /\ Len(r) \in Nat
      /\ out[1] = m /\ m \in Messages /\ r \in Seq(Messages)
      /\ \A i \in 1..Len(r) : r[i] = out[i + 1] /\ i + 1 \in 1..Len(out) /\ i \in Nat
      /\ 1 \in 1..Len(out)
  BY <1>2
<1>4. m.id \in Ids
  BY <1>3 DEF Messages
<1>5. drains' = IF m.op = "add" THEN drains \cup {m.id} ELSE drains \ {m.id}
  BY DEF Deliver
<1>6. UNCHANGED <<cache, wpc, listed, missed>>
  BY DEF Deliver
<1>7. StoreTypes'
  BY <1>3, <1>4, <1>5, <1>6 DEF IInv, StoreTypes
<1> HIDE DEF m, r
<1>8. Told
  BY DEF IInv
<1>9. \A i, j \in 1..Len(r) : r[i].id = r[j].id => i = j
  <2> SUFFICES ASSUME NEW i \in 1..Len(r), NEW j \in 1..Len(r), r[i].id = r[j].id PROVE i = j
    OBVIOUS
  <2>1. i + 1 = j + 1
    BY <1>3, <1>8 DEF Told
  <2> QED BY <2>1, <1>3
<1>10. \A i \in 1..Len(r) : r[i].op = "add" <=> r[i].id \in DOMAIN cache
  BY <1>3, <1>8 DEF Told
<1>11. ASSUME NEW y \in Ids, \A i \in 1..Len(r) : r[i].id # y
       PROVE  y \in drains' <=> y \in DOMAIN cache
  <2>1. CASE y = m.id
    <3>1. m.op = "add" <=> y \in DOMAIN cache
      BY <1>3, <1>8, <2>1 DEF Told
    <3> QED BY <1>5, <2>1, <3>1
  <2>2. CASE y # m.id
    <3>1. ASSUME NEW i \in 1..Len(out) PROVE out[i].id # y
      <4>1. CASE i = 1
        BY <1>3, <2>2, <4>1
      <4>2. CASE i # 1
        <5>1. i - 1 \in 1..Len(r) /\ (i - 1) + 1 = i
          BY <1>3, <4>2
        <5>2. r[i - 1] = out[i]
          BY <1>3, <5>1
        <5> QED BY <1>11, <5>1, <5>2
      <4> QED BY <4>1, <4>2
    <3>2. y \in drains <=> y \in DOMAIN cache
      BY <1>8, <3>1 DEF Told
    <3> QED BY <1>5, <2>2, <3>2
  <2> QED BY <2>1, <2>2
<1>12. Told'
  BY <1>6, <1>9, <1>10, <1>11 DEF Told, r
<1> QED BY <1>1, <1>7, <1>12 DEF IInv

\* The watch begins: there is nothing cached, and what is listed is in etcd.
LEMMA WatchInv == IInv /\ Watch => IInv'
<1> SUFFICES ASSUME IInv, Watch PROVE IInv'
  OBVIOUS
<1>1. BinderTypes'
  BY DEF IInv, BinderTypes, Watch, binderVars, Typed
<1>2. StoreTypes'
  BY DEF IInv, BinderTypes, StoreTypes, Watch
<1>3. Told'
  BY DEF IInv, Told, Watch
<1>4. DOMAIN cache' = {} /\ watch' = <<>> /\ (~missed' => listed' = services')
  BY DEF IInv, StoreTypes, Watch
<1>5. Follows'
  BY <1>4 DEF Follows, Backed
<1> QED BY <1>1, <1>2, <1>3, <1>5 DEF IInv

\* A node of the listing is added, or the listing is done.
LEMMA RegisterInv == IInv /\ Register => IInv'
<1> SUFFICES ASSUME IInv, Register PROVE IInv'
  OBVIOUS
<1>1. BinderTypes' /\ UNCHANGED <<services, watch, missed>>
  BY DEF IInv, BinderTypes, Register, bindingVars, binderVars, Typed
<1>2. CASE listed = {} /\ wpc' = "run" /\ UNCHANGED <<cache, out, listed>>
  <2>1. StoreTypes' /\ Told'
    BY <1>2 DEF IInv, StoreTypes, Told, Register
  <2>2. Follows'
    BY <1>1, <1>2 DEF IInv, Follows, Register
  <2> QED BY <1>1, <2>1, <2>2 DEF IInv
<1>3. ASSUME NEW n \in listed, Add(n), listed' = listed \ {n}, UNCHANGED wpc
      PROVE  IInv'
  <2>1. out = <<>> /\ drains' = drains /\ n \in NodeSet /\ wpc = "list"
    BY <1>3 DEF IInv, StoreTypes, Register
  <2>2. CacheTypes' /\ Told' /\ DOMAIN cache' \subseteq DOMAIN cache \cup {Id(n)}
    BY <1>3, <2>1, AddInv
  <2>3. StoreTypes'
    BY <1>3, <2>1, <2>2 DEF IInv, StoreTypes, CacheTypes
  <2>4. Follows'
    BY <1>1, <1>3, <2>1, <2>2 DEF IInv, Follows
  <2> QED BY <1>1, <2>2, <2>3, <2>4 DEF IInv
<1> QED BY <1>2, <1>3 DEF Register

\* An event adds a drain whose removal, if it is not in etcd, is still to
\* come, or removes what it is the removal of.
LEMMA HandleEventInv == IInv /\ HandleEvent => IInv'
<1> SUFFICES ASSUME IInv, HandleEvent PROVE IInv'
  OBVIOUS
<1> DEFINE e == Head(watch)
<1>1. /\ watch \in Seq(Events) /\ watch # <<>> /\ out = <<>> /\ wpc = "run" /\ listed = {}
      /\ watch' = Tail(watch) /\ UNCHANGED <<services, wpc, listed, drains, missed>>
  BY DEF IInv, BinderTypes, StoreTypes, HandleEvent
<1>2. /\ Len(watch) = Len(watch') + 1 /\ Len(watch') \in Nat /\ watch' \in Seq(Events)
      /\ e = watch[1] /\ e \in Events /\ 1 \in 1..Len(watch)
      /\ \A i \in 1..Len(watch') : watch'[i] = watch[i + 1] /\ i + 1 \in 1..Len(watch) /\ i \in Nat
  BY <1>1
<1>3. BinderTypes'
  BY <1>2 DEF IInv, BinderTypes, Typed, HandleEvent, binderVars
<1>4. \/ e.type = "set" /\ Add(e.node)
      \/ e.type = "delete" /\ Decodes(e.node) /\ RemoveIds({Id(e.node)})
      \/ e.type = "delete" /\ ~Decodes(e.node) /\ UNCHANGED <<cache, out>>
      \/ e.type = "deleteDir" /\ RemoveIds({i \in DOMAIN cache : i[1] = e.app})
  <2>1. e.type \in {"set", "delete", "deleteDir"}
    BY <1>2 DEF Events
  <2> QED BY <2>1 DEF HandleEvent
<1>5. e.type \in {"set", "delete"} => e.node \in NodeSet
  BY <1>2 DEF Events
<1> HIDE DEF e
<1>6. /\ CacheTypes' /\ Told'
      /\ \A x \in DOMAIN cache' : \/ x \in DOMAIN cache /\ ~Removes(e, x)
                                  \/ e.type = "set" /\ x = Id(e.node)
  <2>1. CASE e.type = "set" /\ Add(e.node)
    <3>1. CacheTypes' /\ Told' /\ DOMAIN cache' \subseteq DOMAIN cache \cup {Id(e.node)}
      BY <1>1, <1>5, <2>1, AddInv
    <3> QED BY <2>1, <3>1 DEF Removes
  <2>2. CASE e.type = "delete" /\ Decodes(e.node) /\ RemoveIds({Id(e.node)})
    <3>1. CacheTypes' /\ Told' /\ DOMAIN cache' = DOMAIN cache \ {Id(e.node)}
      BY <1>1, <2>2, RemoveInv
    <3> QED BY <2>2, <3>1 DEF Removes
  <2>3. CASE e.type = "delete" /\ ~Decodes(e.node) /\ UNCHANGED <<cache, out>>
    <3>1. CacheTypes' /\ Told'
      BY <1>1, <2>3 DEF IInv, StoreTypes, CacheTypes, Told
    <3>2. Id(e.node)[2] = e.node.url
      BY DEF Id
    <3>3. Id(e.node) \notin DOMAIN cache
      BY <2>3, <3>2 DEF IInv, StoreTypes, Decodes
    <3> QED BY <2>3, <3>1, <3>3 DEF Removes
  <2>4. CASE e.type = "deleteDir" /\ RemoveIds({i \in DOMAIN cache : i[1] = e.app})
    <3>1. CacheTypes' /\ Told' /\ DOMAIN cache' = DOMAIN cache \ {i \in DOMAIN cache : i[1] = e.app}
      BY <1>1, <2>4, RemoveInv
    <3> QED BY <2>4, <3>1 DEF Removes
  <2> QED BY <1>4, <2>1, <2>2, <2>3, <2>4
<1>7. StoreTypes'
  BY <1>1, <1>6 DEF StoreTypes, CacheTypes
<1>8. ASSUME ~missed PROVE Follows'
  <2>1. /\ \A x \in DOMAIN cache : Backed(services, watch, 1, x)
        /\ \A i \in 1..Len(watch) : watch[i].type = "set" => Backed(services, watch, i + 1, Id(watch[i].node))
    BY <1>1, <1>8 DEF IInv, Follows
  <2>2. ASSUME NEW x PROVE Backed(services, watch, 1, x) /\ ~Removes(e, x) => Backed(services, watch', 1, x)
    BY <1>1, BackedTail DEF e
  <2>3. ASSUME NEW x, NEW k \in 1..Len(watch), Backed(services, watch, k + 1, x)
        PROVE  Backed(services, watch', k, x)
    BY <1>1, <2>3, BackedTail
  <2>4. \A x \in DOMAIN cache' : Backed(services, watch', 1, x)
    BY <1>2, <1>6, <2>1, <2>2, <2>3
  <2>5. ASSUME NEW i \in 1..Len(watch'), watch'[i].type = "set"
        PROVE  Backed(services, watch', i + 1, Id(watch'[i].node))
    <3>1. i + 1 \in 1..Len(watch) /\ watch[i + 1] = watch'[i]
      BY <1>2
    <3>2. Backed(services, watch, (i + 1) + 1, Id(watch'[i].node))
      BY <2>1, <2>5, <3>1
    <3> QED BY <2>3, <3>1, <3>2
  <2> QED BY <1>1, <2>4, <2>5 DEF Follows
<1>9. missed => Follows'
  BY <1>1 DEF Follows
<1> QED BY <1>3, <1>6, <1>7, <1>8, <1>9 DEF IInv

\* The watch is lost, taken up again, or over.
LEMMA LostInv == IInv /\ (WatchFails \/ Rewatch \/ Stop \/ Unread) => IInv'
<1> SUFFICES ASSUME IInv, WatchFails \/ Rewatch \/ Stop \/ Unread PROVE IInv'
  OBVIOUS
<1>1. BinderTypes'
  <2>1. UNCHANGED <<cc, bpc, polled, todo, services>> /\ watch' \in {watch, <<>>}
    BY DEF WatchFails, Rewatch, Stop, Unread, binderVars
  <2>2. watch \in Seq(Events)
    BY DEF IInv, BinderTypes
  <2>3. watch' \in Seq(Events)
    <3>1. CASE watch' = watch
      BY <2>2, <3>1
    <3>2. CASE watch' = <<>>
      BY <3>2
    <3> QED BY <2>1, <3>1, <3>2
  <2> QED BY <2>1, <2>3 DEF IInv, BinderTypes, Typed
<1>2. StoreTypes' /\ Told'
  BY DEF IInv, StoreTypes, Told, WatchFails, Rewatch, Stop, Unread, storeVars
<1>3. missed' \/ wpc' = "stopped"
  BY DEF IInv, StoreTypes, WatchFails, Rewatch, Stop, Unread, storeVars
<1>4. Follows'
  BY <1>3 DEF Follows
<1> QED BY <1>1, <1>2, <1>4 DEF IInv

(***************************************************************************)
(* The theorems.                                                            *)
(***************************************************************************)
\* In every behaviour what is cached, listed or queued for addition is in
\* etcd or has its removal queued behind it, unless a watch was lost, and
\* the channels hold the difference of cache and drains.
THEOREM Inductive == Spec => []IInv
<1>1. IInv /\ [Next]_vars => IInv'
  <2> SUFFICES ASSUME IInv, [Next]_vars PROVE IInv'
    OBVIOUS
  <2>1. CASE UNCHANGED vars
    BY <2>1 DEF vars, bindingVars, binderVars, storeVars, IInv, BinderTypes, Typed, StoreTypes, Told, Follows
  <2>2. CASE BinderNext /\ UNCHANGED storeVars
    BY <2>2, BinderInv
  <2>3. CASE \E a \in Apps : AppDeleted(a)
    <3>1. UNCHANGED storeVars
      BY <2>3 DEF AppDeleted
    <3> QED BY <2>3, <3>1, BinderInv
  <2>4. CASE WatcherStep \/ WatchFails \/ Stop
    BY <2>4, WatchInv, RegisterInv, HandleEventInv, DeliverInv, LostInv DEF WatcherStep
  <2> QED BY <2>1, <2>2, <2>3, <2>4 DEF Next
<1> QED BY <1>1, InitInv, PTL DEF Spec

\* Whatever the binders write, however nodes expire and apps are deleted, the
\* sink manager is left with exactly the drains that are cached, and each of
\* them is in etcd, once every event has been read and none was lost.
THEOREM NothingLeftBehind == Spec => []NoDrainLeftBehind
<1>1. IInv => NoDrainLeftBehind
  <2> SUFFICES ASSUME IInv, wpc = "run", watch = <<>>, out = <<>>, ~missed
               PROVE  drains = DOMAIN cache /\ drains \subseteq {Id(n) : n \in services}
    BY DEF NoDrainLeftBehind, Quiet
  <2>1. drains \subseteq Ids /\ DOMAIN cache \subseteq Ids
    BY DEF IInv, StoreTypes
  <2>2. \A x \in Ids : x \in drains <=> x \in DOMAIN cache
    BY DEF IInv, Told
  <2>3. \A x \in DOMAIN cache : \E n \in services : Id(n) = x
    BY DEF IInv, Follows, Backed
  <2> QED BY <2>1, <2>2, <2>3
<1> QED BY <1>1, Inductive, PTL
====
