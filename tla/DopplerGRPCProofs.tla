---- MODULE DopplerGRPCProofs ----
(***************************************************************************)
(* Doppler's gRPC egress for any number of subscriptions, streams, requests *)
(* and envelopes, and diodes of any size: what the router holds is what     *)
(* streams there are, a subscription is given what it asked for and each    *)
(* envelope once, and what a diode loses is counted.                        *)
(*                                                                         *)
(* RouterMatchesStreams rests on what cleanup's loop computes, shown by     *)
(* induction over the setters (RemainingOf).  EgressAccounted needs that a  *)
(* diode never holds more than its size, so that an overwritten ring is     *)
(* counted in full.  SentToSubscriptionsOnce needs both what the router     *)
(* holds and that an envelope is in one place at a time all the way from     *)
(* where it arrives (Unique).                                               *)
(*                                                                         *)
(* And how a doppler comes to be dialled at all: for every configuration,   *)
(* what it announces in etcd it has opened before (AnnouncedSound, at the   *)
(* end, about Startup).                                                     *)
(***************************************************************************)
EXTENDS DopplerGRPC, Startup, FiniteSetTheorems, WellFoundedInduction, TLAPS

(***************************************************************************)
(* The diodes of the subscriptions.  EgressAccounted is about subscriptions *)
(* that run; SendTo is not told which do, so the same is shown of all.      *)
(***************************************************************************)
IsSequence(q) == \E S : q \in Seq(S)

IsCall(r) ==
  /\ r = [f \in DOMAIN r |-> r[f]]
  /\ DOMAIN r = DOMAIN NoSubscription("new")

\* a call's books are balanced
Balanced(r) ==
  /\ IsSequence(r.got) /\ IsSequence(r.diode.queue)
  /\ r.diode = [queue |-> r.diode.queue, missed |-> r.diode.missed]
  /\ {r.sent, r.dropped, r.diode.missed} \subseteq Nat
  /\ Len(r.diode.queue) <= EgressSize
  /\ Len(r.got) = r.sent + r.dropped + r.diode.missed + Len(r.diode.queue)

CallsTyped == sub = [s \in Subs |-> sub[s]] /\ \A s \in Subs : IsCall(sub[s])
CallsBalanced == \A s \in Subs : Balanced(sub[s])
Books == CallsTyped /\ CallsBalanced

\* What a longer and a shorter sequence are.
LEMMA SequenceSteps ==
  ASSUME NEW q, IsSequence(q), NEW x
  PROVE  /\ Len(q) \in Nat
         /\ IsSequence(Append(q, x)) /\ Len(Append(q, x)) = Len(q) + 1
         /\ q # << >> => IsSequence(Tail(q)) /\ Len(Tail(q)) = Len(q) - 1 /\ Len(q) > 0
         /\ IsSequence(<<x>>) /\ Len(<<x>>) = 1
<1>1. PICK S : q \in Seq(S)
  BY DEF IsSequence
<1> DEFINE T == S \cup {x}
<1>2. q \in Seq(T) /\ x \in T
  BY <1>1
<1> HIDE DEF T
<1>3. /\ Len(q) \in Nat
      /\ Append(q, x) \in Seq(T) /\ Len(Append(q, x)) = Len(q) + 1
      /\ q # << >> => Tail(q) \in Seq(T) /\ Len(Tail(q)) = Len(q) - 1 /\ Len(q) > 0
      /\ <<x>> \in Seq(T) /\ Len(<<x>>) = 1
  BY <1>2
<1> QED BY <1>3 DEF IsSequence

\* A diode that is written to has the message, or has missed a ring of them.
LEMMA SetInBalanced ==
  ASSUME NEW r, NEW env, IsCall(r), Balanced(r)
  PROVE  IsCall(SetIn(r, env)) /\ Balanced(SetIn(r, env))
<1> DEFINE n == SetIn(r, env)
<1>1. IsCall(n)
  BY DEF SetIn, IsCall, NoSubscription
<1>2. /\ n.diode = DiodeSet(r.diode, EgressSize, env.id) /\ n.got = Append(r.got, env.id)
      /\ n.sent = r.sent /\ n.dropped = r.dropped
  BY DEF SetIn, IsCall, NoSubscription
<1> HIDE DEF n
<1>3. IsSequence(n.got) /\ Len(n.got) = Len(r.got) + 1 /\ Len(r.got) \in Nat
  BY <1>2, SequenceSteps DEF Balanced
<1>4. EgressSize \in Nat /\ EgressSize > 0
  BY SizesAssumption
<1>5. CASE Len(r.diode.queue) < EgressSize
  <2>1. n.diode = [queue |-> Append(r.diode.queue, env.id), missed |-> r.diode.missed]
    BY <1>2, <1>5 DEF DiodeSet, Balanced
  <2>2. n.diode.queue = Append(r.diode.queue, env.id) /\ n.diode.missed = r.diode.missed
    BY <2>1
  <2>3. n.diode = [queue |-> n.diode.queue, missed |-> n.diode.missed]
    BY <2>1
  <2>4. IsSequence(n.diode.queue) /\ Len(n.diode.queue) = Len(r.diode.queue) + 1 /\ Len(r.diode.queue) \in Nat
    BY <2>2, SequenceSteps DEF Balanced
  <2> HIDE DEF n
  <2>5. Balanced(n)
    BY <1>2, <1>3, <1>4, <1>5, <2>2, <2>3, <2>4 DEF Balanced
  <2> QED BY <1>1, <2>5 DEF n
<1>6. CASE ~(Len(r.diode.queue) < EgressSize)
  <2>1. n.diode = [queue |-> <<env.id>>, missed |-> r.diode.missed + EgressSize]
    BY <1>2, <1>6 DEF DiodeSet
  <2>2. /\ IsSequence(n.diode.queue) /\ Len(n.diode.queue) = 1
        /\ Len(r.diode.queue) \in Nat /\ n.diode.missed = r.diode.missed + EgressSize
    BY <2>1, SequenceSteps DEF Balanced
  <2>3. Len(r.diode.queue) = EgressSize
    BY <1>4, <1>6, <2>2 DEF Balanced
  <2> QED BY <1>1, <1>2, <1>3, <1>4, <2>1, <2>2, <2>3 DEF Balanced, n
<1> QED BY <1>5, <1>6

\* A call that has not begun has nothing on its books.
LEMMA NewCall ==
  ASSUME NEW pc
  PROVE  IsCall(NoSubscription(pc)) /\ Balanced(NoSubscription(pc))
<1>1. IsCall(NoSubscription(pc))
  BY DEF IsCall, NoSubscription
<1>2. IsSequence(<< >>) /\ Len(<< >>) = 0
  <2>1. << >> \in Seq({})
    OBVIOUS
  <2> QED BY <2>1 DEF IsSequence
<1>3. EgressSize \in Nat
  BY SizesAssumption
<1>4. Balanced(NoSubscription(pc))
  BY <1>2, <1>3 DEF Balanced, NoSubscription, EmptyDiode
<1> QED BY <1>1, <1>4

\* One call changes.
LEMMA OneCall ==
  ASSUME Books, NEW s \in Subs, NEW r, IsCall(r), Balanced(r), sub' = [sub EXCEPT ![s] = r]
  PROVE  Books'
BY DEF Books, CallsTyped, CallsBalanced

\* No step unbalances the books.
LEMMA BooksStep == Books /\ [Next]_vars => Books'
<1> SUFFICES ASSUME Books, [Next]_vars PROVE Books'
  OBVIOUS
<1>1. CASE sub' = sub
  BY <1>1 DEF Books, CallsTyped, CallsBalanced
<1>2. ASSUME NEW s \in Subs, Subscribe(s)
      PROVE  Books'
  <2>1. PICK req \in Requests : sub' = [sub EXCEPT ![s].pc = "running", ![s].req = req, ![s].since = Len(routed)]
    BY <1>2 DEF Subscribe
  <2> DEFINE r == [sub[s] EXCEPT !.pc = "running", !.req = req, !.since = Len(routed)]
  <2>2. IsCall(r) /\ Balanced(r)
    BY DEF Books, CallsTyped, CallsBalanced, IsCall, Balanced, NoSubscription
  <2>3. sub' = [sub EXCEPT ![s] = r]
    BY <2>1
  <2> HIDE DEF r
  <2> QED BY <2>2, <2>3, OneCall
<1>3. ASSUME NEW s \in Subs, ClientGone(s)
      PROVE  Books'
  <2> DEFINE r == [sub[s] EXCEPT !.gone = TRUE]
  <2>1. IsCall(r) /\ Balanced(r)
    BY DEF Books, CallsTyped, CallsBalanced, IsCall, Balanced, NoSubscription
  <2>2. sub' = [sub EXCEPT ![s] = r]
    BY <1>3 DEF ClientGone
  <2> HIDE DEF r
  <2> QED BY <2>1, <2>2, OneCall
<1>4. ASSUME NEW s \in Subs, monitorContext(s)
      PROVE  Books'
  <2> DEFINE r == [sub[s] EXCEPT !.done = TRUE]
  <2>1. IsCall(r) /\ Balanced(r)
    BY DEF Books, CallsTyped, CallsBalanced, IsCall, Balanced, NoSubscription
  <2>2. sub' = [sub EXCEPT ![s] = r]
    BY <1>4 DEF monitorContext
  <2> HIDE DEF r
  <2> QED BY <2>1, <2>2, OneCall
<1>5. ASSUME NEW s \in Subs, sendDataMessage(s)
      PROVE  Books'
  <2> DEFINE o == sub[s]
             r == [o EXCEPT !.diode = DiodeTail(@), !.dropped = Alert(o), !.sent = @ + 1]
  <2>1. IsCall(o) /\ Balanced(o) /\ o.diode.queue # << >>
    BY <1>5 DEF Books, CallsTyped, CallsBalanced, sendDataMessage, DiodeReady
  <2>2. sub' = [sub EXCEPT ![s] = r]
    BY <1>5 DEF sendDataMessage
  <2> HIDE DEF o
  <2>3. IsCall(r)
    BY <2>1 DEF IsCall, NoSubscription
  <2>4. /\ r.diode = [queue |-> Tail(o.diode.queue), missed |-> 0] /\ r.got = o.got
        /\ r.dropped = o.dropped + o.diode.missed /\ r.sent = o.sent + 1
    BY <2>1 DEF IsCall, NoSubscription, DiodeTail, Alert
  <2> HIDE DEF r
  <2>5. /\ IsSequence(r.diode.queue) /\ Len(r.diode.queue) = Len(o.diode.queue) - 1
        /\ Len(o.diode.queue) \in Nat /\ Len(o.diode.queue) > 0
    <3>1. r.diode.queue = Tail(o.diode.queue)
      BY <2>4
    <3> QED BY <2>1, <3>1, SequenceSteps DEF Balanced
  <2>6. r.diode.missed = 0 /\ r.diode = [queue |-> r.diode.queue, missed |-> r.diode.missed]
    BY <2>4
  <2>7. EgressSize \in Nat
    BY SizesAssumption
  <2>8. Balanced(r)
    <3> DEFINE g == Len(o.got)
               a == o.sent
               d == o.dropped
               m == o.diode.missed
               l == Len(o.diode.queue)
    <3>1. g = a + d + m + l /\ Len(r.got) = g
      BY <2>1, <2>4 DEF Balanced
    <3>2. {a, d, m} \subseteq Nat /\ g \in Nat /\ l \in Nat /\ l > 0 /\ IsSequence(r.got)
      BY <2>1, <2>4, <2>5, SequenceSteps DEF Balanced
    <3>3. r.sent = a + 1 /\ r.dropped = d + m /\ r.diode.missed = 0 /\ Len(r.diode.queue) = l - 1
      BY <2>4, <2>5, <2>6
    <3> HIDE DEF g, a, d, m, l
    <3>4. Len(r.got) = r.sent + r.dropped + r.diode.missed + Len(r.diode.queue)
      BY <3>1, <3>2, <3>3
    <3>5. {r.sent, r.dropped, r.diode.missed} \subseteq Nat
      BY <3>2, <3>3
    <3>6. Len(r.diode.queue) <= EgressSize
      BY <2>1, <2>5, <2>7 DEF Balanced
    <3> QED BY <2>5, <2>6, <3>2, <3>4, <3>5, <3>6 DEF Balanced
  <2> QED BY <2>2, <2>3, <2>8, OneCall
<1>6. ASSUME NEW s \in Subs, sendDataEnds(s)
      PROVE  Books'
  BY <1>6, NewCall, OneCall DEF sendDataEnds
<1>7. CASE RouterSendTo
  <2> DEFINE env == routing[1]
  <2>1. \A s \in Subs : sub'[s] \in {sub[s], SetIn(sub[s], env), SetIn(SetIn(sub[s], env), env)}
    BY <1>7 DEF RouterSendTo, SendTo
  <2>2. sub' = [s \in Subs |-> sub'[s]]
    BY <1>7 DEF RouterSendTo, SendTo
  <2> HIDE DEF env
  <2>3. \A s \in Subs : IsCall(sub'[s]) /\ Balanced(sub'[s])
    BY <2>1, SetInBalanced DEF Books, CallsTyped, CallsBalanced
  <2> QED BY <2>2, <2>3 DEF Books, CallsTyped, CallsBalanced
<1>8. \/ sub' = sub
      \/ \E s \in Subs : Subscribe(s) \/ ClientGone(s) \/ monitorContext(s) \/ sendDataMessage(s) \/ sendDataEnds(s)
      \/ RouterSendTo
  BY DEF Next, vars, egress, Opened, StreamGone, PusherReceives, PusherEOF, PusherMonitor, PusherEnds,
         BatchSenderReceives, BatchSenderSets, BatchSenderEnds, Start, MarshalFails,
         UDPRead, UDPFails, UDPVerify, UDPSet
<1> QED BY <1>1, <1>2, <1>3, <1>4, <1>5, <1>6, <1>7, <1>8

\* For any number of subscriptions, whatever they ask for and whenever they
\* end, what the router set in a diode was sent, counted as dropped, or is
\* still to be: the books balance however often the ring is overwritten.
THEOREM DropsCounted == Spec => []EgressAccounted
<1>1. Init => Books
  BY NewCall DEF Init, Books, CallsTyped, CallsBalanced
<1>2. Books => EgressAccounted
  BY DEF Books, CallsBalanced, Balanced, EgressAccounted, Running
<1> QED BY <1>1, <1>2, BooksStep, PTL DEF Spec

(***************************************************************************)
(* The loop of cleanup.  What it computes is shown by induction on the      *)
(* setters it has passed.                                                   *)
(***************************************************************************)
\* Induction over the naturals, of a set of them.
LEMMA SetInduction ==
  ASSUME NEW T, T \subseteq Nat, 0 \in T, \A n \in T : n + 1 \in T
  PROVE  T = Nat
<1> SUFFICES ASSUME Nat \ T # {} PROVE FALSE
  OBVIOUS
<1>1. IsWellFoundedOn(OpToRel(<, Nat), Nat)
  BY NatLessThanWellFounded
<1>2. \E x \in Nat \ T : \A y \in Nat \ T : ~(<<y, x>> \in OpToRel(<, Nat))
  BY <1>1, WFMin
<1>3. PICK x \in Nat \ T : \A y \in Nat \ T : ~(y < x)
  BY <1>2 DEF OpToRel
<1>4. x # 0 /\ x - 1 \in Nat /\ x - 1 < x
  OBVIOUS
<1>5. x - 1 \in T
  BY <1>3, <1>4
<1>6. (x - 1) + 1 = x
  BY <1>4
<1> QED BY <1>5, <1>6

\* one turn of the loop
Turn(f, q, s, n) ==
  IF n = 0 THEN << >>
  ELSE IF q[n] = s THEN f[n - 1]
  ELSE Append(f[n - 1], q[n])

\* The loop comes to an end, however long the list is.
LEMMA LoopEnds ==
  ASSUME NEW q, NEW s
  PROVE  \A m \in Nat : \E f : f = [n \in 0..m |-> Turn(f, q, s, n)]
<1> DEFINE T == {m \in Nat : \E f : f = [n \in 0..m |-> Turn(f, q, s, n)]}
<1>1. 0 \in T
  <2> DEFINE f == [n \in 0..0 |-> << >>]
  <2>1. f = [n \in 0..0 |-> Turn(f, q, s, n)]
    BY DEF Turn
  <2> QED BY <2>1
<1>2. ASSUME NEW m \in T PROVE m + 1 \in T
  <2>1. PICK f : f = [n \in 0..m |-> Turn(f, q, s, n)]
    OBVIOUS
  <2> DEFINE g == [n \in 0..(m + 1) |-> IF n = m + 1 THEN Turn(f, q, s, n) ELSE f[n]]
  <2>2. ASSUME NEW n \in 0..(m + 1) PROVE g[n] = Turn(g, q, s, n)
    <3>1. CASE n = 0
      BY <2>1, <3>1 DEF Turn
    <3>2. CASE n # 0
      <4>1. n - 1 \in 0..m /\ n - 1 \in 0..(m + 1) /\ n - 1 # m + 1
        BY <3>2
      <4>2. g[n - 1] = f[n - 1]
        BY <4>1
      <4>3. Turn(f, q, s, n) = Turn(g, q, s, n)
        BY <4>2 DEF Turn
      <4>4. n # m + 1 => f[n] = Turn(f, q, s, n)
        BY <2>1
      <4> QED BY <4>3, <4>4
    <3> QED BY <3>1, <3>2
  <2>3. g = [n \in 0..(m + 1) |-> Turn(g, q, s, n)]
    BY <2>2
  <2> HIDE DEF g
  <2> QED BY <2>3
<1> HIDE DEF T
<1>3. T = Nat
  BY <1>1, <1>2, SetInduction DEF T
<1> QED BY <1>3 DEF T

\* The loop leaves the other setters, each as often as it was there before.
LEMMA RemainingOf ==
  ASSUME NEW S, NEW q \in Seq(S), NEW s, IsInjective(q)
  PROVE  /\ remaining(q, s) \in Seq(S)
         /\ IsInjective(remaining(q, s))
         /\ ToSet(remaining(q, s)) = ToSet(q) \ {s}
<1> DEFINE kept == CHOOSE f : f = [n \in 0..Len(q) |-> Turn(f, q, s, n)]
<1>1. kept = [n \in 0..Len(q) |-> Turn(kept, q, s, n)] /\ Len(q) \in Nat
  BY LoopEnds, Len(q) \in Nat
<1>2. remaining(q, s) = kept[Len(q)]
  BY DEF remaining, Turn
<1> HIDE DEF kept
<1> DEFINE Left(n) == {x \in S : x # s /\ \E i \in 1..n : q[i] = x}
           Done(n) == /\ kept[n] \in Seq(S)
                      /\ IsInjective(kept[n])
                      /\ ToSet(kept[n]) = Left(n)
           T == {n \in Nat : n <= Len(q) => Done(n)}
<1>3. 0 \in T
  <2>1. kept[0] = << >>
    BY <1>1 DEF Turn
  <2>2. Left(0) = {}
    OBVIOUS
  <2>3. << >> \in Seq(S) /\ DOMAIN << >> = {}
    OBVIOUS
  <2>4. IsInjective(<< >>) /\ ToSet(<< >>) = {}
    BY <2>3 DEF IsInjective, ToSet
  <2> HIDE DEF Left
  <2>5. Done(0)
    BY <2>1, <2>2, <2>3, <2>4
  <2> HIDE DEF Done
  <2> QED BY <2>5
<1>4. ASSUME NEW n \in T PROVE n + 1 \in T
  <2> SUFFICES ASSUME n + 1 <= Len(q) PROVE Done(n + 1)
    OBVIOUS
  <2> HIDE DEF Done
  <2>1. n \in Nat /\ n + 1 \in 1..Len(q) /\ n + 1 \in 0..Len(q) /\ n + 1 # 0 /\ (n + 1) - 1 = n /\ Done(n)
    BY <1>1
  <2> USE DEF Done
  <2> DEFINE k == kept[n]
             x == q[n + 1]
  <2>2. kept[n + 1] = IF x = s THEN k ELSE Append(k, x)
    BY <1>1, <2>1 DEF Turn
  <2>3. x \in S /\ \A i \in 1..n : q[i] # x
    BY <1>1, <2>1 DEF IsInjective
  <2>4. Left(n + 1) = IF x = s THEN Left(n) ELSE Left(n) \cup {x}
    <3>1. \A i \in 1..(n + 1) : i \in 1..n \/ i = n + 1
      BY <2>1
    <3>2. \A i \in 1..n : i \in 1..(n + 1)
      BY <2>1
    <3>3. n + 1 \in 1..(n + 1)
      BY <2>1
    <3> QED BY <2>3, <3>1, <3>2, <3>3
  <2>5. x \notin Left(n)
    BY <2>3
  <2>6. k \in Seq(S) /\ IsInjective(k) /\ ToSet(k) = Left(n)
    BY <2>1
  <2> HIDE DEF k, x, Left
  <2>7. CASE x = s
    BY <2>2, <2>4, <2>6, <2>7
  <2>8. CASE x # s
    <3> DEFINE a == Append(k, x)
    <3>1. /\ a \in Seq(S) /\ Len(a) = Len(k) + 1 /\ Len(k) \in Nat /\ DOMAIN a = 1..Len(a) /\ DOMAIN k = 1..Len(k)
          /\ \A i \in 1..Len(k) : a[i] = k[i]
          /\ a[Len(a)] = x
      BY <2>3, <2>6
    <3> HIDE DEF a
    <3>2. \A i \in DOMAIN a : i \in DOMAIN k \/ i = Len(a)
      BY <3>1
    <3>3. (\A i \in DOMAIN k : i \in DOMAIN a) /\ Len(a) \in DOMAIN a
      BY <3>1
    <3>4. ToSet(a) = ToSet(k) \cup {x}
      BY <3>1, <3>2, <3>3 DEF ToSet
    <3>5. \A i \in DOMAIN k : k[i] # x
      BY <2>5, <2>6 DEF ToSet
    <3>6. IsInjective(a)
      BY <2>6, <3>1, <3>2, <3>5 DEF IsInjective
    <3> QED BY <2>2, <2>4, <2>6, <2>8, <3>1, <3>4, <3>6 DEF a
  <2> QED BY <2>7, <2>8
<1> HIDE DEF T
<1>5. T = Nat
  BY <1>3, <1>4, SetInduction DEF T
<1>6. Done(Len(q))
  BY <1>1, <1>5 DEF T
<1>7. Left(Len(q)) = ToSet(q) \ {s}
  <2>1. DOMAIN q = 1..Len(q) /\ \A i \in DOMAIN q : q[i] \in S
    OBVIOUS
  <2> QED BY <2>1 DEF ToSet
<1> QED BY <1>2, <1>6, <1>7

(***************************************************************************)
(* The router's map.  Keys says which of the running subscriptions is to be *)
(* found where: under a filter, in a shard.                                 *)
(***************************************************************************)
Keys == [s \in Running |-> <<convertFilter(sub[s].req), sub[s].req.shard>>]

\* a shard's list: its members, each once
Holds(q, members) ==
  /\ q \in Seq(Subs) /\ q # << >>
  /\ IsInjective(q)
  /\ ToSet(q) = members

\* the map subs files the subscriptions as keys says
Files(subs, keys) ==
  /\ \A f \in DOMAIN subs : DOMAIN subs[f] # {}
  /\ \A f \in DOMAIN subs : \A id \in DOMAIN subs[f] :
       Holds(subs[f][id], {s \in DOMAIN keys : keys[s] = <<f, id>>})
  /\ \A s \in DOMAIN keys : \E f \in DOMAIN subs : \E id \in DOMAIN subs[f] : keys[s] = <<f, id>>

RouterInv == CallsTyped /\ Files(subscriptions, Keys)

\* new is subs with the setter s registered under f, in the shard id
Registered(subs, f, id, s, new) ==
  /\ DOMAIN new = DOMAIN subs \cup {f}
  /\ \A g \in DOMAIN subs : g # f => new[g] = subs[g]
  /\ DOMAIN new[f] = (IF f \in DOMAIN subs THEN DOMAIN subs[f] ELSE {}) \cup {id}
  /\ \A j \in DOMAIN new[f] : j # id => new[f][j] = subs[f][j]
  /\ new[f][id] = Append(IF f \in DOMAIN subs /\ id \in DOMAIN subs[f] THEN subs[f][id] ELSE << >>, s)

\* What is found in the map after a registration.
LEMMA RegisterLooks ==
  ASSUME NEW subs, NEW req, NEW s
  PROVE  Registered(subs, convertFilter(req), req.shard, s, registerSetter(subs, req, s))
<1> DEFINE f == convertFilter(req)
           id == req.shard
           new == registerSetter(subs, req, s)
           q == IF f \in DOMAIN subs /\ id \in DOMAIN subs[f] THEN subs[f][id] ELSE << >>
           shards == IF f \in DOMAIN subs THEN subs[f] ELSE [x \in {} |-> << >>]
           setters == IF id \in DOMAIN shards THEN shards[id] ELSE << >>
           mine == Put(shards, id, Append(setters, s))
<1>1. new = Put(subs, f, mine)
  BY DEF registerSetter
<1>2. DOMAIN shards = IF f \in DOMAIN subs THEN DOMAIN subs[f] ELSE {}
  OBVIOUS
<1>3. setters = q
  BY <1>2
<1>4. DOMAIN mine = DOMAIN shards \cup {id} /\ mine[id] = Append(setters, s) /\ \A j \in DOMAIN mine : j # id => mine[j] = shards[j]
  BY DEF Put
<1>5. \A j \in DOMAIN mine : j # id => shards[j] = subs[f][j]
  BY <1>2, <1>4
<1> HIDE DEF mine, setters, shards, new, f, id
<1>6. DOMAIN new = DOMAIN subs \cup {f} /\ new[f] = mine /\ \A g \in DOMAIN subs : g # f => new[g] = subs[g]
  BY <1>1 DEF Put
<1> QED BY <1>2, <1>3, <1>4, <1>5, <1>6 DEF Registered, f, id, new

\* What is found in the map after a cleanup.
LEMMA CleanupLooks ==
  ASSUME NEW subs, NEW req, NEW s, NEW f, f = convertFilter(req), NEW id, id = req.shard,
         f \in DOMAIN subs, id \in DOMAIN subs[f],
         NEW new, new = cleanup(subs, req, s)
  PROVE  /\ DOMAIN new \subseteq DOMAIN subs
         /\ \A g \in DOMAIN subs : g # f => g \in DOMAIN new /\ new[g] = subs[g]
         /\ \A j \in DOMAIN subs[f] : j # id => f \in DOMAIN new /\ j \in DOMAIN new[f] /\ new[f][j] = subs[f][j]
         /\ f \in DOMAIN new => DOMAIN new[f] \subseteq DOMAIN subs[f] /\ DOMAIN new[f] # {}
         /\ remaining(subs[f][id], s) # << >> <=> f \in DOMAIN new /\ id \in DOMAIN new[f]
         /\ f \in DOMAIN new /\ id \in DOMAIN new[f] => new[f][id] = remaining(subs[f][id], s)
<1> DEFINE setters == remaining(subs[f][id], s)
           others == [j \in DOMAIN subs[f] \ {id} |-> subs[f][j]]
<1>1. new = IF setters # << >> THEN [subs EXCEPT ![f][id] = setters]
            ELSE IF DOMAIN others # {} THEN [subs EXCEPT ![f] = others]
            ELSE [g \in DOMAIN subs \ {f} |-> subs[g]]
  BY DEF cleanup
<1> HIDE DEF setters
<1>2. CASE setters # << >>
  BY <1>1, <1>2 DEF setters
<1>3. CASE setters = << >> /\ DOMAIN others # {}
  BY <1>1, <1>3 DEF setters
<1>4. CASE setters = << >> /\ DOMAIN others = {}
  BY <1>1, <1>4 DEF setters
<1> QED BY <1>2, <1>3, <1>4

\* A setter more, of a subscription that was not in the list.
LEMMA HoldsMore ==
  ASSUME NEW q, NEW members, (q = << >> /\ members = {}) \/ Holds(q, members),
         NEW s \in Subs, s \notin members
  PROVE  Holds(Append(q, s), members \cup {s})
<1> DEFINE a == Append(q, s)
<1>1. q \in Seq(Subs) /\ IsInjective(q) /\ ToSet(q) = members
  <2>1. << >> \in Seq(Subs) /\ DOMAIN << >> = {}
    OBVIOUS
  <2>2. IsInjective(<< >>) /\ ToSet(<< >>) = {}
    BY <2>1 DEF IsInjective, ToSet
  <2> QED BY <2>1, <2>2 DEF Holds
<1>2. /\ a \in Seq(Subs) /\ Len(a) = Len(q) + 1 /\ Len(q) \in Nat /\ DOMAIN a = 1..Len(a) /\ DOMAIN q = 1..Len(q)
      /\ \A i \in 1..Len(q) : a[i] = q[i]
      /\ a[Len(a)] = s
  BY <1>1
<1> HIDE DEF a
<1>3. \A i \in DOMAIN a : i \in DOMAIN q \/ i = Len(a)
  BY <1>2
<1>4. (\A i \in DOMAIN q : i \in DOMAIN a) /\ Len(a) \in DOMAIN a
  BY <1>2
<1>5. ToSet(a) = ToSet(q) \cup {s}
  BY <1>2, <1>3, <1>4 DEF ToSet
<1>6. \A i \in DOMAIN q : q[i] # s
  BY <1>1 DEF ToSet
<1>7. IsInjective(a)
  BY <1>1, <1>2, <1>3, <1>6 DEF IsInjective
<1>8. a # << >>
  BY <1>2
<1> QED BY <1>1, <1>2, <1>5, <1>7, <1>8 DEF Holds, a

\* A list that holds nobody is empty.
LEMMA EmptyHolds ==
  ASSUME NEW q \in Seq(Subs)
  PROVE  q # << >> <=> ToSet(q) # {}
<1>1. ASSUME q # << >> PROVE ToSet(q) # {}
  <2>1. 1 \in DOMAIN q
    BY <1>1
  <2> QED BY <2>1 DEF ToSet
<1>2. ASSUME q = << >> PROVE ToSet(q) = {}
  <2>1. DOMAIN q = {}
    BY <1>2
  <2> QED BY <2>1 DEF ToSet
<1> QED BY <1>1, <1>2

\* Register files a subscription where its key says and leaves the others.
LEMMA RegisterFiles ==
  ASSUME NEW subs, NEW keys, Files(subs, keys), NEW req, NEW s \in Subs, s \notin DOMAIN keys,
         NEW more, DOMAIN more = DOMAIN keys \cup {s},
         \A x \in DOMAIN keys : more[x] = keys[x], more[s] = <<convertFilter(req), req.shard>>
  PROVE  Files(registerSetter(subs, req, s), more)
<1> DEFINE f == convertFilter(req)
           id == req.shard
           new == registerSetter(subs, req, s)
           M(g, j) == {x \in DOMAIN keys : keys[x] = <<g, j>>}
           N(g, j) == {x \in DOMAIN more : more[x] = <<g, j>>}
           q == IF f \in DOMAIN subs /\ id \in DOMAIN subs[f] THEN subs[f][id] ELSE << >>
<1>1. /\ DOMAIN new = DOMAIN subs \cup {f}
      /\ \A g \in DOMAIN subs : g # f => new[g] = subs[g]
      /\ DOMAIN new[f] = (IF f \in DOMAIN subs THEN DOMAIN subs[f] ELSE {}) \cup {id}
      /\ \A j \in DOMAIN new[f] : j # id => new[f][j] = subs[f][j]
      /\ new[f][id] = Append(q, s)
  <2>1. Registered(subs, f, id, s, new)
    BY RegisterLooks
  <2> HIDE DEF new, f, id
  <2> QED BY <2>1 DEF Registered
<1> HIDE DEF new
<1>2. /\ N(f, id) = M(f, id) \cup {s}
      /\ \A g, j : <<g, j>> # <<f, id>> => N(g, j) = M(g, j)
  <2> HIDE DEF f, id
  <2>1. more[s] = <<f, id>>
    BY DEF f, id
  <2>2. N(f, id) = M(f, id) \cup {s}
    BY <2>1
  <2>3. ASSUME NEW g, NEW j, <<g, j>> # <<f, id>> PROVE N(g, j) = M(g, j)
    BY <2>1, <2>3
  <2> QED BY <2>2, <2>3
<1>3. s \notin M(f, id)
  OBVIOUS
<1>4. (q = << >> /\ M(f, id) = {}) \/ Holds(q, M(f, id))
  <2>1. CASE f \in DOMAIN subs /\ id \in DOMAIN subs[f]
    BY <2>1 DEF Files
  <2>2. CASE ~(f \in DOMAIN subs /\ id \in DOMAIN subs[f])
    BY <2>2 DEF Files
  <2> QED BY <2>1, <2>2
<1>5. Holds(Append(q, s), M(f, id) \cup {s})
  BY <1>3, <1>4, HoldsMore
<1>6. ASSUME NEW g \in DOMAIN new, NEW j \in DOMAIN new[g]
      PROVE  Holds(new[g][j], N(g, j))
  <2>1. CASE g = f /\ j = id
    BY <1>1, <1>2, <1>5, <2>1
  <2>2. CASE ~(g = f /\ j = id)
    <3>1. g \in DOMAIN subs /\ j \in DOMAIN subs[g] /\ new[g][j] = subs[g][j]
      BY <1>1, <1>6, <2>2
    <3>2. N(g, j) = M(g, j)
      BY <1>2, <2>2
    <3>3. Holds(subs[g][j], M(g, j))
      BY <3>1 DEF Files
    <3> QED BY <3>1, <3>2, <3>3
  <2> QED BY <2>1, <2>2
<1>7. \A g \in DOMAIN new : DOMAIN new[g] # {}
  BY <1>1 DEF Files
<1>8. ASSUME NEW x \in DOMAIN more
      PROVE  \E g \in DOMAIN new : \E j \in DOMAIN new[g] : more[x] = <<g, j>>
  <2>1. CASE x = s
    BY <1>1, <2>1
  <2>2. CASE x # s
    <3>1. x \in DOMAIN keys /\ more[x] = keys[x]
      BY <2>2
    <3>2. PICK g \in DOMAIN subs : \E j \in DOMAIN subs[g] : keys[x] = <<g, j>>
      BY <3>1 DEF Files
    <3>3. PICK j \in DOMAIN subs[g] : keys[x] = <<g, j>>
      BY <3>2
    <3>4. g \in DOMAIN new /\ j \in DOMAIN new[g]
      BY <1>1
    <3> QED BY <3>1, <3>3, <3>4
  <2> QED BY <2>1, <2>2
<1>9. Files(new, more)
  BY <1>6, <1>7, <1>8 DEF Files
<1> QED BY <1>9 DEF new

\* cleanup takes a subscription out and leaves the others.
LEMMA CleanupFiles ==
  ASSUME NEW subs, NEW keys, Files(subs, keys), NEW req, NEW s \in DOMAIN keys,
         keys[s] = <<convertFilter(req), req.shard>>,
         NEW fewer, DOMAIN fewer = DOMAIN keys \ {s}, \A x \in DOMAIN fewer : fewer[x] = keys[x]
  PROVE  Files(cleanup(subs, req, s), fewer)
<1> DEFINE f == convertFilter(req)
           id == req.shard
           new == cleanup(subs, req, s)
           M(g, j) == {x \in DOMAIN keys : keys[x] = <<g, j>>}
           N(g, j) == {x \in DOMAIN fewer : fewer[x] = <<g, j>>}
           q == remaining(subs[f][id], s)
<1>1. f \in DOMAIN subs /\ id \in DOMAIN subs[f]
  <2>1. PICK g \in DOMAIN subs : \E j \in DOMAIN subs[g] : keys[s] = <<g, j>>
    BY DEF Files
  <2>2. PICK j \in DOMAIN subs[g] : keys[s] = <<g, j>>
    BY <2>1
  <2>3. g = f /\ j = id
    BY <2>2
  <2> QED BY <2>3
<1>2. /\ DOMAIN new \subseteq DOMAIN subs
      /\ \A g \in DOMAIN subs : g # f => g \in DOMAIN new /\ new[g] = subs[g]
      /\ \A j \in DOMAIN subs[f] : j # id => f \in DOMAIN new /\ j \in DOMAIN new[f] /\ new[f][j] = subs[f][j]
      /\ f \in DOMAIN new => DOMAIN new[f] \subseteq DOMAIN subs[f] /\ DOMAIN new[f] # {}
      /\ q # << >> <=> f \in DOMAIN new /\ id \in DOMAIN new[f]
      /\ f \in DOMAIN new /\ id \in DOMAIN new[f] => new[f][id] = q
  BY <1>1, CleanupLooks
<1> HIDE DEF new
<1>3. \A g, j : N(g, j) = M(g, j) \ {s}
  OBVIOUS
<1>4. \A g, j : <<g, j>> # <<f, id>> => s \notin M(g, j)
  OBVIOUS
<1>5. Holds(subs[f][id], M(f, id))
  BY <1>1 DEF Files
<1>6. q \in Seq(Subs) /\ IsInjective(q) /\ ToSet(q) = M(f, id) \ {s}
  BY <1>5, RemainingOf DEF Holds
<1>7. q # << >> => Holds(q, N(f, id))
  BY <1>3, <1>6 DEF Holds
<1>8. ASSUME NEW g \in DOMAIN new, NEW j \in DOMAIN new[g]
      PROVE  Holds(new[g][j], N(g, j))
  <2>1. CASE g = f /\ j = id
    BY <1>2, <1>7, <2>1
  <2>2. CASE ~(g = f /\ j = id)
    <3>1. g \in DOMAIN subs /\ j \in DOMAIN subs[g] /\ new[g][j] = subs[g][j]
      BY <1>2, <1>8, <2>2
    <3>2. N(g, j) = M(g, j)
      BY <1>3, <1>4, <2>2
    <3>3. Holds(subs[g][j], M(g, j))
      BY <3>1 DEF Files
    <3> QED BY <3>1, <3>2, <3>3
  <2> QED BY <2>1, <2>2
<1>9. ASSUME NEW g \in DOMAIN new PROVE DOMAIN new[g] # {}
  <2>1. CASE g = f
    BY <1>2, <2>1
  <2>2. CASE g # f
    BY <1>2, <2>2 DEF Files
  <2> QED BY <2>1, <2>2
<1>10. ASSUME NEW x \in DOMAIN fewer
       PROVE  \E g \in DOMAIN new : \E j \in DOMAIN new[g] : fewer[x] = <<g, j>>
  <2>1. x \in DOMAIN keys /\ fewer[x] = keys[x] /\ x # s
    OBVIOUS
  <2>2. PICK g \in DOMAIN subs : \E j \in DOMAIN subs[g] : keys[x] = <<g, j>>
    BY <2>1 DEF Files
  <2>3. PICK j \in DOMAIN subs[g] : keys[x] = <<g, j>>
    BY <2>2
  <2>4. CASE g = f /\ j = id
    <3>1. x \in M(f, id) \ {s}
      BY <2>1, <2>3, <2>4
    <3>2. q # << >>
      BY <1>6, <3>1, EmptyHolds
    <3> QED BY <1>2, <2>1, <2>3, <2>4, <3>2
  <2>5. CASE ~(g = f /\ j = id)
    <3>1. g \in DOMAIN new /\ j \in DOMAIN new[g]
      BY <1>2, <2>5
    <3> QED BY <2>1, <2>3, <3>1
  <2> QED BY <2>4, <2>5
<1>11. Files(new, fewer)
  BY <1>8, <1>9, <1>10 DEF Files
<1> QED BY <1>11 DEF new

\* A step that changes no call's place and request changes no key.
LEMMA KeysKept ==
  ASSUME RouterInv, CallsTyped', subscriptions' = subscriptions,
         \A s \in Subs : sub'[s].pc = sub[s].pc /\ sub'[s].req = sub[s].req
  PROVE  RouterInv'
<1>1. Running' = Running /\ \A s \in Running : s \in Subs
  BY DEF Running
<1>2. Keys' = Keys
  BY <1>1 DEF Keys
<1> QED BY <1>2 DEF RouterInv

\* What a message set in its diode leaves of a call.
LEMMA SetInKeeps ==
  ASSUME NEW r, IsCall(r), NEW env
  PROVE  IsCall(SetIn(r, env)) /\ SetIn(r, env).pc = r.pc /\ SetIn(r, env).req = r.req
BY DEF SetIn, IsCall, NoSubscription

\* No step files a subscription wrongly.
LEMMA RouterStep == RouterInv /\ Books /\ [Next]_vars => RouterInv'
<1> SUFFICES ASSUME RouterInv, Books, [Next]_vars PROVE RouterInv'
  OBVIOUS
<1>1. CallsTyped /\ CallsTyped'
  BY BooksStep DEF Books
<1>2. ASSUME NEW s \in Subs, Subscribe(s)
      PROVE  RouterInv'
  <2>1. PICK req \in Requests :
          /\ subscriptions' = registerSetter(subscriptions, req, s)
          /\ sub' = [sub EXCEPT ![s].pc = "running", ![s].req = req, ![s].since = Len(routed)]
    BY <1>2 DEF Subscribe, Register
  <2>2. sub[s].pc = "new"
    BY <1>2 DEF Subscribe
  <2>3. /\ sub'[s].pc = "running" /\ sub'[s].req = req
        /\ \A x \in Subs : x # s => sub'[x] = sub[x]
    BY <1>1, <2>1 DEF CallsTyped, IsCall, NoSubscription
  <2>4. Running' = Running \cup {s} /\ s \notin Running
    BY <2>2, <2>3 DEF Running
  <2>5. /\ DOMAIN Keys' = DOMAIN Keys \cup {s} /\ s \notin DOMAIN Keys
        /\ \A x \in DOMAIN Keys : Keys'[x] = Keys[x]
        /\ Keys'[s] = <<convertFilter(req), req.shard>>
    BY <2>3, <2>4 DEF Keys, Running
  <2>6. Files(subscriptions, Keys)
    BY DEF RouterInv
  <2>7. Files(registerSetter(subscriptions, req, s), Keys')
    BY <2>5, <2>6, RegisterFiles
  <2> QED BY <1>1, <2>1, <2>7 DEF RouterInv
<1>3. ASSUME NEW s \in Subs, sendDataEnds(s)
      PROVE  RouterInv'
  <2>1. /\ sub[s].pc = "running"
        /\ subscriptions' = cleanup(subscriptions, sub[s].req, s)
        /\ sub' = [sub EXCEPT ![s] = NoSubscription("ended")]
    BY <1>3 DEF sendDataEnds
  <2>2. sub'[s].pc = "ended" /\ \A x \in Subs : x # s => sub'[x] = sub[x]
    BY <1>1, <2>1 DEF CallsTyped, NoSubscription
  <2>3. Running' = Running \ {s} /\ s \in Running
    BY <2>1, <2>2 DEF Running
  <2>4. /\ DOMAIN Keys' = DOMAIN Keys \ {s} /\ s \in DOMAIN Keys
        /\ \A x \in DOMAIN Keys' : Keys'[x] = Keys[x]
        /\ Keys[s] = <<convertFilter(sub[s].req), sub[s].req.shard>>
    BY <2>2, <2>3 DEF Keys, Running
  <2>5. Files(subscriptions, Keys)
    BY DEF RouterInv
  <2>6. Files(cleanup(subscriptions, sub[s].req, s), Keys')
    BY <2>4, <2>5, CleanupFiles
  <2> QED BY <1>1, <2>1, <2>6 DEF RouterInv
<1>4. ASSUME NEW s \in Subs, ClientGone(s) \/ monitorContext(s) \/ sendDataMessage(s)
      PROVE  RouterInv'
  <2>1. subscriptions' = subscriptions
    BY <1>4 DEF ClientGone, monitorContext, sendDataMessage
  <2>2. \A x \in Subs : sub'[x].pc = sub[x].pc /\ sub'[x].req = sub[x].req
    BY <1>1, <1>4 DEF ClientGone, monitorContext, sendDataMessage, CallsTyped, IsCall, NoSubscription
  <2> QED BY <1>1, <2>1, <2>2, KeysKept
<1>5. CASE RouterSendTo
  <2> DEFINE env == routing[1]
  <2>1. \A s \in Subs : sub'[s] \in {sub[s], SetIn(sub[s], env), SetIn(SetIn(sub[s], env), env)}
    BY <1>5 DEF RouterSendTo, SendTo
  <2>2. subscriptions' = subscriptions
    BY <1>5 DEF RouterSendTo
  <2> HIDE DEF env
  <2>3. \A s \in Subs : sub'[s].pc = sub[s].pc /\ sub'[s].req = sub[s].req
    BY <1>1, <2>1, SetInKeeps DEF CallsTyped
  <2> QED BY <1>1, <2>2, <2>3, KeysKept
<1>6. CASE UNCHANGED <<subscriptions, sub>>
  BY <1>1, <1>6, KeysKept
<1>7. \/ UNCHANGED <<subscriptions, sub>>
      \/ \E s \in Subs : Subscribe(s) \/ ClientGone(s) \/ monitorContext(s) \/ sendDataMessage(s) \/ sendDataEnds(s)
      \/ RouterSendTo
  BY DEF Next, vars, egress, Opened, StreamGone, PusherReceives, PusherEOF, PusherMonitor, PusherEnds,
         BatchSenderReceives, BatchSenderSets, BatchSenderEnds, Start, MarshalFails,
         UDPRead, UDPFails, UDPVerify, UDPSet
<1> QED BY <1>2, <1>3, <1>4, <1>5, <1>6, <1>7

\* Initially nobody is filed.
LEMMA RouterInit == Init => RouterInv /\ Books
<1> SUFFICES ASSUME Init PROVE RouterInv /\ Books
  OBVIOUS
<1>1. Books
  BY NewCall DEF Init, Books, CallsTyped, CallsBalanced
<1>2. Running = {}
  BY DEF Init, Running, NoSubscription
<1>3. DOMAIN Keys = {} /\ DOMAIN subscriptions = {}
  BY <1>2 DEF Keys, Init
<1>4. Files(subscriptions, Keys)
  BY <1>3 DEF Files
<1> QED BY <1>1, <1>4 DEF RouterInv, Books

\* Whatever comes and goes, the router has each running subscription once,
\* where its request says, and neither an empty shard nor an empty filter: a
\* shard that rand.Intn picks from is never empty, for any number of
\* subscriptions, filters and shard ids.
THEOREM RouterCorrect == Spec => []RouterMatchesStreams
<1>1. Init => RouterInv /\ Books
  BY RouterInit
<1>2. RouterInv => RouterMatchesStreams
  <2> SUFFICES ASSUME RouterInv PROVE RouterMatchesStreams
    OBVIOUS
  <2>1. Files(subscriptions, Keys)
    BY DEF RouterInv
  <2>2. ASSUME NEW f \in DOMAIN subscriptions, NEW id \in DOMAIN subscriptions[f]
        PROVE  Holds(subscriptions[f][id], {s \in Running : convertFilter(sub[s].req) = f /\ sub[s].req.shard = id})
    <3> DEFINE M == {s \in DOMAIN Keys : Keys[s] = <<f, id>>}
               N == {s \in Running : convertFilter(sub[s].req) = f /\ sub[s].req.shard = id}
    <3>1. Holds(subscriptions[f][id], M)
      BY <2>1 DEF Files
    <3>2. M = N
      BY DEF Keys
    <3> HIDE DEF M, N
    <3>3. Holds(subscriptions[f][id], N)
      BY <3>1, <3>2
    <3> QED BY <3>3 DEF N
  <2>3. \A f \in DOMAIN subscriptions : DOMAIN subscriptions[f] # {}
    BY <2>1 DEF Files
  <2>4. ASSUME NEW s \in Running
        PROVE  /\ convertFilter(sub[s].req) \in DOMAIN subscriptions
               /\ sub[s].req.shard \in DOMAIN subscriptions[convertFilter(sub[s].req)]
    <3>1. s \in DOMAIN Keys /\ Keys[s] = <<convertFilter(sub[s].req), sub[s].req.shard>>
      BY DEF Keys
    <3>2. PICK f \in DOMAIN subscriptions : \E id \in DOMAIN subscriptions[f] : Keys[s] = <<f, id>>
      BY <2>1, <3>1 DEF Files
    <3>3. f = convertFilter(sub[s].req) /\ sub[s].req.shard \in DOMAIN subscriptions[f]
      BY <3>1, <3>2
    <3> QED BY <3>3
  <2> QED BY <2>2, <2>3, <2>4 DEF RouterMatchesStreams, Holds
<1> QED BY <1>1, <1>2, BooksStep, RouterStep, PTL DEF Spec

-----------------------------------------------------------------------------
(***************************************************************************)
(* What subscriptions are given.  SentToSubscriptionsOnce needs the whole   *)
(* way of an envelope: wherever it is, on a stream, in a datagram, in the   *)
(* buffer, with the message router, or routed, it is there once and nowhere *)
(* else (Unique).  And it needs who is in the shards SendTo writes to,      *)
(* which RouterInv says.                                                    *)
(***************************************************************************)
IsEnvelope(e) == e.id \in Nat /\ e.type \in {"log", "metric"}

Ids(q) == {q[k].id : k \in DOMAIN q}

\* a list of envelopes, each there once
Listed(q) ==
  /\ IsSequence(q)
  /\ \A k \in DOMAIN q : IsEnvelope(q[k])
  /\ \A k, l \in DOMAIN q : q[k].id = q[l].id => k = l

Bins == {"routed", "routing", "buffer", "chan", "working"} \X {"doppler"} \cup {"stream"} \X Streams

\* the ids of the envelopes in each of the places they can be
HeldOf(done, going, queue, chan, working, streams) ==
  [c \in Bins |->
     CASE c[1] = "routed"  -> Ids(done)
       [] c[1] = "routing" -> Ids(going)
       [] c[1] = "buffer"  -> Ids(queue)
       [] c[1] = "chan"    -> Ids(chan)
       [] c[1] = "working" -> {e.id : e \in working}
       [] c[1] = "stream"  -> Ids(streams[c[2]].batch)]

Held == HeldOf(routed, routing, buffer.queue, udp.chan, udp.working, stream)

IsStream(r) == r = [pc |-> r.pc, gone |-> r.gone, done |-> r.done, batch |-> r.batch]

Lists ==
  /\ Listed(routed) /\ Listed(routing) /\ Listed(buffer.queue) /\ Listed(udp.chan)
  /\ buffer = [queue |-> buffer.queue, missed |-> buffer.missed]
  /\ udp = [open |-> udp.open, chan |-> udp.chan, working |-> udp.working]
  /\ \A e \in udp.working : IsEnvelope(e)
  /\ stream = [i \in Streams |-> stream[i]]
  /\ \A i \in Streams : IsStream(stream[i]) /\ Listed(stream[i].batch)

\* no envelope is in two places, and those to come are in none
Apart(held, n) ==
  /\ n \in Nat
  /\ \A c \in DOMAIN held : \A x \in held[c] : x \in 1..n
  /\ \A c, d \in DOMAIN held : c # d => held[c] \cap held[d] = {}

Unique ==
  /\ Lists /\ Apart(Held, arrived)
  /\ \A e, f \in udp.working : e.id = f.id => e = f

\* An envelope more, and one less, in a list.
LEMMA ListMore ==
  ASSUME NEW q, Listed(q), NEW e, IsEnvelope(e)
  PROVE  /\ e.id \notin Ids(q) => Listed(Append(q, e))
         /\ Ids(Append(q, e)) = Ids(q) \cup {e.id}
<1> DEFINE a == Append(q, e)
<1>1. PICK S : q \in Seq(S)
  BY DEF Listed, IsSequence
<1> DEFINE T == S \cup {e}
<1>2. q \in Seq(T) /\ e \in T
  BY <1>1
<1> HIDE DEF T
<1>3. /\ a \in Seq(T) /\ Len(a) = Len(q) + 1 /\ Len(q) \in Nat /\ DOMAIN a = 1..Len(a) /\ DOMAIN q = 1..Len(q)
      /\ \A i \in 1..Len(q) : a[i] = q[i]
      /\ a[Len(a)] = e
  BY <1>2
<1> HIDE DEF a
<1>4. \A i \in DOMAIN a : i \in DOMAIN q \/ i = Len(a)
  BY <1>3
<1>5. (\A i \in DOMAIN q : i \in DOMAIN a) /\ Len(a) \in DOMAIN a
  BY <1>3
<1>6. Ids(a) = Ids(q) \cup {e.id}
  BY <1>3, <1>4, <1>5 DEF Ids
<1>7. ASSUME e.id \notin Ids(q) PROVE Listed(a)
  <2>1. IsSequence(a)
    BY <1>3 DEF IsSequence
  <2>2. \A k \in DOMAIN a : IsEnvelope(a[k])
    BY <1>3, <1>4 DEF Listed
  <2>3. \A k \in DOMAIN q : q[k].id # e.id
    BY <1>7 DEF Ids
  <2>4. \A k, l \in DOMAIN a : a[k].id = a[l].id => k = l
    BY <1>3, <1>4, <2>3 DEF Listed
  <2> QED BY <2>1, <2>2, <2>4 DEF Listed
<1> QED BY <1>6, <1>7 DEF a

\* Taking the first leaves the others.
LEMMA ListLess ==
  ASSUME NEW q, Listed(q), q # << >>
  PROVE  /\ IsEnvelope(Head(q)) /\ Head(q).id \in Ids(q)
         /\ Listed(Tail(q))
         /\ Ids(Tail(q)) \subseteq Ids(q) \ {Head(q).id}
<1> DEFINE t == Tail(q)
<1>1. PICK S : q \in Seq(S)
  BY DEF Listed, IsSequence
<1>2. /\ t \in Seq(S) /\ Len(t) = Len(q) - 1 /\ Len(q) \in Nat /\ Len(q) > 0 /\ DOMAIN t = 1..Len(t) /\ DOMAIN q = 1..Len(q)
      /\ \A i \in 1..Len(t) : t[i] = q[i + 1]
      /\ Head(q) = q[1]
  BY <1>1
<1> HIDE DEF t
<1>3. 1 \in DOMAIN q /\ \A i \in DOMAIN t : i + 1 \in DOMAIN q /\ i + 1 # 1 /\ i \in Nat
  BY <1>2
<1>4. IsEnvelope(Head(q)) /\ Head(q).id \in Ids(q)
  BY <1>2, <1>3 DEF Listed, Ids
<1>5. Ids(t) \subseteq Ids(q) \ {Head(q).id}
  BY <1>2, <1>3 DEF Listed, Ids
<1>6. IsSequence(t) /\ \A k \in DOMAIN t : IsEnvelope(t[k])
  BY <1>2, <1>3 DEF Listed, IsSequence
<1>7. ASSUME NEW k \in DOMAIN t, NEW l \in DOMAIN t, t[k].id = t[l].id PROVE k = l
  <2>1. t[k] = q[k + 1] /\ t[l] = q[l + 1]
    BY <1>2
  <2>2. k + 1 = l + 1
    BY <1>3, <1>7, <2>1 DEF Listed
  <2> QED BY <1>3, <2>2
<1> QED BY <1>4, <1>5, <1>6, <1>7 DEF Listed, t

\* The empty list.
LEMMA ListNone == Listed(<< >>) /\ Ids(<< >>) = {}
<1>1. << >> \in Seq({}) /\ DOMAIN << >> = {}
  OBVIOUS
<1> QED BY <1>1 DEF Listed, Ids, IsSequence

\* A list of one.
LEMMA ListOne ==
  ASSUME NEW e, IsEnvelope(e)
  PROVE  Listed(<<e>>) /\ Ids(<<e>>) = {e.id}
<1>1. <<e>> \in Seq({e}) /\ DOMAIN <<e>> = {1} /\ <<e>>[1] = e
  OBVIOUS
<1> QED BY <1>1 DEF Listed, Ids, IsSequence

\* A diode holds the envelope that was set, and no other it did not hold.
LEMMA DiodeMore ==
  ASSUME NEW d, d = [queue |-> d.queue, missed |-> d.missed], Listed(d.queue),
         NEW size, NEW e, IsEnvelope(e), e.id \notin Ids(d.queue),
         NEW n, n = DiodeSet(d, size, e)
  PROVE  /\ n = [queue |-> n.queue, missed |-> n.missed]
         /\ Listed(n.queue)
         /\ Ids(n.queue) \subseteq Ids(d.queue) \cup {e.id}
<1>1. CASE Len(d.queue) < size
  <2>1. n = [queue |-> Append(d.queue, e), missed |-> d.missed]
    BY <1>1 DEF DiodeSet
  <2> QED BY <2>1, ListMore
<1>2. CASE ~(Len(d.queue) < size)
  <2>1. n = [queue |-> <<e>>, missed |-> d.missed + size]
    BY <1>2 DEF DiodeSet
  <2> QED BY <2>1, ListOne
<1> QED BY <1>1, <1>2

\* New envelopes come to one place.
LEMMA ApartComing ==
  ASSUME NEW old, NEW n, Apart(old, n), NEW new, DOMAIN new = DOMAIN old, NEW m \in Nat, n <= m,
         NEW b \in DOMAIN new, NEW X, \A x \in X : x \in (n + 1)..m,
         new[b] \subseteq old[b] \cup X,
         \A c \in DOMAIN new : c # b => new[c] \subseteq old[c]
  PROVE  Apart(new, m)
<1>1. \A x \in 1..n : x \in 1..m /\ x \notin X
  BY DEF Apart
<1>2. \A x \in X : x \in 1..m
  BY DEF Apart
<1>3. \A c \in DOMAIN new : \A x \in new[c] : x \in 1..m
  BY <1>1, <1>2 DEF Apart
<1>4. \A c \in DOMAIN old : old[c] \cap X = {}
  BY <1>1 DEF Apart
<1>5. \A c, d \in DOMAIN new : c # d => new[c] \cap new[d] = {}
  BY <1>4 DEF Apart
<1> QED BY <1>3, <1>5 DEF Apart

\* An envelope goes from one place to another.
LEMMA ApartPassing ==
  ASSUME NEW old, NEW n, Apart(old, n), NEW new, DOMAIN new = DOMAIN old,
         NEW a \in DOMAIN new, NEW b \in DOMAIN new, a # b, NEW x \in old[a],
         new[a] \subseteq old[a] \ {x}, new[b] \subseteq old[b] \cup {x},
         \A c \in DOMAIN new : c # a /\ c # b => new[c] \subseteq old[c]
  PROVE  Apart(new, n)
<1>1. \A c \in DOMAIN new : \A y \in new[c] : y \in 1..n
  BY DEF Apart
<1>2. \A c \in DOMAIN new : c # b => x \notin new[c]
  BY DEF Apart
<1>3. \A c, d \in DOMAIN new : c # d => new[c] \cap new[d] = {}
  BY <1>2 DEF Apart
<1> QED BY <1>1, <1>3 DEF Apart

\* Envelopes go, or stay.
LEMMA ApartGoing ==
  ASSUME NEW old, NEW n, Apart(old, n), NEW new, DOMAIN new = DOMAIN old,
         \A c \in DOMAIN new : new[c] \subseteq old[c]
  PROVE  Apart(new, n)
BY DEF Apart

InRouted == <<"routed", "doppler">>
InRouting == <<"routing", "doppler">>
InBuffer == <<"buffer", "doppler">>
InChan == <<"chan", "doppler">>
InWorking == <<"working", "doppler">>
InStream(i) == <<"stream", i>>

\* The places are different ones, and there are no others.
LEMMA BinsAre ==
  /\ {InRouted, InRouting, InBuffer, InChan, InWorking} \subseteq Bins
  /\ \A i \in Streams : InStream(i) \in Bins
  /\ \A c \in Bins : \/ c \in {InRouted, InRouting, InBuffer, InChan, InWorking}
                     \/ \E i \in Streams : c = InStream(i)
  /\ \A i : InStream(i) \notin {InRouted, InRouting, InBuffer, InChan, InWorking}
  /\ \A i, j : InStream(i) = InStream(j) => i = j
  /\ InRouted # InRouting /\ InRouted # InBuffer /\ InRouted # InChan /\ InRouted # InWorking
  /\ InRouting # InBuffer /\ InRouting # InChan /\ InRouting # InWorking
  /\ InBuffer # InChan /\ InBuffer # InWorking /\ InChan # InWorking
<1> USE DEF InRouted, InRouting, InBuffer, InChan, InWorking, InStream
<1>1. \A c \in Bins : \/ c \in {InRouted, InRouting, InBuffer, InChan, InWorking}
                      \/ \E i \in Streams : c = InStream(i)
  BY DEF Bins
<1>2. /\ {InRouted, InRouting, InBuffer, InChan, InWorking} \subseteq Bins
      /\ \A i \in Streams : InStream(i) \in Bins
  BY DEF Bins
<1>3. \A i : InStream(i) \notin {InRouted, InRouting, InBuffer, InChan, InWorking}
  OBVIOUS
<1>4. \A i, j : InStream(i) = InStream(j) => i = j
  OBVIOUS
<1> QED BY <1>1, <1>2, <1>3, <1>4

\* What each of the places holds.
LEMMA HeldThere ==
  ASSUME NEW done, NEW going, NEW queue, NEW chan, NEW working, NEW streams,
         NEW held, held = HeldOf(done, going, queue, chan, working, streams)
  PROVE  /\ DOMAIN held = Bins
         /\ held[InRouted] = Ids(done) /\ held[InRouting] = Ids(going) /\ held[InBuffer] = Ids(queue)
         /\ held[InChan] = Ids(chan) /\ held[InWorking] = {e.id : e \in working}
         /\ \A i \in Streams : held[InStream(i)] = Ids(streams[i].batch)
<1>1. DOMAIN held = Bins
  BY DEF HeldOf
<1>2. /\ held[InRouted] = Ids(done) /\ held[InRouting] = Ids(going) /\ held[InBuffer] = Ids(queue)
      /\ held[InChan] = Ids(chan) /\ held[InWorking] = {e.id : e \in working}
  BY BinsAre DEF HeldOf, InRouted, InRouting, InBuffer, InChan, InWorking
<1>3. ASSUME NEW i \in Streams PROVE held[InStream(i)] = Ids(streams[i].batch)
  <2>1. InStream(i) \in Bins /\ InStream(i)[1] = "stream" /\ InStream(i)[2] = i
    BY BinsAre DEF InStream
  <2> QED BY <2>1 DEF HeldOf
<1> QED BY <1>1, <1>2, <1>3

\* The same of the state, and of the next one.
LEMMA HeldNow ==
  /\ DOMAIN Held = Bins
  /\ Held[InRouted] = Ids(routed) /\ Held[InRouting] = Ids(routing) /\ Held[InBuffer] = Ids(buffer.queue)
  /\ Held[InChan] = Ids(udp.chan) /\ Held[InWorking] = {e.id : e \in udp.working}
  /\ \A i \in Streams : Held[InStream(i)] = Ids(stream[i].batch)
BY HeldThere DEF Held

\* ... and after a step.
LEMMA HeldNext ==
  /\ DOMAIN Held' = Bins
  /\ Held'[InRouted] = Ids(routed') /\ Held'[InRouting] = Ids(routing') /\ Held'[InBuffer] = Ids(buffer'.queue)
  /\ Held'[InChan] = Ids(udp'.chan) /\ Held'[InWorking] = {e.id : e \in udp'.working}
  /\ \A i \in Streams : Held'[InStream(i)] = Ids(stream'[i].batch)
<1> DEFINE new == Held'
           st == stream'
<1>1. new = HeldOf(routed', routing', buffer'.queue, udp'.chan, udp'.working, st)
  BY DEF Held
<1> HIDE DEF new, st
<1>2. /\ DOMAIN new = Bins
      /\ new[InRouted] = Ids(routed') /\ new[InRouting] = Ids(routing') /\ new[InBuffer] = Ids(buffer'.queue)
      /\ new[InChan] = Ids(udp'.chan) /\ new[InWorking] = {e.id : e \in udp'.working}
      /\ \A i \in Streams : new[InStream(i)] = Ids(st[i].batch)
  BY <1>1, HeldThere
<1> QED BY <1>2 DEF new, st

\* Nothing moves but what a stream has, which loses some or nothing.
LEMMA StreamMoves ==
  ASSUME Unique, NEW i \in Streams, NEW r, IsStream(r), Listed(r.batch), Ids(r.batch) \subseteq Ids(stream[i].batch),
         stream' = [stream EXCEPT ![i] = r], UNCHANGED <<routed, routing, buffer, udp, arrived>>
  PROVE  Unique'
<1>1. Lists'
  BY DEF Unique, Lists
<1>2. stream'[i] = r /\ \A j \in Streams : j # i => stream'[j] = stream[j]
  BY DEF Unique, Lists
<1>3. ASSUME NEW c \in Bins PROVE Held'[c] \subseteq Held[c]
  <2>1. CASE c \in {InRouted, InRouting, InBuffer, InChan, InWorking}
    BY <2>1, HeldNow, HeldNext
  <2>2. CASE \E j \in Streams : c = InStream(j)
    BY <1>2, <2>2, HeldNow, HeldNext
  <2> QED BY <2>1, <2>2, BinsAre
<1>4. Apart(Held', arrived)
  BY <1>3, HeldNow, HeldNext, ApartGoing DEF Unique
<1> QED BY <1>1, <1>4 DEF Unique

\* The message router takes an envelope from the buffer.
LEMMA StartMoves == Unique /\ Start => Unique'
<1> SUFFICES ASSUME Unique, Start PROVE Unique'
  OBVIOUS
<1> DEFINE q == buffer.queue
           e == Head(q)
<1>1. /\ q # << >> /\ Listed(q)
      /\ routing = << >> /\ routing' = <<e>> /\ buffer' = [queue |-> Tail(q), missed |-> 0]
      /\ UNCHANGED <<stream, udp, arrived, routed>>
  BY DEF Start, DiodeReady, DiodeHead, DiodeTail, Unique, Lists
<1>2. buffer'.queue = Tail(q) /\ buffer'.missed = 0
  BY <1>1
<1> HIDE DEF q, e
<1>3. IsEnvelope(e) /\ e.id \in Ids(q) /\ Listed(Tail(q)) /\ Ids(Tail(q)) \subseteq Ids(q) \ {e.id}
  BY <1>1, ListLess DEF e
<1>4. Listed(routing') /\ Ids(routing') = {e.id}
  BY <1>1, <1>3, ListOne
<1>5. Lists'
  BY <1>1, <1>2, <1>3, <1>4 DEF Unique, Lists
<1>6. e.id \in Held[InBuffer] /\ Held'[InBuffer] \subseteq Held[InBuffer] \ {e.id} /\ Held'[InRouting] \subseteq Held[InRouting] \cup {e.id}
  BY <1>2, <1>3, <1>4, HeldNow, HeldNext DEF q
<1>7. ASSUME NEW c \in Bins, c # InBuffer, c # InRouting PROVE Held'[c] \subseteq Held[c]
  BY <1>1, <1>7, BinsAre, HeldNow, HeldNext
<1>8. Apart(Held', arrived)
  BY <1>6, <1>7, BinsAre, HeldNow, HeldNext, ApartPassing DEF Unique
<1> QED BY <1>1, <1>5, <1>8 DEF Unique

\* The gRPC router has sent it.
LEMMA RoutedMoves == Unique /\ RouterSendTo => Unique'
<1> SUFFICES ASSUME Unique, RouterSendTo PROVE Unique'
  OBVIOUS
<1> DEFINE e == Head(routing)
<1>1. /\ routing # << >> /\ Listed(routing) /\ Listed(routed)
      /\ routing' = << >> /\ UNCHANGED <<buffer, stream, udp, arrived>>
  BY DEF RouterSendTo, Unique, Lists
<1>2. routed' = Append(routed, e)
  <2>1. PICK S : routing \in Seq(S)
    BY <1>1 DEF Listed, IsSequence
  <2>2. routing[1] = Head(routing)
    BY <1>1, <2>1
  <2> QED BY <2>2 DEF RouterSendTo
<1> HIDE DEF e
<1>3. IsEnvelope(e) /\ e.id \in Ids(routing)
  BY <1>1, ListLess DEF e
<1>4. e.id \in Held[InRouting] /\ e.id \notin Held[InRouted]
  BY <1>3, BinsAre, HeldNow DEF Unique, Apart
<1>5. Listed(routed') /\ Ids(routed') = Ids(routed) \cup {e.id}
  BY <1>1, <1>2, <1>3, <1>4, HeldNow, ListMore
<1>6. Listed(routing') /\ Ids(routing') = {}
  BY <1>1, ListNone
<1>7. Lists'
  BY <1>1, <1>5, <1>6 DEF Unique, Lists
<1>8. Held'[InRouting] \subseteq Held[InRouting] \ {e.id} /\ Held'[InRouted] \subseteq Held[InRouted] \cup {e.id}
  BY <1>5, <1>6, HeldNow, HeldNext
<1>9. ASSUME NEW c \in Bins, c # InRouted, c # InRouting PROVE Held'[c] \subseteq Held[c]
  BY <1>1, <1>9, BinsAre, HeldNow, HeldNext
<1>10. Apart(Held', arrived)
  BY <1>4, <1>8, <1>9, BinsAre, HeldNow, HeldNext, ApartPassing DEF Unique
<1> QED BY <1>1, <1>7, <1>10 DEF Unique

\* One that cannot be marshalled is nowhere any more.
LEMMA UnmarshalledMoves == Unique /\ MarshalFails => Unique'
<1> SUFFICES ASSUME Unique, MarshalFails PROVE Unique'
  OBVIOUS
<1>1. routing' = << >> /\ UNCHANGED <<buffer, stream, udp, arrived, routed>>
  BY DEF MarshalFails
<1>2. Listed(routing') /\ Ids(routing') = {}
  BY <1>1, ListNone
<1>3. Lists'
  BY <1>1, <1>2 DEF Unique, Lists
<1>4. ASSUME NEW c \in Bins PROVE Held'[c] \subseteq Held[c]
  BY <1>1, <1>2, BinsAre, HeldNow, HeldNext
<1>5. Apart(Held', arrived)
  BY <1>4, HeldNow, HeldNext, ApartGoing DEF Unique
<1> QED BY <1>1, <1>3, <1>5 DEF Unique

\* An envelope that arrives is a new one.
LEMMA ArrivesNew ==
  ASSUME Unique, NEW k \in Nat, k > 0, NEW c \in Contents
  PROVE  /\ IsEnvelope(Envelope(arrived + k, c)) /\ Envelope(arrived + k, c).id = arrived + k
         /\ arrived \in Nat
         /\ \A b \in Bins : arrived + k \notin Held[b]
<1>1. IsEnvelope(Envelope(arrived + k, c)) /\ Envelope(arrived + k, c).id = arrived + k
  BY FiltersAssumption DEF Envelope, IsEnvelope, Unique, Apart
<1>2. arrived \in Nat /\ arrived + k \notin 1..arrived
  BY DEF Unique, Apart
<1>3. \A b \in Bins : arrived + k \notin Held[b]
  BY <1>2, HeldNow DEF Unique, Apart
<1> QED BY <1>1, <1>2, <1>3

\* It is set in the buffer, by Pusher.
LEMMA PusherMoves ==
  ASSUME Unique, NEW i \in Streams, PusherReceives(i)
  PROVE  Unique'
<1>1. PICK c \in Contents : \E ok \in BOOLEAN :
         buffer' = IF ok THEN DiodeSet(buffer, BufferSize, Envelope(arrived + 1, c)) ELSE buffer
  BY DEF PusherReceives, NewEnvelopes
<1> DEFINE e == Envelope(arrived + 1, c)
<1>2. PICK ok \in BOOLEAN : buffer' = IF ok THEN DiodeSet(buffer, BufferSize, e) ELSE buffer
  BY <1>1
<1>3. arrived' = arrived + 1 /\ UNCHANGED <<routed, routing, stream, udp>>
  BY DEF PusherReceives, egress
<1>4. IsEnvelope(e) /\ e.id = arrived + 1 /\ arrived \in Nat /\ e.id \notin Ids(buffer.queue)
  BY ArrivesNew, BinsAre, HeldNow
<1> HIDE DEF e
<1>5. /\ buffer' = [queue |-> buffer'.queue, missed |-> buffer'.missed]
      /\ Listed(buffer'.queue)
      /\ Ids(buffer'.queue) \subseteq Ids(buffer.queue) \cup {e.id}
  <2>1. buffer = [queue |-> buffer.queue, missed |-> buffer.missed] /\ Listed(buffer.queue)
    BY DEF Unique, Lists
  <2>2. CASE ok
    <3>1. buffer' = DiodeSet(buffer, BufferSize, e)
      BY <1>2, <2>2
    <3> DEFINE n == buffer'
    <3> HIDE DEF n
    <3>2. /\ n = [queue |-> n.queue, missed |-> n.missed] /\ Listed(n.queue)
          /\ Ids(n.queue) \subseteq Ids(buffer.queue) \cup {e.id}
      BY <1>4, <2>1, <3>1, DiodeMore DEF n
    <3> QED BY <3>2 DEF n
  <2>3. CASE ~ok
    BY <1>2, <2>1, <2>3
  <2> QED BY <2>2, <2>3
<1>6. Lists'
  BY <1>3, <1>5 DEF Unique, Lists
<1> DEFINE X == {e.id}
<1>7. \A x \in X : x \in (arrived + 1)..(arrived + 1)
  BY <1>4
<1>8. Held'[InBuffer] \subseteq Held[InBuffer] \cup X
  BY <1>5, HeldNow, HeldNext
<1>9. ASSUME NEW b \in Bins, b # InBuffer PROVE Held'[b] \subseteq Held[b]
  BY <1>3, <1>9, BinsAre, HeldNow, HeldNext
<1> HIDE DEF X
<1>10. arrived + 1 \in Nat /\ arrived <= arrived + 1 /\ Apart(Held, arrived)
  BY <1>4 DEF Unique
<1>11. Apart(Held', arrived + 1)
  BY <1>7, <1>8, <1>9, <1>10, BinsAre, HeldNow, HeldNext, ApartComing
<1> QED BY <1>3, <1>6, <1>11 DEF Unique

\* New envelopes arrive in a batch.
LEMMA BatchMoves ==
  ASSUME Unique, NEW i \in Streams, BatchSenderReceives(i)
  PROVE  Unique'
<1>1. PICK n \in 0..2 :
        /\ arrived + n <= MaxEnvelopes
        /\ \E batch \in [1..n -> Contents] :
             stream' = [stream EXCEPT ![i].batch = [k \in 1..n |-> Envelope(arrived + k, batch[k])]]
        /\ arrived' = arrived + (IF n = 0 THEN 1 ELSE n)
  BY DEF BatchSenderReceives
<1>2. PICK batch \in [1..n -> Contents] :
        stream' = [stream EXCEPT ![i].batch = [k \in 1..n |-> Envelope(arrived + k, batch[k])]]
  BY <1>1
<1> DEFINE q == [k \in 1..n |-> Envelope(arrived + k, batch[k])]
<1>3. stream[i].batch = << >> /\ UNCHANGED <<routed, routing, buffer, udp>> /\ arrived \in Nat /\ n \in Nat
  BY DEF BatchSenderReceives, egress, Unique, Apart
<1>4. \A k \in 1..n : IsEnvelope(q[k]) /\ q[k].id = arrived + k
  BY ArrivesNew
<1>5. DOMAIN q = 1..n /\ IsSequence(q)
  <2>1. q \in Seq({Envelope(arrived + k, batch[k]) : k \in 1..n})
    BY <1>3
  <2> QED BY <2>1 DEF IsSequence
<1> HIDE DEF q
<1>6. Listed(q)
  <2>1. \A k, l \in 1..n : q[k].id = q[l].id => k = l
    BY <1>3, <1>4
  <2> QED BY <1>4, <1>5, <2>1 DEF Listed
<1> DEFINE m == arrived + (IF n = 0 THEN 1 ELSE n)
<1>7. m \in Nat /\ arrived <= m /\ \A x \in Ids(q) : x \in (arrived + 1)..m
  <2>1. \A k \in 1..n : arrived + k \in (arrived + 1)..m
    BY <1>3
  <2>2. m \in Nat /\ arrived <= m
    BY <1>3
  <2> HIDE DEF m
  <2> QED BY <1>4, <1>5, <2>1, <2>2 DEF Ids
<1>8. /\ stream' = [j \in Streams |-> stream'[j]]
      /\ stream'[i].batch = q /\ IsStream(stream'[i])
      /\ \A j \in Streams : j # i => stream'[j] = stream[j]
  <2> DEFINE r == [stream[i] EXCEPT !.batch = q]
  <2>1. stream' = [stream EXCEPT ![i] = r]
    BY <1>2 DEF q
  <2>2. r.batch = q /\ IsStream(r)
    BY DEF Unique, Lists, IsStream
  <2> HIDE DEF r
  <2> QED BY <2>1, <2>2 DEF Unique, Lists
<1>9. Lists'
  BY <1>3, <1>6, <1>8 DEF Unique, Lists
<1>10. Held'[InStream(i)] \subseteq Held[InStream(i)] \cup Ids(q)
  BY <1>8, HeldNow, HeldNext
<1>11. ASSUME NEW b \in Bins, b # InStream(i) PROVE Held'[b] \subseteq Held[b]
  <2>1. CASE b \in {InRouted, InRouting, InBuffer, InChan, InWorking}
    BY <1>3, <2>1, HeldNow, HeldNext
  <2>2. CASE \E j \in Streams : b = InStream(j)
    BY <1>8, <1>11, <2>2, HeldNow, HeldNext
  <2> QED BY <2>1, <2>2, BinsAre
<1>12. Apart(Held, arrived) /\ arrived' = m
  BY <1>1 DEF Unique
<1> HIDE DEF m
<1>13. Apart(Held', m)
  BY <1>7, <1>10, <1>11, <1>12, BinsAre, HeldNow, HeldNext, ApartComing
<1> QED BY <1>3, <1>9, <1>12, <1>13 DEF Unique

\* One of a place's envelopes is set in the buffer.
LEMMA BufferTakes ==
  ASSUME Unique, NEW a \in Bins, a # InBuffer, NEW e, IsEnvelope(e), e.id \in Held[a],
         buffer' = DiodeSet(buffer, BufferSize, e)
  PROVE  /\ buffer' = [queue |-> buffer'.queue, missed |-> buffer'.missed]
         /\ Listed(buffer'.queue)
         /\ Held'[InBuffer] \subseteq Held[InBuffer] \cup {e.id}
<1>1. e.id \notin Held[InBuffer]
  BY BinsAre, HeldNow DEF Unique, Apart
<1>2. e.id \notin Ids(buffer.queue)
  BY <1>1, HeldNow
<1>3. buffer = [queue |-> buffer.queue, missed |-> buffer.missed] /\ Listed(buffer.queue)
  BY DEF Unique, Lists
<1> DEFINE n == buffer'
<1> HIDE DEF n
<1>4. /\ n = [queue |-> n.queue, missed |-> n.missed] /\ Listed(n.queue)
      /\ Ids(n.queue) \subseteq Ids(buffer.queue) \cup {e.id}
  BY <1>2, <1>3, DiodeMore DEF n
<1> QED BY <1>4, HeldNow, HeldNext DEF n

\* A stream whose batch loses its first.
LEMMA StreamSets ==
  ASSUME NEW o, IsStream(o), NEW r, r = [o EXCEPT !.batch = Tail(@)]
  PROVE  r.batch = Tail(o.batch) /\ IsStream(r)
<1> DEFINE p == o.pc
           g == o.gone
           d == o.done
           b == o.batch
<1>1. o = [pc |-> p, gone |-> g, done |-> d, batch |-> b]
  BY DEF IsStream
<1> HIDE DEF p, g, d, b
<1>2. r = [pc |-> p, gone |-> g, done |-> d, batch |-> Tail(b)]
  BY <1>1
<1> QED BY <1>2 DEF IsStream, b

\* A batch's first is set in the buffer.
LEMMA BatchSetsMoves ==
  ASSUME Unique, NEW i \in Streams, BatchSenderSets(i)
  PROVE  Unique'
<1> DEFINE q == stream[i].batch
           e == Head(q)
           r == [stream[i] EXCEPT !.batch = Tail(@)]
<1>1. /\ q # << >> /\ Listed(q) /\ buffer' = DiodeSet(buffer, BufferSize, e)
      /\ stream' = [stream EXCEPT ![i] = r] /\ UNCHANGED <<routed, routing, udp, arrived>>
  BY DEF BatchSenderSets, egress, Unique, Lists
<1>2. r.batch = Tail(q) /\ IsStream(r)
  BY StreamSets DEF Unique, Lists
<1>3. e.id \in Held[InStream(i)] /\ IsEnvelope(e) /\ Listed(Tail(q)) /\ Ids(Tail(q)) \subseteq Held[InStream(i)] \ {e.id}
  BY <1>1, ListLess, HeldNow
<1> HIDE DEF q, e, r
<1>4. /\ buffer' = [queue |-> buffer'.queue, missed |-> buffer'.missed]
      /\ Listed(buffer'.queue)
      /\ Held'[InBuffer] \subseteq Held[InBuffer] \cup {e.id}
  BY <1>1, <1>3, BinsAre, BufferTakes
<1>5. stream' = [j \in Streams |-> stream'[j]] /\ stream'[i] = r /\ \A j \in Streams : j # i => stream'[j] = stream[j]
  BY <1>1 DEF Unique, Lists
<1>6. Lists'
  BY <1>1, <1>2, <1>3, <1>4, <1>5 DEF Unique, Lists
<1>7. Held'[InStream(i)] \subseteq Held[InStream(i)] \ {e.id}
  BY <1>2, <1>3, <1>5, HeldNext
<1>8. ASSUME NEW b \in Bins, b # InBuffer, b # InStream(i) PROVE Held'[b] \subseteq Held[b]
  <2>1. CASE b \in {InRouted, InRouting, InChan, InWorking}
    BY <1>1, <2>1, HeldNow, HeldNext
  <2>2. CASE \E j \in Streams : b = InStream(j)
    BY <1>5, <1>8, <2>2, HeldNow, HeldNext
  <2> QED BY <1>8, <2>1, <2>2, BinsAre
<1>9. Apart(Held', arrived)
  BY <1>3, <1>4, <1>7, <1>8, BinsAre, HeldNow, HeldNext, ApartPassing DEF Unique
<1> QED BY <1>1, <1>6, <1>9 DEF Unique

\* A datagram is read.
LEMMA UDPReadMoves == Unique /\ UDPRead => Unique'
<1> SUFFICES ASSUME Unique, UDPRead PROVE Unique'
  OBVIOUS
<1>1. PICK c \in Contents : udp' = [udp EXCEPT !.chan = Append(@, Envelope(arrived + 1, c))]
  BY DEF UDPRead, NewEnvelopes
<1> DEFINE e == Envelope(arrived + 1, c)
<1>2. /\ udp' = [open |-> udp.open, chan |-> Append(udp.chan, e), working |-> udp.working]
      /\ arrived' = arrived + 1 /\ UNCHANGED <<routed, routing, buffer, stream>>
  BY <1>1 DEF UDPRead, egress, Unique, Lists
<1>3. IsEnvelope(e) /\ e.id = arrived + 1 /\ arrived \in Nat /\ e.id \notin Ids(udp.chan) /\ Listed(udp.chan)
  BY ArrivesNew, BinsAre, HeldNow DEF Unique, Lists
<1> HIDE DEF e
<1>4. udp'.open = udp.open /\ udp'.chan = Append(udp.chan, e) /\ udp'.working = udp.working
  BY <1>2
<1>5. Listed(udp'.chan) /\ Ids(udp'.chan) = Ids(udp.chan) \cup {e.id}
  BY <1>3, <1>4, ListMore
<1>6. Lists'
  BY <1>2, <1>4, <1>5 DEF Unique, Lists
<1> DEFINE X == {e.id}
<1>7. \A x \in X : x \in (arrived + 1)..(arrived + 1)
  BY <1>3
<1>8. Held'[InChan] \subseteq Held[InChan] \cup X
  BY <1>5, HeldNow, HeldNext
<1>9. ASSUME NEW b \in Bins, b # InChan PROVE Held'[b] \subseteq Held[b]
  BY <1>2, <1>4, <1>9, BinsAre, HeldNow, HeldNext
<1> HIDE DEF X
<1>10. arrived + 1 \in Nat /\ arrived <= arrived + 1 /\ Apart(Held, arrived)
  BY <1>3 DEF Unique
<1>11. Apart(Held', arrived + 1)
  BY <1>7, <1>8, <1>9, <1>10, BinsAre, HeldNow, HeldNext, ApartComing
<1> QED BY <1>2, <1>4, <1>6, <1>11 DEF Unique

\* A datagram goes to an unmarshaller, or is thrown away.
LEMMA UDPVerifyMoves == Unique /\ UDPVerify => Unique'
<1> SUFFICES ASSUME Unique, UDPVerify PROVE Unique'
  OBVIOUS
<1> DEFINE q == udp.chan
           e == Head(q)
           w == udp.working
<1>1. PICK ok \in BOOLEAN : udp' = [udp EXCEPT !.chan = Tail(@), !.working = IF ok THEN @ \cup {Head(udp.chan)} ELSE @]
  BY DEF UDPVerify
<1>2. /\ q # << >> /\ Listed(q) /\ UNCHANGED <<routed, routing, buffer, stream, arrived>>
      /\ udp' = [open |-> udp.open, chan |-> Tail(q), working |-> IF ok THEN w \cup {e} ELSE w]
  BY <1>1 DEF UDPVerify, egress, Unique, Lists
<1>3. udp'.open = udp.open /\ udp'.chan = Tail(q) /\ udp'.working = IF ok THEN w \cup {e} ELSE w
  BY <1>2
<1>4. e.id \in Held[InChan] /\ IsEnvelope(e) /\ Listed(Tail(q)) /\ Ids(Tail(q)) \subseteq Held[InChan] \ {e.id}
  BY <1>2, ListLess, HeldNow
<1> HIDE DEF e
<1>5. e.id \notin Held[InWorking]
  BY <1>4, BinsAre, HeldNow DEF Unique, Apart
<1>6. \A f \in w : f.id # e.id
  BY <1>5, HeldNow
<1>7. Lists'
  BY <1>2, <1>3, <1>4 DEF Unique, Lists
<1>8. Held'[InChan] \subseteq Held[InChan] \ {e.id} /\ Held'[InWorking] \subseteq Held[InWorking] \cup {e.id}
  BY <1>3, <1>4, HeldNow, HeldNext
<1>9. ASSUME NEW b \in Bins, b # InChan, b # InWorking PROVE Held'[b] \subseteq Held[b]
  BY <1>2, <1>9, BinsAre, HeldNow, HeldNext
<1>10. Apart(Held', arrived)
  BY <1>4, <1>8, <1>9, BinsAre, HeldNow, HeldNext, ApartPassing DEF Unique
<1>11. \A f, g \in udp'.working : f.id = g.id => f = g
  BY <1>3, <1>6 DEF Unique
<1> QED BY <1>2, <1>7, <1>10, <1>11 DEF Unique

\* What an unmarshaller returns is set in the buffer.
LEMMA UDPSetMoves == Unique /\ UDPSet => Unique'
<1> SUFFICES ASSUME Unique, UDPSet PROVE Unique'
  OBVIOUS
<1>1. PICK e \in udp.working : buffer' = DiodeSet(buffer, BufferSize, e) /\ udp' = [udp EXCEPT !.working = @ \ {e}]
  BY DEF UDPSet
<1>2. /\ udp' = [open |-> udp.open, chan |-> udp.chan, working |-> udp.working \ {e}]
      /\ UNCHANGED <<routed, routing, stream, arrived>>
  BY <1>1 DEF UDPSet, egress, Unique, Lists
<1>3. udp'.open = udp.open /\ udp'.chan = udp.chan /\ udp'.working = udp.working \ {e}
  BY <1>2
<1>4. IsEnvelope(e) /\ e.id \in Held[InWorking]
  BY HeldNow DEF Unique, Lists
<1>5. /\ buffer' = [queue |-> buffer'.queue, missed |-> buffer'.missed]
      /\ Listed(buffer'.queue)
      /\ Held'[InBuffer] \subseteq Held[InBuffer] \cup {e.id}
  BY <1>1, <1>4, BinsAre, BufferTakes
<1>6. Lists'
  BY <1>2, <1>3, <1>5 DEF Unique, Lists
<1>7. Held'[InWorking] \subseteq Held[InWorking] \ {e.id}
  BY <1>3, HeldNow, HeldNext DEF Unique
<1>8. ASSUME NEW b \in Bins, b # InBuffer, b # InWorking PROVE Held'[b] \subseteq Held[b]
  BY <1>2, <1>3, <1>8, BinsAre, HeldNow, HeldNext
<1>9. Apart(Held', arrived)
  <2>1. InWorking \in Bins /\ InBuffer \in Bins /\ InWorking # InBuffer /\ DOMAIN Held = Bins /\ DOMAIN Held' = Bins
    BY BinsAre, HeldNow, HeldNext
  <2>2. Apart(Held, arrived)
    BY DEF Unique
  <2> QED BY <1>4, <1>5, <1>7, <1>8, <2>1, <2>2, ApartPassing
<1>10. \A f, g \in udp'.working : f.id = g.id => f = g
  BY <1>3 DEF Unique
<1> QED BY <1>2, <1>6, <1>9, <1>10 DEF Unique

\* No step makes a second of an envelope.
LEMMA UniqueStep == Unique /\ [Next]_vars => Unique'
<1> SUFFICES ASSUME Unique, [Next]_vars PROVE Unique'
  OBVIOUS
<1>1. CASE UNCHANGED <<routed, routing, buffer, stream, udp, arrived>>
  BY <1>1 DEF Unique, Lists, Apart, Held
<1>2. ASSUME NEW i \in Streams,
             \/ Opened(i) \/ StreamGone(i) \/ PusherMonitor(i)
             \/ PusherEOF(i) \/ PusherEnds(i) \/ BatchSenderEnds(i)
      PROVE  Unique'
  <2> DEFINE o == stream[i]
  <2>1. IsStream(o) /\ Listed(o.batch)
    BY DEF Unique, Lists
  <2>2. PICK r : /\ r \in {[o EXCEPT !.pc = "running"], [o EXCEPT !.gone = TRUE], [o EXCEPT !.done = TRUE], NoStream("ended")}
                 /\ stream' = [stream EXCEPT ![i] = r]
    BY <1>2 DEF Opened, StreamGone, PusherMonitor, PusherEOF, PusherEnds, BatchSenderEnds
  <2>3. UNCHANGED <<routed, routing, buffer, udp, arrived>>
    BY <1>2 DEF Opened, StreamGone, PusherMonitor, PusherEOF, PusherEnds, BatchSenderEnds, egress
  <2> HIDE DEF o
  <2>4. IsStream(r) /\ r.batch \in {o.batch, << >>}
    <3>1. CASE r = NoStream("ended")
      BY <3>1 DEF NoStream, IsStream
    <3>2. CASE r # NoStream("ended")
      <4> DEFINE p == o.pc
                 g == o.gone
                 d == o.done
                 b == o.batch
      <4>1. o = [pc |-> p, gone |-> g, done |-> d, batch |-> b]
        BY <2>1 DEF IsStream
      <4> HIDE DEF p, g, d, b
      <4>2. r \in {[pc |-> "running", gone |-> g, done |-> d, batch |-> b],
                   [pc |-> p, gone |-> TRUE, done |-> d, batch |-> b],
                   [pc |-> p, gone |-> g, done |-> TRUE, batch |-> b]}
        BY <2>2, <3>2, <4>1
      <4> QED BY <4>2 DEF IsStream, b
    <3> QED BY <3>1, <3>2
  <2>5. Listed(r.batch) /\ Ids(r.batch) \subseteq Ids(o.batch)
    BY <2>1, <2>4, ListNone
  <2> QED BY <2>2, <2>3, <2>4, <2>5, StreamMoves DEF o
<1>3. CASE UDPFails
  <2>1. /\ udp' = [open |-> FALSE, chan |-> udp.chan, working |-> udp.working]
        /\ UNCHANGED <<routed, routing, buffer, stream, arrived>>
    BY <1>3 DEF UDPFails, egress, Unique, Lists
  <2>2. udp'.open = FALSE /\ udp'.chan = udp.chan /\ udp'.working = udp.working
    BY <2>1
  <2> QED BY <2>1, <2>2 DEF Unique, Lists, Apart, Held
<1>4. CASE Start \/ RouterSendTo \/ MarshalFails \/ UDPRead \/ UDPVerify \/ UDPSet
  BY <1>4, StartMoves, RoutedMoves, UnmarshalledMoves, UDPReadMoves, UDPVerifyMoves, UDPSetMoves
<1>5. ASSUME NEW i \in Streams, PusherReceives(i) \/ BatchSenderReceives(i) \/ BatchSenderSets(i)
      PROVE  Unique'
  BY <1>5, PusherMoves, BatchMoves, BatchSetsMoves
<1>6. \/ UNCHANGED <<routed, routing, buffer, stream, udp, arrived>>
      \/ \E i \in Streams : \/ Opened(i) \/ StreamGone(i) \/ PusherMonitor(i)
                            \/ PusherEOF(i) \/ PusherEnds(i) \/ BatchSenderEnds(i)
      \/ UDPFails
      \/ Start \/ RouterSendTo \/ MarshalFails \/ UDPRead \/ UDPVerify \/ UDPSet
      \/ \E i \in Streams : PusherReceives(i) \/ BatchSenderReceives(i) \/ BatchSenderSets(i)
  BY DEF Next, vars, Subscribe, ClientGone, monitorContext, sendDataMessage, sendDataEnds
<1> QED BY <1>1, <1>2, <1>3, <1>4, <1>5, <1>6

\* Initially there is no envelope.
LEMMA UniqueInit == Init => Unique
<1> SUFFICES ASSUME Init PROVE Unique
  OBVIOUS
<1>1. PICK open \in Sources :
        /\ stream = [i \in Streams |-> NoStream(IF i \in open THEN "new" ELSE "ended")]
        /\ udp = [open |-> "udp" \in open, chan |-> << >>, working |-> {}]
  BY DEF Init
<1>2. \A i \in Streams : IsStream(stream[i]) /\ stream[i].batch = << >>
  BY <1>1 DEF NoStream, IsStream
<1>3. udp.chan = << >> /\ udp.working = {} /\ buffer = [queue |-> << >>, missed |-> 0] /\ routed = << >> /\ routing = << >> /\ arrived = 0
  BY <1>1 DEF Init, EmptyDiode
<1>4. buffer.queue = << >> /\ buffer.missed = 0
  BY <1>3
<1>5. Lists
  BY <1>1, <1>2, <1>3, <1>4, ListNone DEF Lists
<1>6. \A c \in Bins : Held[c] = {}
  BY <1>2, <1>3, <1>4, BinsAre, HeldNow, ListNone
<1>7. Apart(Held, arrived)
  BY <1>3, <1>6, HeldNow DEF Apart
<1> QED BY <1>3, <1>5, <1>7 DEF Unique

\* An empty string names no application and no shard.
Blank == ""

Typed(e, n) == createTypedFilters(e)[n]

\* The definitions the proofs need, with Blank in place of the empty string.
LEMMA TypedAre ==
  ASSUME NEW e
  PROVE  /\ Typed(e, 1) = [app |-> e.app, type |-> "noType"] /\ Typed(e, 2) = [app |-> e.app, type |-> e.type]
         /\ Typed(e, 3) = [app |-> Blank, type |-> e.type] /\ Typed(e, 4) = [app |-> Blank, type |-> "noType"]
BY DEF Typed, createTypedFilters, filterTypeFromEnvelope, Blank

\* ... the filter a request is converted to, ...
LEMMA FilterIs ==
  ASSUME NEW req
  PROVE  convertFilter(req) =
           IF ~req.hasFilter THEN [app |-> Blank, type |-> "noType"]
           ELSE [app |-> req.app,
                 type |-> IF req.metric THEN "metric" ELSE IF req.log THEN "log" ELSE "noType"]
BY DEF convertFilter, Blank

\* ... what it asks for, ...
LEMMA MatchesIs ==
  ASSUME NEW e, NEW req
  PROVE  Matches(e, req) <=> /\ req.hasFilter /\ req.app # Blank => e.app = req.app
                             /\ req.hasFilter /\ req.log => e.type = "log"
                             /\ req.hasFilter /\ req.metric => e.type = "metric"
BY DEF Matches, Blank

\* ... who of a shard is written to, ...
LEMMA WrittenIs ==
  ASSUME NEW e, NEW x, NEW picked
  PROVE  writeToShard(e, x, picked) = IF x[2] = Blank THEN SettersOf(e, x) ELSE {picked[x]}
BY DEF writeToShard, Blank

\* ... and who may be picked.
LEMMA PicksIs ==
  ASSUME NEW e, NEW picked \in Picks(e)
  PROVE  \A x \in Shards(e) : x[2] # Blank => picked[x] \in SettersOf(e, x)
<1>1. DOMAIN picked = {x \in Shards(e) : x[2] # Blank} /\ \A x \in DOMAIN picked : picked[x] \in SettersOf(e, x)
  BY DEF Picks, Blank
<1> QED BY <1>1

\* A subscription's filter is one of an envelope's typed filters if the
\* envelope is one it asks for; and one of them only, if it has an application.
LEMMA TypedMatch ==
  ASSUME NEW e, IsEnvelope(e), NEW req \in Requests
  PROVE  /\ \A n \in 1..4 : Typed(e, n) = convertFilter(req) => Matches(e, req)
         /\ Matches(e, req) => \E n \in 1..4 : Typed(e, n) = convertFilter(req)
<1> DEFINE f == convertFilter(req)
           t == IF req.metric THEN "metric" ELSE IF req.log THEN "log" ELSE "noType"
<1>1. /\ Typed(e, 1) = [app |-> e.app, type |-> "noType"] /\ Typed(e, 2) = [app |-> e.app, type |-> e.type]
      /\ Typed(e, 3) = [app |-> Blank, type |-> e.type] /\ Typed(e, 4) = [app |-> Blank, type |-> "noType"]
  BY TypedAre
<1>2. \A n \in 1..4 : n = 1 \/ n = 2 \/ n = 3 \/ n = 4
  OBVIOUS
<1>3. e.type = "log" \/ e.type = "metric"
  BY DEF IsEnvelope
<1>4. ~(req.log /\ req.metric)
  BY FiltersAssumption
<1>5. CASE ~req.hasFilter
  <2>1. f = [app |-> Blank, type |-> "noType"]
    BY <1>5, FilterIs
  <2>2. Matches(e, req)
    BY <1>5, MatchesIs
  <2> HIDE DEF f
  <2>3. Typed(e, 4) = f /\ 4 \in 1..4
    BY <1>1, <2>1
  <2> QED BY <2>2, <2>3 DEF f
<1>6. CASE req.hasFilter
  <2>1. f = [app |-> req.app, type |-> t]
    BY <1>6, FilterIs
  <2>2. Matches(e, req) => (req.app = Blank \/ req.app = e.app)
    BY <1>6, MatchesIs
  <2>3. Matches(e, req) => (t = "noType" \/ t = e.type)
    <3>1. CASE req.metric
      BY <1>6, <3>1, MatchesIs
    <3>2. CASE ~req.metric
      BY <1>6, <3>2, MatchesIs
    <3> QED BY <3>1, <3>2
  <2>4. (req.app = Blank \/ req.app = e.app) /\ (t = "noType" \/ t = e.type) => Matches(e, req)
    <3>1. CASE req.metric
      BY <1>3, <1>4, <1>6, <3>1, MatchesIs
    <3>2. CASE ~req.metric
      BY <1>3, <1>6, <3>2, MatchesIs
    <3> QED BY <3>1, <3>2
  <2> HIDE DEF f, t
  <2>5. ASSUME NEW n \in 1..4, Typed(e, n) = f PROVE Matches(e, req)
    <3>1. f.app = req.app /\ f.type = t
      BY <2>1
    <3>2. (Typed(e, n).app = Blank \/ Typed(e, n).app = e.app) /\ (Typed(e, n).type = "noType" \/ Typed(e, n).type = e.type)
      BY <1>1, <1>2
    <3> QED BY <2>4, <2>5, <3>1, <3>2
  <2>6. ASSUME Matches(e, req) PROVE \E n \in 1..4 : Typed(e, n) = f
    <3>1. 1 \in 1..4 /\ 2 \in 1..4 /\ 3 \in 1..4 /\ 4 \in 1..4
      OBVIOUS
    <3>2. f \in {Typed(e, 1), Typed(e, 2), Typed(e, 3), Typed(e, 4)}
      BY <1>1, <2>1, <2>2, <2>3, <2>6
    <3> QED BY <3>1, <3>2
  <2> QED BY <2>5, <2>6 DEF f
<1> QED BY <1>5, <1>6

\* With an application the typed filters are four.
LEMMA TypedOnce ==
  ASSUME NEW e, IsEnvelope(e), e.app # Blank,
         NEW n \in 1..4, NEW m \in 1..4, Typed(e, n) = Typed(e, m)
  PROVE  n = m
<1>1. /\ Typed(e, 1) = [app |-> e.app, type |-> "noType"] /\ Typed(e, 2) = [app |-> e.app, type |-> e.type]
      /\ Typed(e, 3) = [app |-> Blank, type |-> e.type] /\ Typed(e, 4) = [app |-> Blank, type |-> "noType"]
  BY TypedAre
<1>2. /\ Typed(e, 1).app # Blank /\ Typed(e, 2).app # Blank /\ Typed(e, 3).app = Blank /\ Typed(e, 4).app = Blank
      /\ Typed(e, 1).type = "noType" /\ Typed(e, 2).type # "noType" /\ Typed(e, 3).type # "noType" /\ Typed(e, 4).type = "noType"
  BY <1>1 DEF IsEnvelope
<1>3. /\ Typed(e, 1) # Typed(e, 2) /\ Typed(e, 1) # Typed(e, 3) /\ Typed(e, 1) # Typed(e, 4)
      /\ Typed(e, 2) # Typed(e, 3) /\ Typed(e, 2) # Typed(e, 4) /\ Typed(e, 3) # Typed(e, 4)
  BY <1>2
<1>4. n \in {1, 2, 3, 4} /\ m \in {1, 2, 3, 4}
  OBVIOUS
<1> QED BY <1>3, <1>4

\* the shards a subscription is written to from
From(s, e, picked) == {x \in Shards(e) : s \in writeToShard(e, x, picked)}

\* It is written to from its own shard, under the filter it asked for.
LEMMA FromItsShard ==
  ASSUME RouterInv, NEW e, NEW picked \in Picks(e), NEW s, NEW x \in From(s, e, picked)
  PROVE  /\ s \in Running
         /\ x = <<x[1], sub[s].req.shard>> /\ x[1] \in 1..4
         /\ Typed(e, x[1]) = convertFilter(sub[s].req)
         /\ sub[s].req.shard # Blank => picked[x] = s
<1> DEFINE f == Typed(e, x[1])
           id == x[2]
<1>1. /\ x \in Shards(e) /\ s \in writeToShard(e, x, picked)
      /\ x \in (1..4) \X {r.shard : r \in Requests}
      /\ f \in DOMAIN subscriptions /\ id \in DOMAIN subscriptions[f]
  BY DEF From, Shards, Typed
<1>2. x = <<x[1], x[2]>> /\ x[1] \in 1..4
  BY <1>1
<1>3. s \in SettersOf(e, x) /\ (id # Blank => picked[x] = s)
  <2>1. CASE id = Blank
    BY <1>1, <2>1, WrittenIs
  <2>2. CASE id # Blank
    <3>1. picked[x] = s
      BY <1>1, <2>2, WrittenIs
    <3>3. picked[x] \in SettersOf(e, x)
      BY <1>1, <2>2, PicksIs
    <3> QED BY <3>1, <3>3
  <2> QED BY <2>1, <2>2
<1>4. SettersOf(e, x) = ToSet(subscriptions[f][id])
  BY DEF SettersOf, Typed
<1> HIDE DEF f, id
<1>5. s \in DOMAIN Keys /\ Keys[s] = <<f, id>>
  BY <1>1, <1>3, <1>4 DEF RouterInv, Files, Holds
<1>6. s \in Running /\ convertFilter(sub[s].req) = f /\ sub[s].req.shard = id
  BY <1>5 DEF Keys
<1> QED BY <1>2, <1>3, <1>6 DEF f, id

\* Without a shard id it is always written to.
LEMMA FromNoShard ==
  ASSUME RouterInv, NEW e, NEW picked \in Picks(e), NEW s \in Running, sub[s].req \in Requests,
         sub[s].req.shard = Blank, NEW n \in 1..4, Typed(e, n) = convertFilter(sub[s].req)
  PROVE  <<n, Blank>> \in From(s, e, picked)
<1> DEFINE f == convertFilter(sub[s].req)
           x == <<n, Blank>>
<1>1. s \in DOMAIN Keys /\ Keys[s] = <<f, Blank>>
  BY DEF Keys
<1>2. PICK g \in DOMAIN subscriptions : \E id \in DOMAIN subscriptions[g] : Keys[s] = <<g, id>>
  BY <1>1 DEF RouterInv, Files
<1>3. f \in DOMAIN subscriptions /\ Blank \in DOMAIN subscriptions[f]
  BY <1>1, <1>2
<1>4. s \in ToSet(subscriptions[f][Blank])
  BY <1>1, <1>3 DEF RouterInv, Files, Holds
<1>5. x \in Shards(e)
  BY <1>3 DEF Shards, Typed
<1>6. s \in writeToShard(e, x, picked)
  BY <1>4, WrittenIs DEF SettersOf, Typed
<1> QED BY <1>5, <1>6 DEF From

\* Four things are finitely many.
LEMMA FourFinite == \A a, b, c, d : IsFiniteSet({a, b, c, d})
<1> SUFFICES ASSUME NEW a, NEW b, NEW c, NEW d PROVE IsFiniteSet({a, b, c, d})
  OBVIOUS
<1>1. IsFiniteSet({a})
  BY FS_Singleton
<1>2. IsFiniteSet({a} \cup {b})
  BY <1>1, FS_AddElement
<1>3. IsFiniteSet(({a} \cup {b}) \cup {c})
  BY <1>2, FS_AddElement
<1>4. IsFiniteSet((({a} \cup {b}) \cup {c}) \cup {d})
  BY <1>3, FS_AddElement
<1>5. (({a} \cup {b}) \cup {c}) \cup {d} = {a, b, c, d}
  OBVIOUS
<1> QED BY <1>4, <1>5

\* What the step gives to whom: to nobody twice, but an envelope of no
\* application.
LEMMA SendsTo ==
  ASSUME RouterInv, RouterSendTo, NEW e, e = routing[1], IsEnvelope(e)
  PROVE  \E picked \in Picks(e) : \A s \in Subs :
           /\ From(s, e, picked) = {} => sub'[s] = sub[s]
           /\ From(s, e, picked) # {} => \/ sub'[s] = SetIn(sub[s], e)
                                         \/ sub'[s] = SetIn(SetIn(sub[s], e), e) /\ e.app = Blank
<1>1. PICK picked \in Picks(e) :
        LET times(s) == Cardinality({x \in Shards(e) : s \in writeToShard(e, x, picked)})
        IN  sub' = [s \in Subs |->
                      CASE times(s) = 0 -> sub[s]
                        [] times(s) = 1 -> SetIn(sub[s], e)
                        [] OTHER        -> SetIn(SetIn(sub[s], e), e)]
  BY DEF RouterSendTo, SendTo
<1>2. ASSUME NEW s \in Subs
      PROVE  /\ From(s, e, picked) = {} => sub'[s] = sub[s]
             /\ From(s, e, picked) # {} => \/ sub'[s] = SetIn(sub[s], e)
                                           \/ sub'[s] = SetIn(SetIn(sub[s], e), e) /\ e.app = Blank
  <2> DEFINE F == From(s, e, picked)
             c == Cardinality(F)
  <2>1. sub'[s] = CASE c = 0 -> sub[s]
                    [] c = 1 -> SetIn(sub[s], e)
                    [] OTHER -> SetIn(SetIn(sub[s], e), e)
    BY <1>1 DEF From
  <2>2. F = {} => c = 0
    BY FS_EmptySet
  <2>3. F # {} => c # 0
    <3> DEFINE id == sub[s].req.shard
               S == {<<1, id>>, <<2, id>>, <<3, id>>, <<4, id>>}
    <3>2. IsFiniteSet(S)
      BY FourFinite
    <3>3. F \subseteq S
      <4> SUFFICES ASSUME NEW x \in F PROVE x \in S
        OBVIOUS
      <4>1. x = <<x[1], id>> /\ x[1] \in 1..4
        BY FromItsShard
      <4>2. x[1] \in {1, 2, 3, 4}
        BY <4>1
      <4> HIDE DEF id, F
      <4> QED BY <4>1, <4>2
    <3>4. IsFiniteSet(F)
      <4> HIDE DEF F, S
      <4> QED BY <3>2, <3>3, FS_Subset
    <3> HIDE DEF F
    <3> QED BY <3>4, FS_EmptySet
  <2>4. e.app # Blank /\ F # {} => c = 1
    <3> SUFFICES ASSUME e.app # Blank, NEW x \in F PROVE c = 1
      OBVIOUS
    <3>2. ASSUME NEW y \in F PROVE y = x
      <4>1. /\ x = <<x[1], sub[s].req.shard>> /\ x[1] \in 1..4 /\ Typed(e, x[1]) = convertFilter(sub[s].req)
            /\ y = <<y[1], sub[s].req.shard>> /\ y[1] \in 1..4 /\ Typed(e, y[1]) = convertFilter(sub[s].req)
        BY FromItsShard
      <4> HIDE DEF F
      <4>2. x[1] = y[1]
        BY <4>1, TypedOnce
      <4> QED BY <4>1, <4>2
    <3>3. F = {x}
      BY <3>2
    <3> HIDE DEF F
    <3> QED BY <3>3, FS_Singleton
  <2> HIDE DEF c, F
  <2>5. /\ F = {} => sub'[s] = sub[s]
        /\ F # {} => \/ sub'[s] = SetIn(sub[s], e)
                     \/ sub'[s] = SetIn(SetIn(sub[s], e), e) /\ e.app = Blank
    BY <2>1, <2>2, <2>3, <2>4
  <2> QED BY <2>5 DEF F
<1> QED BY <1>2

\* The members of a shard are not both given an envelope of an application.
LEMMA OneOfShard ==
  ASSUME RouterInv, NEW e, IsEnvelope(e), e.app # Blank, NEW picked \in Picks(e),
         NEW s \in Running, NEW t \in Running, s # t, SameShard(s, t), sub[s].req.shard # Blank,
         From(s, e, picked) # {}
  PROVE  From(t, e, picked) = {}
<1> SUFFICES ASSUME NEW x \in From(s, e, picked), NEW y \in From(t, e, picked) PROVE FALSE
  OBVIOUS
<1>1. sub[s].req.shard = sub[t].req.shard /\ convertFilter(sub[s].req) = convertFilter(sub[t].req)
  BY DEF SameShard
<1>2. /\ x = <<x[1], sub[s].req.shard>> /\ x[1] \in 1..4 /\ Typed(e, x[1]) = convertFilter(sub[s].req)
      /\ picked[x] = s
  BY FromItsShard
<1>3. /\ y = <<y[1], sub[t].req.shard>> /\ y[1] \in 1..4 /\ Typed(e, y[1]) = convertFilter(sub[t].req)
      /\ picked[y] = t
  BY <1>1, FromItsShard
<1>4. x[1] = y[1]
  BY <1>1, <1>2, <1>3, TypedOnce
<1>5. x = y
  BY <1>1, <1>2, <1>3, <1>4
<1> QED BY <1>2, <1>3, <1>5

\* h is g with an envelope's id behind it, at most once if it has an application
Longer(g, h, e) ==
  /\ IsSequence(h) /\ Len(h) \in Nat /\ Len(g) \in Nat /\ Len(g) <= Len(h)
  /\ DOMAIN g = 1..Len(g) /\ DOMAIN h = 1..Len(h)
  /\ \A n \in 1..Len(g) : h[n] = g[n]
  /\ \A n \in 1..Len(h) : n > Len(g) => h[n] = e.id
  /\ e.app # Blank => Len(h) <= Len(g) + 1

\* SetIn makes what was given longer so.
LEMMA LongerBy ==
  ASSUME NEW g, IsSequence(g), NEW e, NEW x, x = e.id
  PROVE  /\ Longer(g, g, e)
         /\ Longer(g, Append(g, x), e) /\ Len(Append(g, x)) > Len(g)
         /\ e.app = Blank => Longer(g, Append(Append(g, x), x), e) /\ Len(Append(Append(g, x), x)) > Len(g)
<1>1. PICK S : g \in Seq(S)
  BY DEF IsSequence
<1> DEFINE T == S \cup {x}
           a == Append(g, x)
           b == Append(a, x)
<1>2. g \in Seq(T) /\ x \in T
  BY <1>1
<1> HIDE DEF T
<1>3. /\ Len(g) \in Nat /\ DOMAIN g = 1..Len(g)
      /\ a \in Seq(T) /\ Len(a) = Len(g) + 1 /\ DOMAIN a = 1..Len(a) /\ a[Len(g) + 1] = x
      /\ \A n \in 1..Len(g) : a[n] = g[n]
  BY <1>2
<1> HIDE DEF a
<1>4. /\ b \in Seq(T) /\ Len(b) = Len(a) + 1 /\ DOMAIN b = 1..Len(b) /\ b[Len(a) + 1] = x
      /\ \A n \in 1..Len(a) : b[n] = a[n]
  BY <1>2, <1>3
<1> HIDE DEF b
<1>5. IsSequence(g) /\ IsSequence(a) /\ IsSequence(b)
  BY <1>2, <1>3, <1>4 DEF IsSequence
<1>6. Longer(g, g, e)
  BY <1>3, <1>5 DEF Longer
<1>7. Longer(g, a, e) /\ Len(a) > Len(g)
  BY <1>3, <1>5 DEF Longer
<1>8. e.app = Blank => Longer(g, b, e) /\ Len(b) > Len(g)
  <2>1. \A n \in 1..Len(g) : b[n] = g[n]
    BY <1>3, <1>4
  <2>2. \A n \in 1..Len(b) : n > Len(g) => b[n] = x
    BY <1>3, <1>4
  <2>3. Len(b) = Len(g) + 2
    BY <1>3, <1>4
  <2> QED BY <1>3, <1>4, <1>5, <2>1, <2>2, <2>3 DEF Longer
<1> QED BY <1>6, <1>7, <1>8 DEF a, b

\* What each of the calls has after the step.
LEMMA GivenMore ==
  ASSUME Books, RouterInv, RouterSendTo, NEW e, e = routing[1], IsEnvelope(e)
  PROVE  \E picked \in Picks(e) : \A s \in Subs :
           /\ sub'[s].pc = sub[s].pc /\ sub'[s].req = sub[s].req /\ sub'[s].since = sub[s].since
           /\ Longer(sub[s].got, sub'[s].got, e)
           /\ From(s, e, picked) = {} => sub'[s].got = sub[s].got
           /\ From(s, e, picked) # {} => Len(sub'[s].got) > Len(sub[s].got)
<1>1. PICK picked \in Picks(e) : \A s \in Subs :
         /\ From(s, e, picked) = {} => sub'[s] = sub[s]
         /\ From(s, e, picked) # {} => \/ sub'[s] = SetIn(sub[s], e)
                                       \/ sub'[s] = SetIn(SetIn(sub[s], e), e) /\ e.app = Blank
  BY SendsTo
<1>2. ASSUME NEW s \in Subs
      PROVE  /\ sub'[s].pc = sub[s].pc /\ sub'[s].req = sub[s].req /\ sub'[s].since = sub[s].since
             /\ Longer(sub[s].got, sub'[s].got, e)
             /\ From(s, e, picked) = {} => sub'[s].got = sub[s].got
             /\ From(s, e, picked) # {} => Len(sub'[s].got) > Len(sub[s].got)
  <2> DEFINE r == sub[s]
             a == SetIn(r, e)
             b == SetIn(a, e)
  <2>1. IsCall(r) /\ IsSequence(r.got)
    BY DEF Books, CallsTyped, CallsBalanced, Balanced
  <2> HIDE DEF r
  <2>2. /\ IsCall(a) /\ a.pc = r.pc /\ a.req = r.req /\ a.since = r.since /\ a.got = Append(r.got, e.id)
    BY <2>1 DEF SetIn, IsCall, NoSubscription
  <2> HIDE DEF a
  <2>3. /\ b.pc = a.pc /\ b.req = a.req /\ b.since = a.since /\ b.got = Append(a.got, e.id)
    BY <2>2 DEF SetIn, IsCall, NoSubscription
  <2> HIDE DEF b
  <2>4. CASE From(s, e, picked) = {}
    <3>1. sub'[s] = sub[s]
      BY <1>1, <2>4
    <3> QED BY <2>1, <2>4, <3>1, LongerBy DEF r
  <2>5. CASE From(s, e, picked) # {} /\ sub'[s] = a
    BY <2>1, <2>2, <2>5, LongerBy DEF r
  <2>6. CASE From(s, e, picked) # {} /\ sub'[s] = b /\ e.app = Blank
    BY <2>1, <2>2, <2>3, <2>6, LongerBy DEF r
  <2> QED BY <1>1, <2>4, <2>5, <2>6 DEF r, a, b
<1> QED BY <1>2

\* What SentToSubscriptionsOnce says of one subscription, given g of the list
\* rt, and of two.
Asked(g, rt, want) == \A n \in DOMAIN g : \E k \in want : g[n] = rt[k].id
AllAsked(g, rt, want) == \A k \in want : \E n \in DOMAIN g : g[n] = rt[k].id
Ordered(g, rt) ==
  \A n, m \in DOMAIN g, k, l \in DOMAIN rt :
    n < m /\ g[n] = rt[k].id /\ g[m] = rt[l].id => k < l \/ (k = l /\ rt[k].app = Blank)
NotShared(g, h, rt) ==
  \A n \in DOMAIN g, m \in DOMAIN h, k \in DOMAIN rt :
    g[n] = rt[k].id /\ h[m] = rt[k].id => rt[k].app = Blank

WantedOf(rt, since, req) == {k \in (since + 1)..Len(rt) : Matches(rt[k], req)}

\* nt is rt with the new envelope e at its end
Routes(rt, nt, e) ==
  /\ Len(rt) \in Nat /\ Len(nt) = Len(rt) + 1
  /\ DOMAIN rt = 1..Len(rt) /\ DOMAIN nt = 1..Len(nt)
  /\ \A k \in 1..Len(rt) : nt[k] = rt[k] /\ rt[k].id # e.id
  /\ nt[Len(nt)] = e

\* Which is what RouterSendTo does to routed.
LEMMA RoutesMore ==
  ASSUME NEW rt, Listed(rt), NEW e, e.id \notin Ids(rt)
  PROVE  Routes(rt, Append(rt, e), e)
<1>1. PICK S : rt \in Seq(S)
  BY DEF Listed, IsSequence
<1> DEFINE T == S \cup {e}
           a == Append(rt, e)
<1>2. rt \in Seq(T) /\ e \in T
  BY <1>1
<1> HIDE DEF T
<1>3. /\ Len(rt) \in Nat /\ DOMAIN rt = 1..Len(rt)
      /\ a \in Seq(T) /\ Len(a) = Len(rt) + 1 /\ DOMAIN a = 1..Len(a) /\ a[Len(a)] = e
      /\ \A n \in 1..Len(rt) : a[n] = rt[n]
  BY <1>2
<1> HIDE DEF a
<1>4. \A k \in 1..Len(rt) : rt[k].id # e.id
  BY <1>3 DEF Ids
<1>5. Routes(rt, a, e)
  BY <1>3, <1>4 DEF Routes
<1> QED BY <1>5 DEF a

\* What one is given stays what it asked for.
LEMMA AskedMore ==
  ASSUME NEW rt, NEW nt, NEW e, Routes(rt, nt, e),
         NEW g, NEW h, Longer(g, h, e),
         NEW req, NEW since \in Nat, since <= Len(rt), Asked(g, rt, WantedOf(rt, since, req)),
         Len(h) > Len(g) => Matches(e, req)
  PROVE  Asked(h, nt, WantedOf(nt, since, req))
<1> DEFINE want == WantedOf(rt, since, req)
           new == WantedOf(nt, since, req)
<1>1. ASSUME NEW k \in want PROVE k \in new /\ nt[k] = rt[k]
  <2>1. k \in (since + 1)..Len(rt) /\ Matches(rt[k], req)
    BY DEF WantedOf
  <2>2. k \in (since + 1)..Len(nt) /\ k \in 1..Len(rt)
    BY <2>1 DEF Routes
  <2>3. nt[k] = rt[k]
    BY <2>2 DEF Routes
  <2> QED BY <2>1, <2>2, <2>3 DEF WantedOf
<1>2. Len(h) > Len(g) => Len(nt) \in new /\ nt[Len(nt)] = e
  <2>1. Len(nt) \in (since + 1)..Len(nt) /\ nt[Len(nt)] = e
    BY DEF Routes
  <2> QED BY <2>1 DEF WantedOf
<1> HIDE DEF want, new
<1>3. Asked(g, rt, want)
  BY DEF want
<1>4. ASSUME NEW n \in DOMAIN h PROVE \E k \in new : h[n] = nt[k].id
  <2>1. CASE n \in 1..Len(g)
    <3>1. h[n] = g[n] /\ n \in DOMAIN g
      BY <2>1 DEF Longer
    <3>2. PICK k \in want : g[n] = rt[k].id
      BY <1>3, <3>1 DEF Asked
    <3> QED BY <1>1, <3>1, <3>2
  <2>2. CASE n \notin 1..Len(g)
    <3>1. h[n] = e.id /\ Len(h) > Len(g)
      BY <1>4, <2>2 DEF Longer
    <3> QED BY <1>2, <3>1
  <2> QED BY <2>1, <2>2
<1>5. Asked(h, nt, new)
  BY <1>4 DEF Asked
<1> QED BY <1>5 DEF new

\* And one who is given all is given the new one, if it asked for it.
LEMMA AllAskedMore ==
  ASSUME NEW rt, NEW nt, NEW e, Routes(rt, nt, e),
         NEW g, NEW h, Longer(g, h, e),
         NEW req, NEW since \in Nat, AllAsked(g, rt, WantedOf(rt, since, req)),
         Matches(e, req) => Len(h) > Len(g)
  PROVE  AllAsked(h, nt, WantedOf(nt, since, req))
<1> SUFFICES ASSUME NEW k \in WantedOf(nt, since, req) PROVE \E n \in DOMAIN h : h[n] = nt[k].id
  BY DEF AllAsked
<1>1. k \in (since + 1)..Len(nt) /\ Matches(nt[k], req)
  BY DEF WantedOf
<1>2. CASE k = Len(nt)
  <2>1. nt[k] = e /\ Len(h) > Len(g)
    BY <1>1, <1>2 DEF Routes
  <2>2. Len(g) + 1 \in DOMAIN h /\ h[Len(g) + 1] = e.id
    BY <2>1 DEF Longer
  <2> QED BY <2>1, <2>2
<1>3. CASE k # Len(nt)
  <2>1. k \in (since + 1)..Len(rt) /\ k \in 1..Len(rt)
    BY <1>1, <1>3 DEF Routes
  <2>2. nt[k] = rt[k]
    BY <2>1 DEF Routes
  <2>3. k \in WantedOf(rt, since, req)
    BY <1>1, <2>1, <2>2 DEF WantedOf
  <2>4. PICK n \in DOMAIN g : g[n] = rt[k].id
    BY <2>3 DEF AllAsked
  <2>5. n \in DOMAIN h /\ h[n] = g[n]
    BY DEF Longer
  <2> QED BY <2>2, <2>4, <2>5
<1> QED BY <1>2, <1>3

\* What one is given was routed.
LEMMA AskedRouted ==
  ASSUME NEW rt, DOMAIN rt = 1..Len(rt), NEW g, NEW req, NEW since \in Nat, Asked(g, rt, WantedOf(rt, since, req))
  PROVE  Asked(g, rt, DOMAIN rt)
<1>1. ASSUME NEW k \in WantedOf(rt, since, req) PROVE k \in DOMAIN rt
  <2>1. k \in (since + 1)..Len(rt)
    BY DEF WantedOf
  <2>2. k \in 1..Len(rt)
    BY <2>1
  <2> QED BY <2>2
<1> QED BY <1>1 DEF Asked

\* What was there is known by the old list, what is new by its last place.
LEMMA WhichPlace ==
  ASSUME NEW rt, NEW nt, NEW e, Routes(rt, nt, e),
         NEW g, NEW h, Longer(g, h, e), Asked(g, rt, DOMAIN rt)
  PROVE  \A n \in DOMAIN h, k \in DOMAIN nt : h[n] = nt[k].id =>
           \/ n \in DOMAIN g /\ k \in DOMAIN rt /\ h[n] = g[n] /\ nt[k] = rt[k]
           \/ n \notin DOMAIN g /\ k = Len(nt) /\ nt[k] = e
<1> SUFFICES ASSUME NEW n \in DOMAIN h, NEW k \in DOMAIN nt, h[n] = nt[k].id
             PROVE  \/ n \in DOMAIN g /\ k \in DOMAIN rt /\ h[n] = g[n] /\ nt[k] = rt[k]
                    \/ n \notin DOMAIN g /\ k = Len(nt) /\ nt[k] = e
  OBVIOUS
<1>1. (k \in 1..Len(rt) /\ nt[k] = rt[k] /\ rt[k].id # e.id) \/ (k = Len(nt) /\ nt[k] = e)
  BY DEF Routes
<1>2. CASE n \in DOMAIN g
  <2>1. h[n] = g[n]
    BY <1>2 DEF Longer
  <2>2. PICK l \in DOMAIN rt : g[n] = rt[l].id
    BY <1>2 DEF Asked
  <2>4. rt[l].id # e.id
    BY DEF Routes
  <2> QED BY <1>1, <1>2, <2>1, <2>2, <2>4 DEF Routes
<1>3. CASE n \notin DOMAIN g
  <2>1. h[n] = e.id
    BY <1>3 DEF Longer
  <2> QED BY <1>1, <1>3, <2>1
<1> QED BY <1>2, <1>3

\* The order is kept.
LEMMA OrderedMore ==
  ASSUME NEW rt, NEW nt, NEW e, Routes(rt, nt, e),
         NEW g, NEW h, Longer(g, h, e), Asked(g, rt, DOMAIN rt), Ordered(g, rt)
  PROVE  Ordered(h, nt)
<1>9. \A n \in DOMAIN h, k \in DOMAIN nt : h[n] = nt[k].id =>
        \/ n \in DOMAIN g /\ k \in DOMAIN rt /\ h[n] = g[n] /\ nt[k] = rt[k]
        \/ n \notin DOMAIN g /\ k = Len(nt) /\ nt[k] = e
  BY WhichPlace
<1> SUFFICES ASSUME NEW n \in DOMAIN h, NEW m \in DOMAIN h, NEW k \in DOMAIN nt, NEW l \in DOMAIN nt,
                    n < m, h[n] = nt[k].id, h[m] = nt[l].id
             PROVE  k < l \/ (k = l /\ nt[k].app = Blank)
  BY DEF Ordered
<1>1. \/ n \in DOMAIN g /\ k \in DOMAIN rt /\ h[n] = g[n] /\ nt[k] = rt[k]
      \/ n \notin DOMAIN g /\ k = Len(nt) /\ nt[k] = e
  BY <1>9
<1>2. \/ m \in DOMAIN g /\ l \in DOMAIN rt /\ h[m] = g[m] /\ nt[l] = rt[l]
      \/ m \notin DOMAIN g /\ l = Len(nt) /\ nt[l] = e
  BY <1>9
<1>3. CASE n \in DOMAIN g /\ m \in DOMAIN g
  BY <1>1, <1>2, <1>3 DEF Ordered
<1>4. CASE n \in DOMAIN g /\ m \notin DOMAIN g
  BY <1>1, <1>2, <1>4 DEF Routes
<1>5. CASE n \notin DOMAIN g
  <2>1. m \notin DOMAIN g /\ n > Len(g) /\ m > Len(g) /\ n \in 1..Len(h) /\ m \in 1..Len(h)
    BY <1>5 DEF Longer
  <2>2. e.app = Blank
    <3> SUFFICES ASSUME e.app # Blank PROVE FALSE
      OBVIOUS
    <3>1. Len(h) <= Len(g) + 1 /\ Len(h) \in Nat /\ Len(g) \in Nat
      BY DEF Longer
    <3> QED BY <2>1, <3>1
  <2> QED BY <1>1, <1>2, <1>5, <2>1, <2>2
<1> QED BY <1>3, <1>4, <1>5

\* Two members of a shard share nothing new.
LEMMA NotSharedMore ==
  ASSUME NEW rt, NEW nt, NEW e, Routes(rt, nt, e),
         NEW g, NEW h, Longer(g, h, e), Asked(g, rt, DOMAIN rt),
         NEW g2, NEW h2, Longer(g2, h2, e), Asked(g2, rt, DOMAIN rt),
         NotShared(g, g2, rt),
         e.app # Blank => ~(Len(h) > Len(g) /\ Len(h2) > Len(g2))
  PROVE  NotShared(h, h2, nt)
<1>9. \A n \in DOMAIN h, k \in DOMAIN nt : h[n] = nt[k].id =>
        \/ n \in DOMAIN g /\ k \in DOMAIN rt /\ h[n] = g[n] /\ nt[k] = rt[k]
        \/ n \notin DOMAIN g /\ k = Len(nt) /\ nt[k] = e
  BY WhichPlace
<1>8. \A n \in DOMAIN h2, k \in DOMAIN nt : h2[n] = nt[k].id =>
        \/ n \in DOMAIN g2 /\ k \in DOMAIN rt /\ h2[n] = g2[n] /\ nt[k] = rt[k]
        \/ n \notin DOMAIN g2 /\ k = Len(nt) /\ nt[k] = e
  BY WhichPlace
<1> SUFFICES ASSUME NEW n \in DOMAIN h, NEW m \in DOMAIN h2, NEW k \in DOMAIN nt,
                    h[n] = nt[k].id, h2[m] = nt[k].id
             PROVE  nt[k].app = Blank
  BY DEF NotShared
<1>1. \/ n \in DOMAIN g /\ k \in DOMAIN rt /\ h[n] = g[n] /\ nt[k] = rt[k]
      \/ n \notin DOMAIN g /\ k = Len(nt) /\ nt[k] = e
  BY <1>9
<1>2. \/ m \in DOMAIN g2 /\ k \in DOMAIN rt /\ h2[m] = g2[m] /\ nt[k] = rt[k]
      \/ m \notin DOMAIN g2 /\ k = Len(nt) /\ nt[k] = e
  BY <1>8
<1>3. CASE k \in DOMAIN rt
  <2>1. k # Len(nt)
    BY <1>3 DEF Routes
  <2> QED BY <1>1, <1>2, <2>1 DEF NotShared
<1>4. CASE k \notin DOMAIN rt
  <2>1. n \notin DOMAIN g /\ m \notin DOMAIN g2 /\ nt[k] = e
    BY <1>1, <1>2, <1>4
  <2>2. Len(h) > Len(g) /\ Len(h2) > Len(g2)
    BY <2>1 DEF Longer
  <2> QED BY <2>1, <2>2
<1> QED BY <1>3, <1>4

\* what else is known of the calls
Calls ==
  \A s \in Subs :
    /\ sub[s].pc = "new" => sub[s].got = << >>
    /\ sub[s].pc = "running" =>
         sub[s].req \in Requests /\ sub[s].since \in Nat /\ sub[s].since <= Len(routed)

WantedBy(s) == WantedOf(routed, sub[s].since, sub[s].req)

SentAsAsked ==
  \A s \in Running :
    /\ Asked(sub[s].got, routed, WantedBy(s))
    /\ sub[s].req.shard = Blank => AllAsked(sub[s].got, routed, WantedBy(s))
    /\ Ordered(sub[s].got, routed)

SentToOne ==
  \A s, t \in Running :
    s # t /\ sub[s].req.shard # Blank /\ SameShard(s, t) => NotShared(sub[s].got, sub[t].got, routed)

SentInv == Calls /\ SentAsAsked /\ SentToOne

\* SendTo keeps it.
LEMMA SentRouted == Books /\ RouterInv /\ Unique /\ SentInv /\ RouterSendTo => SentInv'
<1> SUFFICES ASSUME Books, RouterInv, Unique, SentInv, RouterSendTo PROVE SentInv'
  OBVIOUS
<1> DEFINE e == routing[1]
<1>1. IsEnvelope(e) /\ e.id \notin Ids(routed) /\ Listed(routed) /\ routed' = Append(routed, e)
  <2>1. routing # << >> /\ Listed(routing) /\ Listed(routed) /\ routed' = Append(routed, e)
    BY DEF RouterSendTo, Unique, Lists
  <2>2. PICK S : routing \in Seq(S)
    BY <2>1 DEF Listed, IsSequence
  <2>3. e = Head(routing)
    BY <2>1, <2>2
  <2>4. IsEnvelope(e) /\ e.id \in Ids(routing)
    BY <2>1, <2>3, ListLess
  <2>5. e.id \notin Ids(routed)
    BY <2>4, BinsAre, HeldNow DEF Unique, Apart
  <2> QED BY <2>1, <2>4, <2>5
<1>2. Routes(routed, routed', e)
  BY <1>1, RoutesMore
<1>3. PICK picked \in Picks(e) : \A s \in Subs :
         /\ sub'[s].pc = sub[s].pc /\ sub'[s].req = sub[s].req /\ sub'[s].since = sub[s].since
         /\ Longer(sub[s].got, sub'[s].got, e)
         /\ From(s, e, picked) = {} => sub'[s].got = sub[s].got
         /\ From(s, e, picked) # {} => Len(sub'[s].got) > Len(sub[s].got)
  BY <1>1, GivenMore
<1> HIDE DEF e
<1>4. Len(routed) \in Nat /\ Len(routed') = Len(routed) + 1 /\ DOMAIN routed = 1..Len(routed)
  BY <1>2 DEF Routes
<1>5. Running' = Running /\ Running \subseteq Subs
  BY <1>3 DEF Running
<1>6. Calls'
  <2> SUFFICES ASSUME NEW s \in Subs
               PROVE  /\ sub'[s].pc = "new" => sub'[s].got = << >>
                      /\ sub'[s].pc = "running" =>
                           sub'[s].req \in Requests /\ sub'[s].since \in Nat /\ sub'[s].since <= Len(routed')
    BY DEF Calls
  <2>1. CASE sub[s].pc = "new"
    <3>1. From(s, e, picked) = {}
      BY <2>1, FromItsShard DEF Running
    <3> QED BY <1>3, <2>1, <3>1 DEF SentInv, Calls
  <2>2. CASE sub[s].pc = "running"
    <3>1. sub[s].req \in Requests /\ sub[s].since \in Nat /\ sub[s].since <= Len(routed)
      BY <2>2 DEF SentInv, Calls
    <3>2. sub[s].since <= Len(routed')
      BY <1>4, <3>1
    <3>3. sub'[s].pc = "running" /\ sub'[s].req = sub[s].req /\ sub'[s].since = sub[s].since
      BY <1>3, <2>2
    <3> QED BY <3>1, <3>2, <3>3
  <2>3. CASE sub[s].pc \notin {"new", "running"}
    BY <1>3, <2>3
  <2> QED BY <2>1, <2>2, <2>3
<1>7. ASSUME NEW s \in Running
      PROVE  /\ sub[s].req \in Requests /\ sub[s].since \in Nat /\ sub[s].since <= Len(routed)
             /\ Asked(sub[s].got, routed, WantedBy(s))
             /\ Asked(sub[s].got, routed, DOMAIN routed)
             /\ Len(sub'[s].got) > Len(sub[s].got) => Matches(e, sub[s].req)
             /\ Longer(sub[s].got, sub'[s].got, e)
  <2>1. sub[s].req \in Requests /\ sub[s].since \in Nat /\ sub[s].since <= Len(routed) /\ s \in Subs
    BY DEF SentInv, Calls, Running
  <2>2. Asked(sub[s].got, routed, WantedBy(s))
    BY DEF SentInv, SentAsAsked
  <2>3. Asked(sub[s].got, routed, DOMAIN routed)
    BY <1>4, <2>1, <2>2, AskedRouted DEF WantedBy
  <2>4. Longer(sub[s].got, sub'[s].got, e)
    BY <1>3, <2>1
  <2>5. ASSUME Len(sub'[s].got) > Len(sub[s].got) PROVE Matches(e, sub[s].req)
    <3>1. Len(sub[s].got) \in Nat
      BY <2>4 DEF Longer
    <3>2. From(s, e, picked) # {}
      BY <1>3, <2>1, <2>5, <3>1
    <3>3. PICK x : x \in From(s, e, picked)
      BY <3>2
    <3>4. x[1] \in 1..4 /\ Typed(e, x[1]) = convertFilter(sub[s].req)
      BY <3>3, FromItsShard
    <3> QED BY <1>1, <2>1, <3>4, TypedMatch
  <2> QED BY <2>1, <2>2, <2>3, <2>4, <2>5
<1>8. SentAsAsked'
  <2> SUFFICES ASSUME NEW s \in Running
               PROVE  LET want == WantedOf(routed', sub'[s].since, sub'[s].req)
                      IN  /\ Asked(sub'[s].got, routed', want)
                          /\ sub'[s].req.shard = Blank => AllAsked(sub'[s].got, routed', want)
                          /\ Ordered(sub'[s].got, routed')
    BY <1>5 DEF SentAsAsked, WantedBy
  <2> DEFINE g == sub[s].got
             h == sub'[s].got
             req == sub[s].req
             since == sub[s].since
  <2>1. s \in Subs /\ sub'[s].since = since /\ sub'[s].req = req
    BY <1>3, <1>5
  <2>2. /\ req \in Requests /\ since \in Nat /\ since <= Len(routed) /\ Longer(g, h, e)
        /\ Asked(g, routed, WantedOf(routed, since, req)) /\ Asked(g, routed, DOMAIN routed)
        /\ (Len(h) > Len(g) => Matches(e, req))
    BY <1>7 DEF WantedBy
  <2>3. (req.shard = Blank => AllAsked(g, routed, WantedOf(routed, since, req))) /\ Ordered(g, routed)
    BY DEF SentInv, SentAsAsked, WantedBy
  <2>4. ASSUME req.shard = Blank, Matches(e, req) PROVE Len(h) > Len(g)
    <3>1. PICK n \in 1..4 : Typed(e, n) = convertFilter(req)
      BY <1>1, <2>2, <2>4, TypedMatch
    <3>2. <<n, Blank>> \in From(s, e, picked)
      BY <2>2, <2>4, <3>1, FromNoShard
    <3> QED BY <1>3, <2>1, <3>2
  <2> HIDE DEF g, h, req, since
  <2>5. Asked(h, routed', WantedOf(routed', since, req))
    BY <1>2, <2>2, AskedMore
  <2>6. req.shard = Blank => AllAsked(h, routed', WantedOf(routed', since, req))
    BY <1>2, <2>2, <2>3, <2>4, AllAskedMore
  <2>7. Ordered(h, routed')
    BY <1>2, <2>2, <2>3, OrderedMore
  <2> QED BY <2>1, <2>5, <2>6, <2>7 DEF h
<1>9. SentToOne'
  <2> SUFFICES ASSUME NEW s \in Running, NEW t \in Running, s # t, sub'[s].req.shard # Blank, SameShard(s, t)'
               PROVE  NotShared(sub'[s].got, sub'[t].got, routed')
    BY <1>5 DEF SentToOne
  <2>1. s \in Subs /\ t \in Subs /\ sub[s].req.shard # Blank /\ SameShard(s, t)
    BY <1>3, <1>5 DEF SameShard
  <2>2. NotShared(sub[s].got, sub[t].got, routed)
    BY <2>1 DEF SentInv, SentToOne
  <2>3. ASSUME e.app # Blank
        PROVE  ~(Len(sub'[s].got) > Len(sub[s].got) /\ Len(sub'[t].got) > Len(sub[t].got))
    <3>1. From(s, e, picked) = {} \/ From(t, e, picked) = {}
      BY <1>1, <2>1, <2>3, OneOfShard
    <3>2. Len(sub[s].got) \in Nat /\ Len(sub[t].got) \in Nat
      BY <1>7 DEF Longer
    <3> QED BY <1>3, <2>1, <3>1, <3>2
  <2> DEFINE g == sub[s].got
             h == sub'[s].got
             g2 == sub[t].got
             h2 == sub'[t].got
  <2>4. /\ Longer(g, h, e) /\ Asked(g, routed, DOMAIN routed)
        /\ Longer(g2, h2, e) /\ Asked(g2, routed, DOMAIN routed)
    BY <1>7
  <2>5. NotShared(g, g2, routed) /\ (e.app # Blank => ~(Len(h) > Len(g) /\ Len(h2) > Len(g2)))
    BY <2>2, <2>3
  <2> HIDE DEF g, h, g2, h2
  <2>6. NotShared(h, h2, routed')
    BY <1>2, <2>4, <2>5, NotSharedMore
  <2> QED BY <2>6 DEF h, h2
<1> QED BY <1>6, <1>8, <1>9 DEF SentInv

\* A step that gives nobody anything: who runs has what it had, or has just
\* come and has nothing.
LEMMA SentKept ==
  ASSUME SentInv, Unique, routed' = routed,
         \A s \in Subs :
           \/ /\ sub'[s].pc = sub[s].pc /\ sub'[s].got = sub[s].got
              /\ sub'[s].req = sub[s].req /\ sub'[s].since = sub[s].since
           \/ /\ sub'[s].pc = "running" /\ sub'[s].got = << >>
              /\ sub'[s].req \in Requests /\ sub'[s].since = Len(routed)
           \/ sub'[s].pc = "ended"
  PROVE  SentInv'
<1>1. Len(routed) \in Nat
  <2>1. PICK S : routed \in Seq(S)
    BY DEF Unique, Lists, Listed, IsSequence
  <2> QED BY <2>1
<1>2. Calls'
  BY <1>1 DEF SentInv, Calls
<1>3. DOMAIN << >> = {}
  OBVIOUS
<1>4. ASSUME NEW s \in Running'
      PROVE  s \in Subs /\ \/ s \in Running /\ sub'[s].got = sub[s].got /\ sub'[s].req = sub[s].req /\ sub'[s].since = sub[s].since
                           \/ sub'[s].got = << >> /\ sub'[s].since = Len(routed)
  BY DEF Running
<1>5. SentAsAsked'
  <2> SUFFICES ASSUME NEW s \in Running'
               PROVE  LET want == WantedOf(routed, sub'[s].since, sub'[s].req)
                      IN  /\ Asked(sub'[s].got, routed, want)
                          /\ sub'[s].req.shard = Blank => AllAsked(sub'[s].got, routed, want)
                          /\ Ordered(sub'[s].got, routed)
    BY DEF SentAsAsked, WantedBy
  <2>1. CASE s \in Running /\ sub'[s].got = sub[s].got /\ sub'[s].req = sub[s].req /\ sub'[s].since = sub[s].since
    BY <2>1 DEF SentInv, SentAsAsked, WantedBy
  <2>2. CASE sub'[s].got = << >> /\ sub'[s].since = Len(routed)
    <3>1. WantedOf(routed, sub'[s].since, sub'[s].req) = {}
      BY <1>1, <2>2 DEF WantedOf
    <3>2. DOMAIN sub'[s].got = {}
      BY <1>3, <2>2
    <3> QED BY <3>1, <3>2 DEF Asked, AllAsked, Ordered
  <2> QED BY <1>4, <2>1, <2>2
<1>6. SentToOne'
  <2> SUFFICES ASSUME NEW s \in Running', NEW t \in Running', s # t, sub'[s].req.shard # Blank, SameShard(s, t)'
               PROVE  NotShared(sub'[s].got, sub'[t].got, routed)
    BY DEF SentToOne
  <2>1. CASE sub'[s].got = << >> \/ sub'[t].got = << >>
    BY <1>3, <2>1 DEF NotShared
  <2>2. CASE /\ s \in Running /\ sub'[s].got = sub[s].got /\ sub'[s].req = sub[s].req
             /\ t \in Running /\ sub'[t].got = sub[t].got /\ sub'[t].req = sub[t].req
    BY <2>2 DEF SentInv, SentToOne, SameShard
  <2> QED BY <1>4, <2>1, <2>2
<1> QED BY <1>2, <1>5, <1>6 DEF SentInv

\* No step breaks it.
LEMMA SentStep == Books /\ RouterInv /\ Unique /\ SentInv /\ [Next]_vars => SentInv'
<1> SUFFICES ASSUME Books, RouterInv, Unique, SentInv, [Next]_vars PROVE SentInv'
  OBVIOUS
<1>1. CASE UNCHANGED <<sub, routed>>
  BY <1>1, SentKept
<1>2. ASSUME NEW s \in Subs, Subscribe(s) \/ ClientGone(s) \/ monitorContext(s) \/ sendDataMessage(s) \/ sendDataEnds(s)
      PROVE  SentInv'
  <2>1. sub = [x \in Subs |-> sub[x]] /\ IsCall(sub[s])
    BY DEF Books, CallsTyped
  <2>2. routed' = routed
    BY <1>2 DEF Subscribe, ClientGone, monitorContext, sendDataMessage, sendDataEnds
  <2> DEFINE o == sub[s]
             n == sub'[s]
  <2>3. \A x \in Subs : x # s => sub'[x] = sub[x]
    BY <1>2, <2>1 DEF Subscribe, ClientGone, monitorContext, sendDataMessage, sendDataEnds
  <2>4. \/ n.pc = o.pc /\ n.got = o.got /\ n.req = o.req /\ n.since = o.since
        \/ n.pc = "running" /\ n.got = << >> /\ n.req \in Requests /\ n.since = Len(routed)
        \/ n.pc = "ended"
    <3>1. CASE Subscribe(s)
      <4>1. PICK req \in Requests : sub' = [sub EXCEPT ![s].pc = "running", ![s].req = req, ![s].since = Len(routed)]
        BY <3>1 DEF Subscribe
      <4>2. n = [o EXCEPT !.pc = "running", !.req = req, !.since = Len(routed)]
        BY <2>1, <4>1
      <4>3. o.got = << >>
        BY <3>1 DEF Subscribe, SentInv, Calls
      <4> HIDE DEF n, o
      <4>4. IsCall(o)
        BY <2>1 DEF o
      <4> QED BY <4>2, <4>3, <4>4 DEF IsCall, NoSubscription
    <3>2. CASE ClientGone(s)
      <4>1. n = [o EXCEPT !.gone = TRUE]
        BY <2>1, <3>2 DEF ClientGone
      <4> QED BY <2>1, <4>1 DEF IsCall, NoSubscription
    <3>3. CASE monitorContext(s)
      <4>1. n = [o EXCEPT !.done = TRUE]
        BY <2>1, <3>3 DEF monitorContext
      <4> QED BY <2>1, <4>1 DEF IsCall, NoSubscription
    <3>4. CASE sendDataMessage(s)
      <4>1. n = [o EXCEPT !.diode = DiodeTail(@), !.dropped = Alert(o), !.sent = @ + 1]
        BY <2>1, <3>4 DEF sendDataMessage
      <4> QED BY <2>1, <4>1 DEF IsCall, NoSubscription
    <3>5. CASE sendDataEnds(s)
      <4>1. n = NoSubscription("ended")
        BY <2>1, <3>5 DEF sendDataEnds
      <4> QED BY <4>1 DEF NoSubscription
    <3> QED BY <1>2, <3>1, <3>2, <3>3, <3>4, <3>5
  <2> QED BY <2>2, <2>3, <2>4, SentKept
<1>3. CASE RouterSendTo
  BY <1>3, SentRouted
<1>4. \/ UNCHANGED <<sub, routed>>
      \/ \E s \in Subs : Subscribe(s) \/ ClientGone(s) \/ monitorContext(s) \/ sendDataMessage(s) \/ sendDataEnds(s)
      \/ RouterSendTo
  BY DEF Next, vars, egress, Opened, StreamGone, PusherReceives, PusherEOF, PusherMonitor, PusherEnds,
         BatchSenderReceives, BatchSenderSets, BatchSenderEnds, Start, MarshalFails,
         UDPRead, UDPFails, UDPVerify, UDPSet
<1> QED BY <1>1, <1>2, <1>3, <1>4

\* Every subscription is given what it asked for, in order, and each envelope
\* of an application once and to one member of a shard, wherever it came in
\* and whatever goes on at the same time: for any number of streams, datagrams,
\* subscriptions, requests and envelopes, and diodes of any size.
THEOREM SentAsAskedOnce == Spec => []SentToSubscriptionsOnce
<1>1. Init => Books /\ RouterInv /\ Unique /\ SentInv
  <2> SUFFICES ASSUME Init PROVE Books /\ RouterInv /\ Unique /\ SentInv
    OBVIOUS
  <2>1. Books /\ RouterInv
    BY RouterInit
  <2>2. Running = {} /\ \A s \in Subs : sub[s].pc = "new" /\ sub[s].got = << >>
    BY DEF Init, Running, NoSubscription
  <2> QED BY <2>1, <2>2, UniqueInit DEF SentInv, Calls, SentAsAsked, SentToOne
<1>2. SentInv => SentToSubscriptionsOnce
  <2> SUFFICES ASSUME SentInv PROVE SentToSubscriptionsOnce
    OBVIOUS
  <2>1. ASSUME NEW s \in Running PROVE WantedBy(s) = Wanted(s)
    BY DEF WantedBy, WantedOf, Wanted
  <2>2. ASSUME NEW s \in Running
        PROVE  /\ \A n \in DOMAIN sub[s].got : \E k \in Wanted(s) : Given(s, n, k)
               /\ sub[s].req.shard = Blank =>
                    \A k \in Wanted(s) : \E n \in DOMAIN sub[s].got : Given(s, n, k)
               /\ \A n, m \in DOMAIN sub[s].got, k, l \in DOMAIN routed :
                    n < m /\ Given(s, n, k) /\ Given(s, m, l) => k < l \/ (k = l /\ routed[k].app = Blank)
               /\ sub[s].req.shard # Blank => \A t \in Running \ {s} : SameShard(s, t) =>
                    \A n \in DOMAIN sub[s].got, m \in DOMAIN sub[t].got, k \in DOMAIN routed :
                       Given(s, n, k) /\ Given(t, m, k) => routed[k].app = Blank
    <3>1. /\ Asked(sub[s].got, routed, Wanted(s))
          /\ sub[s].req.shard = Blank => AllAsked(sub[s].got, routed, Wanted(s))
          /\ Ordered(sub[s].got, routed)
      BY <2>1 DEF SentInv, SentAsAsked
    <3>2. \A n \in DOMAIN sub[s].got : \E k \in Wanted(s) : Given(s, n, k)
      BY <3>1 DEF Asked, Given
    <3>3. sub[s].req.shard = Blank => \A k \in Wanted(s) : \E n \in DOMAIN sub[s].got : Given(s, n, k)
      BY <3>1 DEF AllAsked, Given
    <3>4. \A n, m \in DOMAIN sub[s].got, k, l \in DOMAIN routed :
            n < m /\ Given(s, n, k) /\ Given(s, m, l) => k < l \/ (k = l /\ routed[k].app = Blank)
      BY <3>1 DEF Ordered, Given
    <3>5. ASSUME sub[s].req.shard # Blank, NEW t \in Running \ {s}, SameShard(s, t)
          PROVE  \A n \in DOMAIN sub[s].got, m \in DOMAIN sub[t].got, k \in DOMAIN routed :
                       Given(s, n, k) /\ Given(t, m, k) => routed[k].app = Blank
      <4>1. NotShared(sub[s].got, sub[t].got, routed)
        BY <3>5 DEF SentInv, SentToOne
      <4> QED BY <4>1 DEF NotShared, Given
    <3> QED BY <3>2, <3>3, <3>4, <3>5
  <2> QED BY <2>2 DEF SentToSubscriptionsOnce, Blank
<1> QED BY <1>1, <1>2, BooksStep, RouterStep, UniqueStep, SentStep, PTL DEF Spec

(***************************************************************************)
(* How a doppler comes up.  What main has left to do says what it has done: *)
(* a port whose "listen" is no longer there was opened, and once a node is   *)
(* announced no step that reads the configuration is left.  The goroutines  *)
(* beside main only use the interval, and Parse comes before all of them.   *)
(***************************************************************************)
Ops == {"parse", "client credentials", "server credentials", "try", "listen", "go", "serve",
        "announce", "notify", "receive", "exit", "ticker", "monitor", "watch"}
Args == Goroutines \cup {"", "dropsonde", "etcd", "meta", "legacy", "egress"}
Steps == [op : Ops, x : Args]
Others == Goroutines \ {"main"}

\* The goroutines a doppler starts, and the ports that they open.
Started == {"start", "health", "grpc", "watcher", "udp", "websocket", "uptime", "openfd", "profiler"}
Late == {"udp", "profiler"}

\* The steps that read what the configuration names, except for the interval and
\* the size of the buffers.
Reads == {"parse", "client credentials", "server credentials", "listen"}

\* What a goroutine beside main runs.
Aside(q) ==
  /\ q \in Seq(Steps)
  /\ \A i \in 1..Len(q) : /\ q[i].op \in {"go", "listen", "serve", "ticker", "monitor", "watch"}
                          /\ q[i].op = "go" => q[i].x \in Started
                          /\ q[i].op = "listen" => q[i].x \in Late

\* What main runs.
IsMain(q) ==
  /\ q \in Seq(Steps)
  /\ \A i \in 1..Len(q) : q[i].op = "go" => q[i].x \in Started

Without(q, ops) == \A i \in 1..Len(q) : q[i].op \notin ops

\* A port is opened before anything is announced.
OpensFirst(q, port) ==
  \E i \in 1..Len(q) : /\ q[i] = [op |-> "listen", x |-> port]
                       /\ \A j \in 1..i : q[j].op # "announce"

\* Nothing is read after something was announced.
ReadsFirst(q) ==
  \A i, j \in 1..Len(q) : i < j /\ q[i].op = "announce" => q[j].op \notin Reads

\* The configuration is parsed first, and once.
ParsesFirst(q) == Len(q) > 0 /\ q[1].op = "parse" /\ \A i \in 2..Len(q) : q[i].op # "parse"

UpOf(main, port) == port \in opened \/ (nodes = {} /\ OpensFirst(main, port))

\* Every goroutine has a program of its kind left, ...
Programs ==
  /\ todo \in [Goroutines -> Seq(Steps)]
  /\ \A g \in Others : Aside(todo[g])
  /\ IsMain(todo["main"]) /\ ReadsFirst(todo["main"])

\* ... the interval is known and positive, unless it was too large, or nothing but main has started, ...
GoodTimer == timer = "positive" \/ Unvalidated(conf)
TimerKnown ==
  \/ GoodTimer /\ Without(todo["main"], {"parse"})
  \/ nodes = {} /\ ParsesFirst(todo["main"]) /\ \A g \in Others : todo[g] = <<>>

\* ... and what is announced was read and opened before.
OpenedBefore ==
  /\ nodes # {} => Without(todo["main"], Reads) /\ (ended = "configuration" => Unvalidated(conf))
  /\ ended = "no" => /\ UpOf(todo["main"], "grpc")
                     /\ UpOf(todo["main"], "websocket") \/ "websocket" \in gone

ComingUp == Programs /\ TimerKnown /\ OpenedBefore

StartInv == proc = "doppler" => ComingUp

-----------------------------------------------------------------------------
\* A step at the end of a program.
LEMMA OneMore ==
  ASSUME NEW q \in Seq(Steps), NEW op \in Ops, NEW x \in Args
  PROVE  LET r == q \o Step(op, x)
         IN  /\ r \in Seq(Steps) /\ Len(r) = Len(q) + 1
             /\ r[Len(q) + 1] = [op |-> op, x |-> x]
             /\ \A i \in 1..Len(q) : r[i] = q[i]
<1> DEFINE e == [op |-> op, x |-> x]
<1>1. e \in Steps
  BY DEF Steps
<1> HIDE DEF e
<1>2. /\ q \o <<e>> \in Seq(Steps) /\ Len(q \o <<e>>) = Len(q) + 1
      /\ (q \o <<e>>)[Len(q) + 1] = e
      /\ \A i \in 1..Len(q) : (q \o <<e>>)[i] = q[i]
  BY <1>1
<1> QED BY <1>2 DEF Step, e

\* The beginning of a program of main, as far as nothing is announced.
Opening(q) == IsMain(q) /\ ParsesFirst(q) /\ Without(q, {"announce"})

\* A program of main, as far as something may be.
Announcing(q) == /\ IsMain(q) /\ ParsesFirst(q) /\ ReadsFirst(q)
                 /\ OpensFirst(q, "grpc") /\ OpensFirst(q, "websocket")

\* The first part of a program is continued ...
LEMMA OpeningMore ==
  ASSUME NEW q, Opening(q), NEW op \in Ops \ {"parse", "announce"}, NEW x \in Args,
         op = "go" => x \in Started
  PROVE  /\ Opening(q \o Step(op, x))
         /\ \A port \in {"grpc", "websocket"} :
              OpensFirst(q, port) \/ (op = "listen" /\ x = port) => OpensFirst(q \o Step(op, x), port)
<1> DEFINE r == q \o Step(op, x)
           n == Len(q)
<1>1. /\ q \in Seq(Steps) /\ r \in Seq(Steps) /\ n \in Nat /\ Len(r) = n + 1
      /\ r[n + 1] = [op |-> op, x |-> x]
      /\ \A i \in 1..n : r[i] = q[i]
  BY OneMore DEF Opening, IsMain
<1>2. r[n + 1].op = op /\ r[n + 1].x = x
  BY <1>1
<1> HIDE DEF r, n
<1>3. \A i \in 1..Len(r) : i \in 1..n \/ i = n + 1
  BY <1>1
<1>4. n > 0 /\ r[1].op = "parse"
  BY <1>1 DEF Opening, ParsesFirst, n
<1>5. IsMain(r)
  BY <1>1, <1>2, <1>3 DEF Opening, IsMain, n
<1>6. \A i \in 2..Len(r) : r[i].op # "parse"
  BY <1>1, <1>2, <1>3 DEF Opening, ParsesFirst, n
<1>7. Without(r, {"announce"})
  BY <1>1, <1>2, <1>3 DEF Opening, Without, n
<1>8. Opening(r)
  BY <1>1, <1>4, <1>5, <1>6, <1>7 DEF Opening, ParsesFirst
<1>9. ASSUME NEW port \in {"grpc", "websocket"}, OpensFirst(q, port) PROVE OpensFirst(r, port)
  <2>1. PICK i \in 1..n : q[i] = [op |-> "listen", x |-> port]
    BY <1>9 DEF OpensFirst, n
  <2>2. i \in 1..Len(r) /\ r[i] = [op |-> "listen", x |-> port]
    BY <1>1, <2>1
  <2>3. \A j \in 1..i : r[j].op # "announce"
    BY <1>1, <1>7, <2>2 DEF Without
  <2> QED BY <2>2, <2>3 DEF OpensFirst
<1>10. ASSUME NEW port \in {"grpc", "websocket"}, op = "listen", x = port PROVE OpensFirst(r, port)
  BY <1>1, <1>7, <1>10 DEF OpensFirst, Without
<1> QED BY <1>8, <1>9, <1>10 DEF r

\* ... and so is the second.
LEMMA AnnouncingMore ==
  ASSUME NEW q, Announcing(q), NEW op \in Ops \ Reads, NEW x \in Args,
         op = "go" => x \in Started
  PROVE  Announcing(q \o Step(op, x))
<1> DEFINE r == q \o Step(op, x)
           n == Len(q)
<1>1. /\ q \in Seq(Steps) /\ r \in Seq(Steps) /\ n \in Nat /\ Len(r) = n + 1
      /\ r[n + 1] = [op |-> op, x |-> x]
      /\ \A i \in 1..n : r[i] = q[i]
  BY OneMore DEF Announcing, IsMain
<1>2. r[n + 1].op = op /\ r[n + 1].x = x
  BY <1>1
<1>20. op # "parse" /\ op \notin Reads
  BY DEF Reads
<1> HIDE DEF r, n
<1>3. \A i \in 1..Len(r) : i \in 1..n \/ i = n + 1
  BY <1>1
<1>4. n > 0 /\ r[1].op = "parse"
  BY <1>1 DEF Announcing, ParsesFirst, n
<1>5. IsMain(r)
  BY <1>1, <1>2, <1>20, <1>3 DEF Announcing, IsMain, n
<1>6. \A i \in 2..Len(r) : r[i].op # "parse"
  BY <1>1, <1>2, <1>20, <1>3 DEF Announcing, ParsesFirst, n
<1>7. ReadsFirst(r)
  <2> SUFFICES ASSUME NEW i \in 1..Len(r), NEW j \in 1..Len(r), i < j, r[i].op = "announce"
               PROVE  r[j].op \notin Reads
    BY DEF ReadsFirst
  <2>1. CASE j = n + 1
    BY <1>2, <1>20, <2>1
  <2>2. CASE j \in 1..n
    BY <1>1, <2>2 DEF Announcing, ReadsFirst, n
  <2> QED BY <1>3, <2>1, <2>2
<1>8. ASSUME NEW port, OpensFirst(q, port) PROVE OpensFirst(r, port)
  <2>1. PICK i \in 1..n : /\ q[i] = [op |-> "listen", x |-> port]
                          /\ \A j \in 1..i : q[j].op # "announce"
    BY <1>8 DEF OpensFirst, n
  <2>2. i \in 1..Len(r) /\ r[i] = [op |-> "listen", x |-> port]
    BY <1>1, <2>1
  <2>3. \A j \in 1..i : r[j].op # "announce"
    BY <1>1, <2>1
  <2> QED BY <2>2, <2>3 DEF OpensFirst
<1>9. Announcing(r)
  BY <1>1, <1>4, <1>5, <1>6, <1>7, <1>8 DEF Announcing, ParsesFirst
<1> QED BY <1>9 DEF r

\* Two steps at the end of a program.
LEMMA TwoMore ==
  ASSUME NEW q \in Seq(Steps), NEW a \in Ops, NEW b \in Ops, NEW x \in Args, NEW y \in Args
  PROVE  q \o (Step(a, x) \o Step(b, y)) = q \o Step(a, x) \o Step(b, y)
<1> DEFINE e == [op |-> a, x |-> x]
           f == [op |-> b, x |-> y]
<1>1. e \in Steps /\ f \in Steps
  BY DEF Steps
<1> HIDE DEF e, f
<1>2. q \o (<<e>> \o <<f>>) = q \o <<e>> \o <<f>>
  BY <1>1
<1> QED BY <1>2 DEF Step, e, f

\* The program of doppler's main: the ports it announces are opened first, and
\* nothing is read from the configuration afterwards.
LEMMA MainProgram ==
  ASSUME NEW c
  PROVE  Announcing(DopplerMain(c))
<1> DEFINE p1 == Step("parse", "")
           p2 == p1 \o Step("try", "dropsonde")
           p3 == p2 \o Step("client credentials", "")
           p4 == p3 \o Step("listen", "health")
           p5 == p4 \o Step("go", "health")
           p6 == p5 \o When(c.announce \/ c.drains, connectToEtcd)
           p7 == p6 \o Step("server credentials", "")
           p8 == p7 \o Step("listen", "grpc")
           p9 == p8 \o Step("listen", "websocket")
           q0 == p9 \o Step("go", "start")
           A1 == Step("announce", "meta")
           A2 == Step("announce", "legacy")
           q1 == q0 \o When(c.announce, A1 \o A2)
           q2 == q1 \o Step("go", "profiler")
           q3 == q2 \o Step("notify", "")
           q4 == q3 \o Step("receive", "")
           q5 == q4 \o Step("exit", "")
<1>1. Opening(p1)
  <2> DEFINE e == [op |-> "parse", x |-> ""]
  <2>1. e \in Steps /\ e.op = "parse"
    BY DEF Steps, Ops, Args, Goroutines
  <2> HIDE DEF e
  <2>2. <<e>> \in Seq(Steps) /\ Len(<<e>>) = 1 /\ <<e>>[1] = e
    BY <2>1
  <2>3. Opening(<<e>>)
    BY <2>1, <2>2 DEF Opening, IsMain, ParsesFirst, Without
  <2> QED BY <2>3 DEF Step, e
<1> HIDE DEF p1
<1>2. Opening(p2)
  BY <1>1, OpeningMore DEF Ops, Args, Goroutines
<1> HIDE DEF p2
<1>3. Opening(p3)
  BY <1>2, OpeningMore DEF Ops, Args, Goroutines
<1> HIDE DEF p3
<1>4. Opening(p4)
  BY <1>3, OpeningMore DEF Ops, Args, Goroutines
<1> HIDE DEF p4
<1>5. Opening(p5)
  BY <1>4, OpeningMore DEF Ops, Args, Started, Goroutines
<1>50. p4 \o Step("go", "health") = p3 \o HealthEndpoint
  <2>1. p3 \in Seq(Steps)
    BY <1>3 DEF Opening, IsMain
  <2>2. "listen" \in Ops /\ "go" \in Ops /\ "health" \in Args
    BY DEF Ops, Args, Goroutines
  <2> QED BY <2>1, <2>2, TwoMore DEF HealthEndpoint, p4
<1> HIDE DEF p5
<1>6. Opening(p6)
  <2>1. CASE c.announce \/ c.drains
    <3>1. p6 = p5 \o Step("try", "etcd")
      BY <2>1 DEF When, connectToEtcd
    <3> QED BY <1>5, <3>1, OpeningMore DEF Ops, Args, Goroutines
  <2>2. CASE ~(c.announce \/ c.drains)
    <3>1. p6 = p5 \o <<>>
      BY <2>2 DEF When
    <3>2. p5 \o <<>> = p5
      BY <1>5 DEF Opening, IsMain
    <3> QED BY <1>5, <3>1, <3>2
  <2> QED BY <2>1, <2>2
<1>60. p6 = DopplerSetup(c)
  BY <1>50 DEF DopplerSetup, Client, p1, p2, p3, p5
<1> HIDE DEF p6
<1>7. Opening(p7)
  BY <1>6, OpeningMore DEF Ops, Args, Goroutines
<1> HIDE DEF p7
<1>8. Opening(p8) /\ OpensFirst(p8, "grpc")
  BY <1>7, OpeningMore DEF Ops, Args, Goroutines
<1> HIDE DEF p8
<1>9. Opening(p9) /\ OpensFirst(p9, "grpc") /\ OpensFirst(p9, "websocket")
  BY <1>8, OpeningMore DEF Ops, Args, Goroutines
<1> HIDE DEF p9
<1>10. Announcing(p9)
  BY <1>9 DEF Announcing, Opening, ReadsFirst, Without
<1>11. Announcing(q0)
  BY <1>10, AnnouncingMore DEF Ops, Args, Started, Goroutines, Reads
<1> HIDE DEF q0
<1>12. Announcing(q1)
  <2>1. CASE c.announce
    <3>1. q1 = q0 \o (A1 \o A2)
      BY <2>1 DEF When
    <3>2. q0 \o (A1 \o A2) = q0 \o A1 \o A2
      <4>1. q0 \in Seq(Steps)
        BY <1>11 DEF Announcing, IsMain
      <4>2. "announce" \in Ops /\ "meta" \in Args /\ "legacy" \in Args
        BY DEF Ops, Args
      <4> QED BY <4>1, <4>2, TwoMore
    <3>3. Announcing(q0 \o A1)
      BY <1>11, AnnouncingMore DEF Ops, Args, Goroutines, Reads
    <3>4. Announcing(q0 \o A1 \o A2)
      BY <3>3, AnnouncingMore DEF Ops, Args, Goroutines, Reads
    <3> QED BY <3>1, <3>2, <3>4
  <2>2. CASE ~c.announce
    <3>1. q1 = q0 \o <<>>
      BY <2>2 DEF When
    <3>2. q0 \o <<>> = q0
      BY <1>11 DEF Announcing, IsMain
    <3> QED BY <1>11, <3>1, <3>2
  <2> QED BY <2>1, <2>2
<1> HIDE DEF q1
<1>13. Announcing(q2)
  BY <1>12, AnnouncingMore DEF Ops, Args, Started, Goroutines, Reads
<1> HIDE DEF q2
<1>14. Announcing(q3)
  BY <1>13, AnnouncingMore DEF Ops, Args, Goroutines, Reads
<1> HIDE DEF q3
<1>15. Announcing(q4)
  BY <1>14, AnnouncingMore DEF Ops, Args, Goroutines, Reads
<1>16. q4 = q2 \o Interrupted
  <2>1. q2 \in Seq(Steps)
    BY <1>13 DEF Announcing, IsMain
  <2>2. "notify" \in Ops /\ "receive" \in Ops /\ "" \in Args
    BY DEF Ops, Args
  <2> QED BY <2>1, <2>2, TwoMore DEF Interrupted, q3
<1> HIDE DEF q4
<1>17. Announcing(q5)
  BY <1>15, AnnouncingMore DEF Ops, Args, Goroutines, Reads
<1>18. q5 = DopplerMain(c)
  BY <1>60, <1>16 DEF DopplerMain, Server, p7, p8, p9, q0, q1, q2
<1> QED BY <1>17, <1>18

\* The programs of the other goroutines.
LEMMA AsideStep ==
  ASSUME NEW op \in {"go", "listen", "serve", "ticker", "monitor", "watch"}, NEW x \in Args,
         op = "go" => x \in Started, op = "listen" => x \in Late
  PROVE  Aside(Step(op, x))
<1> DEFINE e == [op |-> op, x |-> x]
<1>1. e \in Steps /\ e.op = op /\ e.x = x
  BY DEF Steps, Ops, Args, Goroutines
<1> HIDE DEF e
<1>2. <<e>> \in Seq(Steps) /\ Len(<<e>>) = 1 /\ <<e>>[1] = e
  BY <1>1
<1>3. Aside(<<e>>)
  BY <1>1, <1>2 DEF Aside
<1> QED BY <1>3 DEF Step, e

\* One part after another.
LEMMA AsideConcat ==
  ASSUME NEW p, NEW q, Aside(p), Aside(q)
  PROVE  Aside(p \o q)
<1>1. /\ p \in Seq(Steps) /\ q \in Seq(Steps)
      /\ p \o q \in Seq(Steps) /\ Len(p \o q) = Len(p) + Len(q)
  BY DEF Aside
<1>2. ASSUME NEW i \in 1..Len(p \o q)
      PROVE  /\ (p \o q)[i].op \in {"go", "listen", "serve", "ticker", "monitor", "watch"}
             /\ (p \o q)[i].op = "go" => (p \o q)[i].x \in Started
             /\ (p \o q)[i].op = "listen" => (p \o q)[i].x \in Late
  <2>1. CASE i \in 1..Len(p)
    <3>1. (p \o q)[i] = p[i]
      BY <1>1, <2>1
    <3> QED BY <2>1, <3>1 DEF Aside
  <2>2. CASE i \notin 1..Len(p)
    <3>1. (p \o q)[i] = q[i - Len(p)] /\ i - Len(p) \in 1..Len(q)
      BY <1>1, <2>2
    <3> QED BY <3>1 DEF Aside
  <2> QED BY <2>1, <2>2
<1> QED BY <1>1, <1>2 DEF Aside

\* Nothing left to do.
LEMMA AsideNone == Aside(<<>>)
BY DEF Aside

\* All of doppler's goroutines but main have such programs.
LEMMA AsidePrograms ==
  ASSUME NEW g \in Started
  PROVE  Aside(Code(g))
<1> USE AsideStep, AsideConcat, AsideNone
<1>1. CASE g = "start"
  <2>1. \A h \in Started : h \in Args /\ Aside(Step("go", h))
    BY DEF Args, Started, Goroutines
  <2>2. Aside(Step("go", "grpc"))
    BY <2>1 DEF Started
  <2>3. Aside(When(conf.drains, Step("go", "watcher")))
    BY <2>1 DEF Started, When
  <2>4. Aside(Step("go", "udp")) /\ Aside(Step("go", "websocket"))
        /\ Aside(Step("go", "uptime")) /\ Aside(Step("go", "openfd"))
    BY <2>1 DEF Started
  <2>5. Aside(DopplerStart(conf))
    BY <2>2, <2>3, <2>4 DEF DopplerStart
  <2> QED BY <1>1, <2>5 DEF Code
<1>2. CASE g \in {"health", "grpc", "websocket"}
  <2>1. Aside(Step("serve", g)) /\ g # "start"
    BY <1>2 DEF Args, Goroutines
  <2> QED BY <1>2, <2>1 DEF Code
<1>3. CASE g = "udp"
  <2>1. Aside(Step("listen", g) \o Step("serve", g))
    BY <1>3 DEF Args, Goroutines, Late
  <2> QED BY <1>3, <2>1 DEF Code
<1>4. CASE g \in {"uptime", "openfd"}
  <2>1. Aside(Monitor)
    BY DEF Monitor, Args
  <2> QED BY <1>4, <2>1 DEF Code
<1>5. CASE g = "profiler"
  <2>1. Aside(Profiler)
    BY DEF Profiler, Args, Goroutines, Late
  <2> QED BY <1>5, <2>1 DEF Code
<1>6. CASE g = "watcher"
  <2>1. Aside(Step("watch", ""))
    BY DEF Args
  <2> QED BY <1>6, <2>1 DEF Code
<1> QED BY <1>1, <1>2, <1>3, <1>4, <1>5, <1>6 DEF Started

-----------------------------------------------------------------------------
\* What is left of a program after its first step.
LEMMA TailOf ==
  ASSUME NEW q \in Seq(Steps), q # <<>>
  PROVE  /\ Tail(q) \in Seq(Steps) /\ Len(q) \in Nat \ {0} /\ Len(Tail(q)) = Len(q) - 1
         /\ \A i \in 1..Len(Tail(q)) : Tail(q)[i] = q[i + 1] /\ i + 1 \in 1..Len(q)
         /\ Head(q) = q[1] /\ Head(q) \in Steps
OBVIOUS

\* What main has left after a step.
LEMMA TailMain ==
  ASSUME NEW q, IsMain(q), ReadsFirst(q), q # <<>>
  PROVE  /\ IsMain(Tail(q)) /\ ReadsFirst(Tail(q))
         /\ \A ops : Without(q, ops) => Without(Tail(q), ops) /\ Head(q).op \notin ops
         /\ ParsesFirst(q) => Without(Tail(q), {"parse"}) /\ Head(q).op = "parse"
         /\ Head(q).op = "announce" => Without(Tail(q), Reads)
         /\ Head(q).op = "go" => Head(q).x \in Started
         /\ Head(q).op \in Ops
<1> DEFINE t == Tail(q)
<1>1. /\ q \in Seq(Steps)
      /\ t \in Seq(Steps) /\ Len(q) \in Nat \ {0} /\ Len(t) = Len(q) - 1
      /\ \A i \in 1..Len(t) : t[i] = q[i + 1] /\ i + 1 \in 1..Len(q)
      /\ Head(q) = q[1] /\ Head(q) \in Steps /\ 1 \in 1..Len(q)
  BY TailOf DEF IsMain
<1> HIDE DEF t
<1>2. IsMain(t)
  BY <1>1 DEF IsMain
<1>3. ReadsFirst(t)
  <2> SUFFICES ASSUME NEW i \in 1..Len(t), NEW j \in 1..Len(t), i < j, t[i].op = "announce"
               PROVE  t[j].op \notin Reads
    BY DEF ReadsFirst
  <2>1. i + 1 < j + 1 /\ q[i + 1].op = "announce"
    BY <1>1
  <2>2. q[j + 1].op \notin Reads
    BY <1>1, <2>1 DEF ReadsFirst
  <2> QED BY <1>1, <2>2
<1>4. ASSUME NEW ops, Without(q, ops) PROVE Without(t, ops) /\ Head(q).op \notin ops
  BY <1>1, <1>4 DEF Without
<1>5. ASSUME ParsesFirst(q) PROVE Without(t, {"parse"}) /\ Head(q).op = "parse"
  <2>1. \A i \in 1..Len(t) : i + 1 \in 2..Len(q)
    BY <1>1
  <2>2. \A i \in 1..Len(t) : t[i].op # "parse"
    BY <1>1, <1>5, <2>1 DEF ParsesFirst
  <2> QED BY <1>1, <1>5, <2>2 DEF Without, ParsesFirst
<1>6. ASSUME Head(q).op = "announce" PROVE Without(t, Reads)
  <2>1. \A i \in 1..Len(t) : 1 < i + 1
    BY <1>1
  <2> QED BY <1>1, <1>6, <2>1 DEF ReadsFirst, Without
<1>7. Head(q).op = "go" => Head(q).x \in Started
  BY <1>1 DEF IsMain
<1>8. Head(q).op \in Ops
  BY <1>1 DEF Steps
<1> QED BY <1>2, <1>3, <1>4, <1>5, <1>6, <1>7, <1>8 DEF t

\* A port is opened now, or later and still before the announcement.
LEMMA TailOpens ==
  ASSUME NEW q \in Seq(Steps), q # <<>>, NEW port, OpensFirst(q, port)
  PROVE  /\ Head(q).op # "announce"
         /\ Head(q) # [op |-> "listen", x |-> port] => OpensFirst(Tail(q), port)
<1> DEFINE t == Tail(q)
<1>1. /\ t \in Seq(Steps) /\ Len(q) \in Nat \ {0} /\ Len(t) = Len(q) - 1
      /\ \A i \in 1..Len(t) : t[i] = q[i + 1] /\ i + 1 \in 1..Len(q)
      /\ Head(q) = q[1]
  BY TailOf
<1> HIDE DEF t
<1>2. PICK i \in 1..Len(q) : /\ q[i] = [op |-> "listen", x |-> port]
                             /\ \A j \in 1..i : q[j].op # "announce"
  BY DEF OpensFirst
<1>3. 1 \in 1..i
  BY <1>1, <1>2
<1>4. Head(q).op # "announce"
  BY <1>1, <1>2, <1>3
<1>5. ASSUME Head(q) # [op |-> "listen", x |-> port] PROVE OpensFirst(t, port)
  <2>1. i # 1
    BY <1>1, <1>2, <1>5
  <2>2. i - 1 \in 1..Len(t) /\ (i - 1) + 1 = i
    BY <1>1, <1>2, <2>1
  <2>3. t[i - 1] = [op |-> "listen", x |-> port]
    BY <1>1, <1>2, <2>2
  <2>4. \A j \in 1..(i - 1) : j \in 1..Len(t) /\ j + 1 \in 1..i
    BY <1>1, <2>2
  <2>5. \A j \in 1..(i - 1) : t[j].op # "announce"
    BY <1>1, <1>2, <2>4
  <2> QED BY <2>2, <2>3, <2>5 DEF OpensFirst
<1> QED BY <1>4, <1>5 DEF t

\* What another goroutine has left after a step.
LEMMA TailAside ==
  ASSUME NEW q, Aside(q), q # <<>>
  PROVE  /\ Aside(Tail(q))
         /\ Head(q).op \in {"go", "listen", "serve", "ticker", "monitor", "watch"}
         /\ Head(q).op = "go" => Head(q).x \in Started
         /\ Head(q).op = "listen" => Head(q).x \in Late
<1> DEFINE t == Tail(q)
<1>1. /\ q \in Seq(Steps)
      /\ t \in Seq(Steps) /\ Len(q) \in Nat \ {0} /\ Len(t) = Len(q) - 1
      /\ \A i \in 1..Len(t) : t[i] = q[i + 1] /\ i + 1 \in 1..Len(q)
      /\ Head(q) = q[1] /\ 1 \in 1..Len(q)
  BY TailOf DEF Aside
<1> HIDE DEF t
<1>2. Aside(t)
  BY <1>1 DEF Aside
<1> QED BY <1>1, <1>2 DEF Aside, t

-----------------------------------------------------------------------------
\* A goroutine takes its next step: what the step means is left to its action.
LEMMA Advanced ==
  ASSUME ComingUp, NEW g \in Goroutines, todo[g] # <<>>, Advance(g)
  PROVE  /\ Programs'
         /\ \A ops : Without(todo["main"], ops) => Without(todo["main"], ops)'
         /\ Head(todo[g]).op # "parse" =>
              GoodTimer /\ Without(todo["main"], {"parse"}) /\ Without(todo["main"], {"parse"})'
         /\ \A port : OpensFirst(todo["main"], port) =>
              \/ OpensFirst(todo["main"], port)'
              \/ g = "main" /\ Head(todo["main"]) = [op |-> "listen", x |-> port]
<1> DEFINE main == todo["main"]
<1>1. "main" \in Goroutines /\ Others \subseteq Goroutines /\ "main" \notin Others
  BY DEF Goroutines, Others
<1>2. /\ todo \in [Goroutines -> Seq(Steps)]
      /\ \A h \in Others : Aside(todo[h])
      /\ IsMain(main) /\ ReadsFirst(main)
  BY DEF ComingUp, Programs
<1>3. todo' = [todo EXCEPT ![g] = Tail(todo[g])]
  BY DEF Advance
<1>4. CASE g = "main"
  <2>1. /\ todo' \in [Goroutines -> Seq(Steps)]
        /\ todo'["main"] = Tail(main) /\ \A h \in Others : todo'[h] = todo[h]
    <3>1. Tail(main) \in Seq(Steps)
      BY <1>1, <1>2, <1>4, TailOf
    <3> QED BY <1>1, <1>2, <1>3, <1>4, <3>1
  <2>2. main # <<>> /\ main \in Seq(Steps)
    BY <1>1, <1>2, <1>4
  <2> HIDE DEF main
  <2>3. /\ IsMain(Tail(main)) /\ ReadsFirst(Tail(main))
        /\ \A ops : Without(main, ops) => Without(Tail(main), ops)
        /\ ParsesFirst(main) => Head(main).op = "parse"
    BY <1>2, <2>2, TailMain
  <2>4. Programs'
    BY <1>2, <2>1, <2>3 DEF Programs
  <2>5. \A ops : Without(main, ops) => Without(todo["main"], ops)'
    BY <2>1, <2>3 DEF Without
  <2>6. Head(todo[g]).op # "parse" => GoodTimer /\ Without(main, {"parse"})
    BY <1>4, <2>3 DEF ComingUp, TimerKnown, main
  <2>7. ASSUME NEW port, OpensFirst(main, port), Head(main) # [op |-> "listen", x |-> port]
        PROVE  OpensFirst(todo["main"], port)'
    <3>1. OpensFirst(Tail(main), port)
      BY <2>2, <2>7, TailOpens
    <3> QED BY <2>1, <3>1 DEF OpensFirst
  <2> QED BY <1>4, <2>4, <2>5, <2>6, <2>7 DEF main
<1>5. CASE g # "main"
  <2>1. g \in Others
    BY <1>5 DEF Others
  <2>2. Aside(todo[g]) /\ todo[g] \in Seq(Steps)
    BY <1>2, <2>1
  <2>3. Aside(Tail(todo[g])) /\ Tail(todo[g]) \in Seq(Steps)
    BY <2>2, TailAside, TailOf
  <2>4. /\ todo' \in [Goroutines -> Seq(Steps)] /\ todo'["main"] = main
        /\ \A h \in Others : todo'[h] = IF h = g THEN Tail(todo[g]) ELSE todo[h]
    BY <1>1, <1>2, <1>3, <1>5, <2>3
  <2> HIDE DEF main
  <2>5. \A h \in Others : Aside(todo'[h])
    BY <1>2, <2>3, <2>4
  <2>6. Programs'
    BY <1>2, <2>4, <2>5 DEF Programs
  <2>7. \A ops : Without(main, ops) => Without(todo["main"], ops)'
    BY <2>4 DEF Without
  <2>8. GoodTimer /\ Without(main, {"parse"})
    BY <2>1 DEF ComingUp, TimerKnown, main
  <2>9. \A port : OpensFirst(main, port) => OpensFirst(todo["main"], port)'
    BY <2>4 DEF OpensFirst
  <2> QED BY <2>6, <2>7, <2>8, <2>9 DEF main
<1> QED BY <1>4, <1>5

\* A step that announces nothing and parses nothing: it opens what it listens
\* on or ends the process, and not for its configuration once it is announced.
LEMMA MovesOn ==
  ASSUME ComingUp, NEW g \in Goroutines, ended = "no", todo[g] # <<>>, Advance(g),
         Head(todo[g]).op # "parse", timer' = timer, nodes' = nodes, gone' = gone, conf' = conf,
         ended' = "no" => /\ opened \subseteq opened'
                          /\ Head(todo[g]).op = "listen" => Arg(g) \in opened',
         ended' = "configuration" => nodes = {} \/ Unvalidated(conf)
  PROVE  ComingUp'
<1>1. /\ Programs'
      /\ \A ops : Without(todo["main"], ops) => Without(todo["main"], ops)'
      /\ GoodTimer /\ Without(todo["main"], {"parse"})'
      /\ \A port : OpensFirst(todo["main"], port) =>
           \/ OpensFirst(todo["main"], port)'
           \/ g = "main" /\ Head(todo["main"]) = [op |-> "listen", x |-> port]
  BY Advanced
<1>2. TimerKnown'
  BY <1>1 DEF TimerKnown, GoodTimer
<1>3. nodes' # {} => Without(todo["main"], Reads)' /\ (ended' = "configuration" => Unvalidated(conf)')
  <2>1. nodes # {} => Without(todo["main"], Reads)
    BY DEF ComingUp, OpenedBefore
  <2> QED BY <1>1, <2>1
<1>4. ASSUME NEW port, UpOf(todo["main"], port), ended' = "no" PROVE UpOf(todo["main"], port)'
  <2>1. CASE port \in opened
    BY <1>4, <2>1 DEF UpOf
  <2>2. CASE nodes = {} /\ OpensFirst(todo["main"], port)
    <3>1. CASE OpensFirst(todo["main"], port)'
      BY <2>2, <3>1 DEF UpOf
    <3>2. CASE g = "main" /\ Head(todo["main"]) = [op |-> "listen", x |-> port]
      <4>1. Head(todo[g]).op = "listen" /\ Head(todo[g]).x = port
        BY <3>2
      <4> QED BY <1>4, <4>1 DEF UpOf, Arg
    <3> QED BY <1>1, <2>2, <3>1, <3>2
  <2> QED BY <1>4, <2>1, <2>2 DEF UpOf
<1>5. UpOf(todo["main"], "grpc") /\ (UpOf(todo["main"], "websocket") \/ "websocket" \in gone)
  BY DEF ComingUp, OpenedBefore
<1>6. OpenedBefore'
  BY <1>3, <1>4, <1>5 DEF OpenedBefore
<1> QED BY <1>1, <1>2, <1>6 DEF ComingUp

\* No goroutine takes a step.
LEMMA Stays ==
  ASSUME ComingUp, UNCHANGED <<todo, timer>>, nodes' \subseteq nodes, gone \subseteq gone',
         conf' = conf, ended' = "configuration" => ended = "configuration" \/ Unvalidated(conf),
         ended' = "no" => ended = "no" /\ opened \subseteq opened' /\ nodes' = nodes
  PROVE  ComingUp'
<1>1. Programs'
  BY DEF ComingUp, Programs, Aside, IsMain, ReadsFirst
<1>2. TimerKnown'
  BY DEF ComingUp, TimerKnown, Without, ParsesFirst, GoodTimer
<1>3. nodes' # {} => Without(todo["main"], Reads)' /\ (ended' = "configuration" => Unvalidated(conf)')
  BY DEF ComingUp, OpenedBefore, Without
<1>4. ASSUME NEW port, UpOf(todo["main"], port), ended' = "no" PROVE UpOf(todo["main"], port)'
  BY <1>4 DEF UpOf, OpensFirst
<1>5. OpenedBefore'
  BY <1>3, <1>4 DEF ComingUp, OpenedBefore
<1> QED BY <1>1, <1>2, <1>5 DEF ComingUp

\* Only main of a doppler that is not announced yet reads its configuration.
LEMMA WhoReads ==
  ASSUME ComingUp, NEW g \in Goroutines, todo[g] # <<>>
  PROVE  /\ Head(todo[g]).op \in Reads =>
              \/ g = "main" /\ nodes = {}
              \/ Head(todo[g]).op = "listen" /\ Head(todo[g]).x \in Late
         /\ Head(todo[g]).op \in {"announce", "exit", "receive"} => g = "main"
         /\ Head(todo[g]).op = "parse" => ParsesFirst(todo["main"])
         /\ Head(todo[g]).op # "parse" => GoodTimer
         /\ Head(todo[g]).op = "go" => Head(todo[g]).x \in Started
         /\ Head(todo[g]).op \in Ops
<1>1. CASE g = "main"
  <2>1. /\ IsMain(todo["main"]) /\ ReadsFirst(todo["main"]) /\ todo["main"] # <<>>
    BY <1>1 DEF ComingUp, Programs
  <2>2. /\ \A ops : Without(todo["main"], ops) => Head(todo["main"]).op \notin ops
        /\ ParsesFirst(todo["main"]) => Head(todo["main"]).op = "parse"
        /\ Head(todo["main"]).op = "go" => Head(todo["main"]).x \in Started
        /\ Head(todo["main"]).op \in Ops
    BY <2>1, TailMain
  <2>3. nodes # {} => Without(todo["main"], Reads)
    BY DEF ComingUp, OpenedBefore
  <2>4. \/ GoodTimer /\ Without(todo["main"], {"parse"})
        \/ ParsesFirst(todo["main"])
    BY DEF ComingUp, TimerKnown
  <2> QED BY <1>1, <2>2, <2>3, <2>4
<1>2. CASE g # "main"
  <2>1. g \in Others /\ Aside(todo[g])
    BY <1>2 DEF Others, ComingUp, Programs
  <2>2. /\ Head(todo[g]).op \in {"go", "listen", "serve", "ticker", "monitor", "watch"}
        /\ Head(todo[g]).op = "go" => Head(todo[g]).x \in Started
        /\ Head(todo[g]).op = "listen" => Head(todo[g]).x \in Late
    BY <2>1, TailAside
  <2>3. GoodTimer
    BY <2>1 DEF ComingUp, TimerKnown
  <2> QED BY <2>2, <2>3 DEF Reads, Ops
<1> QED BY <1>1, <1>2

\* The interval is parsed, or main ends before anything is announced.
LEMMA ParseComesUp ==
  ASSUME ComingUp, proc = "doppler", Parse
  PROVE  ComingUp'
<1>1. "main" \in Goroutines /\ todo["main"] # <<>> /\ Head(todo["main"]).op = "parse" /\ Advance("main")
  BY DEF Parse, At, Goroutines
<1>2. nodes = {} /\ ParsesFirst(todo["main"])
  BY <1>1, WhoReads DEF Reads
<1>3. /\ Programs'
      /\ \A port : OpensFirst(todo["main"], port) =>
           \/ OpensFirst(todo["main"], port)'
           \/ Head(todo["main"]) = [op |-> "listen", x |-> port]
  BY <1>1, Advanced
<1>4. Without(todo["main"], {"parse"})'
  <2>1. todo'["main"] = Tail(todo["main"])
    BY <1>1 DEF Advance, ComingUp, Programs
  <2>2. Without(Tail(todo["main"]), {"parse"})
    BY <1>1, <1>2, TailMain DEF ComingUp, Programs
  <2> QED BY <2>1, <2>2 DEF Without
<1>5. GoodTimer'
  <2>1. conf' = conf /\ timer' = IF conf.interval = "huge" THEN "negative" ELSE "positive"
    BY DEF Parse, Parsed, DopplerParse, Seconds
  <2> QED BY <2>1 DEF GoodTimer, Unvalidated
<1>6. \A port : OpensFirst(todo["main"], port) => OpensFirst(todo["main"], port)'
  <2>1. \A port : Head(todo["main"]) # [op |-> "listen", x |-> port]
    BY <1>1
  <2> QED BY <1>3, <2>1
<1>7. nodes' = {} /\ gone' = gone /\ (ended' = "no" => opened' = opened /\ ended = "no")
  BY <1>2 DEF Parse, End
<1>8. \A port : UpOf(todo["main"], port) /\ ended' = "no" => UpOf(todo["main"], port)'
  BY <1>2, <1>6, <1>7 DEF UpOf
<1>9. OpenedBefore'
  BY <1>7, <1>8 DEF ComingUp, OpenedBefore
<1> QED BY <1>3, <1>4, <1>5, <1>9 DEF ComingUp, TimerKnown

\* A goroutine is started.
LEMMA GoComesUp ==
  ASSUME ComingUp, NEW g \in Goroutines, Go(g)
  PROVE  ComingUp'
<1> DEFINE h == Arg(g)
<1>1. todo[g] # <<>> /\ Head(todo[g]).op = "go" /\ ended = "no"
  BY DEF Go, At
<1>2. h \in Others /\ h \in Started /\ GoodTimer
  BY <1>1, WhoReads DEF Arg, Started, Others, Goroutines
<1>3. Aside(Code(h)) /\ Code(h) \in Seq(Steps)
  BY <1>2, AsidePrograms DEF Aside
<1> DEFINE mid == [todo EXCEPT ![g] = Tail(todo[g])]
<1>4. todo' = [mid EXCEPT ![h] = Code(h)]
  BY DEF Go
<1>5. todo \in [Goroutines -> Seq(Steps)] /\ "main" \in Goroutines /\ Others = Goroutines \ {"main"}
  BY DEF ComingUp, Programs, Goroutines, Others
<1>6. Tail(todo[g]) \in Seq(Steps)
  BY <1>1, <1>5, TailOf
<1> HIDE DEF h
<1>7. /\ todo' \in [Goroutines -> Seq(Steps)]
      /\ todo'["main"] = IF g = "main" THEN Tail(todo["main"]) ELSE todo["main"]
      /\ \A k \in Others : todo'[k] = IF k = h THEN Code(h) ELSE IF k = g THEN Tail(todo[g]) ELSE todo[k]
  BY <1>2, <1>3, <1>4, <1>5, <1>6
<1>8. \A k \in Others : Aside(todo'[k])
  <2> SUFFICES ASSUME NEW k \in Others PROVE Aside(todo'[k])
    OBVIOUS
  <2>1. Aside(todo[k])
    BY DEF ComingUp, Programs
  <2>2. k = g => Aside(Tail(todo[g]))
    BY <1>1, <2>1, TailAside
  <2> QED BY <1>3, <1>7, <2>1, <2>2
<1> DEFINE main == todo["main"]
<1>9. IsMain(main) /\ ReadsFirst(main)
  BY DEF ComingUp, Programs
<1>10. Without(main, {"parse"})
  <2>1. CASE g = "main"
    <3>1. ParsesFirst(main) => Head(main).op = "parse"
      BY <1>1, <1>9, <2>1, TailMain
    <3> QED BY <1>1, <2>1, <3>1 DEF ComingUp, TimerKnown
  <2>2. CASE g # "main"
    BY <1>1, <1>5, <2>2 DEF ComingUp, TimerKnown
  <2> QED BY <2>1, <2>2
<1> HIDE DEF main
<1>11. /\ IsMain(todo'["main"]) /\ ReadsFirst(todo'["main"])
       /\ \A ops : Without(main, ops) => Without(todo'["main"], ops)
       /\ \A port : OpensFirst(main, port) => OpensFirst(todo'["main"], port)
  <2>1. CASE g # "main"
    BY <1>7, <1>9, <2>1 DEF main
  <2>2. CASE g = "main"
    <3>1. todo'["main"] = Tail(main) /\ main # <<>> /\ main \in Seq(Steps) /\ Head(main).op = "go"
      BY <1>1, <1>5, <1>7, <2>2 DEF main
    <3>2. \A port : Head(main) # [op |-> "listen", x |-> port]
      BY <3>1
    <3>3. /\ IsMain(Tail(main)) /\ ReadsFirst(Tail(main))
          /\ \A ops : Without(main, ops) => Without(Tail(main), ops)
      BY <1>9, <3>1, TailMain
    <3>4. \A port : OpensFirst(main, port) => OpensFirst(Tail(main), port)
      BY <3>1, <3>2, TailOpens
    <3> QED BY <3>1, <3>3, <3>4
  <2> QED BY <2>1, <2>2
<1>12. Programs'
  BY <1>7, <1>8, <1>11 DEF Programs, IsMain, ReadsFirst
<1>13. UNCHANGED <<conf, timer, nodes, ended, opened, gone>>
  BY DEF Go
<1>14. TimerKnown'
  BY <1>2, <1>10, <1>11, <1>13 DEF TimerKnown, GoodTimer, Without
<1>15. \A port : UpOf(main, port) => UpOf(todo["main"], port)'
  BY <1>11, <1>13 DEF UpOf, OpensFirst
<1>16. nodes # {} => Without(todo["main"], Reads)'
  BY <1>11 DEF ComingUp, OpenedBefore, Without, main
<1>17. OpenedBefore'
  BY <1>13, <1>15, <1>16 DEF ComingUp, OpenedBefore, main
<1> QED BY <1>12, <1>14, <1>17 DEF ComingUp

\* The announcement: what it names is open.
LEMMA AnnounceComesUp ==
  ASSUME ComingUp, NEW g \in Goroutines, Announce(g)
  PROVE  ComingUp'
<1>1. todo[g] # <<>> /\ Head(todo[g]).op = "announce" /\ Advance(g) /\ ended = "no"
  BY DEF Announce, At
<1>2. g = "main"
  BY <1>1, WhoReads
<1>3. /\ Programs' /\ GoodTimer /\ Without(todo["main"], {"parse"})'
  BY <1>1, Advanced
<1>4. TimerKnown'
  BY <1>3 DEF Announce, TimerKnown, GoodTimer
<1>5. todo["main"] \in Seq(Steps) /\ IsMain(todo["main"]) /\ ReadsFirst(todo["main"])
  BY <1>2 DEF ComingUp, Programs
<1>6. Without(todo["main"], Reads)'
  <2>1. todo'["main"] = Tail(todo["main"])
    BY <1>1, <1>2 DEF Advance, ComingUp, Programs
  <2>2. Without(Tail(todo["main"]), Reads)
    BY <1>1, <1>2, <1>5, TailMain
  <2> QED BY <2>1, <2>2 DEF Without
<1>7. \A port : ~OpensFirst(todo["main"], port)
  BY <1>1, <1>2, <1>5, TailOpens
<1>8. "grpc" \in opened /\ ("websocket" \in opened \/ "websocket" \in gone)
  BY <1>1, <1>7 DEF ComingUp, OpenedBefore, UpOf
<1>9. ended' # "configuration" /\ gone' = gone /\ (ended' = "no" => opened' = opened)
  BY <1>1 DEF Announce, End
<1>10. OpenedBefore'
  BY <1>6, <1>8, <1>9 DEF OpenedBefore, UpOf
<1> QED BY <1>3, <1>4, <1>10 DEF ComingUp

\* A server that fails ends doppler or is gone.
LEMMA ServeFailsComesUp ==
  ASSUME ComingUp, NEW g \in Goroutines, ServeFails(g)
  PROVE  ComingUp'
<1>1. todo[g] # <<>> /\ Head(todo[g]).op = "serve" /\ ended = "no"
  BY DEF ServeFails, At
<1>2. CASE FatalToProcess(Arg(g))
  <2>1. UNCHANGED <<conf, todo, timer, nodes>> /\ gone \subseteq gone' /\ ended' = "failure"
    BY <1>2 DEF ServeFails, End
  <2> QED BY <2>1, Stays
<1>3. CASE ~FatalToProcess(Arg(g))
  <2>1. /\ Advance(g) /\ opened' = opened \ {Arg(g)} /\ gone' = gone \cup {Arg(g)}
        /\ UNCHANGED <<conf, ended, timer, nodes>> /\ Arg(g) # "grpc"
    BY <1>3 DEF ServeFails, FatalToProcess
  <2>2. /\ Programs'
        /\ \A ops : Without(todo["main"], ops) => Without(todo["main"], ops)'
        /\ GoodTimer /\ Without(todo["main"], {"parse"})'
        /\ \A port : OpensFirst(todo["main"], port) =>
             \/ OpensFirst(todo["main"], port)'
             \/ g = "main" /\ Head(todo["main"]) = [op |-> "listen", x |-> port]
    BY <1>1, <2>1, Advanced
  <2>3. \A port : OpensFirst(todo["main"], port) => OpensFirst(todo["main"], port)'
    <3>1. \A port : Head(todo[g]) # [op |-> "listen", x |-> port]
      BY <1>1
    <3>2. \A port : ~(g = "main" /\ Head(todo["main"]) = [op |-> "listen", x |-> port])
      BY <3>1
    <3> QED BY <2>2, <3>2
  <2>4. TimerKnown'
    BY <2>1, <2>2 DEF TimerKnown, GoodTimer
  <2>5. \A port : port # Arg(g) /\ UpOf(todo["main"], port) => UpOf(todo["main"], port)'
    BY <2>1, <2>3 DEF UpOf
  <2>6. nodes' # {} => Without(todo["main"], Reads)' /\ (ended' = "configuration" => Unvalidated(conf)')
    BY <1>1, <2>1, <2>2 DEF ComingUp, OpenedBefore
  <2>7. UpOf(todo["main"], "grpc") /\ (UpOf(todo["main"], "websocket") \/ "websocket" \in gone)
    BY <1>1 DEF ComingUp, OpenedBefore
  <2>8. UpOf(todo["main"], "websocket")' \/ "websocket" \in gone'
    BY <2>1, <2>5, <2>7
  <2>9. UpOf(todo["main"], "grpc")'
    BY <2>1, <2>5, <2>7
  <2>10. OpenedBefore'
    BY <2>6, <2>8, <2>9 DEF OpenedBefore
  <2> QED BY <2>2, <2>4, <2>10 DEF ComingUp
<1> QED BY <1>2, <1>3

\* An interrupt.
LEMMA InterruptComesUp ==
  ASSUME ComingUp, Interrupt
  PROVE  ComingUp'
<1>1. ended = "no" /\ UNCHANGED <<conf, gone, timer, nodes>>
  BY DEF Interrupt
<1>2. CASE At("main", "receive") /\ Advance("main") /\ UNCHANGED <<opened, serving, ended>>
  <2>1. "main" \in Goroutines /\ todo["main"] # <<>> /\ Head(todo["main"]).op = "receive"
    BY <1>2 DEF At, Goroutines
  <2> QED BY <1>1, <1>2, <2>1, MovesOn
<1>3. CASE At("main", "receive") /\ UNCHANGED todo /\ UNCHANGED <<opened, serving, ended>>
  BY <1>1, <1>3, Stays
<1>4. CASE End("interrupt") /\ UNCHANGED todo
  <2>1. ended' = "interrupt"
    BY <1>4 DEF End
  <2> QED BY <1>1, <1>4, <2>1, Stays
<1> QED BY <1>2, <1>3, <1>4 DEF Interrupt

\* The steps of a goroutine that need nothing but the lemmas above.
LEMMA OthersComeUp ==
  ASSUME ComingUp, NEW g \in Goroutines,
         \/ Credentials(g) \/ NewTicker(g) \/ Try(g) \/ Listen(g) \/ Notify(g) \/ Exit(g)
  PROVE  ComingUp'
<1>1. ended = "no" /\ todo[g] # <<>> /\ Advance(g) /\ UNCHANGED <<conf, timer, nodes, gone>>
  BY DEF Credentials, NewTicker, Try, Listen, Notify, Exit, At
<1>2. CASE Credentials(g)
  <2>1. Head(todo[g]).op \in {"client credentials", "server credentials"}
    BY <1>2 DEF Credentials, At
  <2>2. nodes = {}
    BY <1>1, <2>1, WhoReads DEF Reads
  <2>3. ended' = "no" => opened' = opened
    BY <1>2 DEF Credentials, End
  <2> QED BY <1>1, <2>1, <2>2, <2>3, MovesOn
<1>3. CASE NewTicker(g)
  <2>1. Head(todo[g]).op = "ticker"
    BY <1>3 DEF NewTicker, At
  <2>2. GoodTimer
    BY <1>1, <2>1, WhoReads
  <2>3. /\ ended' = "configuration" => Unvalidated(conf)
        /\ ended' = "no" => opened' = opened
    BY <1>1, <1>3, <2>2 DEF NewTicker, GoodTimer, End
  <2> QED BY <1>1, <2>1, <2>3, MovesOn
<1>4. CASE Try(g)
  <2>1. Head(todo[g]).op = "try" /\ ended' # "configuration" /\ (ended' = "no" => opened' = opened)
    BY <1>1, <1>4 DEF Try, At, End
  <2> QED BY <1>1, <2>1, MovesOn
<1>5. CASE Listen(g)
  <2>1. /\ Head(todo[g]).op = "listen"
        /\ ended' = "configuration" => Arg(g) \in conf.badPorts
        /\ ended' = "no" => opened' = opened \cup {Arg(g)}
    BY <1>1, <1>5 DEF Listen, At, End
  <2>2. nodes = {} \/ Arg(g) \in Late
    BY <1>1, <2>1, WhoReads DEF Reads, Arg
  <2>3. ended' = "configuration" => nodes = {} \/ Unvalidated(conf)
    BY <2>1, <2>2 DEF Unvalidated, Late
  <2> QED BY <1>1, <2>1, <2>3, MovesOn
<1>6. CASE Notify(g)
  <2>1. Head(todo[g]).op = "notify" /\ ended' = ended /\ opened' = opened
    BY <1>6 DEF Notify, At
  <2> QED BY <1>1, <2>1, MovesOn
<1>7. CASE Exit(g)
  <2>1. Head(todo[g]).op = "exit" /\ ended' = "interrupt"
    BY <1>7 DEF Exit, At, End
  <2> QED BY <1>1, <2>1, MovesOn
<1> QED BY <1>2, <1>3, <1>4, <1>5, <1>6, <1>7

\* Every step of a doppler.
LEMMA StepComesUp ==
  ASSUME StartInv, [StartupNext]_startupVars
  PROVE  StartInv'
<1>1. UNCHANGED <<proc, conf>>
  BY DEF StartupNext, startupVars, GoroutineStep, Parse, Credentials, NewTicker, Try, Listen, Go,
         ServePort, ServeFails, Announce, NodeExpires, Notify, Interrupt, StopMonitor, Exit, RlpStops,
         StartFinder, NewElector, RunTruncatingBuffer
<1> SUFFICES ASSUME proc = "doppler" PROVE ComingUp'
  BY <1>1 DEF StartInv
<1>2. ComingUp
  BY DEF StartInv
<1>3. CASE Parse
  BY <1>2, <1>3, ParseComesUp
<1>4. CASE Interrupt
  BY <1>2, <1>4, InterruptComesUp
<1>5. ASSUME NEW g \in Goroutines, GoroutineStep(g) PROVE ComingUp'
  <2>1. CASE Credentials(g) \/ NewTicker(g) \/ Try(g) \/ Listen(g) \/ Notify(g) \/ Exit(g)
    BY <1>2, <2>1, OthersComeUp
  <2>2. CASE Go(g)
    BY <1>2, <2>2, GoComesUp
  <2>3. CASE ServePort(g)
    BY <1>2, <2>3, Stays DEF ServePort
  <2>4. CASE Announce(g)
    BY <1>2, <2>4, AnnounceComesUp
  <2>5. CASE StopMonitor(g)
    <3>1. todo[g] # <<>> /\ Head(todo[g]).op = "stop"
      BY <2>5 DEF StopMonitor, At
    <3>2. Head(todo[g]).op \in Ops
      BY <1>2, <3>1, WhoReads
    <3> QED BY <3>1, <3>2 DEF Ops
  <2>6. CASE StartFinder(g)
    <3>1. todo[g] # <<>> /\ Head(todo[g]).op = "f.Start"
      BY <2>6 DEF StartFinder, At
    <3>2. Head(todo[g]).op \in Ops
      BY <1>2, <3>1, WhoReads
    <3> QED BY <3>1, <3>2 DEF Ops
  <2> QED BY <1>5, <2>1, <2>2, <2>3, <2>4, <2>5, <2>6 DEF GoroutineStep
<1>6. ASSUME NEW g \in Goroutines, ServeFails(g) PROVE ComingUp'
  BY <1>2, <1>6, ServeFailsComesUp
<1>7. ASSUME NEW g \in Goroutines, RlpStops(g) PROVE ComingUp'
  <2>1. todo[g] # <<>> /\ Head(todo[g]).op = "rlp.Stop"
    BY <1>7 DEF RlpStops, At
  <2>2. Head(todo[g]).op \in Ops
    BY <1>2, <2>1, WhoReads
  <2> QED BY <2>1, <2>2 DEF Ops
<1>8. ASSUME NEW n \in nodes, NodeExpires(n) PROVE ComingUp'
  BY <1>2, <1>8, Stays DEF NodeExpires
<1>9. CASE UNCHANGED startupVars
  BY <1>2, <1>9, Stays DEF startupVars
<1>10. ASSUME NEW g \in Goroutines, NewElector(g) PROVE ComingUp'
  <2>1. todo[g] # <<>> /\ Head(todo[g]).op = "NewElector"
    BY <1>10 DEF NewElector, At
  <2>2. Head(todo[g]).op \in Ops
    BY <1>2, <2>1, WhoReads
  <2> QED BY <2>1, <2>2 DEF Ops
<1>11. CASE RunTruncatingBuffer
  <2>1. UNCHANGED <<todo, timer, nodes, gone, conf>> /\ ended' = "configuration" /\ Unvalidated(conf)
    BY <1>11 DEF RunTruncatingBuffer, End, Unvalidated
  <2> QED BY <1>2, <2>1, Stays
<1> QED BY <1>3, <1>4, <1>5, <1>6, <1>7, <1>8, <1>9, <1>10, <1>11 DEF StartupNext

\* Doppler begins with nothing announced.
LEMMA InitComesUp == StartupInit => StartInv
<1> SUFFICES ASSUME StartupInit, proc = "doppler" PROVE ComingUp
  BY DEF StartInv
<1> DEFINE main == DopplerMain(conf)
<1>1. /\ todo = [g \in Goroutines |-> IF g = "main" THEN main ELSE <<>>]
      /\ nodes = {} /\ ended = "no"
  BY DEF StartupInit, Main
<1>2. Announcing(main)
  BY MainProgram
<1> HIDE DEF main
<1>3. "main" \in Goroutines /\ \A g \in Others : g \in Goroutines /\ g # "main"
  BY DEF Goroutines, Others
<1>4. todo["main"] = main /\ \A g \in Others : todo[g] = <<>>
  BY <1>1, <1>3
<1>5. IsMain(main) /\ ReadsFirst(main) /\ ParsesFirst(main)
  BY <1>2 DEF Announcing
<1>6. todo \in [Goroutines -> Seq(Steps)]
  BY <1>1, <1>5 DEF IsMain
<1>7. Programs
  BY <1>4, <1>5, <1>6, AsideNone DEF Programs
<1>8. TimerKnown
  BY <1>1, <1>4, <1>5 DEF TimerKnown
<1>9. OpenedBefore
  BY <1>1, <1>2, <1>4 DEF OpenedBefore, UpOf, Announcing
<1> QED BY <1>7, <1>8, <1>9 DEF ComingUp

\* A doppler that other processes find in etcd can be reached, whatever its
\* configuration: it has opened the gRPC port it announces, and the websocket port
\* unless its server has failed since.  And if its configuration ends it after
\* that, it is for one of the values that are not validated: the size of the
\* buffers, an interval that overflows, the UDP port or the profiler's.
THEOREM AnnouncedSound == StartupSpec => []AnnouncedIsSound
<1>1. StartupInit => StartInv
  BY InitComesUp
<1>2. StartInv /\ [StartupNext]_startupVars => StartInv'
  BY StepComesUp
<1>3. StartInv => AnnouncedIsSound
  BY DEF StartInv, ComingUp, OpenedBefore, UpOf, AnnouncedIsSound
<1> QED BY <1>1, <1>2, <1>3, PTL DEF StartupSpec
====
