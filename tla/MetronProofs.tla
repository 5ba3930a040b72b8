----------------------------- MODULE MetronProofs -----------------------------
(***************************************************************************)
(* metron's pools of connections and what metron counts of itself, for any  *)
(* number of ConnManagers, connections, writers and envelopes, any size of  *)
(* diode and batch, and for both versions of the API.                       *)
(*                                                                          *)
(* ConnectionsKept is not inductive: a connection is closed or dropped by   *)
(* who holds it, so the invariant says whose each one is (Owned) and, for a *)
(* pool with a single writer, that nobody takes it away (Single).  SentOnce *)
(* needs how often a call has sent by how far it has come (Delivery), and   *)
(* Accounted what every goroutine has taken and not yet counted.            *)
(*                                                                          *)
(* IncrementsConserved is inductive once the deltas are numbers that are not *)
(* negative (CountTypes); what it takes is to know how the sums of a stream, *)
(* of the diode and of a batch change (AddedAppend, AddedTail, DeltasOf), and *)
(* what aggregating a whole batch does to the totals (AggregatedTotal).      *)
(***************************************************************************)
EXTENDS Metron, FiniteSetTheorems, WellFoundedInduction, TLAPS

Places == {"idle", "load", "send", "unset", "count", "recycle", "close", "reset", "done"}
Tasks == [at : Places, seed : Managers, i : Managers, c : Conns \cup {0}, ok : BOOLEAN]
Maintaining == [at : {"wait", "connect", "store"}, c : Conns \cup {0}]

PoolTypes ==
  /\ version \in 1..2
  /\ conn \in [Managers -> Conns \cup {0}]
  /\ state \in [Conns -> {"none", "open", "closed"}]
  /\ closes \in [Conns -> Nat]
  /\ maintain \in [Managers -> Maintaining]
  /\ task \in [AllWriters -> Tasks]
  /\ delivered \in [AllWriters -> Nat]

\* Where a call of Write has a connection in hand.
Holding == {"send", "unset", "count", "recycle", "close"}

\* How often the message was sent, by how far the call has come.
Delivery ==
  \A w \in AllWriters :
    /\ delivered[w] <= 1
    /\ task[w].at \in {"load", "send", "unset"} => delivered[w] = 0 /\ ~task[w].ok
    /\ task[w].at \in {"count", "recycle"} => delivered[w] = 1
    /\ task[w].at \in {"close", "reset", "done"} => (task[w].ok <=> delivered[w] = 1)

\* Every connection is one manager's: a manager has or stores one that nobody
\* else has, and who holds one got it from the manager being tried.
Owned ==
  /\ \A m \in Managers :
       /\ maintain[m].at # "store" => maintain[m].c = 0
       /\ maintain[m].at = "store" =>
            /\ maintain[m].c \in Conns /\ state[maintain[m].c] = "open"
            /\ \A o \in Managers : conn[o] # maintain[m].c
            /\ \A o \in Managers : maintain[o].c = maintain[m].c => o = m
       /\ maintain[m].at # "wait" => conn[m] = 0
       /\ conn[m] # 0 => /\ state[conn[m]] = "open"
                         /\ \A o \in Managers : conn[o] = conn[m] => o = m
  /\ \A w \in AllWriters : task[w].at \in Holding =>
       /\ task[w].c \in Conns /\ state[task[w].c] # "none"
       /\ \A m \in Managers : /\ conn[m] = task[w].c => m = Manager(w) /\ task[w].at # "close"
                              /\ maintain[m].c # task[w].c

\* The goroutines of the other version's pool do nothing.
Others == \A w \in AllWriters : w \notin Writers[version] => task[w].at = "idle"

\* With a single writer nothing but its own step takes the connection it holds
\* from the manager, and every open connection is somebody's to close.
Single ==
  version = 2 =>
    /\ task["transponder"].at \in Holding \ {"close"} =>
         conn[Manager("transponder")] = task["transponder"].c
    /\ task["transponder"].at = "close" => state[task["transponder"].c] = "open"
    /\ \A c \in Conns :
         /\ state[c] = "open" =>
              \/ \E m \in Managers : conn[m] = c \/ maintain[m].c = c
              \/ task["transponder"].at = "close" /\ task["transponder"].c = c
         /\ closes[c] <= 1
         /\ closes[c] = 1 => state[c] = "closed"

PoolInv == PoolTypes /\ Delivery /\ Owned /\ Others /\ Single

-----------------------------------------------------------------------------
\* The constants, and the manager a call tries.
LEMMA Facts ==
  /\ N \in Nat \ {0} /\ 0 \in Managers /\ Managers \subseteq Nat /\ 0 \notin Conns
  /\ \A a \in Nat : a % N \in Managers
  /\ "udp" \in AllWriters /\ "emitter" \in AllWriters /\ "transponder" \in AllWriters
  /\ Writers[1] \subseteq AllWriters /\ Writers[2] = {"transponder"}
<1>1. N \in Nat \ {0}
  BY PoolAssumption
<1>2. \A a \in Nat : a % N \in 0 .. N - 1
  BY ONLY <1>1
<1> QED BY <1>1, <1>2, WritersAssumption DEF Managers, Conns, AllWriters

\* The manager a call tries is one of the pool's.
LEMMA ManagerType ==
  ASSUME PoolTypes, NEW w \in AllWriters
  PROVE  Manager(w) \in Managers
<1>1. task[w].i \in Nat /\ task[w].seed \in Nat
  BY Facts DEF PoolTypes, Tasks
<1> QED BY <1>1, Facts DEF Manager

\* What becomes of a call when the manager's Write returns.
LEMMA ReturnType ==
  ASSUME NEW t \in Tasks, NEW ok \in BOOLEAN
  PROVE  /\ Return(t, ok) \in Tasks
         /\ \/ Return(t, ok).at = "load" /\ ~ok /\ Return(t, ok).ok = t.ok
            \/ Return(t, ok).at = "done" /\ Return(t, ok).ok = ok
<1> USE Facts
<1> DEFINE again == [t EXCEPT !.at = "load", !.i = @ + 1, !.c = 0]
           over == [NoTask EXCEPT !.at = "done", !.ok = ok]
<1>1. over \in Tasks /\ over.at = "done" /\ over.ok = ok
  BY DEF NoTask, Tasks, Places
<1>2. CASE ~ok /\ t.i + 1 < N
  <2>1. t.i + 1 \in Managers
    BY <1>2 DEF Tasks, Managers
  <2>2. again \in Tasks /\ again.at = "load" /\ again.ok = t.ok
    BY <2>1 DEF Tasks, Places
  <2> QED BY <1>2, <2>2 DEF Return
<1>3. CASE ~(~ok /\ t.i + 1 < N)
  BY <1>1, <1>3 DEF Return
<1> QED BY <1>2, <1>3

\* A step of Write moves its task to r.
Moves(w, r) == r \in Tasks /\ task' = [task EXCEPT ![w] = r]

\* ... and from one place to another it keeps the rest of the task.
LEMMA StepMoves ==
  ASSUME PoolTypes, NEW w \in AllWriters, NEW l \in Places, Step(w, l)
  PROVE  \E r \in Tasks : /\ Moves(w, r) /\ r.at = l /\ r.seed = task[w].seed
                          /\ r.i = task[w].i /\ r.c = task[w].c /\ r.ok = task[w].ok
<1> DEFINE r == [task[w] EXCEPT !.at = l]
<1>1. task[w] \in Tasks
  BY DEF PoolTypes
<1>2. /\ r \in Tasks /\ r.at = l /\ r.seed = task[w].seed
      /\ r.i = task[w].i /\ r.c = task[w].c /\ r.ok = task[w].ok
  BY <1>1 DEF Tasks
<1>3. task' = [task EXCEPT ![w] = r]
  BY DEF Step
<1> QED BY <1>2, <1>3 DEF Moves

\* A moved task, and the others.
LEMMA Moved ==
  ASSUME PoolTypes, NEW w \in AllWriters, NEW r \in Tasks, Moves(w, r)
  PROVE  /\ task' \in [AllWriters -> Tasks] /\ task'[w] = r
         /\ \A o \in AllWriters : o # w => task'[o] = task[o] /\ Manager(o)' = Manager(o)
         /\ r.i = task[w].i /\ r.seed = task[w].seed => Manager(w)' = Manager(w)
<1>1. /\ task' \in [AllWriters -> Tasks] /\ task'[w] = r
      /\ \A o \in AllWriters : o # w => task'[o] = task[o]
  BY DEF PoolTypes, Moves
<1> QED BY <1>1 DEF Manager

\* A call that lets go of its connection, or never had one, disturbs nobody.
LEMMA LetGo ==
  ASSUME PoolInv, NEW w \in Writers[version], NEW r \in Tasks, Moves(w, r),
         r.at \notin Holding, task[w].at # "close",
         UNCHANGED <<version, conn, state, closes, maintain>>
  PROVE  Owned' /\ Others' /\ Single'
<1> USE Facts DEF PoolInv
<1>1. w \in AllWriters /\ version \in 1..2
  BY DEF AllWriters, PoolTypes
<1>2. /\ task'[w] = r
      /\ \A o \in AllWriters : o # w => task'[o] = task[o] /\ Manager(o)' = Manager(o)
  BY <1>1, Moved
<1>3. Owned'
  BY <1>2 DEF Owned
<1>4. Others'
  BY <1>2 DEF Others
<1>5. Single'
  <2> SUFFICES ASSUME version = 2 PROVE Single'
    BY DEF Single
  <2>1. w = "transponder"
    OBVIOUS
  <2> QED BY <1>2, <2>1 DEF Single, Holding
<1> QED BY <1>3, <1>4, <1>5

\* One that keeps it and stays before the close neither.
LEMMA HoldsOn ==
  ASSUME PoolInv, NEW w \in Writers[version], NEW r \in Tasks, Moves(w, r),
         r.at \in Holding \ {"close"}, task[w].at \in Holding \ {"close"},
         r.c = task[w].c, r.i = task[w].i, r.seed = task[w].seed,
         UNCHANGED <<version, conn, state, closes, maintain>>
  PROVE  Owned' /\ Others' /\ Single'
<1> USE Facts DEF PoolInv
<1>1. w \in AllWriters /\ version \in 1..2
  BY DEF AllWriters, PoolTypes
<1>2. /\ task'[w] = r /\ Manager(w)' = Manager(w)
      /\ \A o \in AllWriters : o # w => task'[o] = task[o] /\ Manager(o)' = Manager(o)
  BY <1>1, Moved
<1>3. Owned'
  <2>1. \A o \in AllWriters :
          task'[o].at \in Holding => task[o].at \in Holding /\ task'[o].c = task[o].c
                                     /\ (task'[o].at = "close" <=> task[o].at = "close")
                                     /\ Manager(o)' = Manager(o)
    BY <1>2
  <2> QED BY <2>1 DEF Owned
<1>4. Others'
  BY <1>2 DEF Others
<1>5. Single'
  <2> SUFFICES ASSUME version = 2 PROVE Single'
    BY DEF Single
  <2>1. w = "transponder"
    OBVIOUS
  <2> QED BY <1>2, <2>1 DEF Single, Holding
<1> QED BY <1>3, <1>4, <1>5

\* Taking the connection from its manager, in order to close it.
LEMMA TakesOut ==
  ASSUME PoolInv, NEW w \in Writers[version], NEW r \in Tasks, Moves(w, r),
         r.at = "close", task[w].at \in Holding \ {"close"},
         r.c = task[w].c, r.i = task[w].i, r.seed = task[w].seed,
         conn' = [conn EXCEPT ![Manager(w)] = 0],
         UNCHANGED <<version, state, closes, maintain>>
  PROVE  Owned' /\ Others' /\ Single'
<1> USE Facts DEF PoolInv
<1>1. w \in AllWriters /\ version \in 1..2
  BY DEF AllWriters, PoolTypes
<1>2. /\ task'[w] = r /\ Manager(w)' = Manager(w) /\ Manager(w) \in Managers
      /\ \A o \in AllWriters : o # w => task'[o] = task[o] /\ Manager(o)' = Manager(o)
  BY <1>1, Moved, ManagerType
<1>3. conn'[Manager(w)] = 0 /\ \A m \in Managers : m # Manager(w) => conn'[m] = conn[m]
  BY <1>2 DEF PoolTypes
<1>4. Owned'
  <2>1. \A m \in Managers : conn'[m] # 0 => conn'[m] = conn[m]
    BY <1>3
  <2>2. \A m \in Managers :
          /\ maintain[m].at # "store" => maintain[m].c = 0
          /\ maintain[m].at = "store" =>
               /\ maintain[m].c \in Conns /\ state[maintain[m].c] = "open"
               /\ \A o \in Managers : conn'[o] # maintain[m].c
               /\ \A o \in Managers : maintain[o].c = maintain[m].c => o = m
          /\ maintain[m].at # "wait" => conn'[m] = 0
          /\ conn'[m] # 0 => /\ state[conn'[m]] = "open"
                             /\ \A o \in Managers : conn'[o] = conn'[m] => o = m
    BY <2>1 DEF Owned
  <2>3. ASSUME NEW o \in AllWriters, task'[o].at \in Holding
        PROVE  /\ task'[o].c \in Conns /\ state[task'[o].c] # "none"
               /\ \A m \in Managers :
                    /\ conn'[m] = task'[o].c => m = Manager(o)' /\ task'[o].at # "close"
                    /\ maintain[m].c # task'[o].c
    <3>1. task[o].at \in Holding /\ task'[o].c = task[o].c
      BY <1>2, <2>3
    <3>2. /\ task[o].c \in Conns /\ state[task[o].c] # "none"
          /\ \A m \in Managers : /\ conn[m] = task[o].c => m = Manager(o) /\ task[o].at # "close"
                                 /\ maintain[m].c # task[o].c
      BY <3>1 DEF Owned
    <3>3. CASE o = w
      BY <1>2, <1>3, <2>1, <3>1, <3>2, <3>3
    <3>4. CASE o # w
      BY <1>2, <2>1, <3>1, <3>2, <3>4
    <3> QED BY <3>3, <3>4
  <2> QED BY <2>2, <2>3 DEF Owned
<1>5. Others'
  BY <1>2 DEF Others
<1>6. Single'
  <2> SUFFICES ASSUME version = 2 PROVE Single'
    BY DEF Single
  <2>1. w = "transponder"
    OBVIOUS
  <2>2. conn[Manager(w)] = r.c /\ r.c \in Conns
    BY <2>1 DEF Single, Owned
  <2>3. state[r.c] = "open"
    BY <1>2, <2>2 DEF Owned
  <2>4. \A c \in Conns : state[c] = "open" =>
          (\E m \in Managers : conn'[m] = c \/ maintain[m].c = c) \/ r.c = c
    BY <1>3, <2>1, <2>2 DEF Single
  <2> QED BY <1>2, <2>1, <2>3, <2>4 DEF Single, Holding
<1> QED BY <1>4, <1>5, <1>6

\* What a write step's move says of the message's delivery.
DeliveryOf(n, r) ==
  /\ n <= 1
  /\ r.at \in {"load", "send", "unset"} => n = 0 /\ ~r.ok
  /\ r.at \in {"count", "recycle"} => n = 1
  /\ r.at \in {"close", "reset", "done"} => (r.ok <=> n = 1)

\* ... is all there is to say when one task moves.
LEMMA DeliveryKept ==
  ASSUME PoolTypes, Delivery, NEW w \in AllWriters, NEW r \in Tasks, Moves(w, r),
         \A o \in AllWriters : o # w => delivered'[o] = delivered[o],
         DeliveryOf(delivered'[w], r)
  PROVE  Delivery'
<1>1. /\ task'[w] = r
      /\ \A o \in AllWriters : o # w => task'[o] = task[o]
  BY Moved
<1> QED BY <1>1 DEF Delivery, DeliveryOf

\* The v1 and the v2 Write keep the pool in order.
LEMMA WriteStepInv ==
  ASSUME PoolInv, NEW w \in Writers[version], WriteStep(w)
  PROVE  PoolInv'
<1>0. w \in AllWriters /\ version \in 1..2 /\ PoolTypes /\ task[w] \in Tasks /\ Manager(w) \in Managers
      /\ DeliveryOf(delivered[w], task[w])
  BY ManagerType DEF PoolInv, PoolTypes, AllWriters, Delivery, DeliveryOf
<1> USE Facts
<1>1. CASE Load(w)
  <2>0. UNCHANGED <<version, conn, state, closes, maintain, delivered>> /\ task[w].at = "load"
    BY <1>1 DEF Load
  <2>1. CASE conn[Manager(w)] = 0
    <3> DEFINE r == Return(task[w], FALSE)
    <3>1. task' = [task EXCEPT ![w] = r]
      BY <1>1, <2>1 DEF Load
    <3>2. r \in Tasks /\ r.at \in {"load", "done"} /\ r.ok = FALSE
      <4>1. task[w].ok = FALSE
        BY <1>0, <2>0 DEF DeliveryOf, Tasks
      <4>2. FALSE \in BOOLEAN
        OBVIOUS
      <4> QED BY <1>0, <4>1, <4>2, ReturnType
    <3> HIDE DEF r
    <3>3. Moves(w, r)
      BY <3>1, <3>2 DEF Moves
    <3>4. PoolTypes'
      BY <1>0, <2>0, <3>2, <3>3, Moved DEF PoolTypes
    <3>5. Delivery'
      BY <1>0, <2>0, <3>2, <3>3, DeliveryKept DEF PoolInv, DeliveryOf
    <3> QED BY <2>0, <3>2, <3>3, <3>4, <3>5, LetGo DEF PoolInv, Holding
  <2>2. CASE conn[Manager(w)] # 0
    <3> DEFINE c == conn[Manager(w)]
               r == [task[w] EXCEPT !.at = "send", !.c = c]
    <3>1. task' = [task EXCEPT ![w] = r]
      BY <1>1, <2>2 DEF Load
    <3>2. c \in Conns
      BY <1>0, <2>2 DEF PoolTypes
    <3>3. /\ r \in Tasks /\ r.at = "send" /\ r.c = c /\ r.ok = task[w].ok
          /\ r.i = task[w].i /\ r.seed = task[w].seed
      BY <1>0, <3>2 DEF Tasks, Places
    <3> HIDE DEF r
    <3>4. Moves(w, r)
      BY <3>1, <3>3 DEF Moves
    <3>5. PoolTypes'
      BY <1>0, <2>0, <3>3, <3>4, Moved DEF PoolTypes
    <3>6. Delivery'
      BY <1>0, <2>0, <3>3, <3>4, DeliveryKept DEF PoolInv, DeliveryOf
    <3>7. /\ task'[w] = r /\ Manager(w)' = Manager(w)
          /\ \A o \in AllWriters : o # w => task'[o] = task[o] /\ Manager(o)' = Manager(o)
      BY <1>0, <3>3, <3>4, Moved
    <3>8. Owned'
      <4>1. /\ state[c] = "open" /\ \A m \in Managers : conn[m] = c => m = Manager(w)
            /\ \A m \in Managers : maintain[m].c # c
        BY <1>0, <2>2, <3>2 DEF PoolInv, Owned
      <4> HIDE DEF c
      <4>2. Owned
        BY DEF PoolInv
      <4> QED BY <2>0, <3>2, <3>3, <3>7, <4>1, <4>2 DEF Owned
    <3>9. Others'
      BY <2>0, <3>7 DEF PoolInv, Others
    <3>10. Single'
      <4> SUFFICES ASSUME version = 2 PROVE Single'
        BY <2>0 DEF Single
      <4>1. w = "transponder"
        OBVIOUS
      <4> QED BY <2>0, <3>3, <3>7, <4>1 DEF PoolInv, Single, Holding
    <3> QED BY <3>5, <3>6, <3>8, <3>9, <3>10 DEF PoolInv
  <2> QED BY <2>1, <2>2
<1>2. CASE Send(w)
  <2>0. UNCHANGED <<version, conn, state, closes, maintain>> /\ task[w].at = "send"
        /\ \E l \in {"count", "unset"} : Step(w, l)
    BY <1>2 DEF Send
  <2>1. PICK l \in {"count", "unset"} : Step(w, l) /\
          delivered' = IF l = "count" THEN [delivered EXCEPT ![w] = @ + 1] ELSE delivered
    BY <1>2 DEF Send
  <2>2. l \in Places
    BY DEF Places
  <2>3. PICK r \in Tasks : /\ Moves(w, r) /\ r.at = l /\ r.seed = task[w].seed
                           /\ r.i = task[w].i /\ r.c = task[w].c /\ r.ok = task[w].ok
    BY <1>0, <2>1, <2>2, StepMoves
  <2>4. PoolTypes'
    BY <1>0, <2>0, <2>1, <2>3, Moved DEF PoolTypes
  <2>5. Delivery'
    <3>1. delivered'[w] = IF l = "count" THEN 1 ELSE 0
      BY <1>0, <2>0, <2>1 DEF DeliveryOf, PoolTypes
    <3>2. DeliveryOf(delivered'[w], r)
      BY <1>0, <2>0, <2>3, <3>1 DEF DeliveryOf
    <3>3. \A o \in AllWriters : o # w => delivered'[o] = delivered[o]
      BY <1>0, <2>1 DEF PoolTypes
    <3> QED BY <1>0, <2>3, <3>2, <3>3, DeliveryKept DEF PoolInv
  <2> QED BY <2>0, <2>3, <2>4, <2>5, HoldsOn DEF PoolInv, Holding
<1>3. CASE Unset(w)
  <2>0. /\ UNCHANGED <<version, state, closes, maintain, delivered>> /\ task[w].at = "unset"
        /\ conn' = [conn EXCEPT ![Manager(w)] = 0] /\ Step(w, "close")
    BY <1>3 DEF Unset
  <2>1. PICK r \in Tasks : /\ Moves(w, r) /\ r.at = "close" /\ r.seed = task[w].seed
                           /\ r.i = task[w].i /\ r.c = task[w].c /\ r.ok = task[w].ok
    BY <1>0, <2>0, StepMoves DEF Places
  <2>2. PoolTypes'
    BY <1>0, <2>0, <2>1, Moved DEF PoolTypes
  <2>3. Delivery'
    BY <1>0, <2>0, <2>1, DeliveryKept DEF PoolInv, DeliveryOf
  <2> QED BY <2>0, <2>1, <2>2, <2>3, TakesOut DEF PoolInv, Holding
<1>4. CASE Count(w)
  <2>0. UNCHANGED <<version, conn, state, closes, maintain, delivered>> /\ task[w].at = "count"
    BY <1>4 DEF Count
  <2> DEFINE stay == [task[w] EXCEPT !.at = "recycle"]
             back == Return(task[w], TRUE)
  <2>1. task' = [task EXCEPT ![w] = stay] \/ task' = [task EXCEPT ![w] = back]
    BY <1>4 DEF Count
  <2>2. /\ stay \in Tasks /\ stay.at = "recycle" /\ stay.seed = task[w].seed
        /\ stay.i = task[w].i /\ stay.c = task[w].c
    BY <1>0 DEF Tasks, Places
  <2>3. back \in Tasks /\ back.at = "done" /\ back.ok = TRUE
    BY <1>0, ReturnType
  <2> HIDE DEF stay, back
  <2>4. CASE task' = [task EXCEPT ![w] = stay]
    <3>1. Moves(w, stay)
      BY <2>2, <2>4 DEF Moves
    <3>2. PoolTypes'
      BY <1>0, <2>0, <2>2, <3>1, Moved DEF PoolTypes
    <3>3. Delivery'
      BY <1>0, <2>0, <2>2, <3>1, DeliveryKept DEF PoolInv, DeliveryOf
    <3> QED BY <2>0, <2>2, <3>1, <3>2, <3>3, HoldsOn DEF PoolInv, Holding
  <2>5. CASE task' = [task EXCEPT ![w] = back]
    <3>1. Moves(w, back)
      BY <2>3, <2>5 DEF Moves
    <3>2. PoolTypes'
      BY <1>0, <2>0, <2>3, <3>1, Moved DEF PoolTypes
    <3>3. Delivery'
      BY <1>0, <2>0, <2>3, <3>1, DeliveryKept DEF PoolInv, DeliveryOf
    <3> QED BY <2>0, <2>3, <3>1, <3>2, <3>3, LetGo DEF PoolInv, Holding
  <2> QED BY <2>1, <2>4, <2>5
<1>5. CASE Recycle(w) \/ RecycleV2(w)
  <2>0. UNCHANGED <<version, state, closes, maintain, delivered>> /\ task[w].at = "recycle"
    BY <1>5 DEF Recycle, RecycleV2
  <2> DEFINE out == [task[w] EXCEPT !.at = "close", !.ok = TRUE]
             back == Return(task[w], TRUE)
  <2>1. \/ task' = [task EXCEPT ![w] = out] /\ conn' = [conn EXCEPT ![Manager(w)] = 0]
        \/ task' = [task EXCEPT ![w] = back] /\ UNCHANGED conn
    BY <1>5 DEF Recycle, RecycleV2
  <2>2. /\ out \in Tasks /\ out.at = "close" /\ out.seed = task[w].seed
        /\ out.i = task[w].i /\ out.c = task[w].c /\ out.ok = TRUE
    BY <1>0 DEF Tasks, Places
  <2>3. back \in Tasks /\ back.at = "done" /\ back.ok = TRUE
    BY <1>0, ReturnType
  <2> HIDE DEF out, back
  <2>4. CASE task' = [task EXCEPT ![w] = out] /\ conn' = [conn EXCEPT ![Manager(w)] = 0]
    <3>1. Moves(w, out)
      BY <2>2, <2>4 DEF Moves
    <3>2. PoolTypes'
      BY <1>0, <2>0, <2>2, <2>4, <3>1, Moved DEF PoolTypes
    <3>3. Delivery'
      BY <1>0, <2>0, <2>2, <3>1, DeliveryKept DEF PoolInv, DeliveryOf
    <3> QED BY <2>0, <2>2, <2>4, <3>1, <3>2, <3>3, TakesOut DEF PoolInv, Holding
  <2>5. CASE task' = [task EXCEPT ![w] = back] /\ UNCHANGED conn
    <3>1. Moves(w, back)
      BY <2>3, <2>5 DEF Moves
    <3>2. PoolTypes'
      BY <1>0, <2>0, <2>3, <2>5, <3>1, Moved DEF PoolTypes
    <3>3. Delivery'
      BY <1>0, <2>0, <2>3, <3>1, DeliveryKept DEF PoolInv, DeliveryOf
    <3> QED BY <2>0, <2>3, <2>5, <3>1, <3>2, <3>3, LetGo DEF PoolInv, Holding
  <2> QED BY <2>1, <2>4, <2>5
<1>6. CASE Close(w)
  <2> DEFINE c == task[w].c
  <2>0. /\ UNCHANGED <<version, conn, maintain, delivered>> /\ task[w].at = "close"
        /\ state' = [state EXCEPT ![c] = "closed"]
        /\ closes' = [closes EXCEPT ![c] = @ + 1] /\ Step(w, "reset")
    BY <1>6 DEF Close
  <2>1. PICK r \in Tasks : /\ Moves(w, r) /\ r.at = "reset" /\ r.seed = task[w].seed
                           /\ r.i = task[w].i /\ r.c = task[w].c /\ r.ok = task[w].ok
    BY <1>0, <2>0, StepMoves DEF Places
  <2>2. PoolTypes'
    <3>1. task' \in [AllWriters -> Tasks]
      BY <1>0, <2>1, Moved
    <3>2. state' \in [Conns -> {"none", "open", "closed"}]
      BY <1>0, <2>0 DEF PoolTypes
    <3>3. closes' \in [Conns -> Nat]
      <4> HIDE DEF c
      <4>1. closes \in [Conns -> Nat] /\ closes' = [closes EXCEPT ![c] = closes[c] + 1]
        BY <1>0, <2>0 DEF PoolTypes
      <4>2. c \in Conns
        BY <1>0, <2>0 DEF PoolInv, Owned, Holding, c
      <4>3. closes[c] + 1 \in Nat
        BY <4>1, <4>2
      <4> QED BY <4>1, <4>3
    <3> QED BY <1>0, <2>0, <3>1, <3>2, <3>3 DEF PoolTypes
  <2>3. Delivery'
    BY <1>0, <2>0, <2>1, DeliveryKept DEF PoolInv, DeliveryOf
  <2>4. /\ task'[w] = r
        /\ \A o \in AllWriters : o # w => task'[o] = task[o] /\ Manager(o)' = Manager(o)
    BY <1>0, <2>1, Moved
  <2>5. /\ c \in Conns /\ state'[c] = "closed"
        /\ \A d \in Conns : d # c => state'[d] = state[d] /\ closes'[d] = closes[d]
        /\ closes'[c] = closes[c] + 1
    BY <1>0, <2>0 DEF PoolInv, Owned, PoolTypes, Holding
  <2>6. \A m \in Managers : conn[m] # c /\ maintain[m].c # c
    BY <1>0, <2>0 DEF PoolInv, Owned, Holding
  <2>7. Owned'
    <3>1. \A m \in Managers : /\ maintain[m].at = "store" => state'[maintain[m].c] = state[maintain[m].c]
                              /\ conn[m] # 0 => state'[conn[m]] = state[conn[m]]
      <4>1. \A m \in Managers : conn[m] # 0 => conn[m] \in Conns
        BY <1>0 DEF PoolTypes
      <4>2. \A m \in Managers : maintain[m].at = "store" => maintain[m].c \in Conns
        BY DEF PoolInv, Owned
      <4> HIDE DEF c
      <4> QED BY <2>5, <2>6, <4>1, <4>2
    <3>2. \A d \in Conns : state[d] # "none" => state'[d] # "none"
      BY <2>5
    <3>3. \A o \in AllWriters : task'[o].at \in Holding => task'[o] = task[o] /\ Manager(o)' = Manager(o)
      BY <2>1, <2>4 DEF Holding
    <3>4. Owned
      BY DEF PoolInv
    <3> HIDE DEF c
    <3> QED BY <2>0, <3>1, <3>2, <3>3, <3>4 DEF Owned
  <2>8. Others'
    BY <2>0, <2>4 DEF PoolInv, Others
  <2>9. Single'
    <3> SUFFICES ASSUME version = 2 PROVE Single'
      BY <2>0 DEF Single
    <3>1. w = "transponder"
      OBVIOUS
    <3>2. state[c] = "open" /\ closes[c] = 0
      <4>1. state[c] = "open"
        BY <2>0, <3>1 DEF PoolInv, Single
      <4>2. closes[c] \in Nat /\ closes[c] <= 1 /\ (closes[c] = 1 => state[c] = "closed")
        BY <1>0, <2>5 DEF PoolInv, Single, PoolTypes
      <4> HIDE DEF c
      <4> QED BY <4>1, <4>2
    <3>3. ASSUME NEW d \in Conns
          PROVE  /\ state'[d] = "open" => \E m \in Managers : conn[m] = d \/ maintain[m].c = d
                 /\ closes'[d] <= 1 /\ (closes'[d] = 1 => state'[d] = "closed")
      <4>1. CASE d = c
        BY <2>5, <3>2, <4>1
      <4>2. CASE d # c
        BY <2>5, <3>1, <4>2 DEF PoolInv, Single
      <4> QED BY <4>1, <4>2
    <3> HIDE DEF c
    <3> QED BY <2>0, <2>1, <2>4, <3>1, <3>3 DEF Single, Holding
  <2> QED BY <2>2, <2>3, <2>7, <2>8, <2>9 DEF PoolInv
<1>7. CASE Reset(w)
  <2>0. /\ UNCHANGED <<version, conn, state, closes, maintain, delivered>> /\ task[w].at = "reset"
    BY <1>7 DEF Reset
  <2> DEFINE r == Return(task[w], task[w].ok)
  <2>1. task' = [task EXCEPT ![w] = r] /\ task[w].ok \in BOOLEAN
    BY <1>0, <1>7 DEF Reset, Tasks
  <2>2. r \in Tasks /\ r.ok = task[w].ok /\ ((r.at = "load" /\ ~r.ok) \/ r.at = "done")
    BY <1>0, <2>1, ReturnType
  <2> HIDE DEF r
  <2>3. Moves(w, r)
    BY <2>1, <2>2 DEF Moves
  <2>4. PoolTypes'
    BY <1>0, <2>0, <2>2, <2>3, Moved DEF PoolTypes
  <2>5. Delivery'
    <3>1. DeliveryOf(delivered'[w], r)
      <4>1. delivered[w] \in Nat /\ delivered[w] <= 1 /\ (task[w].ok <=> delivered[w] = 1)
        BY <1>0, <2>0 DEF DeliveryOf, PoolTypes
      <4>2. ~r.ok => delivered[w] = 0
        BY <2>2, <4>1
      <4> QED BY <2>0, <2>2, <4>1, <4>2 DEF DeliveryOf
    <3> QED BY <1>0, <2>0, <2>2, <2>3, <3>1, DeliveryKept DEF PoolInv
  <2> QED BY <2>0, <2>2, <2>3, <2>4, <2>5, LetGo DEF PoolInv, Holding
<1> QED BY <1>1, <1>2, <1>3, <1>4, <1>5, <1>6, <1>7 DEF WriteStep

\* maintainConn keeps the pool in order: it connects only where there is no
\* connection, and stores what nobody else has seen.
LEMMA MaintainStepInv ==
  ASSUME PoolInv, NEW m \in Managers, MaintainStep(m)
  PROVE  PoolInv'
<1> USE Facts
<1>0. PoolTypes /\ Owned /\ Single /\ maintain[m] \in Maintaining
      /\ UNCHANGED <<version, closes, task, delivered>>
  BY DEF PoolInv, PoolTypes, MaintainStep, Check, ConnectFails, FetchFails, Fetch, Store
<1>1. Delivery' /\ Others' /\ \A w \in AllWriters : Manager(w)' = Manager(w)
  BY <1>0 DEF PoolInv, Delivery, Others, Manager
<1>2. ASSUME NEW r \in Maintaining, r.at # "store", r.c = 0, r.at # "wait" => conn[m] = 0,
             maintain' = [maintain EXCEPT ![m] = r],
             maintain[m].at # "store", UNCHANGED conn,
             \A c \in Conns : state[c] # "none" => state'[c] = state[c],
             \A c \in Conns : state[c] = "none" => state'[c] \in {"none", "closed"},
             state' \in [Conns -> {"none", "open", "closed"}]
      PROVE  PoolInv'
  <2>1. maintain'[m] = r /\ \A o \in Managers : o # m => maintain'[o] = maintain[o]
    BY <1>0, <1>2 DEF PoolTypes
  <2>2. maintain[m].c = 0
    BY <1>0, <1>2 DEF Owned
  <2>3. \A o \in Managers : /\ maintain'[o].c = maintain[o].c
                            /\ maintain'[o].at = "store" <=> maintain[o].at = "store"
    BY <1>2, <2>1, <2>2
  <2>4. PoolTypes'
    BY <1>0, <1>2 DEF PoolTypes
  <2>5. \A c \in Conns : state'[c] = "open" <=> state[c] = "open"
    BY <1>0, <1>2 DEF PoolTypes
  <2>6. Owned'
    <3>1. \A o \in Managers :
            /\ maintain'[o].at # "store" => maintain'[o].c = 0
            /\ maintain'[o].at = "store" =>
                 /\ maintain'[o].c \in Conns /\ state'[maintain'[o].c] = "open"
                 /\ \A x \in Managers : conn[x] # maintain'[o].c
                 /\ \A x \in Managers : maintain'[x].c = maintain'[o].c => x = o
      BY <1>0, <2>3, <2>5 DEF Owned
    <3>2. \A o \in Managers : maintain'[o].at # "wait" => conn[o] = 0
      BY <1>0, <1>2, <2>1 DEF Owned
    <3>3. \A o \in Managers : conn[o] # 0 =>
            state'[conn[o]] = "open" /\ \A x \in Managers : conn[x] = conn[o] => x = o
      BY <1>0, <2>5 DEF Owned, PoolTypes
    <3>4. \A w \in AllWriters : task[w].at \in Holding =>
            /\ task[w].c \in Conns /\ state'[task[w].c] # "none"
            /\ \A x \in Managers : /\ conn[x] = task[w].c => x = Manager(w) /\ task[w].at # "close"
                                   /\ maintain'[x].c # task[w].c
      BY <1>0, <1>2, <2>3 DEF Owned
    <3> QED BY <1>0, <1>1, <1>2, <3>1, <3>2, <3>3, <3>4 DEF Owned
  <2>7. Single'
    <3> SUFFICES ASSUME version = 2 PROVE Single'
      BY <1>0 DEF Single
    <3>1. task["transponder"].at = "close" => task["transponder"].c \in Conns
      BY <1>0 DEF Owned, Holding
    <3>2. \A c \in Conns : state[c] = "closed" => state'[c] = "closed"
      BY <1>2
    <3> QED BY <1>0, <1>1, <1>2, <2>3, <2>5, <3>1, <3>2 DEF Single
  <2> QED BY <1>1, <2>4, <2>6, <2>7 DEF PoolInv
<1>3. CASE Check(m)
  <2> DEFINE r == [maintain[m] EXCEPT !.at = IF conn[m] = 0 THEN "connect" ELSE "wait"]
  <2>1. /\ maintain' = [maintain EXCEPT ![m] = r] /\ maintain[m].at = "wait"
        /\ UNCHANGED <<conn, state>>
    BY <1>3 DEF Check
  <2>2. maintain[m].c = 0
    BY <1>0, <2>1 DEF Owned
  <2>3. r \in Maintaining /\ r.c = 0 /\ r.at = IF conn[m] = 0 THEN "connect" ELSE "wait"
    BY <1>0, <2>2 DEF Maintaining
  <2> HIDE DEF r
  <2>4. state' \in [Conns -> {"none", "open", "closed"}]
    BY <1>0, <2>1 DEF PoolTypes
  <2> QED BY <1>2, <2>1, <2>3, <2>4
<1>4. Waiting \in Maintaining /\ Waiting.at = "wait" /\ Waiting.c = 0
  BY DEF Waiting, Maintaining
<1>5. CASE ConnectFails(m)
  <2>1. state' \in [Conns -> {"none", "open", "closed"}]
    BY <1>0, <1>5 DEF PoolTypes, ConnectFails
  <2> QED BY <1>2, <1>4, <1>5, <2>1 DEF ConnectFails
<1>6. CASE FetchFails(m)
  <2>1. PICK c \in Conns : state[c] = "none" /\ state' = [state EXCEPT ![c] = "closed"]
    BY <1>6 DEF FetchFails, Fresh
  <2>2. state' \in [Conns -> {"none", "open", "closed"}]
        /\ \A d \in Conns : state'[d] = IF d = c THEN "closed" ELSE state[d]
    BY <1>0, <2>1 DEF PoolTypes
  <2> QED BY <1>2, <1>4, <1>6, <2>1, <2>2 DEF FetchFails
<1>7. CASE Fetch(m)
  <2>1. PICK c \in Conns : /\ state[c] = "none" /\ state' = [state EXCEPT ![c] = "open"]
                           /\ maintain' = [maintain EXCEPT ![m] = [at |-> "store", c |-> c]]
    BY <1>7 DEF Fetch, Fresh
  <2>2. maintain[m].at = "connect" /\ UNCHANGED conn
    BY <1>7 DEF Fetch
  <2> DEFINE r == [at |-> "store", c |-> c]
  <2>3. r \in Maintaining /\ r.at = "store" /\ r.c = c
    BY DEF Maintaining
  <2> HIDE DEF r
  <2>4. maintain'[m] = r /\ \A o \in Managers : o # m => maintain'[o] = maintain[o]
    BY <1>0, <2>1 DEF PoolTypes, r
  <2>5. \A d \in Conns : state'[d] = IF d = c THEN "open" ELSE state[d]
    BY <1>0, <2>1 DEF PoolTypes
  <2>6. PoolTypes'
    <3>1. maintain' \in [Managers -> Maintaining]
      BY <1>0, <2>1, <2>3 DEF PoolTypes, r
    <3>2. state' \in [Conns -> {"none", "open", "closed"}]
      BY <1>0, <2>1 DEF PoolTypes
    <3> QED BY <1>0, <2>2, <3>1, <3>2 DEF PoolTypes
  <2>7. \A o \in Managers : conn[o] # c /\ maintain[o].c # c /\ maintain[m].c = 0
    BY <1>0, <2>1, <2>2 DEF Owned
  <2>8. Owned'
    <3>1. \A o \in Managers :
            /\ maintain'[o].at # "store" => maintain'[o].c = 0
            /\ maintain'[o].at = "store" =>
                 /\ maintain'[o].c \in Conns /\ state'[maintain'[o].c] = "open"
                 /\ \A x \in Managers : conn[x] # maintain'[o].c
                 /\ \A x \in Managers : maintain'[x].c = maintain'[o].c => x = o
      <4> SUFFICES ASSUME NEW o \in Managers
                   PROVE  /\ maintain'[o].at # "store" => maintain'[o].c = 0
                          /\ maintain'[o].at = "store" =>
                               /\ maintain'[o].c \in Conns /\ state'[maintain'[o].c] = "open"
                               /\ \A x \in Managers : conn[x] # maintain'[o].c
                               /\ \A x \in Managers : maintain'[x].c = maintain'[o].c => x = o
        OBVIOUS
      <4>1. CASE o = m
        <5>1. \A x \in Managers : maintain'[x].c = c => x = m
          BY <2>4, <2>7
        <5> QED BY <2>3, <2>4, <2>5, <2>7, <4>1, <5>1
      <4>2. CASE o # m
        <5>1. maintain'[o] = maintain[o]
          BY <2>4, <4>2
        <5>2. /\ maintain[o].at # "store" => maintain[o].c = 0
              /\ maintain[o].at = "store" =>
                   /\ maintain[o].c \in Conns /\ state[maintain[o].c] = "open"
                   /\ \A x \in Managers : conn[x] # maintain[o].c
                   /\ \A x \in Managers : maintain[x].c = maintain[o].c => x = o
          BY <1>0 DEF Owned
        <5>3. maintain[o].c # c
          BY <2>7
        <5>4. \A x \in Managers : maintain'[x].c = maintain[o].c =>
                x # m /\ maintain[x].c = maintain[o].c
          BY <2>3, <2>4, <5>3
        <5> QED BY <2>5, <5>1, <5>2, <5>3, <5>4
      <4> QED BY <4>1, <4>2
    <3>2. \A o \in Managers : maintain'[o].at # "wait" => conn[o] = 0
      BY <1>0, <2>2, <2>4 DEF Owned
    <3>3. \A o \in Managers : conn[o] # 0 =>
            state'[conn[o]] = "open" /\ \A x \in Managers : conn[x] = conn[o] => x = o
      BY <1>0, <2>5 DEF Owned, PoolTypes
    <3>4. \A w \in AllWriters : task[w].at \in Holding =>
            /\ task[w].c \in Conns /\ state'[task[w].c] # "none"
            /\ \A x \in Managers : /\ conn[x] = task[w].c => x = Manager(w) /\ task[w].at # "close"
                                   /\ maintain'[x].c # task[w].c
      <4> SUFFICES ASSUME NEW w \in AllWriters, task[w].at \in Holding
                   PROVE  /\ task[w].c \in Conns /\ state'[task[w].c] # "none"
                          /\ \A x \in Managers :
                               /\ conn[x] = task[w].c => x = Manager(w) /\ task[w].at # "close"
                               /\ maintain'[x].c # task[w].c
        OBVIOUS
      <4>1. /\ task[w].c \in Conns /\ state[task[w].c] # "none"
            /\ \A x \in Managers :
                 /\ conn[x] = task[w].c => x = Manager(w) /\ task[w].at # "close"
                 /\ maintain[x].c # task[w].c
        BY <1>0 DEF Owned
      <4>2. task[w].c # c
        BY <2>1, <4>1
      <4>3. \A x \in Managers : maintain'[x].c # task[w].c
        BY <2>3, <2>4, <4>1, <4>2
      <4> QED BY <2>5, <4>1, <4>2, <4>3
    <3>5. conn' = conn /\ task' = task
      BY <1>0, <2>2
    <3>6. \A w \in AllWriters : Manager(w)' = Manager(w)
      BY <1>1
    <3> QED BY <3>1, <3>2, <3>3, <3>4, <3>5, <3>6 DEF Owned
  <2>9. Single'
    <3> SUFFICES ASSUME version = 2 PROVE Single'
      BY <1>0 DEF Single
    <3>1. task["transponder"].at = "close" => task["transponder"].c \in Conns
      BY <1>0 DEF Owned, Holding
    <3>2. \A d \in Conns : state[d] = "open" =>
            \/ \E o \in Managers : conn[o] = d \/ maintain[o].c = d
            \/ task["transponder"].at = "close" /\ task["transponder"].c = d
      BY <1>0 DEF Single
    <3>3. ASSUME NEW d \in Conns, state'[d] = "open"
          PROVE  \/ \E o \in Managers : conn[o] = d \/ maintain'[o].c = d
                 \/ task["transponder"].at = "close" /\ task["transponder"].c = d
      <4>1. CASE d = c
        BY <2>3, <2>4, <4>1
      <4>2. CASE d # c
        <5>1. state[d] = "open"
          BY <2>5, <3>3, <4>2
        <5>2. \A o \in Managers : maintain[o].c = d => maintain'[o].c = d
          BY <2>4, <2>7
        <5> QED BY <3>2, <5>1, <5>2
      <4> QED BY <4>1, <4>2
    <3>4. \A d \in Conns : closes[d] <= 1 /\ (closes[d] = 1 => state'[d] = "closed")
      BY <1>0, <2>1, <2>5 DEF Single
    <3>5. task["transponder"].at = "close" => state'[task["transponder"].c] = "open"
      BY <1>0, <2>5, <3>1 DEF Single
    <3> QED BY <1>0, <1>1, <2>2, <3>3, <3>4, <3>5 DEF Single
  <2> QED BY <1>1, <2>6, <2>8, <2>9 DEF PoolInv
<1>8. CASE Store(m)
  <2> DEFINE c == maintain[m].c
  <2>1. /\ maintain[m].at = "store" /\ conn' = [conn EXCEPT ![m] = c]
        /\ maintain' = [maintain EXCEPT ![m] = Waiting] /\ UNCHANGED state
    BY <1>8 DEF Store
  <2>2. /\ c \in Conns /\ state[c] = "open" /\ conn[m] = 0
        /\ \A o \in Managers : conn[o] # c /\ (maintain[o].c = c => o = m)
        /\ \A w \in AllWriters : task[w].at \in Holding => task[w].c # c
    BY <1>0, <2>1 DEF Owned
  <2> HIDE DEF c
  <2>3. conn'[m] = c /\ \A o \in Managers : o # m => conn'[o] = conn[o]
    BY <1>0, <2>1 DEF PoolTypes
  <2>4. maintain'[m].at = "wait" /\ maintain'[m].c = 0
        /\ \A o \in Managers : o # m => maintain'[o] = maintain[o]
    BY <1>0, <1>4, <2>1 DEF PoolTypes
  <2>5. PoolTypes'
    BY <1>0, <1>4, <2>1, <2>2 DEF PoolTypes
  <2>6. Owned'
    <3>1. \A o \in Managers :
            /\ maintain'[o].at # "store" => maintain'[o].c = 0
            /\ maintain'[o].at = "store" =>
                 /\ maintain'[o].c \in Conns /\ state[maintain'[o].c] = "open"
                 /\ \A x \in Managers : conn'[x] # maintain'[o].c
                 /\ \A x \in Managers : maintain'[x].c = maintain'[o].c => x = o
      <4> SUFFICES ASSUME NEW o \in Managers
                   PROVE  /\ maintain'[o].at # "store" => maintain'[o].c = 0
                          /\ maintain'[o].at = "store" =>
                               /\ maintain'[o].c \in Conns /\ state[maintain'[o].c] = "open"
                               /\ \A x \in Managers : conn'[x] # maintain'[o].c
                               /\ \A x \in Managers : maintain'[x].c = maintain'[o].c => x = o
        OBVIOUS
      <4>1. CASE o = m
        BY <2>4, <4>1
      <4>2. CASE o # m
        <5>1. maintain'[o] = maintain[o] /\ maintain[o].c # c
          BY <2>2, <2>4, <4>2
        <5>2. /\ maintain[o].at # "store" => maintain[o].c = 0
              /\ maintain[o].at = "store" =>
                   /\ maintain[o].c \in Conns /\ state[maintain[o].c] = "open"
                   /\ \A x \in Managers : conn[x] # maintain[o].c
                   /\ \A x \in Managers : maintain[x].c = maintain[o].c => x = o
          BY <1>0 DEF Owned
        <5>3. maintain[o].at = "store" => maintain[o].c # 0
          BY <5>2, Facts
        <5>4. maintain[o].at = "store" =>
                \A x \in Managers : maintain'[x].c = maintain[o].c => x = o
          BY <2>4, <5>2, <5>3
        <5>5. maintain[o].at = "store" => \A x \in Managers : conn'[x] # maintain[o].c
          BY <2>3, <5>1, <5>2
        <5> QED BY <5>1, <5>2, <5>4, <5>5
      <4> QED BY <4>1, <4>2
    <3>2. \A o \in Managers : maintain'[o].at # "wait" => conn'[o] = 0
      BY <1>0, <2>3, <2>4 DEF Owned
    <3>3. \A o \in Managers : conn'[o] # 0 =>
            state[conn'[o]] = "open" /\ \A x \in Managers : conn'[x] = conn'[o] => x = o
      <4> SUFFICES ASSUME NEW o \in Managers, conn'[o] # 0
                   PROVE  /\ state[conn'[o]] = "open"
                          /\ \A x \in Managers : conn'[x] = conn'[o] => x = o
        OBVIOUS
      <4>1. CASE o = m
        BY <2>2, <2>3, <4>1
      <4>2. CASE o # m
        <5>1. conn'[o] = conn[o] /\ conn[o] # c
          BY <2>2, <2>3, <4>2
        <5>2. state[conn[o]] = "open" /\ \A x \in Managers : conn[x] = conn[o] => x = o
          BY <1>0, <5>1 DEF Owned
        <5> QED BY <2>3, <5>1, <5>2
      <4> QED BY <4>1, <4>2
    <3>4. \A w \in AllWriters : task[w].at \in Holding =>
            /\ task[w].c \in Conns /\ state[task[w].c] # "none"
            /\ \A x \in Managers : /\ conn'[x] = task[w].c => x = Manager(w) /\ task[w].at # "close"
                                   /\ maintain'[x].c # task[w].c
      BY <1>0, <2>2, <2>3, <2>4 DEF Owned
    <3> QED BY <1>0, <1>1, <2>1, <3>1, <3>2, <3>3, <3>4 DEF Owned
  <2>7. Single'
    <3> SUFFICES ASSUME version = 2 PROVE Single'
      BY <1>0 DEF Single
    <3>1. task["transponder"].at \in Holding \ {"close"} =>
            conn'[Manager("transponder")] = task["transponder"].c
      <4>1. task["transponder"].at \in Holding \ {"close"} =>
              /\ conn[Manager("transponder")] = task["transponder"].c
              /\ task["transponder"].c \in Conns
              /\ Manager("transponder") \in Managers
        BY <1>0, ManagerType DEF Single, Owned
      <4> QED BY <2>2, <2>3, <4>1
    <3>2. ASSUME NEW d \in Conns, state[d] = "open"
          PROVE  \/ \E o \in Managers : conn'[o] = d \/ maintain'[o].c = d
                 \/ task["transponder"].at = "close" /\ task["transponder"].c = d
      <4>1. CASE d = c
        BY <2>3, <4>1
      <4>2. CASE d # c
        <5>1. \A o \in Managers : conn[o] = d \/ maintain[o].c = d =>
                                    conn'[o] = d \/ maintain'[o].c = d
          BY <2>2, <2>3, <2>4, <4>2 DEF c
        <5> QED BY <1>0, <3>2, <5>1 DEF Single
      <4> QED BY <4>1, <4>2
    <3> QED BY <1>0, <1>1, <2>1, <3>1, <3>2 DEF Single
  <2> QED BY <1>1, <2>5, <2>6, <2>7 DEF PoolInv
<1> QED BY <1>3, <1>5, <1>6, <1>7, <1>8 DEF MaintainStep

\* A writer begins its call of Write.
LEMMA StartWriteInv ==
  ASSUME PoolInv, NEW w \in Writers[version], task[w].at = "idle", StartWrite(w),
         UNCHANGED <<version, conn, state, closes, maintain>>
  PROVE  /\ PoolInv'
         /\ task'[w].at # "idle" /\ \A o \in AllWriters : o # w => task'[o] = task[o]
<1>0. w \in AllWriters /\ PoolTypes /\ Delivery
  BY Facts DEF PoolInv, AllWriters, PoolTypes
<1>1. PICK seed \in Managers : task' = [task EXCEPT ![w] = [NoTask EXCEPT !.at = "load", !.seed = seed]]
  BY DEF StartWrite
<1> DEFINE r == [NoTask EXCEPT !.at = "load", !.seed = seed]
<1>2. r \in Tasks /\ r.at = "load" /\ ~r.ok
  BY Facts DEF NoTask, Tasks, Places
<1>3. Moves(w, r)
  BY <1>1, <1>2 DEF Moves
<1> HIDE DEF r
<1>4. delivered'[w] = 0 /\ delivered' \in [AllWriters -> Nat]
      /\ \A o \in AllWriters : o # w => delivered'[o] = delivered[o]
  BY <1>0 DEF StartWrite, PoolTypes
<1>5. /\ task'[w] = r /\ task' \in [AllWriters -> Tasks]
      /\ \A o \in AllWriters : o # w => task'[o] = task[o]
  BY <1>0, <1>2, <1>3, Moved
<1>6. PoolTypes'
  BY <1>0, <1>4, <1>5 DEF PoolTypes
<1>7. Delivery'
  BY <1>0, <1>2, <1>3, <1>4, DeliveryKept DEF DeliveryOf
<1>8. Owned' /\ Others' /\ Single'
  BY <1>2, <1>3, LetGo DEF Holding
<1> QED BY <1>2, <1>5, <1>6, <1>7, <1>8 DEF PoolInv

\* ... and gets its result.
LEMMA ReturnedInv ==
  ASSUME PoolInv, NEW w \in Writers[version], task[w].at = "done",
         task' = [task EXCEPT ![w] = NoTask],
         UNCHANGED <<version, conn, state, closes, maintain, delivered>>
  PROVE  /\ PoolInv'
         /\ task'[w].at = "idle" /\ \A o \in AllWriters : o # w => task'[o] = task[o]
<1>0. w \in AllWriters /\ PoolTypes /\ Delivery /\ delivered[w] <= 1
  BY Facts DEF PoolInv, AllWriters, PoolTypes, Delivery
<1>1. NoTask \in Tasks /\ NoTask.at = "idle"
  BY Facts DEF NoTask, Tasks, Places
<1>2. Moves(w, NoTask)
  BY <1>1 DEF Moves
<1>3. /\ task'[w] = NoTask /\ task' \in [AllWriters -> Tasks]
      /\ \A o \in AllWriters : o # w => task'[o] = task[o]
  BY <1>0, <1>1, <1>2, Moved
<1>4. PoolTypes'
  BY <1>0, <1>3 DEF PoolTypes
<1>5. Delivery'
  BY <1>0, <1>1, <1>2, DeliveryKept DEF DeliveryOf
<1>6. Owned' /\ Others' /\ Single'
  BY <1>1, <1>2, LetGo DEF Holding
<1> QED BY <1>1, <1>3, <1>4, <1>5, <1>6 DEF PoolInv

\* The rest of metron leaves its pool alone.
LEMMA PoolUnchanged ==
  ASSUME PoolInv, UNCHANGED <<version, conn, state, closes, maintain, task, delivered>>
  PROVE  PoolInv'
<1>1. \A w \in AllWriters : Manager(w)' = Manager(w)
  BY DEF Manager
<1>2. PoolTypes' /\ Delivery' /\ Others'
  BY DEF PoolInv, PoolTypes, Delivery, Others
<1>3. Owned'
  BY <1>1 DEF PoolInv, Owned
<1>4. Single'
  <2>1. "transponder" \in AllWriters
    BY Facts
  <2> QED BY <1>1, <2>1 DEF PoolInv, Single
<1> QED BY <1>2, <1>3, <1>4 DEF PoolInv

\* A new pool has no connections, and nobody writes.
LEMMA PoolInitInv ==
  ASSUME Init
  PROVE  PoolInv
<1> USE Facts
<1>1. NoTask \in Tasks /\ NoTask.at = "idle" /\ Waiting \in Maintaining /\ Waiting.at = "wait"
      /\ Waiting.c = 0
  BY DEF NoTask, Tasks, Places, Waiting, Maintaining
<1>2. PoolTypes
  BY <1>1 DEF Init, PoolInit, PoolTypes
<1>3. \A w \in AllWriters : task[w].at = "idle" /\ delivered[w] = 0
  BY <1>1 DEF Init, PoolInit
<1>4. Delivery /\ Others
  BY <1>3 DEF Delivery, Others
<1>5. Owned
  BY <1>1, <1>3 DEF Init, PoolInit, Owned, Holding
<1>6. Single
  BY <1>3 DEF Init, PoolInit, Single, Holding
<1> QED BY <1>2, <1>4, <1>5, <1>6 DEF PoolInv

-----------------------------------------------------------------------------
(* What metron counts.                                                      *)

Fields == {"ingress", "missed", "rejected", "emitted", "egress", "dropped"}
Books == [ingress : Nat, missed : Nat, rejected : Nat, emitted : Nat, egress : Nat,
          dropped : Nat]
Envelopes == [type : {"log", "counter", "invalid", "unknown"}, name : Counters \cup {""},
              delta : Int]
Streams == [open : BOOLEAN, sent : Seq(Int)]
Rings == [queue : Seq(Envelopes), missed : Nat]

BookTypes ==
  /\ metrics \in Books
  /\ diode \in Rings /\ Len(diode.queue) <= DiodeSize
  /\ batch \in Seq(Envelopes)
  /\ arriving \in Nat /\ uncounted \in Nat
  /\ delta \in [Counters -> Int] /\ swapped \in [Counters -> Int]
  /\ stream \in [Counters -> Streams]

\* Nobody uses the v2 API's pipeline where the v1 API is meant.
Quiet ==
  version = 1 =>
    /\ arriving = 0 /\ uncounted = 0
    /\ \A k \in Counters : swapped[k] = -1 /\ ~stream[k].open /\ stream[k].sent = << >>

IInv == PoolInv /\ BookTypes /\ Quiet /\ Accounted

\* Counting n more.
LEMMA Counted ==
  ASSUME metrics \in Books, NEW f \in Fields, NEW n \in Nat, Inc(f, n)
  PROVE  /\ metrics' \in Books
         /\ metrics'.ingress = metrics.ingress + (IF f = "ingress" THEN n ELSE 0)
         /\ metrics'.missed = metrics.missed + (IF f = "missed" THEN n ELSE 0)
         /\ metrics'.rejected = metrics.rejected + (IF f = "rejected" THEN n ELSE 0)
         /\ metrics'.emitted = metrics.emitted + (IF f = "emitted" THEN n ELSE 0)
         /\ metrics'.egress = metrics.egress + (IF f = "egress" THEN n ELSE 0)
         /\ metrics'.dropped = metrics.dropped + (IF f = "dropped" THEN n ELSE 0)
<1> USE DEF Inc, Books
<1>1. CASE f = "ingress"
  BY <1>1
<1>2. CASE f = "missed"
  BY <1>2
<1>3. CASE f = "rejected"
  BY <1>3
<1>4. CASE f = "emitted"
  BY <1>4
<1>5. CASE f = "egress"
  BY <1>5
<1>6. CASE f = "dropped"
  BY <1>6
<1> QED BY <1>1, <1>2, <1>3, <1>4, <1>5, <1>6 DEF Fields

\* A datagram that is read, with those missed before it; and one that is rejected.
seenWith(m, n) == [m EXCEPT !.ingress = @ + 1, !.missed = @ + n]
rejecting(m) == [m EXCEPT !.rejected = @ + 1]

\* What an envelope that comes in, or is rejected, adds to the books.
LEMMA Seen ==
  ASSUME NEW m \in Books, NEW n \in Nat
  PROVE  LET s == seenWith(m, n)
             r == rejecting(s)
         IN  /\ s \in Books /\ s.ingress = m.ingress + 1
             /\ s.emitted = m.emitted /\ s.rejected = m.rejected
             /\ s.egress = m.egress /\ s.dropped = m.dropped
             /\ r \in Books /\ r.ingress = m.ingress + 1
             /\ r.emitted = m.emitted /\ r.rejected = m.rejected + 1
             /\ r.egress = m.egress /\ r.dropped = m.dropped
<1> DEFINE i == [m EXCEPT !.ingress = @ + 1]
           s == seenWith(m, n)
           r == rejecting(s)
<1>1. /\ i \in Books /\ i.ingress = m.ingress + 1 /\ i.missed = m.missed
      /\ i.rejected = m.rejected /\ i.emitted = m.emitted /\ i.egress = m.egress
      /\ i.dropped = m.dropped
  BY DEF Books
<1>2. s = [i EXCEPT !.missed = @ + n]
  BY DEF seenWith, Books
<1> HIDE DEF i, s
<1>3. /\ s \in Books /\ s.ingress = i.ingress /\ s.rejected = i.rejected
      /\ s.emitted = i.emitted /\ s.egress = i.egress /\ s.dropped = i.dropped
  BY <1>1, <1>2 DEF Books
<1>4. r = [s EXCEPT !.rejected = @ + 1]
  BY DEF rejecting
<1> HIDE DEF r
<1>5. /\ r \in Books /\ r.ingress = s.ingress /\ r.rejected = s.rejected + 1
      /\ r.emitted = s.emitted /\ r.egress = s.egress /\ r.dropped = s.dropped
  BY <1>3, <1>4 DEF Books
<1> QED BY <1>1, <1>3, <1>5 DEF s, r

\* A set in the diode adds the new envelope, or tells the reader of those it replaces.
LEMMA SetFacts ==
  ASSUME NEW d \in Rings, Len(d.queue) <= DiodeSize, NEW e \in Envelopes,
         NEW n, n = DiodeSet(d, DiodeSize, e)
  PROVE  /\ n \in Rings /\ Len(n.queue) <= DiodeSize
         /\ n.missed + Len(n.queue) = d.missed + Len(d.queue) + 1
<1>1. d.queue \in Seq(Envelopes) /\ d.missed \in Nat /\ Len(d.queue) \in Nat
      /\ DiodeSize \in Nat \ {0}
  BY MetronAssumption DEF Rings
<1>2. CASE Len(d.queue) < DiodeSize
  <2>1. n = [d EXCEPT !.queue = Append(d.queue, e)]
    BY <1>2 DEF DiodeSet
  <2>2. /\ Append(d.queue, e) \in Seq(Envelopes)
        /\ Len(Append(d.queue, e)) = Len(d.queue) + 1
    BY <1>1
  <2>3. n \in Rings /\ n.queue = Append(d.queue, e) /\ n.missed = d.missed
    BY <2>1, <2>2 DEF Rings
  <2> QED BY <1>1, <1>2, <2>2, <2>3
<1>3. CASE ~(Len(d.queue) < DiodeSize)
  <2>1. n = [queue |-> <<e>>, missed |-> d.missed + DiodeSize]
    BY <1>3 DEF DiodeSet
  <2>2. n \in Rings /\ n.queue = <<e>> /\ n.missed = d.missed + DiodeSize
    BY <1>1, <2>1 DEF Rings
  <2>3. Len(n.queue) = 1
    BY <2>2
  <2> QED BY <1>1, <1>3, <2>2, <2>3
<1> QED BY <1>2, <1>3

\* Reading takes one out of the diode.
LEMMA TailFacts ==
  ASSUME NEW d \in Rings, Len(d.queue) <= DiodeSize, DiodeReady(d)
  PROVE  /\ DiodeTail(d) \in Rings /\ Len(DiodeTail(d).queue) <= DiodeSize
         /\ DiodeTail(d).missed = 0
         /\ Len(DiodeTail(d).queue) = Len(d.queue) - 1
         /\ DiodeHead(d) \in Envelopes
<1>1. d.queue \in Seq(Envelopes) /\ d.queue # << >> /\ DiodeSize \in Nat
  BY MetronAssumption DEF Rings, DiodeReady
<1>2. /\ Tail(d.queue) \in Seq(Envelopes) /\ Len(Tail(d.queue)) = Len(d.queue) - 1
      /\ Head(d.queue) \in Envelopes /\ Len(d.queue) \in Nat
  BY <1>1
<1> QED BY <1>1, <1>2 DEF DiodeTail, DiodeHead, Rings

\* Who writes, and who begins or ends.
busy == {w \in Writers[1] : task[w].at # "idle"}

\* One writer begins.
LEMMA BusyMore ==
  ASSUME NEW w \in Writers[1], task[w].at = "idle", task'[w].at # "idle",
         \A o \in AllWriters : o # w => task'[o] = task[o]
  PROVE  Cardinality(busy) \in Nat /\ Cardinality(busy') = Cardinality(busy) + 1
<1>1. IsFiniteSet(busy)
  BY WritersAssumption, FS_Subset DEF busy
<1>2. busy' = busy \cup {w} /\ w \notin busy
  BY Facts DEF busy
<1>3. Cardinality(busy \cup {w}) = Cardinality(busy) + 1
  BY <1>1, <1>2, FS_AddElement
<1> QED BY <1>1, <1>2, <1>3, FS_CardinalityType

\* One writer is back.
LEMMA BusyLess ==
  ASSUME NEW w \in Writers[1], task[w].at # "idle", task'[w].at = "idle",
         \A o \in AllWriters : o # w => task'[o] = task[o]
  PROVE  Cardinality(busy) \in Nat /\ Cardinality(busy') = Cardinality(busy) - 1
<1>1. IsFiniteSet(busy)
  BY WritersAssumption, FS_Subset DEF busy
<1>2. busy' = busy \ {w} /\ w \in busy
  BY Facts DEF busy
<1>3. Cardinality(busy \ {w}) = Cardinality(busy) - 1
  BY <1>1, <1>2, FS_RemoveElement
<1> QED BY <1>1, <1>2, <1>3, FS_CardinalityType

\* Those who write go on.
LEMMA BusySame ==
  ASSUME \A o \in AllWriters : task'[o].at = "idle" <=> task[o].at = "idle"
  PROVE  Cardinality(busy) \in Nat /\ Cardinality(busy') = Cardinality(busy)
<1>1. IsFiniteSet(busy)
  BY WritersAssumption, FS_Subset DEF busy
<1>2. busy' = busy
  BY Facts DEF busy
<1> QED BY <1>1, <1>2, FS_CardinalityType

\* A call of the pool's Write goes on until it is done.
LEMMA StillWriting ==
  ASSUME PoolInv, NEW w \in Writers[version], WriteStep(w)
  PROVE  \A o \in AllWriters : task'[o].at = "idle" <=> task[o].at = "idle"
<1> USE Facts
<1>0. w \in AllWriters /\ PoolTypes /\ task[w] \in Tasks
  BY DEF PoolInv, AllWriters, PoolTypes
<1>1. ASSUME NEW l \in Places \ {"idle"}, Step(w, l), task[w].at # "idle"
      PROVE  \A o \in AllWriters : task'[o].at = "idle" <=> task[o].at = "idle"
  <2>1. PICK r \in Tasks : Moves(w, r) /\ r.at = l
    BY <1>0, <1>1, StepMoves
  <2> QED BY <1>0, <1>1, <2>1, Moved
<1>2. ASSUME NEW r \in Tasks, r.at # "idle", task' = [task EXCEPT ![w] = r], task[w].at # "idle"
      PROVE  \A o \in AllWriters : task'[o].at = "idle" <=> task[o].at = "idle"
  BY <1>0, <1>2, Moved DEF Moves
<1>3. \A ok \in BOOLEAN : Return(task[w], ok) \in Tasks /\ Return(task[w], ok).at # "idle"
  BY <1>0, ReturnType
<1>4. \A l \in Places, c \in Conns \cup {0}, ok \in BOOLEAN :
        /\ [task[w] EXCEPT !.at = l] \in Tasks /\ [task[w] EXCEPT !.at = l].at = l
        /\ [task[w] EXCEPT !.at = l, !.c = c] \in Tasks
        /\ [task[w] EXCEPT !.at = l, !.c = c].at = l
        /\ [task[w] EXCEPT !.at = l, !.ok = ok] \in Tasks
        /\ [task[w] EXCEPT !.at = l, !.ok = ok].at = l
  BY <1>0 DEF Tasks
<1>5. conn[Manager(w)] \in Conns \cup {0}
  BY <1>0, ManagerType DEF PoolTypes
<1>6. CASE Load(w)
  <2> DEFINE c == conn[Manager(w)]
             r == IF c = 0 THEN Return(task[w], FALSE) ELSE [task[w] EXCEPT !.at = "send", !.c = c]
  <2>1. r \in Tasks /\ r.at # "idle"
    BY <1>3, <1>4, <1>5 DEF Places
  <2>2. task' = [task EXCEPT ![w] = r] /\ task[w].at # "idle"
    BY <1>6 DEF Load
  <2> QED BY <1>2, <2>1, <2>2
<1>7. CASE Send(w)
  BY <1>1, <1>7 DEF Send, Places
<1>8. CASE Unset(w)
  BY <1>1, <1>8 DEF Unset, Places
<1>9. CASE Count(w)
  <2> DEFINE r == IF writes[task[w].c] + 1 >= MaxWrites THEN [task[w] EXCEPT !.at = "recycle"]
                    ELSE Return(task[w], TRUE)
  <2>1. r \in Tasks /\ r.at # "idle"
    BY <1>3, <1>4 DEF Places
  <2>2. task' = [task EXCEPT ![w] = r] /\ task[w].at # "idle"
    BY <1>9 DEF Count
  <2> QED BY <1>2, <2>1, <2>2
<1>10. [task EXCEPT ![w].at = "close", ![w].ok = TRUE] =
         [task EXCEPT ![w] = [task[w] EXCEPT !.at = "close", !.ok = TRUE]]
  BY <1>0 DEF PoolTypes
<1> DEFINE closing == [task[w] EXCEPT !.at = "close", !.ok = TRUE]
<1>a. closing \in Tasks /\ closing.at = "close" /\ closing.at # "idle"
  BY <1>4 DEF Places
<1>b. ASSUME task' = [task EXCEPT ![w] = closing], task[w].at # "idle"
      PROVE  \A o \in AllWriters : task'[o].at = "idle" <=> task[o].at = "idle"
  <2> HIDE DEF closing
  <2> QED BY <1>2, <1>a, <1>b
<1>11. CASE Recycle(w)
  <2>1. \/ task' = [task EXCEPT ![w] = [task[w] EXCEPT !.at = "close", !.ok = TRUE]]
        \/ task' = [task EXCEPT ![w] = Return(task[w], TRUE)]
    BY <1>10, <1>11 DEF Recycle
  <2>2. task[w].at # "idle"
    BY <1>11 DEF Recycle
  <2>3. CASE task' = [task EXCEPT ![w] = [task[w] EXCEPT !.at = "close", !.ok = TRUE]]
    BY <1>b, <2>2, <2>3
  <2>4. CASE task' = [task EXCEPT ![w] = Return(task[w], TRUE)]
    BY <1>2, <1>3, <2>2, <2>4
  <2> QED BY <2>1, <2>3, <2>4
<1>12. CASE RecycleV2(w)
  <2>1. task' = [task EXCEPT ![w] = [task[w] EXCEPT !.at = "close", !.ok = TRUE]]
        /\ task[w].at # "idle"
    BY <1>10, <1>12 DEF RecycleV2
  <2> QED BY <1>b, <2>1
<1>13. CASE Close(w)
  BY <1>1, <1>13 DEF Close, Places
<1>14. CASE Reset(w)
  <2>1. task' = [task EXCEPT ![w] = Return(task[w], task[w].ok)] /\ task[w].at # "idle"
        /\ task[w].ok \in BOOLEAN
    BY <1>0, <1>14 DEF Reset, Tasks
  <2> QED BY <1>2, <1>3, <2>1
<1> QED BY <1>6, <1>7, <1>8, <1>9, <1>11, <1>12, <1>13, <1>14 DEF WriteStep

\* The pool's steps neither begin nor end a call, and count nothing.
LEMMA PoolStepInv ==
  ASSUME IInv, PoolStep
  PROVE  IInv'
<1>1. PoolInv' /\ \A o \in AllWriters : task'[o].at = "idle" <=> task[o].at = "idle"
  <2>1. CASE \E w \in Writers[version] : WriteStep(w)
    BY <2>1, WriteStepInv, StillWriting DEF IInv
  <2>2. CASE \E m \in Managers : MaintainStep(m)
    <3>1. UNCHANGED task
      BY <2>2 DEF MaintainStep, Check, ConnectFails, FetchFails, Fetch, Store
    <3> QED BY <2>2, <3>1, MaintainStepInv DEF IInv
  <2> QED BY <2>1, <2>2 DEF PoolStep
<1>2. UNCHANGED version
  BY DEF PoolStep, WriteStep, MaintainStep, Load, Send, Unset, Count, Recycle, RecycleV2, Close,
         Reset, Check, ConnectFails, FetchFails, Fetch, Store
<1>3. UNCHANGED <<diode, metrics, batch, arriving, uncounted, delta, swapped, stream>>
  BY DEF PoolStep, pipes, v2Vars
<1>4. BookTypes' /\ Quiet'
  BY <1>2, <1>3 DEF IInv, BookTypes, Quiet
<1>5. Cardinality(busy') = Cardinality(busy)
  BY <1>1, BusySame
<1>6. Accounted'
  BY <1>2, <1>3, <1>5 DEF IInv, Accounted, busy
<1> QED BY <1>1, <1>4, <1>6 DEF IInv

\* A datagram is an envelope as the books mean it.
LEMMA DatagramType ==
  /\ Datagrams \subseteq Envelopes /\ LogEnvelope \in Envelopes
  /\ \A k \in Counters, d \in Int : CounterEvent(k, d) \in Envelopes
<1>1. LogEnvelope \in Envelopes
  BY DEF LogEnvelope, Envelopes
<1>2. \A k \in Counters, d \in Int : CounterEvent(k, d) \in Envelopes
  BY DEF CounterEvent, Envelopes
<1>a. /\ [type |-> "invalid", name |-> "", delta |-> 0] \in Envelopes
      /\ [type |-> "unknown", name |-> "", delta |-> 0] \in Envelopes
  BY DEF Envelopes
<1>3. ASSUME NEW e \in [type : {"invalid", "unknown"}, name : {""}, delta : {0}]
      PROVE  e \in Envelopes
  <2>1. e.name = "" /\ e.delta = 0
    OBVIOUS
  <2>2. e.type \in {"invalid", "unknown"}
    OBVIOUS
  <2>3. e = [type |-> e.type, name |-> e.name, delta |-> e.delta]
    OBVIOUS
  <2> QED BY <1>a, <2>1, <2>2, <2>3
<1>4. \A k \in Counters : CounterEvent(k, 1) \in Envelopes
  BY <1>2
<1>5. {CounterEvent(k, 1) : k \in Counters} \subseteq Envelopes
  BY <1>4
<1> QED BY <1>1, <1>2, <1>3, <1>5 DEF Datagrams

\* The v1 pipeline's steps: what is read is rejected or being written, and what
\* was written is sent or dropped.
LEMMA V1StepInv ==
  ASSUME IInv, version = 1,
         \/ StartWriting
         \/ \E k \in Counters : EmitEnvelope(k)
         \/ \E w \in Writers[1] : GRPCWrapperReturns(w)
  PROVE  IInv'
<1>0. /\ PoolInv /\ BookTypes /\ Quiet /\ metrics \in Books /\ diode \in Rings
      /\ Len(diode.queue) <= DiodeSize
  BY DEF IInv, BookTypes
<1>a. /\ metrics.ingress \in Nat /\ metrics.emitted \in Nat /\ metrics.rejected \in Nat
      /\ metrics.egress \in Nat /\ metrics.dropped \in Nat
      /\ metrics.ingress + metrics.emitted =
           metrics.rejected + metrics.egress + metrics.dropped + Cardinality(busy)
  BY <1>0 DEF IInv, Accounted, busy, Books
<1>1. UNCHANGED <<version, v2Vars>> /\ version' = 1
  BY DEF StartWriting, EmitEnvelope, GRPCWrapperReturns
<1>2. Quiet'
  BY <1>0, <1>1 DEF Quiet, v2Vars
<1>3. BookTypes' <=> metrics' \in Books /\ diode' \in Rings /\ Len(diode'.queue) <= DiodeSize
  BY <1>0, <1>1 DEF BookTypes, v2Vars
<1>4. Accounted' <=>
        metrics'.ingress + metrics'.emitted =
          metrics'.rejected + metrics'.egress + metrics'.dropped + Cardinality(busy')
  BY <1>1 DEF Accounted, busy
<1>5. CASE StartWriting
  <2> DEFINE e == DiodeHead(diode)
             seen == seenWith(metrics, diode.missed)
  <2>1. task["udp"].at = "idle" /\ DiodeReady(diode) /\ diode' = DiodeTail(diode)
        /\ diode.missed \in Nat
    BY <1>0, <1>5 DEF StartWriting, Rings
  <2>2. diode' \in Rings /\ Len(diode'.queue) <= DiodeSize
    BY <1>0, <2>1, TailFacts
  <2>3. CASE UnmarshallMessage(e)
    <3>1. metrics' = seen /\ StartWrite("udp")
          /\ UNCHANGED <<version, conn, state, closes, maintain>>
      BY <1>5, <2>3 DEF StartWriting, seenWith
    <3>2. /\ metrics' \in Books /\ metrics'.ingress = metrics.ingress + 1
          /\ metrics'.emitted = metrics.emitted
          /\ metrics'.rejected = metrics.rejected
          /\ metrics'.egress = metrics.egress /\ metrics'.dropped = metrics.dropped
      BY <1>0, <1>a, <2>1, <3>1, Seen
    <3>3. PoolInv' /\ task'["udp"].at # "idle"
          /\ \A o \in AllWriters : o # "udp" => task'[o] = task[o]
      BY <1>0, <2>1, <3>1, WritersAssumption, StartWriteInv
    <3>4. Cardinality(busy) \in Nat /\ Cardinality(busy') = Cardinality(busy) + 1
      BY <2>1, <3>3, WritersAssumption, BusyMore
    <3>5. Accounted'
      BY <1>a, <1>4, <3>2, <3>4
    <3> QED BY <1>2, <1>3, <2>2, <3>2, <3>3, <3>5 DEF IInv
  <2>4. CASE ~UnmarshallMessage(e)
    <3>1. metrics' = rejecting(seen)
          /\ UNCHANGED <<version, conn, state, closes, maintain, task, delivered>>
      BY <1>5, <2>4 DEF StartWriting, seenWith, rejecting
    <3>2. /\ metrics' \in Books /\ metrics'.ingress = metrics.ingress + 1
          /\ metrics'.emitted = metrics.emitted
          /\ metrics'.rejected = metrics.rejected + 1
          /\ metrics'.egress = metrics.egress /\ metrics'.dropped = metrics.dropped
      BY <1>0, <1>a, <2>1, <3>1, Seen
    <3>3. PoolInv'
      BY <1>0, <3>1, PoolUnchanged
    <3>4. Cardinality(busy) \in Nat /\ Cardinality(busy') = Cardinality(busy)
      BY <3>1, BusySame
    <3>5. Accounted'
      BY <1>a, <1>4, <3>2, <3>4
    <3> QED BY <1>2, <1>3, <2>2, <3>2, <3>3, <3>5 DEF IInv
  <2> QED BY <2>3, <2>4
<1>6. ASSUME NEW k \in Counters, EmitEnvelope(k)
      PROVE  IInv'
  <2>1. task["emitter"].at = "idle" /\ UNCHANGED <<version, conn, state, closes, maintain, diode>>
    BY <1>6 DEF EmitEnvelope
  <2>2. CASE writerSet
    <3>1. StartWrite("emitter") /\ Inc("emitted", 1)
      BY <1>6, <2>2 DEF EmitEnvelope
    <3>2. /\ metrics' \in Books /\ metrics'.emitted = metrics.emitted + 1
          /\ metrics'.ingress = metrics.ingress /\ metrics'.rejected = metrics.rejected
          /\ metrics'.egress = metrics.egress /\ metrics'.dropped = metrics.dropped
      BY <1>0, <3>1, <1>a, Counted DEF Fields
    <3>3. PoolInv' /\ task'["emitter"].at # "idle"
          /\ \A o \in AllWriters : o # "emitter" => task'[o] = task[o]
      BY <1>0, <2>1, <3>1, WritersAssumption, StartWriteInv
    <3>4. Cardinality(busy) \in Nat /\ Cardinality(busy') = Cardinality(busy) + 1
      BY <2>1, <3>3, WritersAssumption, BusyMore
    <3>5. Accounted'
      BY <1>a, <1>4, <3>2, <3>4
    <3> QED BY <1>0, <1>2, <1>3, <2>1, <3>2, <3>3, <3>5 DEF IInv
  <2>3. CASE ~writerSet
    <3>1. UNCHANGED <<task, delivered, metrics>>
      BY <1>6, <2>3 DEF EmitEnvelope
    <3>2. PoolInv'
      BY <1>0, <2>1, <3>1, PoolUnchanged
    <3>3. Cardinality(busy') = Cardinality(busy)
      BY <3>1, BusySame
    <3> QED BY <1>0, <1>a, <1>2, <1>3, <1>4, <2>1, <3>1, <3>2, <3>3 DEF IInv
  <2> QED BY <2>2, <2>3
<1>7. ASSUME NEW w \in Writers[1], GRPCWrapperReturns(w)
      PROVE  IInv'
  <2> DEFINE f == IF task[w].ok THEN "egress" ELSE "dropped"
  <2>1. /\ task[w].at = "done" /\ Inc(f, 1) /\ task' = [task EXCEPT ![w] = NoTask]
        /\ UNCHANGED <<version, conn, state, closes, maintain, delivered, diode>>
    BY <1>7 DEF GRPCWrapperReturns
  <2>2. f \in {"egress", "dropped"}
    OBVIOUS
  <2> HIDE DEF f
  <2>3. /\ metrics' \in Books
        /\ metrics'.ingress = metrics.ingress /\ metrics'.emitted = metrics.emitted
        /\ metrics'.rejected = metrics.rejected
        /\ metrics'.egress = metrics.egress + (IF f = "egress" THEN 1 ELSE 0)
        /\ metrics'.dropped = metrics.dropped + (IF f = "dropped" THEN 1 ELSE 0)
    BY <1>0, <2>1, <2>2, <1>a, Counted DEF Fields
  <2>4. PoolInv' /\ task'[w].at = "idle" /\ \A o \in AllWriters : o # w => task'[o] = task[o]
    BY <1>0, <2>1, ReturnedInv
  <2>5. Cardinality(busy) \in Nat /\ Cardinality(busy') = Cardinality(busy) - 1
    BY <2>1, <2>4, BusyLess
  <2>6. Accounted'
    <3>1. CASE f = "egress"
      <4>1. metrics'.egress = metrics.egress + 1 /\ metrics'.dropped = metrics.dropped
        BY <1>a, <2>3, <3>1
      <4> QED BY <1>a, <1>4, <2>3, <2>5, <4>1
    <3>2. CASE f = "dropped"
      <4>1. metrics'.egress = metrics.egress /\ metrics'.dropped = metrics.dropped + 1
        BY <1>a, <2>3, <3>2
      <4> QED BY <1>a, <1>4, <2>3, <2>5, <4>1
    <3> QED BY <2>2, <3>1, <3>2
  <2> QED BY <1>0, <1>2, <1>3, <2>1, <2>3, <2>4, <2>6 DEF IInv
<1> QED BY <1>5, <1>6, <1>7

\* Steps that count nothing and leave the diode, the batch and the pool alone.
LEMMA Aside ==
  ASSUME IInv, UNCHANGED poolVars, UNCHANGED <<metrics, batch, uncounted>>,
         version = 1 \/ UNCHANGED diode, BookTypes', Quiet'
  PROVE  IInv'
<1>1. PoolInv'
  BY PoolUnchanged DEF IInv, poolVars
<1>2. Accounted'
  <2>1. UNCHANGED <<version, task>>
    BY DEF poolVars
  <2> QED BY <2>1 DEF IInv, Accounted
<1> QED BY <1>1, <1>2 DEF IInv

\* The steps around the pipelines: inputs, increments, pulses and their failure.
LEMMA AsideSteps ==
  ASSUME IInv,
         \/ SetWriter \/ IntervalPasses
         \/ \E e \in Datagrams : ReadFrom(e)
         \/ \E k \in Counters : \/ Increment(k) \/ Pulse(k) \/ Break(k)
                                \/ PulseSent(k) \/ PulseFailed(k)
         \/ \E n \in 1..2 : BatchSender(n)
  PROVE  IInv'
<1>0. BookTypes /\ Quiet
  BY DEF IInv
<1>1. CASE SetWriter \/ IntervalPasses
  <2>1. UNCHANGED <<poolVars, metrics, batch, uncounted, diode, arriving, delta, swapped, stream>>
    BY <1>1 DEF SetWriter, IntervalPasses, v2Vars
  <2>2. BookTypes' /\ Quiet'
    BY <1>0, <2>1 DEF BookTypes, Quiet, poolVars
  <2> QED BY <2>1, <2>2, Aside
<1>2. ASSUME NEW e \in Datagrams, ReadFrom(e)
      PROVE  IInv'
  <2>1. version = 1 /\ diode' = DiodeSet(diode, DiodeSize, e)
        /\ UNCHANGED <<poolVars, metrics, batch, uncounted, arriving, delta, swapped, stream>>
    BY <1>2 DEF ReadFrom, v2Vars
  <2>2. diode' \in Rings /\ Len(diode'.queue) <= DiodeSize
    BY <1>0, <2>1, DatagramType, SetFacts DEF BookTypes
  <2>3. BookTypes' /\ Quiet'
    BY <1>0, <2>1, <2>2 DEF BookTypes, Quiet, poolVars
  <2> QED BY <2>1, <2>3, Aside
<1>3. ASSUME NEW n \in 1..2, BatchSender(n)
      PROVE  IInv'
  <2>1. version = 2 /\ arriving' = n
        /\ UNCHANGED <<poolVars, metrics, batch, uncounted, diode, delta, swapped, stream>>
    BY <1>3 DEF BatchSender
  <2>2. BookTypes' /\ Quiet'
    BY <1>0, <2>1 DEF BookTypes, Quiet, poolVars
  <2> QED BY <2>1, <2>2, Aside
<1>4. ASSUME NEW k \in Counters,
             Increment(k) \/ Pulse(k) \/ Break(k) \/ PulseSent(k) \/ PulseFailed(k)
      PROVE  IInv'
  <2>1. UNCHANGED <<poolVars, metrics, batch, uncounted, diode, arriving>>
    BY <1>4 DEF Increment, Pulse, Break, PulseSent, PulseFailed
  <2>2. /\ delta[k] \in Int /\ swapped[k] \in Int /\ stream[k].sent \in Seq(Int)
        /\ stream[k] \in Streams
    BY <1>0 DEF BookTypes, Streams
  <2>3. version = 2
    <3> SUFFICES ASSUME version # 2 PROVE FALSE
      OBVIOUS
    <3>1. version = 1
      BY DEF IInv, PoolInv, PoolTypes
    <3>2. swapped[k] = -1 /\ ~stream[k].open
      BY <1>0, <3>1 DEF Quiet
    <3> QED BY <1>4, <3>1, <3>2 DEF Increment, Pulse, Break, PulseSent, PulseFailed
  <2>4. /\ delta' \in [Counters -> Int] /\ swapped' \in [Counters -> Int]
        /\ stream' \in [Counters -> Streams]
    <3> DEFINE none == [open |-> FALSE, sent |-> << >>]
               opened == [stream[k] EXCEPT !.open = TRUE]
               given == [stream[k] EXCEPT !.open = FALSE]
               sent == [stream[k] EXCEPT !.sent = Append(stream[k].sent, swapped[k])]
    <3>1. none \in Streams /\ opened \in Streams /\ given \in Streams
      <4>1. << >> \in Seq(Int)
        OBVIOUS
      <4>2. none \in Streams
        BY <4>1 DEF Streams
      <4>3. opened \in Streams
        BY <2>2 DEF Streams
      <4>4. given \in Streams
        BY <2>2 DEF Streams
      <4> QED BY <4>2, <4>3, <4>4
    <3>2. sent \in Streams
      <4>1. Append(stream[k].sent, swapped[k]) \in Seq(Int)
        BY <2>2
      <4> QED BY <2>2, <4>1 DEF Streams
    <3>3. /\ Increment(k) \/ Pulse(k) => UNCHANGED stream \/ stream' = [stream EXCEPT ![k] = opened]
          /\ Break(k) => stream' = [stream EXCEPT ![k] = none]
          /\ PulseSent(k) => stream' = [stream EXCEPT ![k] = sent]
          /\ PulseFailed(k) => stream' = [stream EXCEPT ![k] = given]
      BY DEF Increment, Pulse, Break, PulseSent, PulseFailed
    <3> HIDE DEF none, opened, given, sent
    <3>4. stream' \in [Counters -> Streams]
      BY <1>0, <1>4, <3>1, <3>2, <3>3 DEF BookTypes
    <3>5. delta[k] + 1 \in Int /\ delta[k] + swapped[k] \in Int /\ 0 \in Int /\ -1 \in Int
      BY <2>2
    <3>6. delta' \in [Counters -> Int]
      BY <1>0, <1>4, <2>2, <3>5 DEF BookTypes, Increment, Pulse, Break, PulseSent, PulseFailed
    <3>7. swapped' \in [Counters -> Int]
      BY <1>0, <1>4, <2>2, <3>5 DEF BookTypes, Increment, Pulse, Break, PulseSent, PulseFailed
    <3> QED BY <3>4, <3>6, <3>7
  <2>5. BookTypes' /\ Quiet'
    BY <1>0, <2>1, <2>3, <2>4 DEF BookTypes, Quiet, poolVars
  <2> QED BY <2>1, <2>5, Aside
<1> QED BY <1>1, <1>2, <1>3, <1>4

\* The v2 pipeline's steps: what is set in the diode is still to be counted, and
\* leaves it into the batch or with an alert; a batch is sent or dropped whole.
LEMMA V2StepInv ==
  ASSUME IInv,
         \/ BatchSenderSets \/ CountIngress \/ Collect \/ Flush \/ Written
         \/ \E k \in Counters : Sender(k)
  PROVE  IInv'
<1>0. /\ PoolInv /\ BookTypes /\ Quiet /\ metrics \in Books /\ diode \in Rings
      /\ Len(diode.queue) <= DiodeSize /\ batch \in Seq(Envelopes)
      /\ arriving \in Nat /\ uncounted \in Nat /\ version \in 1..2
  BY DEF IInv, BookTypes, PoolInv, PoolTypes
<1>1. version = 2
  <2> SUFFICES ASSUME version = 1 PROVE FALSE
    BY <1>0
  <2>1. arriving = 0 /\ uncounted = 0 /\ \A k \in Counters : stream[k].sent = << >>
    BY <1>0 DEF Quiet
  <2> QED BY <2>1 DEF BatchSenderSets, CountIngress, Collect, Flush, Written, Sender
<1>2. version' = 2
  BY <1>1 DEF BatchSenderSets, CountIngress, Collect, Flush, Written, Sender, poolVars
<1>3. Quiet'
  BY <1>2 DEF Quiet
<1> DEFINE in == metrics.ingress
           missed == metrics.missed
           out == metrics.egress + metrics.dropped
           alert == diode.missed
           queued == Len(diode.queue)
           held == Len(batch)
<1>4. /\ metrics.egress \in Nat /\ metrics.dropped \in Nat
      /\ in \in Nat /\ missed \in Nat /\ out \in Nat /\ alert \in Nat /\ queued \in Nat
      /\ held \in Nat /\ uncounted \in Nat
  BY <1>0 DEF Books, Rings
<1>5. in + uncounted = missed + alert + out + queued + held
  BY <1>1, <1>4 DEF IInv, Accounted
<1>a. ASSUME /\ metrics' \in Books /\ diode' \in Rings /\ batch' \in Seq(Envelopes)
             /\ uncounted' \in Nat
             /\ in' + uncounted' = missed' + alert' + out' + queued' + held'
      PROVE  Accounted'
  <2>1. /\ metrics'.egress \in Nat /\ metrics'.dropped \in Nat
        /\ in' \in Nat /\ missed' \in Nat /\ alert' \in Nat /\ queued' \in Nat /\ held' \in Nat
    BY <1>a DEF Books, Rings
  <2> QED BY <1>2, <1>a, <2>1 DEF Accounted
<1>6. ASSUME NEW e \in Envelopes, diode' = DiodeSet(diode, DiodeSize, e),
             uncounted' = uncounted + 1, UNCHANGED <<poolVars, metrics, batch, delta, swapped>>,
             arriving' \in Nat, stream' \in [Counters -> Streams]
      PROVE  IInv'
  <2>1. /\ diode' \in Rings /\ Len(diode'.queue) <= DiodeSize
        /\ diode'.missed + Len(diode'.queue) = diode.missed + Len(diode.queue) + 1
    BY <1>0, <1>6, SetFacts
  <2>2. diode'.missed \in Nat /\ Len(diode'.queue) \in Nat
    BY <2>1 DEF Rings
  <2>3. BookTypes'
    BY <1>0, <1>6, <2>1 DEF BookTypes
  <2>4. Accounted'
    <3>a. alert' + queued' = alert + queued + 1 /\ alert' \in Nat /\ queued' \in Nat
      BY <2>1, <2>2
    <3>1. /\ in' = in /\ missed' = missed /\ out' = out /\ held' = held
          /\ uncounted' = uncounted + 1
      BY <1>6
    <3> HIDE DEF in, missed, out, alert, queued, held
    <3>2. \A a, q \in Nat : a + q = alert + queued + 1 =>
            in + (uncounted + 1) = missed + a + out + q + held
      BY <1>4, <1>5
    <3>3. in + (uncounted + 1) = missed + alert' + out + queued' + held
      BY <3>a, <3>2
    <3>4. in' + uncounted' = missed' + alert' + out' + queued' + held'
      BY <3>1, <3>3
    <3> QED BY <1>0, <1>4, <1>6, <1>a, <2>1, <3>4
  <2>5. PoolInv'
    BY <1>0, <1>6, PoolUnchanged DEF poolVars
  <2> QED BY <1>3, <2>3, <2>4, <2>5 DEF IInv
<1>7. CASE BatchSenderSets
  BY <1>0, <1>6, <1>7, DatagramType DEF BatchSenderSets, Set, BookTypes
<1>8. ASSUME NEW k \in Counters, Sender(k)
      PROVE  IInv'
  <2>1. stream[k] \in Streams /\ stream[k].sent \in Seq(Int) /\ stream[k].sent # << >>
    BY <1>0, <1>8 DEF BookTypes, Streams, Sender
  <2>2. Head(stream[k].sent) \in Int /\ Tail(stream[k].sent) \in Seq(Int)
    BY <2>1
  <2> DEFINE e == CounterEvent(k, Head(stream[k].sent))
             r == [stream[k] EXCEPT !.sent = Tail(stream[k].sent)]
  <2>3. e \in Envelopes
    BY <2>2, DatagramType
  <2>4. r \in Streams
    BY <2>1, <2>2 DEF Streams
  <2>5. stream' = [stream EXCEPT ![k] = r] /\ diode' = DiodeSet(diode, DiodeSize, e)
        /\ uncounted' = uncounted + 1 /\ UNCHANGED <<poolVars, metrics, batch, delta, swapped, arriving>>
    BY <1>8 DEF Sender, Set
  <2> HIDE DEF e, r
  <2>6. stream' \in [Counters -> Streams]
    BY <1>0, <2>4, <2>5 DEF BookTypes
  <2> QED BY <1>0, <1>6, <2>3, <2>5, <2>6
<1>9. CASE CountIngress
  <2>1. Inc("ingress", uncounted) /\ uncounted' = 0
        /\ UNCHANGED <<poolVars, diode, batch, arriving, delta, swapped, stream>>
    BY <1>9 DEF CountIngress
  <2>2. /\ metrics' \in Books /\ metrics'.ingress = metrics.ingress + uncounted
        /\ metrics'.missed = metrics.missed /\ metrics'.egress = metrics.egress
        /\ metrics'.dropped = metrics.dropped
    BY <1>0, <1>4, <2>1, Counted DEF Fields
  <2>3. BookTypes'
    BY <1>0, <2>1, <2>2 DEF BookTypes
  <2>4. Accounted'
    <3>1. /\ in' = in + uncounted /\ missed' = missed /\ out' = out /\ alert' = alert
          /\ queued' = queued /\ held' = held /\ uncounted' = 0
      BY <1>4, <2>1, <2>2
    <3> HIDE DEF in, missed, out, alert, queued, held
    <3>2. in' + uncounted' = missed' + alert' + out' + queued' + held'
      BY <1>4, <1>5, <3>1
    <3> QED BY <1>0, <1>a, <2>1, <2>2, <3>2
  <2>5. PoolInv'
    BY <1>0, <2>1, PoolUnchanged DEF poolVars
  <2> QED BY <1>3, <2>3, <2>4, <2>5 DEF IInv
<1>10. "transponder" \in Writers[version]
  BY <1>1, WritersAssumption
<1>11. CASE Collect
  <2>1. /\ task["transponder"].at = "idle" /\ DiodeReady(diode) /\ diode' = DiodeTail(diode)
        /\ Inc("missed", diode.missed) /\ batch' = Append(batch, DiodeHead(diode))
        /\ UNCHANGED <<version, conn, state, closes, maintain, arriving, uncounted, delta, swapped,
                       stream>>
        /\ StartWrite("transponder") \/ UNCHANGED <<task, delivered>>
    BY <1>11 DEF Collect, Write
  <2>2. /\ diode' \in Rings /\ Len(diode'.queue) <= DiodeSize /\ diode'.missed = 0
        /\ Len(diode'.queue) = Len(diode.queue) - 1 /\ DiodeHead(diode) \in Envelopes
    BY <1>0, <2>1, TailFacts
  <2>3. batch' \in Seq(Envelopes) /\ Len(batch') = Len(batch) + 1
    BY <1>0, <2>1, <2>2
  <2>4. /\ metrics' \in Books /\ metrics'.ingress = metrics.ingress
        /\ metrics'.missed = metrics.missed + diode.missed /\ metrics'.egress = metrics.egress
        /\ metrics'.dropped = metrics.dropped
    BY <1>0, <1>4, <2>1, Counted DEF Fields
  <2>5. BookTypes'
    BY <1>0, <2>1, <2>2, <2>3, <2>4 DEF BookTypes
  <2>6. Accounted'
    <3>1. /\ in' = in /\ missed' = missed + alert /\ out' = out /\ alert' = 0
          /\ queued' = queued - 1 /\ held' = held + 1 /\ uncounted' = uncounted
      BY <1>4, <2>1, <2>2, <2>3, <2>4
    <3> HIDE DEF in, missed, out, alert, queued, held
    <3>2. in' + uncounted' = missed' + alert' + out' + queued' + held'
      BY <1>4, <1>5, <3>1
    <3> QED BY <1>4, <1>a, <2>2, <2>3, <2>4, <3>1, <3>2
  <2>7. PoolInv'
    BY <1>0, <1>10, <2>1, StartWriteInv, PoolUnchanged
  <2> QED BY <1>3, <2>5, <2>6, <2>7 DEF IInv
<1>12. CASE Flush
  <2>1. /\ task["transponder"].at = "idle" /\ StartWrite("transponder")
        /\ UNCHANGED <<version, conn, state, closes, maintain, diode, metrics, batch, arriving,
                       uncounted, delta, swapped, stream>>
    BY <1>12 DEF Flush, Write
  <2>2. BookTypes'
    BY <1>0, <2>1 DEF BookTypes
  <2>3. Accounted'
    BY <1>0, <1>5, <1>a, <2>1
  <2>4. PoolInv'
    BY <1>0, <1>10, <2>1, StartWriteInv
  <2> QED BY <1>3, <2>2, <2>3, <2>4 DEF IInv
<1>13. CASE Written
  <2> DEFINE f == IF task["transponder"].ok THEN "egress" ELSE "dropped"
  <2>1. /\ task["transponder"].at = "done" /\ Inc(f, Len(batch)) /\ batch' = << >>
        /\ task' = [task EXCEPT !["transponder"] = NoTask]
        /\ UNCHANGED <<version, conn, state, closes, maintain, delivered, diode, arriving,
                       uncounted, delta, swapped, stream>>
    BY <1>13 DEF Written
  <2>2. f \in {"egress", "dropped"}
    OBVIOUS
  <2> HIDE DEF f
  <2>3. /\ metrics' \in Books /\ metrics'.ingress = metrics.ingress
        /\ metrics'.missed = metrics.missed
        /\ metrics'.egress = metrics.egress + (IF f = "egress" THEN Len(batch) ELSE 0)
        /\ metrics'.dropped = metrics.dropped + (IF f = "dropped" THEN Len(batch) ELSE 0)
    BY <1>0, <1>4, <2>1, <2>2, Counted DEF Fields
  <2>4. batch' \in Seq(Envelopes) /\ Len(batch') = 0
    BY <2>1
  <2>5. BookTypes'
    BY <1>0, <2>1, <2>3, <2>4 DEF BookTypes
  <2>6. Accounted'
    <3>1. out' = out + held
      BY <1>4, <2>2, <2>3
    <3>2. /\ in' = in /\ missed' = missed /\ alert' = alert
          /\ queued' = queued /\ held' = 0 /\ uncounted' = uncounted /\ diode' = diode
      BY <2>1, <2>3, <2>4
    <3> HIDE DEF in, missed, out, alert, queued, held
    <3>3. in' + uncounted' = missed' + alert' + out' + queued' + held'
      BY <1>4, <1>5, <3>1, <3>2
    <3> QED BY <1>0, <1>a, <2>3, <2>4, <3>2, <3>3
  <2>7. PoolInv'
    BY <1>0, <1>10, <2>1, ReturnedInv
  <2> QED BY <1>3, <2>5, <2>6, <2>7 DEF IInv
<1> QED BY <1>7, <1>8, <1>9, <1>11, <1>12, <1>13

\* metron begins with an empty pipeline.
LEMMA InitInv == Init => IInv
<1> SUFFICES ASSUME Init PROVE IInv
  OBVIOUS
<1>1. PoolInv
  BY PoolInitInv
<1>2. metrics \in Books /\ metrics.ingress = 0 /\ metrics.missed = 0 /\ metrics.rejected = 0
      /\ metrics.emitted = 0 /\ metrics.egress = 0 /\ metrics.dropped = 0
  BY DEF Init, Books
<1>3. diode \in Rings /\ diode.queue = << >> /\ diode.missed = 0 /\ Len(diode.queue) = 0
      /\ Len(batch) = 0 /\ batch \in Seq(Envelopes)
  BY DEF Init, EmptyDiode, Rings
<1>4. [open |-> FALSE, sent |-> << >>] \in Streams
  BY DEF Streams
<1>5. stream \in [Counters -> Streams] /\ delta \in [Counters -> Int] /\ swapped \in [Counters -> Int]
  BY <1>4 DEF Init
<1>6. BookTypes
  BY <1>2, <1>3, <1>5, MetronAssumption DEF BookTypes, Init
<1>7. Quiet
  BY DEF Quiet, Init
<1>8. busy = {}
  <2>1. \A w \in Writers[1] : task[w].at = "idle"
    BY Facts DEF Init, PoolInit, NoTask
  <2> QED BY <2>1 DEF busy
<1>9. Accounted
  <2>1. Cardinality(busy) = 0
    BY <1>8, FS_EmptySet
  <2>2. uncounted = 0
    BY DEF Init
  <2> QED BY <1>2, <1>3, <2>1, <2>2 DEF Accounted, busy
<1> QED BY <1>1, <1>6, <1>7, <1>9 DEF IInv

\* No step of metron disturbs the pool or the books.
LEMMA NextInv ==
  ASSUME IInv, [Next]_vars
  PROVE  IInv'
<1>1. CASE PoolStep
  BY <1>1, PoolStepInv
<1>2. CASE V1Step
  <2>1. version = 1
    BY <1>2 DEF V1Step, StartWriting, GRPCWrapperReturns
  <2> QED BY <1>2, <2>1, V1StepInv DEF V1Step
<1>3. ASSUME NEW k \in Counters, EmitEnvelope(k)
      PROVE  IInv'
  <2>1. version = 1
    BY <1>3 DEF EmitEnvelope
  <2> QED BY <1>3, <2>1, V1StepInv
<1>4. CASE V2Step
  BY <1>4, V2StepInv, AsideSteps DEF V2Step, EmitterStep
<1>5. CASE \/ SetWriter
           \/ \E e \in Datagrams : ReadFrom(e)
           \/ \E k \in Counters : Increment(k) \/ Pulse(k) \/ Break(k)
           \/ \E n \in 1..2 : BatchSender(n)
  BY <1>5, AsideSteps
<1>6. CASE UNCHANGED vars
  <2>1. UNCHANGED poolVars /\ UNCHANGED <<diode, metrics, batch, arriving, uncounted, delta, swapped, stream>>
    BY <1>6 DEF vars, pipes, v2Vars
  <2>2. BookTypes' /\ Quiet'
    BY <2>1 DEF IInv, BookTypes, Quiet, poolVars
  <2> QED BY <2>1, <2>2, Aside
<1> QED BY <1>1, <1>2, <1>3, <1>4, <1>5, <1>6 DEF Next

-----------------------------------------------------------------------------
\* The pool's connections are owned, the books are kept, and everything they rest
\* on, in every reachable state.
THEOREM Inductive == Spec => []IInv
BY InitInv, NextInv, PTL DEF Spec

\* For every pool, however many goroutines of the v1 API write to it: a manager's
\* pointer never names a closed connection; and the v2 API's pool leaves no
\* connection open behind it, and closes none twice.
THEOREM ConnectionsKeptCorrect == Spec => []ConnectionsKept
<1>1. IInv => ConnectionsKept
  <2> SUFFICES ASSUME IInv PROVE ConnectionsKept
    OBVIOUS
  <2>0. PoolTypes /\ Owned /\ Single
    BY DEF IInv, PoolInv
  <2>1. \A m \in Managers : conn[m] # 0 => state[conn[m]] = "open"
    BY <2>0 DEF Owned
  <2>2. ASSUME Cardinality(Writers[version]) = 1
        PROVE  version = 2
    <3> SUFFICES ASSUME version # 2 PROVE FALSE
      OBVIOUS
    <3>1. version = 1
      BY <2>0 DEF PoolTypes
    <3>2. \E x : Writers[1] = {x}
      BY <2>2, <3>1, WritersAssumption, FS_Singleton
    <3> QED BY <3>2, WritersAssumption
  <2>3. ASSUME version = 2
        PROVE  /\ \A c \in Conns : state[c] = "open" =>
                    \/ \E m \in Managers : conn[m] = c \/ maintain[m].c = c
                    \/ \E w \in AllWriters : task[w].c = c /\ task[w].at = "close"
               /\ \A c \in Conns : closes[c] <= 1
    BY <2>0, <2>3, Facts DEF Single
  <2> QED BY <2>1, <2>2, <2>3 DEF ConnectionsKept
<1> QED BY <1>1, Inductive, PTL

\* Write, whatever fails on the way, sends its message at most once, and tells the
\* truth about it.
THEOREM SentOnceCorrect == Spec => []SentOnce
<1>1. IInv => SentOnce
  BY DEF IInv, PoolInv, Delivery, SentOnce
<1> QED BY <1>1, Inductive, PTL

\* metron's metrics account for every envelope, for every size of diode and batch.
THEOREM AccountedCorrect == Spec => []Accounted
<1>1. IInv => Accounted
  BY DEF IInv
<1> QED BY <1>1, Inductive, PTL

(***************************************************************************)
(* Sums.  What Added, and Aggregated with it, compute is shown by induction *)
(* on how many numbers or envelopes they have passed.                       *)
(***************************************************************************)
\* Induction over the naturals, of a set of them.
LEMMA NatSetInduction ==
  ASSUME NEW T, T \subseteq Nat, 0 \in T, \A n \in T : n + 1 \in T
  PROVE  T = Nat
<1> SUFFICES ASSUME Nat \ T # {} PROVE FALSE
  OBVIOUS
<1>1. IsWellFoundedOn(OpToRel(<, Nat), Nat)
  BY NatLessThanWellFounded
<1>2. \E x \in Nat \ T : \A y \in Nat \ T : ~(<<y, x>> \in OpToRel(<, Nat))
  BY <1>1, WFMin
<1>3. PICK x \in Nat \ T : \A y \in Nat \ T : ~(y < x)
  BY <1>2 DEF OpToRel
<1>4. x # 0 /\ x - 1 \in Nat /\ x - 1 < x
  OBVIOUS
<1>5. x - 1 \in T
  BY <1>3, <1>4
<1>6. (x - 1) + 1 = x
  BY <1>4
<1> QED BY <1>5, <1>6

\* One number more, and one envelope more.
AddOne(f, ns, n) == IF n = 0 THEN 0 ELSE f[n - 1] + ns[n]
AggregateOne(f, a, es, n) == IF n = 0 THEN a ELSE AggregateV2(f[n - 1], es[n])

\* There is a sum after every number.
LEMMA AddingEnds ==
  ASSUME NEW ns
  PROVE  \A m \in Nat : \E f : f = [n \in 0..m |-> AddOne(f, ns, n)]
<1> DEFINE T == {m \in Nat : \E f : f = [n \in 0..m |-> AddOne(f, ns, n)]}
<1>1. 0 \in T
  <2> DEFINE f == [n \in 0..0 |-> 0]
  <2>1. f = [n \in 0..0 |-> AddOne(f, ns, n)]
    BY DEF AddOne
  <2> QED BY <2>1
<1>2. ASSUME NEW m \in T PROVE m + 1 \in T
  <2>1. PICK f : f = [n \in 0..m |-> AddOne(f, ns, n)]
    OBVIOUS
  <2> DEFINE g == [n \in 0..(m + 1) |-> IF n = m + 1 THEN AddOne(f, ns, n) ELSE f[n]]
  <2>2. ASSUME NEW n \in 0..(m + 1) PROVE g[n] = AddOne(g, ns, n)
    <3>1. CASE n = 0
      BY <2>1, <3>1 DEF AddOne
    <3>2. CASE n # 0
      <4>1. n - 1 \in 0..m /\ n - 1 \in 0..(m + 1) /\ n - 1 # m + 1
        BY <3>2
      <4>2. g[n - 1] = f[n - 1]
        BY <4>1
      <4>3. AddOne(f, ns, n) = AddOne(g, ns, n)
        BY <4>2 DEF AddOne
      <4>4. n # m + 1 => f[n] = AddOne(f, ns, n)
        BY <2>1
      <4> QED BY <4>3, <4>4
    <3> QED BY <3>1, <3>2
  <2>3. g = [n \in 0..(m + 1) |-> AddOne(g, ns, n)]
    BY <2>2
  <2> HIDE DEF g
  <2> QED BY <2>3
<1> HIDE DEF T
<1>3. T = Nat
  BY <1>1, <1>2, NatSetInduction DEF T
<1> QED BY <1>3 DEF T

\* A batch's aggregation comes to an end.
LEMMA AggregatingEnds ==
  ASSUME NEW a, NEW es
  PROVE  \A m \in Nat : \E f : f = [n \in 0..m |-> AggregateOne(f, a, es, n)]
<1> DEFINE T == {m \in Nat : \E f : f = [n \in 0..m |-> AggregateOne(f, a, es, n)]}
<1>1. 0 \in T
  <2> DEFINE f == [n \in 0..0 |-> a]
  <2>1. f = [n \in 0..0 |-> AggregateOne(f, a, es, n)]
    BY DEF AggregateOne
  <2> QED BY <2>1
<1>2. ASSUME NEW m \in T PROVE m + 1 \in T
  <2>1. PICK f : f = [n \in 0..m |-> AggregateOne(f, a, es, n)]
    OBVIOUS
  <2> DEFINE g == [n \in 0..(m + 1) |-> IF n = m + 1 THEN AggregateOne(f, a, es, n) ELSE f[n]]
  <2>2. ASSUME NEW n \in 0..(m + 1) PROVE g[n] = AggregateOne(g, a, es, n)
    <3>1. CASE n = 0
      BY <2>1, <3>1 DEF AggregateOne
    <3>2. CASE n # 0
      <4>1. n - 1 \in 0..m /\ n - 1 \in 0..(m + 1) /\ n - 1 # m + 1
        BY <3>2
      <4>2. g[n - 1] = f[n - 1]
        BY <4>1
      <4>3. AggregateOne(f, a, es, n) = AggregateOne(g, a, es, n)
        BY <4>2 DEF AggregateOne
      <4>4. n # m + 1 => f[n] = AggregateOne(f, a, es, n)
        BY <2>1
      <4> QED BY <4>3, <4>4
    <3> QED BY <3>1, <3>2
  <2>3. g = [n \in 0..(m + 1) |-> AggregateOne(g, a, es, n)]
    BY <2>2
  <2> HIDE DEF g
  <2> QED BY <2>3
<1> HIDE DEF T
<1>3. T = Nat
  BY <1>1, <1>2, NatSetInduction DEF T
<1> QED BY <1>3 DEF T

\* The sums of the first numbers, one after the other.
LEMMA AddedSteps ==
  ASSUME NEW ns \in Seq(Int)
  PROVE  \E f : /\ f \in [0..Len(ns) -> Int]
                /\ Added(ns) = f[Len(ns)] /\ f[0] = 0
                /\ \A n \in 0..(Len(ns) - 1) : f[n + 1] = f[n] + ns[n + 1]
<1> DEFINE f == CHOOSE g : g = [n \in 0..Len(ns) |-> AddOne(g, ns, n)]
           T == {n \in Nat : n <= Len(ns) => f[n] \in Int}
<1>0. Len(ns) \in Nat
  OBVIOUS
<1>1. f = [n \in 0..Len(ns) |-> AddOne(f, ns, n)]
  BY <1>0, AddingEnds
<1>2. Added(ns) = f[Len(ns)]
  BY DEF Added, AddOne
<1> HIDE DEF f
<1>3. f[0] = 0
  BY <1>0, <1>1 DEF AddOne
<1>4. ASSUME NEW n \in 0..(Len(ns) - 1) PROVE f[n + 1] = f[n] + ns[n + 1]
  <2>1. n + 1 \in 0..Len(ns) /\ n + 1 # 0 /\ (n + 1) - 1 = n
    BY <1>0
  <2> QED BY <1>1, <2>1 DEF AddOne
<1>5. T = Nat
  <2>1. 0 \in T
    BY <1>3
  <2>2. ASSUME NEW n \in T PROVE n + 1 \in T
    <3> SUFFICES ASSUME n + 1 <= Len(ns) PROVE f[n + 1] \in Int
      OBVIOUS
    <3>1. n \in 0..(Len(ns) - 1) /\ f[n] \in Int /\ n + 1 \in 1..Len(ns)
      BY <1>0
    <3>2. ns[n + 1] \in Int
      BY <3>1
    <3> QED BY <1>4, <3>1, <3>2
  <2> HIDE DEF T
  <2> QED BY <2>1, <2>2, NatSetInduction DEF T
<1>6. f \in [0..Len(ns) -> Int]
  <2>1. \A n \in 0..Len(ns) : f[n] \in Int
    BY <1>0, <1>5
  <2> QED BY <1>1, <2>1
<1> QED BY <1>2, <1>3, <1>4, <1>6

\* Two such sums agree.
LEMMA SumsAgree ==
  ASSUME NEW m \in Nat, NEW f \in [0..m -> Int], NEW g \in [0..m -> Int]
  PROVE  \A c \in Int :
           /\ f[0] = g[0] + c
           /\ \A n \in 0..(m - 1) : f[n + 1] - f[n] = g[n + 1] - g[n]
           => f[m] = g[m] + c
<1> SUFFICES ASSUME NEW c \in Int, f[0] = g[0] + c,
                    \A n \in 0..(m - 1) : f[n + 1] - f[n] = g[n + 1] - g[n]
             PROVE  f[m] = g[m] + c
  OBVIOUS
<1> DEFINE T == {n \in Nat : n <= m => f[n] = g[n] + c}
<1>1. 0 \in T
  OBVIOUS
<1>2. ASSUME NEW n \in T PROVE n + 1 \in T
  <2> SUFFICES ASSUME n + 1 <= m PROVE f[n + 1] = g[n + 1] + c
    OBVIOUS
  <2>1. n \in 0..(m - 1) /\ n \in 0..m /\ n + 1 \in 0..m /\ f[n] = g[n] + c
    OBVIOUS
  <2>2. /\ f[n + 1] - f[n] = g[n + 1] - g[n] /\ g[n] \in Int /\ g[n + 1] \in Int
        /\ f[n] \in Int /\ f[n + 1] \in Int
    BY <2>1
  <2> DEFINE x == f[n]
             y == f[n + 1]
             v == g[n]
             w == g[n + 1]
  <2>3. y - x = w - v /\ x = v + c /\ x \in Int /\ y \in Int /\ v \in Int /\ w \in Int
    BY <2>1, <2>2
  <2> HIDE DEF T, x, y, v, w
  <2>4. y = w + c
    BY <2>3
  <2> QED BY <2>4 DEF y, w
<1> HIDE DEF T
<1>3. T = Nat
  BY <1>1, <1>2, NatSetInduction DEF T
<1>4. m \in T /\ m <= m
  BY <1>3
<1> QED BY <1>4 DEF T

\* A sum of numbers is a number.
LEMMA AddedType ==
  ASSUME NEW ns \in Seq(Int)
  PROVE  Added(ns) \in Int
<1>1. PICK f : f \in [0..Len(ns) -> Int] /\ Added(ns) = f[Len(ns)]
  BY AddedSteps
<1> QED BY <1>1, Len(ns) \in 0..Len(ns)

\* Nothing adds up to 0.
LEMMA AddedNone == Added(<< >>) = 0
<1>1. << >> \in Seq(Int) /\ Len(<< >>) = 0
  OBVIOUS
<1>2. PICK f : Added(<< >>) = f[Len(<< >>)] /\ f[0] = 0
  BY <1>1, AddedSteps
<1> QED BY <1>1, <1>2

\* One number more.
LEMMA AddedAppend ==
  ASSUME NEW ns \in Seq(Int), NEW d \in Int
  PROVE  Added(Append(ns, d)) = Added(ns) + d
<1> DEFINE more == Append(ns, d)
           m == Len(ns)
<1>1. /\ m \in Nat /\ more \in Seq(Int) /\ Len(more) = m + 1 /\ more[m + 1] = d
      /\ \A n \in 1..m : more[n] = ns[n]
  OBVIOUS
<1>2. PICK f : /\ f \in [0..m -> Int] /\ Added(ns) = f[m] /\ f[0] = 0
               /\ \A n \in 0..(m - 1) : f[n + 1] = f[n] + ns[n + 1]
  BY AddedSteps
<1> HIDE DEF more
<1>3. PICK g : /\ g \in [0..(m + 1) -> Int] /\ Added(more) = g[m + 1] /\ g[0] = 0
               /\ \A n \in 0..m : g[n + 1] = g[n] + more[n + 1]
  <2>1. PICK g : /\ g \in [0..Len(more) -> Int] /\ Added(more) = g[Len(more)] /\ g[0] = 0
                 /\ \A n \in 0..(Len(more) - 1) : g[n + 1] = g[n] + more[n + 1]
    BY <1>1, AddedSteps
  <2>2. Len(more) - 1 = m
    BY <1>1
  <2> QED BY <1>1, <2>1, <2>2
<1> HIDE DEF m
<1> DEFINE h == [n \in 0..m |-> g[n]]
<1>4. \A n \in 0..m : h[n] = g[n] /\ g[n] \in Int /\ f[n] \in Int
  BY <1>1, <1>2, <1>3
<1>a. h \in [0..m -> Int]
  BY <1>4
<1> HIDE DEF h
<1>5. ASSUME NEW n \in 0..(m - 1) PROVE h[n + 1] - h[n] = f[n + 1] - f[n]
  <2>1. n \in 0..m /\ n + 1 \in 0..m /\ n + 1 \in 1..m
    BY <1>1
  <2>2. more[n + 1] = ns[n + 1] /\ g[n + 1] = g[n] + more[n + 1] /\ f[n + 1] = f[n] + ns[n + 1]
    BY <1>1, <1>2, <1>3, <2>1
  <2>3. ns[n + 1] \in Int /\ h[n] = g[n] /\ h[n + 1] = g[n + 1] /\ g[n] \in Int /\ f[n] \in Int
    BY <1>4, <2>1 DEF m
  <2> QED BY <2>2, <2>3
<1>6. h[m] = f[m] + 0
  <2>1. 0 \in 0..m /\ h[0] = f[0] + 0 /\ 0 \in Int
    BY <1>1, <1>2, <1>3, <1>4
  <2> QED BY <1>1, <1>2, <1>a, <1>5, <2>1, SumsAgree
<1>7. g[m] = f[m] /\ g[m + 1] = g[m] + d /\ f[m] \in Int /\ m \in 0..m
  BY <1>1, <1>3, <1>4, <1>6
<1> QED BY <1>2, <1>3, <1>7 DEF more

\* The first number is the sum's, and the rest's.
LEMMA AddedTail ==
  ASSUME NEW ns \in Seq(Int), ns # << >>
  PROVE  Added(ns) = Head(ns) + Added(Tail(ns))
<1> DEFINE rest == Tail(ns)
           m == Len(rest)
           d == Head(ns)
<1>1. /\ m \in Nat /\ rest \in Seq(Int) /\ Len(ns) = m + 1 /\ d \in Int /\ ns[1] = d
      /\ \A n \in 1..m : rest[n] = ns[n + 1]
  OBVIOUS
<1> HIDE DEF rest, d
<1>2. PICK f : /\ f \in [0..m -> Int] /\ Added(rest) = f[m] /\ f[0] = 0
               /\ \A n \in 0..(m - 1) : f[n + 1] = f[n] + rest[n + 1]
  BY <1>1, AddedSteps
<1>3. PICK g : /\ g \in [0..(m + 1) -> Int] /\ Added(ns) = g[m + 1] /\ g[0] = 0
               /\ \A n \in 0..m : g[n + 1] = g[n] + ns[n + 1]
  <2>1. PICK g : /\ g \in [0..Len(ns) -> Int] /\ Added(ns) = g[Len(ns)] /\ g[0] = 0
                 /\ \A n \in 0..(Len(ns) - 1) : g[n + 1] = g[n] + ns[n + 1]
    BY AddedSteps
  <2>2. Len(ns) - 1 = m
    BY <1>1
  <2> QED BY <1>1, <2>1, <2>2
<1> HIDE DEF m
<1> DEFINE h == [n \in 0..m |-> g[n + 1]]
<1>4. \A n \in 0..m : h[n] = g[n + 1] /\ h[n] \in Int /\ f[n] \in Int
  BY <1>1, <1>2, <1>3
<1>a. h \in [0..m -> Int]
  BY <1>4
<1> HIDE DEF h
<1>5. h[0] = f[0] + d
  <2>1. 0 \in 0..m /\ 0 + 1 = 1
    BY <1>1
  <2>2. g[1] = g[0] + ns[1]
    BY <1>3, <2>1
  <2> QED BY <1>1, <1>2, <1>3, <1>4, <2>1, <2>2
<1>6. ASSUME NEW n \in 0..(m - 1) PROVE h[n + 1] - h[n] = f[n + 1] - f[n]
  <2>1. n \in 0..m /\ n + 1 \in 0..m /\ n + 1 \in 1..m /\ (n + 1) + 1 \in 1..(m + 1)
    BY <1>1
  <2>2. rest[n + 1] = ns[(n + 1) + 1] /\ g[(n + 1) + 1] = g[n + 1] + ns[(n + 1) + 1]
        /\ f[n + 1] = f[n] + rest[n + 1] /\ h[n] = g[n + 1] /\ h[n + 1] = g[(n + 1) + 1]
    BY <1>1, <1>2, <1>3, <1>4, <2>1
  <2>3. rest[n + 1] \in Int /\ h[n] \in Int /\ f[n] \in Int /\ h[n + 1] \in Int
    BY <1>1, <1>4, <2>1 DEF m
  <2> QED BY <2>2, <2>3
<1>7. h[m] = f[m] + d
  BY <1>1, <1>2, <1>a, <1>5, <1>6, SumsAgree
<1>8. h[m] = f[m] + d /\ h[m] = g[m + 1] /\ f[m] \in Int
  BY <1>1, <1>4, <1>7
<1> QED BY <1>1, <1>2, <1>3, <1>8 DEF rest, d

(***************************************************************************)
(* Deltas and totals of a counter.                                          *)
(***************************************************************************)
\* What an envelope adds is a number.
LEMMA DeltaType ==
  ASSUME NEW k, NEW e \in Envelopes
  PROVE  DeltaOf(k, e) \in Int
<1>1. e.delta \in Int
  BY DEF Envelopes
<1> QED BY <1>1 DEF DeltaOf

\* Sequences with the same numbers in the same places.
LEMMA SameNumbers ==
  ASSUME NEW s \in Seq(Int), NEW t \in Seq(Int), Len(s) = Len(t),
         \A i \in 1..Len(s) : s[i] = t[i]
  PROVE  s = t
OBVIOUS

\* No envelopes add up to 0.
LEMMA DeltasNone ==
  ASSUME NEW k
  PROVE  Deltas(k, << >>) = 0
<1>1. [i \in 1..Len(<< >>) |-> DeltaOf(k, << >>[i])] = << >>
  OBVIOUS
<1> QED BY <1>1, AddedNone DEF Deltas

\* What the envelopes that are added to a queue or taken from it add to the sum.
LEMMA DeltasOf ==
  ASSUME NEW k, NEW es \in Seq(Envelopes)
  PROVE  /\ Deltas(k, es) \in Int
         /\ \A e \in Envelopes : Deltas(k, Append(es, e)) = Deltas(k, es) + DeltaOf(k, e)
         /\ es # << >> => Deltas(k, es) = DeltaOf(k, Head(es)) + Deltas(k, Tail(es))
<1> DEFINE D(q) == [i \in 1..Len(q) |-> DeltaOf(k, q[i])]
<1>1. ASSUME NEW q \in Seq(Envelopes)
      PROVE  D(q) \in Seq(Int) /\ Len(D(q)) = Len(q) /\ \A i \in 1..Len(q) : D(q)[i] = DeltaOf(k, q[i])
  <2>1. \A i \in 1..Len(q) : q[i] \in Envelopes /\ DeltaOf(k, q[i]) \in Int
    BY DeltaType
  <2>2. Len(q) \in Nat
    OBVIOUS
  <2> QED BY <2>1, <2>2
<1>2. D(es) \in Seq(Int)
  BY <1>1
<1>3. Deltas(k, es) \in Int
  BY <1>2, AddedType DEF Deltas
<1>4. ASSUME NEW e \in Envelopes
      PROVE  Deltas(k, Append(es, e)) = Deltas(k, es) + DeltaOf(k, e)
  <2> DEFINE q == Append(es, e)
             d == DeltaOf(k, e)
  <2>1. q \in Seq(Envelopes) /\ Len(q) = Len(es) + 1 /\ q[Len(es) + 1] = e /\ Len(es) \in Nat
        /\ \A i \in 1..Len(es) : q[i] = es[i]
    OBVIOUS
  <2>2. d \in Int
    BY DeltaType
  <2> HIDE DEF q
  <2>3. D(q) = Append(D(es), d)
    <3>1. D(q) \in Seq(Int) /\ Len(D(q)) = Len(es) + 1 /\ \A i \in 1..(Len(es) + 1) : D(q)[i] = DeltaOf(k, q[i])
      BY <1>1, <2>1
    <3>2. D(es) \in Seq(Int) /\ Len(D(es)) = Len(es) /\ \A i \in 1..Len(es) : D(es)[i] = DeltaOf(k, es[i])
      BY <1>1
    <3> DEFINE x == D(q)
               y == D(es)
    <3> HIDE DEF x, y, D
    <3>3. \A i \in 1..(Len(es) + 1) : i \in 1..Len(es) \/ i = Len(es) + 1
      BY <2>1
    <3>4. \A i \in 1..(Len(es) + 1) : x[i] = IF i \in 1..Len(es) THEN y[i] ELSE d
      <4> SUFFICES ASSUME NEW i \in 1..(Len(es) + 1) PROVE x[i] = IF i \in 1..Len(es) THEN y[i] ELSE d
        OBVIOUS
      <4>1. CASE i \in 1..Len(es)
        BY <2>1, <3>1, <3>2, <4>1 DEF x, y
      <4>2. CASE i \notin 1..Len(es)
        <5>1. i = Len(es) + 1
          BY <3>3, <4>2
        <5> QED BY <2>1, <3>1, <4>2, <5>1 DEF x
      <4> QED BY <4>1, <4>2
    <3> HIDE DEF d
    <3>5. x = Append(y, d)
      <4> DEFINE a == Append(y, d)
      <4>1. a \in Seq(Int) /\ Len(a) = Len(es) + 1 /\ a[Len(es) + 1] = d
            /\ \A i \in 1..Len(es) : a[i] = y[i]
        BY <2>1, <2>2, <3>2 DEF y
      <4>2. x \in Seq(Int) /\ Len(x) = Len(es) + 1
        BY <3>1 DEF x
      <4> HIDE DEF a
      <4>3. \A i \in 1..Len(x) : x[i] = a[i]
        BY <3>3, <3>4, <4>1, <4>2
      <4>4. x = a
        BY <4>1, <4>2, <4>3, SameNumbers
      <4> QED BY <4>4 DEF a
    <3> QED BY <3>5 DEF x, y
  <2>4. Deltas(k, q) = Added(D(q)) /\ Deltas(k, es) = Added(D(es))
    BY DEF Deltas
  <2> HIDE DEF D, d
  <2>5. Added(Append(D(es), d)) = Added(D(es)) + d
    BY <1>2, <2>2, AddedAppend
  <2>6. Deltas(k, q) = Deltas(k, es) + d
    BY <2>3, <2>4, <2>5
  <2> QED BY <2>6 DEF q, d
<1>5. ASSUME es # << >>
      PROVE  Deltas(k, es) = DeltaOf(k, Head(es)) + Deltas(k, Tail(es))
  <2> DEFINE t == Tail(es)
             d == DeltaOf(k, Head(es))
             x == D(t)
             y == D(es)
  <2>1. t \in Seq(Envelopes) /\ Len(t) = Len(es) - 1 /\ Len(es) \in Nat \ {0} /\ Head(es) = es[1]
        /\ \A i \in 1..Len(t) : t[i] = es[i + 1]
    BY <1>5
  <2> HIDE DEF t
  <2>2. x \in Seq(Int) /\ Len(x) = Len(t) /\ \A i \in 1..Len(t) : x[i] = DeltaOf(k, t[i])
    BY <1>1, <2>1
  <2>3. y \in Seq(Int) /\ Len(y) = Len(es) /\ \A i \in 1..Len(es) : y[i] = DeltaOf(k, es[i])
    BY <1>1
  <2>4. Deltas(k, t) = Added(x) /\ Deltas(k, es) = Added(y)
    BY DEF Deltas
  <2> HIDE DEF x, y, D
  <2>5. y # << >> /\ Head(y) = d
    <3>1. 1 \in 1..Len(es) /\ Len(y) # 0
      BY <2>1, <2>3
    <3>2. y[1] = DeltaOf(k, es[1])
      BY <2>3, <3>1
    <3> QED BY <2>1, <2>3, <3>1, <3>2
  <2>6. x = Tail(y)
    <3>1. \A i \in 1..Len(t) : i + 1 \in 1..Len(es) /\ x[i] = DeltaOf(k, es[i + 1])
      BY <2>1, <2>2
    <3>2. \A i \in 1..Len(t) : x[i] = y[i + 1]
      BY <2>3, <3>1
    <3> DEFINE a == Tail(y)
    <3>3. a \in Seq(Int) /\ Len(a) = Len(y) - 1 /\ \A i \in 1..Len(a) : a[i] = y[i + 1]
      BY <2>3, <2>5
    <3> HIDE DEF a
    <3>4. Len(a) = Len(x) /\ \A i \in 1..Len(x) : x[i] = a[i]
      BY <2>1, <2>2, <2>3, <3>2, <3>3
    <3>5. x = a
      BY <2>2, <3>3, <3>4, SameNumbers
    <3> QED BY <3>5 DEF a
  <2>7. Added(y) = Head(y) + Added(Tail(y))
    BY <2>3, <2>5, AddedTail
  <2> HIDE DEF d
  <2>8. Deltas(k, es) = d + Deltas(k, t)
    BY <2>4, <2>5, <2>6, <2>7
  <2> QED BY <2>8 DEF t, d
<1> QED BY <1>3, <1>4, <1>5

\* A total has what was counted.
LEMMA AggregateTotal ==
  ASSUME NEW ts, NEW k, NEW e \in Envelopes, TotalOf(ts, k) \in Int
  PROVE  TotalOf(Aggregate(ts, e), k) = TotalOf(ts, k) + DeltaOf(k, e)
<1>0. DeltaOf(k, e) \in Int
  BY DeltaType
<1>1. CASE e.type # "counter"
  BY <1>1 DEF Aggregate, DeltaOf
<1>2. CASE e.type = "counter"
  <2> DEFINE D == DOMAIN ts \cup {e.name}
  <2>1. Aggregate(ts, e) = [j \in D |-> TotalOf(ts, j) + DeltaOf(j, e)]
    BY <1>2 DEF Aggregate
  <2>2. CASE k \in D
    BY <2>1, <2>2 DEF TotalOf
  <2>3. CASE k \notin D
    <3>1. TotalOf(ts, k) = 0 /\ DeltaOf(k, e) = 0
      BY <2>3 DEF TotalOf, DeltaOf
    <3>2. TotalOf(Aggregate(ts, e), k) = 0
      BY <2>1, <2>3 DEF TotalOf
    <3> QED BY <3>1, <3>2
  <2> QED BY <2>2, <2>3
<1> QED BY <1>1, <1>2

\* The totals, and what was thrown away with earlier ones.
Kept(a) == a.gone \in [Counters -> Int] /\ \A k \in Counters : TotalOf(a.totals, k) \in Int
SumOf(a, k) == TotalOf(a.totals, k) + a.gone[k]

\* One envelope more: its delta is in a total, and totals thrown away are gone.
LEMMA AggregateV2Total ==
  ASSUME NEW a, Kept(a), NEW e \in Envelopes
  PROVE  /\ Kept(AggregateV2(a, e))
         /\ \A k \in Counters : SumOf(AggregateV2(a, e), k) = SumOf(a, k) + DeltaOf(k, e)
<1> DEFINE full == e.type = "counter" /\ Cardinality(DOMAIN a.totals) > MaxTotals
           ts == IF full THEN << >> ELSE a.totals
           lost == IF full THEN [k \in Counters |-> a.gone[k] + TotalOf(a.totals, k)] ELSE a.gone
           b == AggregateV2(a, e)
<1>1. b.totals = Aggregate(ts, e) /\ b.gone = lost
  BY DEF AggregateV2
<1>2. ASSUME NEW k \in Counters
      PROVE  /\ TotalOf(ts, k) \in Int /\ lost[k] \in Int
             /\ TotalOf(ts, k) + lost[k] = TotalOf(a.totals, k) + a.gone[k]
  <2>1. TotalOf(a.totals, k) \in Int /\ a.gone[k] \in Int
    BY DEF Kept
  <2>2. TotalOf(<< >>, k) = 0
    BY DEF TotalOf
  <2> QED BY <2>1, <2>2
<1>3. lost \in [Counters -> Int]
  BY <1>2 DEF Kept
<1> HIDE DEF full, ts, lost, b
<1>4. ASSUME NEW k \in Counters
      PROVE  /\ TotalOf(b.totals, k) \in Int
             /\ SumOf(b, k) = SumOf(a, k) + DeltaOf(k, e)
  <2>1. TotalOf(b.totals, k) = TotalOf(ts, k) + DeltaOf(k, e)
    BY <1>1, <1>2, AggregateTotal
  <2>2. DeltaOf(k, e) \in Int /\ TotalOf(a.totals, k) \in Int /\ a.gone[k] \in Int
    BY DeltaType DEF Kept
  <2>3. b.gone[k] = lost[k]
    BY <1>1
  <2> QED BY <1>2, <2>1, <2>2, <2>3 DEF SumOf
<1>5. Kept(b)
  BY <1>1, <1>3, <1>4 DEF Kept
<1> QED BY <1>4, <1>5 DEF b

\* A batch's aggregation loses none of its deltas and counts none twice.
LEMMA AggregatedTotal ==
  ASSUME NEW a, Kept(a), NEW es \in Seq(Envelopes)
  PROVE  /\ Kept(Aggregated(a, es))
         /\ \A k \in Counters : SumOf(Aggregated(a, es), k) = SumOf(a, k) + Deltas(k, es)
<1> DEFINE m == Len(es)
           f == CHOOSE g : g = [n \in 0..m |-> AggregateOne(g, a, es, n)]
<1>0. m \in Nat
  OBVIOUS
<1>1. f = [n \in 0..m |-> AggregateOne(f, a, es, n)]
  BY <1>0, AggregatingEnds
<1>2. Aggregated(a, es) = f[m]
  BY DEF Aggregated, AggregateOne
<1> HIDE DEF f
<1>3. f[0] = a
  BY <1>0, <1>1 DEF AggregateOne
<1>4. ASSUME NEW n \in 0..(m - 1) PROVE f[n + 1] = AggregateV2(f[n], es[n + 1])
  <2>1. n + 1 \in 0..m /\ n + 1 # 0 /\ (n + 1) - 1 = n
    BY <1>0
  <2> QED BY <1>1, <2>1 DEF AggregateOne
<1> DEFINE T == {n \in Nat : n <= m => Kept(f[n])}
<1>5. T = Nat
  <2>1. 0 \in T
    BY <1>3
  <2>2. ASSUME NEW n \in T PROVE n + 1 \in T
    <3> SUFFICES ASSUME n + 1 <= m PROVE Kept(f[n + 1])
      OBVIOUS
    <3>1. n \in 0..(m - 1) /\ n + 1 \in 1..m /\ Kept(f[n])
      BY <1>0
    <3>2. es[n + 1] \in Envelopes
      BY <3>1
    <3> QED BY <1>4, <3>1, <3>2, AggregateV2Total
  <2> HIDE DEF T
  <2> QED BY <2>1, <2>2, NatSetInduction DEF T
<1>6. \A n \in 0..m : Kept(f[n])
  BY <1>0, <1>5
<1> HIDE DEF T
<1>7. ASSUME NEW k \in Counters
      PROVE  SumOf(f[m], k) = SumOf(a, k) + Deltas(k, es)
  <2> DEFINE D == [i \in 1..m |-> DeltaOf(k, es[i])]
             h == [n \in 0..m |-> SumOf(f[n], k)]
  <2>1. D \in Seq(Int) /\ Len(D) = m /\ \A i \in 1..m : D[i] = DeltaOf(k, es[i])
    <3>1. \A i \in 1..m : DeltaOf(k, es[i]) \in Int
      BY DeltaType
    <3> QED BY <1>0, <3>1
  <2>2. Deltas(k, es) = Added(D)
    BY DEF Deltas
  <2> HIDE DEF D
  <2>3. PICK g : /\ g \in [0..m -> Int] /\ Added(D) = g[m] /\ g[0] = 0
                 /\ \A n \in 0..(m - 1) : g[n + 1] = g[n] + D[n + 1]
    BY <2>1, AddedSteps
  <2>4. \A n \in 0..m : h[n] = SumOf(f[n], k) /\ h[n] \in Int
    <3> SUFFICES ASSUME NEW n \in 0..m PROVE SumOf(f[n], k) \in Int
      OBVIOUS
    <3>1. Kept(f[n])
      BY <1>6
    <3> QED BY <3>1 DEF Kept, SumOf
  <2>5. h \in [0..m -> Int]
    BY <2>4
  <2> HIDE DEF h
  <2>6. ASSUME NEW n \in 0..(m - 1) PROVE h[n + 1] - h[n] = g[n + 1] - g[n]
    <3>1. n \in 0..m /\ n + 1 \in 0..m /\ n + 1 \in 1..m
      BY <1>0
    <3>2. Kept(f[n]) /\ es[n + 1] \in Envelopes
      BY <1>6, <3>1
    <3>3. SumOf(f[n + 1], k) = SumOf(f[n], k) + DeltaOf(k, es[n + 1])
      BY <1>4, <3>2, AggregateV2Total
    <3> DEFINE x == h[n]
               y == h[n + 1]
               v == g[n]
               w == g[n + 1]
               d == DeltaOf(k, es[n + 1])
    <3>4. y = x + d /\ w = v + d /\ x \in Int /\ v \in Int /\ d \in Int
      <4>1. d \in Int
        BY <3>2, DeltaType
      <4>2. D[n + 1] = d /\ g[n + 1] = g[n] + D[n + 1] /\ g[n] \in Int
        BY <2>1, <2>3, <3>1
      <4> QED BY <2>4, <3>1, <3>3, <4>1, <4>2
    <3> HIDE DEF x, y, v, w, d
    <3>5. y - x = w - v
      BY <3>4
    <3> QED BY <3>5 DEF x, y, v, w
  <2>7. SumOf(a, k) \in Int /\ h[0] = g[0] + SumOf(a, k)
    <3>1. 0 \in 0..m
      BY <1>0
    <3>2. h[0] = SumOf(a, k) /\ h[0] \in Int
      BY <1>3, <2>4, <3>1
    <3> QED BY <2>3, <3>2
  <2> DEFINE c == SumOf(a, k)
  <2> HIDE DEF c
  <2>8. h[m] = g[m] + c
    BY <1>0, <2>3, <2>5, <2>6, <2>7, SumsAgree DEF c
  <2>9. h[m] = SumOf(f[m], k) /\ g[m] \in Int
    BY <1>0, <2>3, <2>4
  <2>10. SumOf(f[m], k) = c + g[m]
    BY <2>7, <2>8, <2>9 DEF c
  <2> QED BY <2>2, <2>3, <2>10 DEF c
<1>8. Kept(f[m])
  BY <1>0, <1>6
<1> QED BY <1>2, <1>7, <1>8

(***************************************************************************)
(* Increments.                                                              *)
(***************************************************************************)
\* The totals as they are; the delta of a pulse being sent; and what a batch holds
\* that has not been aggregated.
Now == [totals |-> totals, gone |-> gone]
InPulse(k) == IF swapped[k] = -1 THEN 0 ELSE swapped[k]
InBatch(k) == IF task["transponder"].at = "idle" THEN Deltas(k, batch) ELSE 0

CountTypes ==
  /\ incs \in [Counters -> Int]
  /\ delta \in [Counters -> Nat] /\ swapped \in [Counters -> Nat \cup {-1}]
  /\ Kept(Now)

Found(k) ==
  delta[k] + InPulse(k) + Added(stream[k].sent) + Deltas(k, diode.queue) + InBatch(k)
    + SumOf(Now, k)

CountInv == version = 2 => CountTypes /\ \A k \in Counters : incs[k] = Found(k)

\* What is in the totals or thrown away.
LEMMA NowHas ==
  ASSUME NEW k
  PROVE  SumOf(Now, k) = TotalOf(totals, k) + gone[k]
BY DEF SumOf, Now

\* All parts of the sum are numbers.
LEMMA Parts ==
  ASSUME IInv, CountTypes, NEW k \in Counters
  PROVE  /\ incs[k] \in Int /\ delta[k] \in Nat /\ InPulse(k) \in Nat
         /\ swapped[k] \in Nat \cup {-1}
         /\ stream[k].sent \in Seq(Int) /\ Added(stream[k].sent) \in Int
         /\ Deltas(k, diode.queue) \in Int /\ InBatch(k) \in Int /\ SumOf(Now, k) \in Int
<1>1. incs[k] \in Int /\ delta[k] \in Nat /\ swapped[k] \in Nat \cup {-1}
  BY DEF CountTypes
<1>2. InPulse(k) \in Nat
  BY <1>1 DEF InPulse
<1>3. /\ stream[k].sent \in Seq(Int) /\ diode.queue \in Seq(Envelopes) /\ batch \in Seq(Envelopes)
  BY DEF IInv, BookTypes, Rings, Streams
<1>4. Added(stream[k].sent) \in Int
  BY <1>3, AddedType
<1>5. Deltas(k, diode.queue) \in Int /\ Deltas(k, batch) \in Int
  BY <1>3, DeltasOf
<1>6. InBatch(k) \in Int
  BY <1>5 DEF InBatch
<1>7. SumOf(Now, k) \in Int
  BY DEF CountTypes, Kept, SumOf
<1> QED BY <1>1, <1>2, <1>3, <1>4, <1>5, <1>6, <1>7

\* Counting, a pulse, its success and its failure, and a stream that breaks.
LEMMA EmitterCounts ==
  ASSUME IInv, CountTypes, version = 2, \A j \in Counters : incs[j] = Found(j), NEW k \in Counters,
         Increment(k) \/ Pulse(k) \/ PulseSent(k) \/ PulseFailed(k) \/ Break(k)
  PROVE  CountTypes' /\ \A j \in Counters : incs'[j] = Found(j)'
<1>0. /\ incs \in [Counters -> Int] /\ delta \in [Counters -> Nat]
      /\ swapped \in [Counters -> Nat \cup {-1}] /\ gone \in [Counters -> Int]
      /\ stream \in [Counters -> Streams]
      /\ \A j \in Counters : TotalOf(totals, j) \in Int
  BY DEF IInv, BookTypes, CountTypes, Kept, Now
<1>1. UNCHANGED <<diode, totals, batch, task>>
  BY DEF Increment, Pulse, PulseSent, PulseFailed, Break, poolVars
<1>2. \A j \in Counters : Deltas(j, diode.queue)' = Deltas(j, diode.queue) /\ InBatch(j)' = InBatch(j)
  BY <1>1 DEF InBatch
<1> DEFINE S(j) == Added(stream[j].sent)
           D(j) == Deltas(j, diode.queue)
           G(j) == SumOf(Now, j)
<1>3. ASSUME NEW j \in Counters
      PROVE  /\ incs[j] \in Int /\ delta[j] \in Nat /\ InPulse(j) \in Nat /\ S(j) \in Int
             /\ D(j) \in Int /\ InBatch(j) \in Int /\ G(j) \in Int
             /\ incs[j] = delta[j] + InPulse(j) + S(j) + D(j) + InBatch(j) + G(j)
             /\ gone[j] \in Int /\ TotalOf(totals, j) \in Int
             /\ G(j) = TotalOf(totals, j) + gone[j] /\ G(j)' = TotalOf(totals, j) + gone'[j]
  BY <1>0, <1>1, Parts, NowHas DEF Found, SumOf, Now
<1>4. ASSUME CountTypes',
             \A j \in Counters : incs'[j] = delta'[j] + InPulse(j)' + S(j)' + D(j) + InBatch(j) + G(j)'
      PROVE  CountTypes' /\ \A j \in Counters : incs'[j] = Found(j)'
  BY <1>2, <1>4 DEF Found
<1>5. ASSUME incs' \in [Counters -> Int], delta' \in [Counters -> Nat],
             swapped' \in [Counters -> Nat \cup {-1}], gone' \in [Counters -> Int]
      PROVE  CountTypes'
  BY <1>0, <1>1, <1>5 DEF CountTypes, Kept, Now
<1>6. ASSUME UNCHANGED gone PROVE \A j \in Counters : G(j)' = G(j)
  BY <1>1, <1>6 DEF Now
<1>7. swapped[k] \in Nat \cup {-1} /\ delta[k] \in Nat /\ stream[k] \in Streams /\ stream[k].sent \in Seq(Int)
  BY <1>0 DEF Streams
<1> HIDE DEF D, G
<1>8. CASE Increment(k)
  <2>1. /\ incs' = [incs EXCEPT ![k] = @ + 1] /\ delta' = [delta EXCEPT ![k] = @ + 1]
        /\ UNCHANGED <<swapped, stream, gone>>
    BY <1>8 DEF Increment
  <2>2. CountTypes'
    BY <1>0, <1>5, <2>1
  <2>3. ASSUME NEW j \in Counters
        PROVE  incs'[j] = delta'[j] + InPulse(j)' + S(j)' + D(j) + InBatch(j) + G(j)'
    <3>1. InPulse(j)' = InPulse(j) /\ S(j)' = S(j) /\ G(j)' = G(j)
      BY <1>6, <2>1 DEF InPulse
    <3> HIDE DEF S
    <3>2. CASE j = k
      <4>1. incs'[j] = incs[j] + 1 /\ delta'[j] = delta[j] + 1
        BY <1>0, <2>1, <3>2
      <4> QED BY <1>3, <3>1, <4>1
    <3>3. CASE j # k
      <4>1. incs'[j] = incs[j] /\ delta'[j] = delta[j]
        BY <1>0, <2>1, <3>3
      <4> QED BY <1>3, <3>1, <4>1
    <3> QED BY <3>2, <3>3
  <2> QED BY <1>4, <2>2, <2>3
<1>9. ASSUME NEW x \in Nat, NEW y \in Nat \cup {-1}, NEW r \in Streams,
             delta' = [delta EXCEPT ![k] = x], swapped' = [swapped EXCEPT ![k] = y],
             stream' = [stream EXCEPT ![k] = r], UNCHANGED <<incs, gone>>,
             x + (IF y = -1 THEN 0 ELSE y) + Added(r.sent) = delta[k] + InPulse(k) + S(k)
      PROVE  CountTypes' /\ \A j \in Counters : incs'[j] = Found(j)'
  <2>1. CountTypes'
    BY <1>0, <1>5, <1>9
  <2>2. ASSUME NEW j \in Counters
        PROVE  incs'[j] = delta'[j] + InPulse(j)' + S(j)' + D(j) + InBatch(j) + G(j)'
    <3>0. G(j)' = G(j) /\ incs'[j] = incs[j]
      BY <1>6, <1>9
    <3>1. CASE j = k
      <4>1. delta'[j] = x /\ swapped'[j] = y /\ stream'[j] = r
        BY <1>0, <1>9, <3>1
      <4>2. InPulse(j)' = IF y = -1 THEN 0 ELSE y
        BY <4>1 DEF InPulse
      <4>3. S(j)' = Added(r.sent) /\ Added(r.sent) \in Int
        BY <4>1, AddedType DEF Streams
      <4> DEFINE p == IF y = -1 THEN 0 ELSE y
      <4>4. p \in Int
        OBVIOUS
      <4> HIDE DEF S, p
      <4>5. delta'[j] + InPulse(j)' + S(j)' = delta[j] + InPulse(j) + S(j)
        BY <1>9, <3>1, <4>1, <4>2, <4>3 DEF p
      <4> QED BY <1>3, <3>0, <4>5
    <3>2. CASE j # k
      <4>1. delta'[j] = delta[j] /\ swapped'[j] = swapped[j] /\ stream'[j] = stream[j]
        BY <1>0, <1>9, <3>2
      <4>2. InPulse(j)' = InPulse(j) /\ S(j)' = S(j)
        BY <4>1 DEF InPulse
      <4> HIDE DEF S
      <4> QED BY <1>3, <3>0, <4>1, <4>2
    <3> QED BY <3>1, <3>2
  <2> QED BY <1>4, <2>1, <2>2
<1>10. CASE Pulse(k)
  <2> DEFINE r == [stream[k] EXCEPT !.open = TRUE]
  <2>1. r \in Streams /\ r.sent = stream[k].sent
    BY <1>7 DEF Streams
  <2>2. stream' = [stream EXCEPT ![k] = r] /\ swapped[k] = -1
        /\ swapped' = [swapped EXCEPT ![k] = delta[k]] /\ delta' = [delta EXCEPT ![k] = 0]
        /\ UNCHANGED <<incs, gone>>
    BY <1>10 DEF Pulse
  <2> HIDE DEF r
  <2>3. InPulse(k) = 0 /\ delta[k] # -1 /\ S(k) = Added(r.sent)
    BY <1>7, <2>1, <2>2 DEF InPulse
  <2> HIDE DEF S
  <2>4. 0 + (IF delta[k] = -1 THEN 0 ELSE delta[k]) + Added(r.sent) = delta[k] + InPulse(k) + S(k)
    BY <1>3, <2>3
  <2> QED BY <1>7, <1>9, <2>1, <2>2, <2>4
<1>11. CASE PulseSent(k)
  <2> DEFINE r == [stream[k] EXCEPT !.sent = Append(stream[k].sent, swapped[k])]
  <2>0. swapped[k] # -1 /\ swapped[k] \in Nat
    BY <1>7, <1>11 DEF PulseSent
  <2>1. r \in Streams /\ r.sent = Append(stream[k].sent, swapped[k])
    <3>1. Append(stream[k].sent, swapped[k]) \in Seq(Int)
      BY <1>7, <2>0
    <3> QED BY <1>7, <3>1 DEF Streams
  <2>2. stream' = [stream EXCEPT ![k] = r]
        /\ swapped' = [swapped EXCEPT ![k] = -1] /\ UNCHANGED <<incs, gone, delta>>
    BY <1>11 DEF PulseSent
  <2>3. delta' = [delta EXCEPT ![k] = delta[k]]
    BY <1>0, <2>2
  <2> HIDE DEF r
  <2>4. InPulse(k) = swapped[k] /\ Added(r.sent) = S(k) + swapped[k]
    BY <1>7, <2>0, <2>1, AddedAppend DEF InPulse
  <2> HIDE DEF S
  <2>5. delta[k] + (IF -1 = -1 THEN 0 ELSE -1) + Added(r.sent) = delta[k] + InPulse(k) + S(k)
    BY <1>3, <2>0, <2>4
  <2> QED BY <1>7, <1>9, <2>1, <2>2, <2>3, <2>5
<1>12. CASE PulseFailed(k)
  <2> DEFINE r == [stream[k] EXCEPT !.open = FALSE]
             x == delta[k] + swapped[k]
  <2>0. swapped[k] # -1 /\ swapped[k] \in Nat /\ x \in Nat
    BY <1>7, <1>12 DEF PulseFailed
  <2>1. r \in Streams /\ r.sent = stream[k].sent
    BY <1>7 DEF Streams
  <2>2. stream' = [stream EXCEPT ![k] = r] /\ delta' = [delta EXCEPT ![k] = x]
        /\ swapped' = [swapped EXCEPT ![k] = -1] /\ UNCHANGED <<incs, gone>>
    BY <1>0, <1>12 DEF PulseFailed
  <2> HIDE DEF r
  <2>4. InPulse(k) = swapped[k] /\ Added(r.sent) = S(k)
    BY <2>0, <2>1 DEF InPulse
  <2> HIDE DEF S
  <2>5. x + (IF -1 = -1 THEN 0 ELSE -1) + Added(r.sent) = delta[k] + InPulse(k) + S(k)
    BY <1>3, <2>0, <2>4
  <2> HIDE DEF x
  <2> QED BY <1>7, <1>9, <2>0, <2>1, <2>2, <2>5
<1>13. CASE Break(k)
  <2> DEFINE r == [open |-> FALSE, sent |-> << >>]
             x == gone[k] + Added(stream[k].sent)
  <2>1. r \in Streams /\ r.sent = << >>
    BY DEF Streams
  <2>2. stream' = [stream EXCEPT ![k] = r] /\ gone' = [gone EXCEPT ![k] = x]
        /\ UNCHANGED <<incs, delta, swapped>>
    BY <1>13 DEF Break
  <2> HIDE DEF r
  <2>3. x \in Int /\ x = gone[k] + S(k)
    BY <1>3
  <2>4. CountTypes'
    BY <1>0, <1>5, <2>2, <2>3
  <2> HIDE DEF x
  <2>5. ASSUME NEW j \in Counters
        PROVE  incs'[j] = delta'[j] + InPulse(j)' + S(j)' + D(j) + InBatch(j) + G(j)'
    <3>1. InPulse(j)' = InPulse(j) /\ incs'[j] = incs[j] /\ delta'[j] = delta[j]
      BY <2>2 DEF InPulse
    <3>2. CASE j = k
      <4>1. stream'[j] = r /\ gone'[j] = x
        BY <1>0, <2>2, <3>2
      <4>2. S(j)' = 0
        BY <2>1, <4>1, AddedNone
      <4> HIDE DEF S
      <4> QED BY <1>3, <2>3, <3>1, <3>2, <4>1, <4>2
    <3>3. CASE j # k
      <4>1. stream'[j] = stream[j] /\ gone'[j] = gone[j]
        BY <1>0, <2>2, <3>3
      <4>2. S(j)' = S(j)
        BY <4>1
      <4> HIDE DEF S
      <4> QED BY <1>3, <3>1, <4>1, <4>2
    <3> QED BY <3>2, <3>3
  <2> QED BY <1>4, <2>4, <2>5
<1> QED BY <1>8, <1>10, <1>11, <1>12, <1>13

\* What is set in the diode is there, or overwrites what is lost with it.
LEMMA SetCounts ==
  ASSUME IInv, gone \in [Counters -> Int], NEW e \in Envelopes, Set(e)
  PROVE  /\ gone' \in [Counters -> Int]
         /\ \A j \in Counters :
              /\ Deltas(j, diode.queue) \in Int /\ Deltas(j, diode'.queue) \in Int
              /\ Deltas(j, diode'.queue) + gone'[j] = Deltas(j, diode.queue) + gone[j] + DeltaOf(j, e)
<1>1. diode \in Rings /\ diode.queue \in Seq(Envelopes)
  BY DEF IInv, BookTypes, Rings
<1>2. \A j \in Counters : Deltas(j, diode.queue) \in Int /\ DeltaOf(j, e) \in Int /\ gone[j] \in Int
  BY <1>1, DeltasOf, DeltaType
<1>3. CASE Len(diode.queue) < DiodeSize
  <2>1. diode' = [diode EXCEPT !.queue = Append(diode.queue, e)] /\ gone' = gone
    BY <1>3 DEF Set, DiodeSet
  <2>2. diode'.queue = Append(diode.queue, e)
    BY <1>1, <2>1 DEF Rings
  <2>3. \A j \in Counters : Deltas(j, diode'.queue) = Deltas(j, diode.queue) + DeltaOf(j, e)
    BY <1>1, <2>2, DeltasOf
  <2> QED BY <1>2, <2>1, <2>3
<1>4. CASE ~(Len(diode.queue) < DiodeSize)
  <2>1. diode'.queue = <<e>> /\ gone' = [j \in Counters |-> gone[j] + Deltas(j, diode.queue)]
    BY <1>4 DEF Set, DiodeSet
  <2>2. << >> \in Seq(Envelopes) /\ <<e>> = Append(<< >>, e)
    OBVIOUS
  <2>3. ASSUME NEW j \in Counters PROVE Deltas(j, <<e>>) = DeltaOf(j, e)
    <3>1. Deltas(j, Append(<< >>, e)) = Deltas(j, << >>) + DeltaOf(j, e)
      BY <2>2, DeltasOf
    <3> QED BY <1>2, <2>2, <3>1, DeltasNone
  <2> QED BY <1>2, <2>1, <2>3
<1> QED BY <1>3, <1>4

\* A log counts nothing, and a counter event only for its counter.
LEMMA EventDelta ==
  /\ \A j : DeltaOf(j, LogEnvelope) = 0
  /\ \A j, k, d : DeltaOf(j, CounterEvent(k, d)) = IF j = k THEN d ELSE 0
<1>1. LogEnvelope.type = "log"
  BY DEF LogEnvelope
<1>2. \A j : DeltaOf(j, LogEnvelope) = 0
  BY <1>1 DEF DeltaOf
<1>3. \A j, k, d : DeltaOf(j, CounterEvent(k, d)) = IF j = k THEN d ELSE 0
  BY DEF DeltaOf, CounterEvent
<1> QED BY <1>2, <1>3

\* The receivers: what leaves a stream is in the diode.
LEMMA ReceiverCounts ==
  ASSUME IInv, CountTypes, \A j \in Counters : incs[j] = Found(j),
         BatchSenderSets \/ \E k \in Counters : Sender(k)
  PROVE  CountTypes' /\ \A j \in Counters : incs'[j] = Found(j)'
<1>0. /\ gone \in [Counters -> Int] /\ \A j \in Counters : TotalOf(totals, j) \in Int
      /\ stream \in [Counters -> Streams]
  BY DEF IInv, BookTypes, CountTypes, Kept, Now
<1>1. UNCHANGED <<incs, delta, swapped, totals, batch, task>>
  BY DEF BatchSenderSets, Sender, poolVars
<1> DEFINE S(j) == Added(stream[j].sent)
           D(j) == Deltas(j, diode.queue)
           P(j) == delta[j] + InPulse(j)
           R(j) == InBatch(j) + TotalOf(totals, j)
<1>2. ASSUME NEW j \in Counters
      PROVE  /\ P(j)' = P(j) /\ R(j)' = R(j) /\ incs'[j] = incs[j]
             /\ P(j) \in Int /\ R(j) \in Int /\ S(j) \in Int /\ D(j) \in Int /\ gone[j] \in Int
             /\ incs[j] = P(j) + S(j) + D(j) + R(j) + gone[j]
  <2>1. P(j)' = P(j) /\ R(j)' = R(j) /\ incs'[j] = incs[j]
    BY <1>1 DEF InPulse, InBatch
  <2>2. /\ delta[j] \in Nat /\ InPulse(j) \in Nat /\ S(j) \in Int /\ D(j) \in Int /\ InBatch(j) \in Int
        /\ gone[j] \in Int /\ TotalOf(totals, j) \in Int
    BY <1>0, Parts
  <2>3. incs[j] = delta[j] + InPulse(j) + S(j) + D(j) + InBatch(j) + (TotalOf(totals, j) + gone[j])
    BY NowHas DEF Found
  <2> HIDE DEF S, D
  <2>4. incs[j] = P(j) + S(j) + D(j) + R(j) + gone[j] /\ P(j) \in Int /\ R(j) \in Int
    BY <2>2, <2>3
  <2> QED BY <2>1, <2>2, <2>4
<1>3. ASSUME gone' \in [Counters -> Int],
             \A j \in Counters : S(j)' \in Int /\ D(j)' \in Int /\
                S(j)' + D(j)' + gone'[j] = S(j) + D(j) + gone[j]
      PROVE  CountTypes' /\ \A j \in Counters : incs'[j] = Found(j)'
  <2>1. CountTypes'
    BY <1>0, <1>1, <1>3 DEF CountTypes, Kept, Now
  <2>2. ASSUME NEW j \in Counters PROVE incs'[j] = Found(j)'
    <3>1. SumOf(Now, j)' = TotalOf(totals, j) + gone'[j]
      BY <1>1 DEF SumOf, Now
    <3>2. delta[j] \in Nat /\ InPulse(j) \in Nat /\ InBatch(j) \in Int /\ TotalOf(totals, j) \in Int
          /\ gone'[j] \in Int
      BY <1>0, <1>3, Parts
    <3>3. delta'[j] = delta[j] /\ InPulse(j)' = InPulse(j) /\ InBatch(j)' = InBatch(j)
      BY <1>1 DEF InPulse, InBatch
    <3>4. S(j)' \in Int /\ D(j)' \in Int /\ S(j)' + D(j)' + gone'[j] = S(j) + D(j) + gone[j]
      BY <1>3
    <3>5. Found(j)' = delta[j] + InPulse(j) + S(j)' + D(j)' + InBatch(j) + (TotalOf(totals, j) + gone'[j])
      BY <3>1, <3>3 DEF Found
    <3>6. /\ P(j) = delta[j] + InPulse(j) /\ R(j) = InBatch(j) + TotalOf(totals, j)
      OBVIOUS
    <3> HIDE DEF S, D, P, R
    <3>7. \A s, d, g \in Int : s + d + g = S(j) + D(j) + gone[j] =>
            incs[j] = delta[j] + InPulse(j) + s + d + InBatch(j) + (TotalOf(totals, j) + g)
      BY <1>2, <3>2, <3>6
    <3>8. incs[j] = delta[j] + InPulse(j) + S(j)' + D(j)' + InBatch(j) + (TotalOf(totals, j) + gone'[j])
      BY <3>2, <3>4, <3>7
    <3>9. incs'[j] = incs[j]
      BY <1>1
    <3> QED BY <3>5, <3>8, <3>9
  <2> QED BY <2>1, <2>2
<1>4. CASE BatchSenderSets
  <2>1. Set(LogEnvelope) /\ UNCHANGED stream
    BY <1>4 DEF BatchSenderSets
  <2>2. /\ gone' \in [Counters -> Int]
        /\ \A j \in Counters : D(j)' \in Int /\ D(j)' + gone'[j] = D(j) + gone[j] + 0
    BY <1>0, <2>1, SetCounts, EventDelta, DatagramType
  <2>3. \A j \in Counters : S(j)' = S(j)
    BY <2>1
  <2> HIDE DEF S, D, P, R
  <2>4. ASSUME NEW j \in Counters
        PROVE  S(j)' \in Int /\ D(j)' \in Int /\ S(j)' + D(j)' + gone'[j] = S(j) + D(j) + gone[j]
    <3>1. gone'[j] \in Int
      BY <2>2
    <3>2. \A d, g \in Int : d + g = D(j) + gone[j] + 0 => S(j) + d + g = S(j) + D(j) + gone[j]
      BY <1>2
    <3> QED BY <1>2, <2>2, <2>3, <3>1, <3>2
  <2> QED BY <1>3, <2>2, <2>4
<1>5. ASSUME NEW k \in Counters, Sender(k)
      PROVE  CountTypes' /\ \A j \in Counters : incs'[j] = Found(j)'
  <2> DEFINE d == Head(stream[k].sent)
             e == CounterEvent(k, d)
             r == [stream[k] EXCEPT !.sent = Tail(stream[k].sent)]
  <2>1. stream[k] \in Streams /\ stream[k].sent \in Seq(Int) /\ stream[k].sent # << >>
    BY <1>0, <1>5 DEF Streams, Sender
  <2>2. d \in Int /\ Tail(stream[k].sent) \in Seq(Int) /\ r.sent = Tail(stream[k].sent)
    BY <2>1 DEF Streams
  <2>3. e \in Envelopes
    BY <2>2, DatagramType
  <2>4. Set(e) /\ stream' = [stream EXCEPT ![k] = r]
    BY <1>5 DEF Sender
  <2>5. \A j \in Counters : DeltaOf(j, e) = IF j = k THEN d ELSE 0
    BY EventDelta
  <2> HIDE DEF e
  <2>6. /\ gone' \in [Counters -> Int]
        /\ \A j \in Counters : D(j)' \in Int /\ D(j)' + gone'[j] = D(j) + gone[j] + DeltaOf(j, e)
    BY <1>0, <2>3, <2>4, SetCounts
  <2>7. S(k) = d + Added(r.sent) /\ Added(r.sent) \in Int
    BY <2>1, <2>2, AddedTail, AddedType
  <2> HIDE DEF r, d
  <2>8. \A j \in Counters : stream'[j] = IF j = k THEN r ELSE stream[j]
    BY <1>0, <2>4
  <2>9. \A j \in Counters : S(j)' = IF j = k THEN Added(r.sent) ELSE S(j)
    BY <2>8
  <2> HIDE DEF S, D, P, R
  <2>10. ASSUME NEW j \in Counters
         PROVE  S(j)' \in Int /\ D(j)' \in Int /\ S(j)' + D(j)' + gone'[j] = S(j) + D(j) + gone[j]
    <3>1. gone'[j] \in Int
      BY <2>6
    <3>2. CASE j = k
      <4>1. \A s, c, g \in Int : S(k) = d + s /\ c + g = D(k) + gone[k] + d =>
              s + c + g = S(k) + D(k) + gone[k]
        <5>1. S(k) \in Int /\ D(k) \in Int /\ gone[k] \in Int /\ d \in Int
          BY <1>2, <2>2
        <5> DEFINE x == S(k)
                   y == D(k)
                   z == gone[k]
        <5> HIDE DEF x, y, z
        <5>2. \A s, c, g \in Int : x = d + s /\ c + g = y + z + d => s + c + g = x + y + z
          <6>1. x \in Int /\ y \in Int /\ z \in Int /\ d \in Int
            BY <5>1 DEF x, y, z
          <6> QED BY <6>1
        <5> QED BY <5>2 DEF x, y, z
      <4>2. S(k)' = Added(r.sent) /\ D(k)' \in Int /\ D(k)' + gone'[k] = D(k) + gone[k] + d
        BY <2>5, <2>6, <2>9
      <4>3. S(k)' \in Int /\ gone'[k] \in Int /\ S(k) = d + S(k)'
        BY <2>7, <3>1, <3>2, <4>2
      <4>4. S(k)' + D(k)' + gone'[k] = S(k) + D(k) + gone[k]
        BY <4>1, <4>2, <4>3
      <4> QED BY <3>2, <4>2, <4>3, <4>4
    <3>3. CASE j # k
      BY <1>2, <2>5, <2>6, <2>9, <3>1, <3>3
    <3> QED BY <3>2, <3>3
  <2> QED BY <1>3, <2>6, <2>10
<1> QED BY <1>4, <1>5

\* A batch that is written is in the totals, once.
LEMMA WriteCounts ==
  ASSUME Kept(Now), NEW b \in Seq(Envelopes), Write(b), PoolInv
  PROVE  /\ Kept(Now)' /\ task'["transponder"].at # "idle"
         /\ \A j \in Counters : SumOf(Now, j)' = SumOf(Now, j) + Deltas(j, b)
<1> DEFINE a == Aggregated(Now, b)
<1>1. Kept(a) /\ \A j \in Counters : SumOf(a, j) = SumOf(Now, j) + Deltas(j, b)
  BY AggregatedTotal
<1>2. totals' = a.totals /\ gone' = a.gone
  BY DEF Write, Now
<1> HIDE DEF a
<1>3. Kept(Now)'
  BY <1>1, <1>2 DEF Kept, Now
<1>4. \A j \in Counters : SumOf(Now, j)' = SumOf(a, j)
  BY <1>2 DEF SumOf, Now
<1>5. task'["transponder"].at # "idle"
  <2>1. PICK seed \in Managers :
          task' = [task EXCEPT !["transponder"] = [NoTask EXCEPT !.at = "load", !.seed = seed]]
    BY DEF Write, StartWrite
  <2>2. [NoTask EXCEPT !.at = "load", !.seed = seed].at = "load"
    BY DEF NoTask
  <2>3. "transponder" \in AllWriters /\ task \in [AllWriters -> Tasks]
    BY Facts DEF PoolInv, PoolTypes
  <2> QED BY <2>1, <2>2, <2>3
<1> QED BY <1>1, <1>3, <1>4, <1>5

\* The transponder: what leaves the diode is in the batch, and then in the totals.
LEMMA TransponderCounts ==
  ASSUME IInv, CountTypes, \A j \in Counters : incs[j] = Found(j), Collect \/ Flush \/ Written
  PROVE  CountTypes' /\ \A j \in Counters : incs'[j] = Found(j)'
<1>0. /\ PoolInv /\ BookTypes /\ diode \in Rings /\ diode.queue \in Seq(Envelopes)
      /\ Len(diode.queue) <= DiodeSize /\ batch \in Seq(Envelopes) /\ Kept(Now)
  BY DEF IInv, BookTypes, Rings, CountTypes
<1>1. UNCHANGED <<incs, delta, swapped, stream>>
  BY DEF Collect, Flush, Written
<1> DEFINE S(j) == Added(stream[j].sent)
           D(j) == Deltas(j, diode.queue)
           G(j) == SumOf(Now, j)
<1>2. ASSUME NEW j \in Counters
      PROVE  /\ delta'[j] = delta[j] /\ InPulse(j)' = InPulse(j) /\ S(j)' = S(j) /\ incs'[j] = incs[j]
             /\ delta[j] \in Nat /\ InPulse(j) \in Nat /\ S(j) \in Int /\ D(j) \in Int
             /\ InBatch(j) \in Int /\ G(j) \in Int /\ Deltas(j, batch) \in Int
             /\ incs[j] = delta[j] + InPulse(j) + S(j) + D(j) + InBatch(j) + G(j)
  BY <1>0, <1>1, Parts, DeltasOf DEF Found, InPulse
<1>3. ASSUME Kept(Now)',
             \A j \in Counters : D(j)' \in Int /\ InBatch(j)' \in Int /\ G(j)' \in Int
               /\ D(j)' + InBatch(j)' + G(j)' = D(j) + InBatch(j) + G(j)
      PROVE  CountTypes' /\ \A j \in Counters : incs'[j] = Found(j)'
  <2>1. CountTypes'
    BY <1>1, <1>3 DEF CountTypes
  <2>2. ASSUME NEW j \in Counters PROVE incs'[j] = Found(j)'
    <3>1. Found(j)' = delta'[j] + InPulse(j)' + S(j)' + D(j)' + InBatch(j)' + G(j)'
      BY DEF Found
    <3> HIDE DEF S, D, G
    <3> QED BY <1>2, <1>3, <3>1
  <2> QED BY <2>1, <2>2
<1>4. CASE Written
  <2>1. /\ task["transponder"].at = "done" /\ batch' = << >> /\ UNCHANGED <<diode, totals, gone>>
    BY <1>4 DEF Written
  <2>2. Kept(Now)' /\ \A j \in Counters : G(j)' = G(j) /\ D(j)' = D(j)
    BY <1>0, <2>1 DEF Now
  <2>3. \A j \in Counters : InBatch(j) = 0
    BY <2>1 DEF InBatch
  <2>4. \A j \in Counters : InBatch(j)' = 0
    BY <2>1, DeltasNone DEF InBatch
  <2> HIDE DEF S, D, G
  <2> QED BY <1>2, <1>3, <2>2, <2>3, <2>4
<1>5. CASE Flush
  <2>1. task["transponder"].at = "idle" /\ Write(batch) /\ UNCHANGED <<diode, batch>>
    BY <1>5 DEF Flush
  <2>2. /\ Kept(Now)' /\ task'["transponder"].at # "idle"
        /\ \A j \in Counters : G(j)' = G(j) + Deltas(j, batch)
    BY <1>0, <2>1, WriteCounts
  <2>3. \A j \in Counters : InBatch(j) = Deltas(j, batch) /\ InBatch(j)' = 0 /\ D(j)' = D(j)
    BY <2>1, <2>2 DEF InBatch
  <2> HIDE DEF S, D, G
  <2>4. ASSUME NEW j \in Counters
        PROVE  D(j)' \in Int /\ InBatch(j)' \in Int /\ G(j)' \in Int
               /\ D(j)' + InBatch(j)' + G(j)' = D(j) + InBatch(j) + G(j)
    BY <1>2, <2>2, <2>3
  <2> QED BY <1>3, <2>2, <2>4
<1>6. CASE Collect
  <2> DEFINE e == DiodeHead(diode)
             b == Append(batch, e)
  <2>1. /\ task["transponder"].at = "idle" /\ DiodeReady(diode) /\ diode' = DiodeTail(diode)
        /\ batch' = b
        /\ Write(b) \/ UNCHANGED <<totals, gone, task>>
    BY <1>6 DEF Collect
  <2>2. e \in Envelopes /\ diode.queue # << >> /\ diode'.queue = Tail(diode.queue)
        /\ Tail(diode.queue) \in Seq(Envelopes) /\ b \in Seq(Envelopes) /\ e = Head(diode.queue)
    <3>1. e \in Envelopes
      BY <1>0, <2>1, TailFacts
    <3>2. diode.queue # << >> /\ diode'.queue = Tail(diode.queue)
      BY <2>1 DEF DiodeReady, DiodeTail
    <3> QED BY <1>0, <3>1, <3>2 DEF DiodeHead
  <2>3. ASSUME NEW j \in Counters
        PROVE  /\ D(j) = DeltaOf(j, e) + D(j)' /\ D(j)' \in Int /\ DeltaOf(j, e) \in Int
               /\ Deltas(j, b) = Deltas(j, batch) + DeltaOf(j, e) /\ InBatch(j) = Deltas(j, batch)
    <3>1. DeltaOf(j, e) \in Int
      BY <2>2, DeltaType
    <3>2. D(j) = DeltaOf(j, e) + D(j)' /\ D(j)' \in Int
      BY <1>0, <2>2, DeltasOf
    <3>3. Deltas(j, b) = Deltas(j, batch) + DeltaOf(j, e)
      BY <1>0, <2>2, DeltasOf
    <3> QED BY <2>1, <3>1, <3>2, <3>3 DEF InBatch
  <2>4. CASE Write(b)
    <3>1. /\ Kept(Now)' /\ task'["transponder"].at # "idle"
          /\ \A j \in Counters : G(j)' = G(j) + Deltas(j, b)
      BY <1>0, <2>2, <2>4, WriteCounts
    <3>2. \A j \in Counters : InBatch(j)' = 0
      BY <3>1 DEF InBatch
    <3> HIDE DEF S, D, G, b, e
    <3>3. ASSUME NEW j \in Counters
          PROVE  D(j)' \in Int /\ InBatch(j)' \in Int /\ G(j)' \in Int
                 /\ D(j)' + InBatch(j)' + G(j)' = D(j) + InBatch(j) + G(j)
      BY <1>2, <2>3, <3>1, <3>2
    <3> QED BY <1>3, <3>1, <3>3
  <2>5. CASE UNCHANGED <<totals, gone, task>>
    <3>1. Kept(Now)' /\ \A j \in Counters : G(j)' = G(j)
      BY <1>0, <2>5 DEF Now
    <3>2. \A j \in Counters : InBatch(j)' = Deltas(j, b)
      BY <2>1, <2>5 DEF InBatch
    <3> HIDE DEF S, D, G, b, e
    <3>3. ASSUME NEW j \in Counters
          PROVE  D(j)' \in Int /\ InBatch(j)' \in Int /\ G(j)' \in Int
                 /\ D(j)' + InBatch(j)' + G(j)' = D(j) + InBatch(j) + G(j)
      BY <1>2, <2>3, <3>1, <3>2
    <3> QED BY <1>3, <3>1, <3>3
  <2> QED BY <2>1, <2>4, <2>5
<1> QED BY <1>4, <1>5, <1>6

\* The steps that move no delta.
LEMMA OtherCounts ==
  ASSUME CountInv,
         UNCHANGED <<version, incs, delta, swapped, stream, gone, totals, batch, diode>>,
         task'["transponder"].at = "idle" <=> task["transponder"].at = "idle"
  PROVE  CountInv'
BY DEF CountInv, CountTypes, Found, InPulse, InBatch, Now

\* No step of metron loses an increment or counts it twice.
LEMMA CountStep ==
  ASSUME IInv, CountInv, [Next]_vars
  PROVE  CountInv'
<1>0. PoolInv /\ version \in 1..2 /\ Quiet
  BY DEF IInv, PoolInv, PoolTypes
<1>1. CASE PoolStep
  <2>1. \A o \in AllWriters : task'[o].at = "idle" <=> task[o].at = "idle"
    <3>1. CASE \E w \in Writers[version] : WriteStep(w)
      BY <1>0, <3>1, StillWriting
    <3>2. CASE \E m \in Managers : MaintainStep(m)
      BY <3>2 DEF MaintainStep, Check, ConnectFails, FetchFails, Fetch, Store
    <3> QED BY <1>1, <3>1, <3>2 DEF PoolStep
  <2>2. UNCHANGED version
    BY <1>1 DEF PoolStep, WriteStep, MaintainStep, Load, Send, Unset, Count, Recycle, RecycleV2, Close,
         Reset, Check, ConnectFails, FetchFails, Fetch, Store
  <2>3. UNCHANGED <<incs, delta, swapped, stream, gone, totals, batch, diode>>
    BY <1>1 DEF PoolStep, pipes, v2Vars
  <2> QED BY <2>1, <2>2, <2>3, OtherCounts, Facts
<1>2. ASSUME version = 1, UNCHANGED version PROVE CountInv'
  BY <1>2 DEF CountInv
<1>3. CASE V1Step \/ SetWriter \/ (\E e \in Datagrams : ReadFrom(e)) \/ (\E k \in Counters : EmitEnvelope(k))
  <2>1. version = 1 /\ UNCHANGED version
    BY <1>3 DEF V1Step, StartWriting, GRPCWrapperReturns, SetWriter, ReadFrom, EmitEnvelope, poolVars
  <2> QED BY <1>2, <2>1
<1>4. CASE CountIngress \/ IntervalPasses \/ \E n \in 1..2 : BatchSender(n)
  <2>1. UNCHANGED <<version, incs, delta, swapped, stream, gone, totals, batch, diode, task>>
    BY <1>4 DEF CountIngress, IntervalPasses, BatchSender, poolVars
  <2> QED BY <2>1, OtherCounts
<1>5. CASE BatchSenderSets \/ Collect \/ Flush \/ Written \/ \E k \in Counters : Sender(k)
  <2>1. UNCHANGED version
    BY <1>5 DEF BatchSenderSets, Collect, Flush, Written, Sender, poolVars
  <2>2. CASE version = 2
    BY <1>5, <2>1, <2>2, ReceiverCounts, TransponderCounts DEF CountInv
  <2> QED BY <1>0, <1>2, <2>1, <2>2
<1>6. ASSUME NEW k \in Counters, Increment(k) \/ Pulse(k) \/ PulseSent(k) \/ PulseFailed(k) \/ Break(k)
      PROVE  CountInv'
  <2>1. UNCHANGED version
    BY <1>6 DEF Increment, Pulse, Break, PulseSent, PulseFailed, poolVars
  <2>2. CASE version = 2
    BY <1>6, <2>1, <2>2, EmitterCounts DEF CountInv
  <2> QED BY <1>0, <1>2, <2>1, <2>2
<1>7. CASE UNCHANGED vars
  <2>1. UNCHANGED <<version, incs, delta, swapped, stream, gone, totals, batch, diode, task>>
    BY <1>7 DEF vars, pipes, v2Vars, poolVars
  <2> QED BY <2>1, OtherCounts
<1> QED BY <1>1, <1>3, <1>4, <1>5, <1>6, <1>7 DEF Next, V2Step, EmitterStep

\* For any number of counters, any size of diode and batch, any limit of totals and
\* any number of increments: every increment of a counter is in exactly one place,
\* for each counter on its own, however pulses fail, streams break, the diode is
\* overwritten and the totals are thrown away.
THEOREM IncrementsKept == Spec => []IncrementsConserved
<1>1. Init => CountInv
  <2> SUFFICES ASSUME Init PROVE CountTypes /\ \A k \in Counters : incs[k] = Found(k)
    BY DEF CountInv
  <2>1. totals = << >> /\ gone = [k \in Counters |-> 0]
    BY DEF Init
  <2>2. \A k \in Counters : TotalOf(totals, k) = 0 /\ gone[k] = 0
    BY <2>1 DEF TotalOf
  <2>3. CountTypes
    BY <2>1, <2>2 DEF Init, CountTypes, Kept, Now
  <2>4. ASSUME NEW k \in Counters PROVE incs[k] = Found(k)
    <3>1. incs[k] = 0 /\ delta[k] = 0 /\ swapped[k] = -1 /\ stream[k].sent = << >> /\ diode.queue = << >>
          /\ batch = << >>
      BY DEF Init, EmptyDiode
    <3>2. InPulse(k) = 0 /\ InBatch(k) = 0 /\ Added(stream[k].sent) = 0 /\ Deltas(k, diode.queue) = 0
      BY <3>1, AddedNone, DeltasNone DEF InPulse, InBatch
    <3>3. SumOf(Now, k) = 0
      BY <2>2, NowHas
    <3> QED BY <3>1, <3>2, <3>3 DEF Found
  <2> QED BY <2>3, <2>4
<1>2. IInv /\ CountInv => IncrementsConserved
  <2> SUFFICES ASSUME IInv, CountInv, version = 2, NEW k \in Counters
               PROVE  incs[k] = delta[k] + (IF swapped[k] = -1 THEN 0 ELSE swapped[k])
                        + Added(stream[k].sent) + Deltas(k, diode.queue)
                        + (IF task["transponder"].at = "idle" THEN Deltas(k, batch) ELSE 0)
                        + TotalOf(totals, k) + gone[k]
    BY DEF IncrementsConserved
  <2>1. CountTypes /\ incs[k] = Found(k)
    BY DEF CountInv
  <2>2. /\ delta[k] \in Nat /\ InPulse(k) \in Nat /\ Added(stream[k].sent) \in Int
        /\ Deltas(k, diode.queue) \in Int /\ InBatch(k) \in Int
        /\ TotalOf(totals, k) \in Int /\ gone[k] \in Int
    BY <2>1, Parts DEF CountTypes, Kept, Now
  <2>3. incs[k] = delta[k] + InPulse(k) + Added(stream[k].sent) + Deltas(k, diode.queue) + InBatch(k)
                    + (TotalOf(totals, k) + gone[k])
    BY <2>1, NowHas DEF Found
  <2>4. incs[k] = delta[k] + InPulse(k) + Added(stream[k].sent) + Deltas(k, diode.queue) + InBatch(k)
                    + TotalOf(totals, k) + gone[k]
    BY <2>2, <2>3
  <2> QED BY <2>4 DEF InPulse, InBatch
<1> QED BY <1>1, <1>2, Inductive, CountStep, PTL DEF Spec
===============================================================================
