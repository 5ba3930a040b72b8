---- MODULE FinderProofs ----
(***************************************************************************)
(* What the finder promises whatever the dopplers, the hosts, the protocols *)
(* and the size of its channel.                                             *)
(*                                                                         *)
(* SettledView speaks of the moment when everything is at rest; to get      *)
(* there the invariant has to say what is on its way.  Follows: for every   *)
(* key the last unread event that is not a mere refresh carries what etcd   *)
(* holds, and where there is none the map does.  Fresh: the event of the    *)
(* maps as they are is held by the goroutine that computed last, or it is   *)
(* the last in the channel, or the connector has it, or it was overtaken.   *)
(* StartNeverStuck needs Counted: until Start has returned, every event     *)
(* sent or on its way is due to a write of its own.                         *)
(***************************************************************************)
EXTENDS Finder, TLAPS

(***************************************************************************)
(* The invariant.                                                           *)
(***************************************************************************)
Views == [Kinds -> SUBSET Hosts]

\* what may be under a root, and the events of it
Values(r) == {NoNode} \cup (IF r = "meta" THEN {buildDopplerMeta(ip) : ip \in Hosts} ELSE Hosts)
Changed(r) == [type : {"delete", "create", "update"}, key : Dopplers, prev : Values(r), node : Values(r)]
Parsed(r) == {parseNode(r, v) : v \in Values(r)}

Map(r) == IF r = "meta" THEN metaEndpoints ELSE legacyEndpoints

Types ==
  /\ changes \in Nat /\ faults \in Nat
  /\ up \in [Dopplers -> Hosts \cup {NoNode}]
  /\ watch = [r \in Roots |-> watch[r]] /\ \A r \in Roots : watch[r] \in Seq(Changed(r))
  /\ etcd = [r \in Roots |-> etcd[r]] /\ \A r \in Roots : etcd[r] \in [Dopplers -> Values(r)]
  /\ \A r \in Roots : Map(r) \in [Dopplers -> Parsed(r)]
  /\ held \in [Threads -> [ev : Views, old : BOOLEAN]]
  /\ events \in Seq(Views)
  /\ missed \in BOOLEAN /\ overtaken \in BOOLEAN

StartPlaces == {"watchMeta", "readMeta", "watchLegacy", "readLegacy", "iterating", "holding", "done"}
RunPlaces == {"unwatched", "listing", "idle", "iterating", "holding", "broken", "relisting"}

\* where the goroutines are, and what is there before a root is read
Places ==
  /\ pc = [t \in Threads |-> pc[t]]
  /\ pc["start"] \in StartPlaces /\ pc["meta"] \in RunPlaces /\ pc["legacy"] \in RunPlaces
  /\ pc["meta"] = "unwatched" <=> pc["start"] = "watchMeta"
  /\ pc["meta"] = "listing" <=> pc["start"] = "readMeta"
  /\ pc["legacy"] = "unwatched" <=> pc["start"] \in {"watchMeta", "readMeta", "watchLegacy"}
  /\ pc["legacy"] = "listing" <=> pc["start"] = "readLegacy"
  /\ \A r \in Roots : /\ pc[r] = "unwatched" => watch[r] = <<>>
                      /\ pc[r] \in {"unwatched", "listing"} => Map(r) = NoEndpoints
                      /\ pc[r] \in {"broken", "relisting"} => missed

\* an event of a key that is not a mere refresh
Loud(r, e, d) == e.key = d /\ ~(e.type = "update" /\ equal(r, e))

\* the queue q, then what the map keeps, m, lead to the value v of d
Lasts(r, q, m, v, d) ==
  \/ \E i \in 1..Len(q) : /\ Loud(r, q[i], d) /\ q[i].node = v
                          /\ \A j \in (i + 1)..Len(q) : ~Loud(r, q[j], d)
  \/ (\A j \in 1..Len(q) : ~Loud(r, q[j], d)) /\ m = parseNode(r, v)

Kept(r, d) == IF pc[r] = "listing" THEN parseNode(r, etcd[r][d]) ELSE Map(r)[d]

Follows ==
  ~missed => \A r \in Roots : pc[r] # "unwatched" =>
                \A d \in Dopplers : Lasts(r, watch[r], Kept(r, d), etcd[r][d], d)

\* the goroutine that computed last, as long as it has not sent
Newest(t) == pc[t] = "holding" /\ ~held[t].old

OneNewest == \A t, u \in Threads : Newest(t) /\ Newest(u) => t = u

\* no event is about to be computed, and Start has nothing to add
Computed ==
  /\ \A t \in Threads : pc[t] # "iterating"
  /\ ~missed
  /\ \/ pc["start"] \in {"holding", "done"}
     \/ metaEndpoints = NoEndpoints /\ legacyEndpoints = NoEndpoints

\* the event ev is the last in the channel, or the connector took it
Delivered(ev) == IF events = <<>> THEN got = ev["ws"] ELSE events[Len(events)] = ev

Fresh ==
  Computed => /\ \A t \in Threads : Newest(t) => held[t].ev = CurrentEvent
              /\ (\A t \in Threads : ~Newest(t)) => overtaken \/ Delivered(CurrentEvent)

Busy(place) == IF place \in {"iterating", "holding"} THEN 1 ELSE 0

Counted ==
  pc["start"] # "done" =>
    Len(events) + Len(watch["meta"]) + Len(watch["legacy"]) 
      + Busy(pc["meta"]) + Busy(pc["legacy"]) <= changes

IInv == Types /\ Places /\ Follows /\ OneNewest /\ Fresh /\ Counted

(***************************************************************************)
(* Operators.                                                               *)
(***************************************************************************)
\* No value of a root is kept as missing, and no refresh hides a change.
LEMMA ValuesKept ==
  ASSUME NEW r \in Roots
  PROVE  /\ parseNode(r, NoNode) = NoNode
         /\ \A v \in Values(r) : v # NoNode => parseNode(r, v) # NoNode
         /\ \A e \in Changed(r) : e.type = "update" /\ e.prev # NoNode /\ e.node # NoNode /\ equal(r, e)
                                     => e.prev = e.node
<1>1. parseNode(r, NoNode) = NoNode
  BY DEF parseNode
<1>2. CASE r = "legacy"
  BY <1>1, <1>2 DEF parseNode, equal
<1>3. CASE r = "meta"
  <2>1. \A v \in Values(r) : v # NoNode => parseNode(r, v) # NoNode
    BY <1>3, FinderAssumption DEF Values, parseNode
  <2>2. ASSUME NEW p \in Hosts, NEW n \in Hosts,
               Range(buildDopplerMeta(p).endpoints) = Range(buildDopplerMeta(n).endpoints)
        PROVE  p = n
    <3>1. \A x : Range(buildDopplerMeta(x).endpoints) = {[kind |-> "udp", host |-> x], [kind |-> "ws", host |-> x]}
      BY DEF Range, buildDopplerMeta
    <3>2. [kind |-> "udp", host |-> p] \in {[kind |-> "udp", host |-> n], [kind |-> "ws", host |-> n]}
      BY <2>2, <3>1
    <3> QED BY <3>2
  <2>3. ASSUME NEW e \in Changed(r), e.prev # NoNode, e.node # NoNode, equal(r, e)
        PROVE  e.prev = e.node
    BY <1>3, <2>2, <2>3 DEF Changed, Values, equal, parseMetaValue
  <2> QED BY <1>1, <2>1, <2>3
<1> QED BY <1>2, <1>3 DEF Roots

\* A write puts its event at the end.
LEMMA LastsAppend ==
  ASSUME NEW r, NEW S, NEW q \in Seq(S), NEW e \in S, NEW d, NEW m, NEW n, NEW v, NEW w,
         Lasts(r, q, m, v, d),
         Loud(r, e, d) => e.node = w,
         ~Loud(r, e, d) => w = v /\ n = m
  PROVE  Lasts(r, Append(q, e), n, w, d)
<1> DEFINE a == Append(q, e)
<1>1. /\ a \in Seq(S) /\ Len(a) = Len(q) + 1 /\ Len(q) \in Nat
      /\ a[Len(a)] = e /\ \A i \in 1..Len(q) : a[i] = q[i]
  OBVIOUS
<1> HIDE DEF a
<1>2. CASE Loud(r, e, d)
  <2>1. Loud(r, a[Len(a)], d) /\ a[Len(a)].node = w /\ Len(a) \in 1..Len(a)
        /\ \A j \in (Len(a) + 1)..Len(a) : ~Loud(r, a[j], d)
    BY <1>1, <1>2
  <2>2. Lasts(r, a, n, w, d)
    BY <2>1 DEF Lasts
  <2> QED BY <2>2 DEF a
<1>3. CASE ~Loud(r, e, d)
  <2>1. CASE \E i \in 1..Len(q) : /\ Loud(r, q[i], d) /\ q[i].node = v
                                  /\ \A j \in (i + 1)..Len(q) : ~Loud(r, q[j], d)
    <3>1. PICK i \in 1..Len(q) : /\ Loud(r, q[i], d) /\ q[i].node = v
                                 /\ \A j \in (i + 1)..Len(q) : ~Loud(r, q[j], d)
      BY <2>1
    <3>2. i \in 1..Len(a) /\ Loud(r, a[i], d) /\ a[i].node = w
      BY <1>1, <1>3, <3>1
    <3>3. \A j \in (i + 1)..Len(a) : j \in (i + 1)..Len(q) \/ j = Len(a)
      BY <1>1, <3>1
    <3>4. \A j \in (i + 1)..Len(a) : ~Loud(r, a[j], d)
      BY <1>1, <1>3, <3>1, <3>3
    <3> QED BY <3>2, <3>4 DEF Lasts, a
  <2>2. CASE (\A j \in 1..Len(q) : ~Loud(r, q[j], d)) /\ m = parseNode(r, v)
    <3>1. \A j \in 1..Len(a) : j \in 1..Len(q) \/ j = Len(a)
      BY <1>1
    <3>2. \A j \in 1..Len(a) : ~Loud(r, a[j], d)
      BY <1>1, <1>3, <2>2, <3>1
    <3> QED BY <1>3, <2>2, <3>2 DEF Lasts, a
  <2> QED BY <2>1, <2>2 DEF Lasts
<1> QED BY <1>2, <1>3

\* handleEvent takes the first event and keeps what it says.
LEMMA LastsTail ==
  ASSUME NEW r, NEW S, NEW q \in Seq(S), q # <<>>, NEW d, NEW m, NEW n, NEW v,
         Lasts(r, q, m, v, d),
         Loud(r, Head(q), d) => n = parseNode(r, Head(q).node),
         ~Loud(r, Head(q), d) => n = m
  PROVE  Lasts(r, Tail(q), n, v, d)
<1> DEFINE a == Tail(q)
<1>1. /\ a \in Seq(S) /\ Len(q) = Len(a) + 1 /\ Len(a) \in Nat
      /\ q[1] = Head(q) /\ \A i \in 1..Len(a) : a[i] = q[i + 1]
  OBVIOUS
<1> HIDE DEF a
<1>2. \A j \in 1..Len(a) : j + 1 \in 1..Len(q)
  BY <1>1
<1>3. CASE \E i \in 1..Len(q) : /\ Loud(r, q[i], d) /\ q[i].node = v
                                /\ \A j \in (i + 1)..Len(q) : ~Loud(r, q[j], d)
  <2>1. PICK i \in 1..Len(q) : /\ Loud(r, q[i], d) /\ q[i].node = v
                               /\ \A j \in (i + 1)..Len(q) : ~Loud(r, q[j], d)
    BY <1>3
  <2>2. \A j \in 1..Len(a) : j >= i => ~Loud(r, a[j], d)
    <3>1. \A j \in 1..Len(a) : j >= i => j + 1 \in (i + 1)..Len(q)
      BY <1>1
    <3> QED BY <1>1, <2>1, <3>1
  <2>3. CASE i = 1
    <3>1. \A j \in 1..Len(a) : ~Loud(r, a[j], d)
      BY <2>2, <2>3
    <3>2. n = parseNode(r, v)
      BY <1>1, <2>1, <2>3
    <3> QED BY <3>1, <3>2 DEF Lasts, a
  <2>4. CASE i # 1
    <3>1. i - 1 \in 1..Len(a) /\ a[i - 1] = q[i]
      BY <1>1, <2>4
    <3>2. \A j \in ((i - 1) + 1)..Len(a) : ~Loud(r, a[j], d)
      BY <1>1, <2>2
    <3> QED BY <2>1, <3>1, <3>2 DEF Lasts, a
  <2> QED BY <2>3, <2>4
<1>4. CASE (\A j \in 1..Len(q) : ~Loud(r, q[j], d)) /\ m = parseNode(r, v)
  <2>1. \A j \in 1..Len(a) : ~Loud(r, a[j], d)
    BY <1>1, <1>2, <1>4
  <2>2. ~Loud(r, Head(q), d)
    BY <1>1, <1>4
  <2> QED BY <1>4, <2>1, <2>2 DEF Lasts, a
<1> QED BY <1>3, <1>4 DEF Lasts

\* The addresses of a doppler: those of its meta node, or the legacy one.
LEMMA Addresses ==
  ASSUME Map("meta") \in [Dopplers -> Parsed("meta")],
         Map("legacy") \in [Dopplers -> Parsed("legacy")], NEW d \in Dopplers
  PROVE  \/ /\ metaEndpoints[d] = NoNode
            /\ chooseAddrs[d] = NoNode
            /\ protocolIndex("udp") = 0 \/ legacyEndpoints[d] = NoNode
         \/ /\ metaEndpoints[d] = NoNode
            /\ \E ip \in Hosts : chooseAddrs[d] = <<[kind |-> "udp", host |-> ip]>>
            /\ chooseAddrs[d] # NoNode /\ protocolIndex("udp") # 0 /\ legacyEndpoints[d] # NoNode
         \/ /\ metaEndpoints[d] # NoNode
            /\ chooseAddrs[d] = metaEndpoints[d]
            /\ \E ip \in Hosts : metaEndpoints[d] = parseMetaValue(buildDopplerMeta(ip))
<1>1. metaEndpoints[d] = NoNode \/ \E ip \in Hosts : metaEndpoints[d] = parseMetaValue(buildDopplerMeta(ip))
  BY DEF Map, Parsed, Values, parseNode
<1>2. legacyEndpoints[d] \in Hosts \cup {NoNode}
  BY DEF Map, Parsed, Values, parseNode
<1>3. chooseAddrs[d] = IF \/ protocolIndex("udp") = 0
                          \/ legacyEndpoints[d] = NoNode
                          \/ /\ metaEndpoints[d] # NoNode
                             /\ \/ metaEndpoints[d][1].kind = "udp"
                                \/ protocolIndex(metaEndpoints[d][1].kind) < protocolIndex("udp")
                       THEN metaEndpoints[d] ELSE <<parseLegacyValue(legacyEndpoints[d])>>
  BY DEF chooseAddrs, addLegacyAddrs
<1>4. \A ip \in Hosts : parseMetaValue(buildDopplerMeta(ip))[1].kind = "udp"
  BY DEF parseMetaValue, buildDopplerMeta
<1>5. CASE metaEndpoints[d] = NoNode
  BY <1>2, <1>3, <1>5, FinderAssumption DEF parseLegacyValue
<1>6. CASE \E ip \in Hosts : metaEndpoints[d] = parseMetaValue(buildDopplerMeta(ip))
  BY <1>3, <1>4, <1>6, FinderAssumption
<1> QED BY <1>1, <1>5, <1>6

\* The hosts of a set of dopplers for a protocol.
LEMMA HostsOf ==
  ASSUME NEW keys, NEW k \in Kinds, NEW h
  PROVE  h \in eventWithPrefix(keys)[k] <=>
           \E d \in keys : /\ chooseAddrs[d] # NoNode
                           /\ \E i \in DOMAIN chooseAddrs[d] :
                                chooseAddrs[d][i].kind = k /\ chooseAddrs[d][i].host = h
BY DEF eventWithPrefix

\* An event is made of hosts.
LEMMA EventTyped ==
  ASSUME Map("meta") \in [Dopplers -> Parsed("meta")],
         Map("legacy") \in [Dopplers -> Parsed("legacy")]
  PROVE  CurrentEvent \in Views
<1>1. ASSUME NEW d \in Dopplers, chooseAddrs[d] # NoNode, NEW i \in DOMAIN chooseAddrs[d]
      PROVE  chooseAddrs[d][i].host \in Hosts
  <2>1. CASE \E ip \in Hosts : chooseAddrs[d] = <<[kind |-> "udp", host |-> ip]>>
    BY <1>1, <2>1
  <2>2. CASE \E ip \in Hosts : chooseAddrs[d] = parseMetaValue(buildDopplerMeta(ip))
    BY <1>1, <2>2 DEF parseMetaValue, buildDopplerMeta
  <2> QED BY <1>1, <2>1, <2>2, Addresses
<1>2. ASSUME NEW keys \in SUBSET Dopplers
      PROVE  eventWithPrefix(keys) \in Views
  <2>1. \A k \in Kinds : eventWithPrefix(keys)[k] \subseteq Hosts
    BY <1>1, HostsOf
  <2>2. eventWithPrefix(keys) = [k \in Kinds |-> eventWithPrefix(keys)[k]]
    BY DEF eventWithPrefix
  <2> QED BY <2>1, <2>2 DEF Views
<1> QED BY <1>2, FinderAssumption DEF CurrentEvent

\* The event of maps that hold what etcd holds lists the dopplers announced.
LEMMA EventSettled ==
  ASSUME Types,
         \A r \in Roots : \A d \in Dopplers : Map(r)[d] = parseNode(r, etcd[r][d])
  PROVE  CurrentEvent["ws"] = Announced
<1>1. /\ Map("meta") \in [Dopplers -> Parsed("meta")]
      /\ Map("legacy") \in [Dopplers -> Parsed("legacy")]
      /\ \A r \in Roots : etcd[r] \in [Dopplers -> Values(r)]
  BY DEF Types, Roots
<1>2. ASSUME NEW d \in Dopplers
      PROVE  /\ metaEndpoints[d] # NoNode <=> etcd["meta"][d] # NoNode
             /\ etcd["meta"][d] # NoNode => metaEndpoints[d] = parseMetaValue(etcd["meta"][d])
             /\ legacyEndpoints[d] # NoNode <=> etcd["legacy"][d] # NoNode
  <2>1. Map("meta")[d] = parseNode("meta", etcd["meta"][d]) /\ Map("legacy")[d] = parseNode("legacy", etcd["legacy"][d])
    BY DEF Roots
  <2>2. etcd["meta"][d] \in Values("meta")
    BY <1>1 DEF Roots
  <2> QED BY <2>1, <2>2, ValuesKept DEF Map, parseNode, Roots
<1>3. \A ip \in Hosts : /\ DOMAIN parseMetaValue(buildDopplerMeta(ip)) = {1, 2}
                        /\ parseMetaValue(buildDopplerMeta(ip))[1].kind = "udp"
                        /\ parseMetaValue(buildDopplerMeta(ip))[2].kind = "ws"
  BY DEF parseMetaValue, buildDopplerMeta
<1>4. ASSUME NEW d \in Dopplers, NEW h
      PROVE  (/\ chooseAddrs[d] # NoNode
              /\ \E i \in DOMAIN chooseAddrs[d] : chooseAddrs[d][i].kind = "ws" /\ chooseAddrs[d][i].host = h)
             <=> etcd["meta"][d] # NoNode /\ h = parseMetaValue(etcd["meta"][d])[2].host
  <2>1. CASE metaEndpoints[d] = NoNode
    <3>1. chooseAddrs[d] = NoNode \/ \E ip \in Hosts : chooseAddrs[d] = <<[kind |-> "udp", host |-> ip]>>
      BY <1>1, <2>1, Addresses
    <3>2. ASSUME NEW ip \in Hosts, chooseAddrs[d] = <<[kind |-> "udp", host |-> ip]>>,
                 NEW i \in DOMAIN chooseAddrs[d]
          PROVE  chooseAddrs[d][i].kind # "ws"
      BY <3>2
    <3> QED BY <1>2, <2>1, <3>1, <3>2
  <2>2. CASE metaEndpoints[d] # NoNode
    <3>1. PICK ip \in Hosts : metaEndpoints[d] = parseMetaValue(buildDopplerMeta(ip))
      BY <1>1, <2>2, Addresses
    <3>2. chooseAddrs[d] = metaEndpoints[d] /\ etcd["meta"][d] # NoNode /\ metaEndpoints[d] = parseMetaValue(etcd["meta"][d])
      BY <1>1, <1>2, <2>2, Addresses
    <3>3. chooseAddrs[d][1].kind = "udp" /\ chooseAddrs[d][2].kind = "ws" /\ DOMAIN chooseAddrs[d] = {1, 2}
      BY <1>3, <3>1, <3>2
    <3>4. chooseAddrs[d] # NoNode /\ chooseAddrs[d][2].host = parseMetaValue(etcd["meta"][d])[2].host
      BY <2>2, <3>2
    <3> QED BY <3>2, <3>3, <3>4
  <2> QED BY <2>1, <2>2
<1>5. ASSUME NEW keys \in SUBSET Dopplers
      PROVE  eventWithPrefix(keys)["ws"] = {parseMetaValue(etcd["meta"][d])[2].host : d \in {e \in keys : etcd["meta"][e] # NoNode}}
  <2>1. \A h : h \in eventWithPrefix(keys)["ws"] <=>
               \E d \in keys : /\ chooseAddrs[d] # NoNode
                               /\ \E i \in DOMAIN chooseAddrs[d] :
                                     chooseAddrs[d][i].kind = "ws" /\ chooseAddrs[d][i].host = h
    BY HostsOf DEF Kinds
  <2>2. \A h : h \in eventWithPrefix(keys)["ws"] <=>
               \E d \in keys : etcd["meta"][d] # NoNode /\ h = parseMetaValue(etcd["meta"][d])[2].host
    BY <1>4, <2>1
  <2> QED BY <2>2
<1>6. empty(eventWithPrefix(Preferred)) <=>
      ~\E d \in Preferred : \/ etcd["meta"][d] # NoNode
                            \/ protocolIndex("udp") # 0 /\ etcd["legacy"][d] # NoNode
  <2>1. ASSUME NEW k \in Kinds, NEW h
        PROVE  h \in eventWithPrefix(Preferred)[k] <=>
               \E d \in Preferred : /\ chooseAddrs[d] # NoNode
                                    /\ \E i \in DOMAIN chooseAddrs[d] :
                                         chooseAddrs[d][i].kind = k /\ chooseAddrs[d][i].host = h
    BY HostsOf
  <2>2. ASSUME NEW d \in Dopplers
        PROVE  /\ chooseAddrs[d] # NoNode <=> \/ etcd["meta"][d] # NoNode
                                              \/ protocolIndex("udp") # 0 /\ etcd["legacy"][d] # NoNode
               /\ chooseAddrs[d] # NoNode => 1 \in DOMAIN chooseAddrs[d] /\ chooseAddrs[d][1].kind = "udp"
    <3>1. CASE metaEndpoints[d] = NoNode /\ chooseAddrs[d] = NoNode /\ (protocolIndex("udp") = 0 \/ legacyEndpoints[d] = NoNode)
      BY <1>2, <3>1
    <3>2. CASE metaEndpoints[d] = NoNode /\ \E ip \in Hosts : chooseAddrs[d] = <<[kind |-> "udp", host |-> ip]>>
      <4>1. PICK ip \in Hosts : chooseAddrs[d] = <<[kind |-> "udp", host |-> ip]>>
        BY <3>2
      <4>2. 1 \in DOMAIN chooseAddrs[d] /\ chooseAddrs[d][1].kind = "udp"
        BY <4>1
      <4> QED BY <1>1, <1>2, <3>2, <4>2, Addresses
    <3>3. CASE metaEndpoints[d] # NoNode
      <4>1. PICK ip \in Hosts : metaEndpoints[d] = parseMetaValue(buildDopplerMeta(ip))
        BY <1>1, <3>3, Addresses
      <4>2. chooseAddrs[d] = metaEndpoints[d]
        BY <1>1, <3>3, Addresses
      <4>3. 1 \in DOMAIN chooseAddrs[d] /\ chooseAddrs[d][1].kind = "udp"
        BY <1>3, <4>1, <4>2
      <4> QED BY <1>2, <3>3, <4>2, <4>3
    <3> QED BY <1>1, <3>1, <3>2, <3>3, Addresses
  <2>3. CASE \E d \in Preferred : chooseAddrs[d] # NoNode
    <3>1. PICK d \in Preferred : chooseAddrs[d] # NoNode
      BY <2>3
    <3>2. chooseAddrs[d][1].host \in eventWithPrefix(Preferred)["udp"]
      BY <2>1, <2>2, <3>1, FinderAssumption DEF Kinds
    <3> QED BY <2>2, <3>1, <3>2, FinderAssumption DEF empty, Kinds
  <2>4. CASE ~\E d \in Preferred : chooseAddrs[d] # NoNode
    <3>1. \A k \in Kinds : eventWithPrefix(Preferred)[k] = {}
      BY <2>1, <2>4
    <3> QED BY <2>2, <2>4, <3>1, FinderAssumption DEF empty, Kinds
  <2> QED BY <2>3, <2>4
<1> QED BY <1>5, <1>6, FinderAssumption DEF CurrentEvent, Announced, Zone

\* Without endpoints there is nothing to announce.
LEMMA EventOfNothing ==
  ASSUME metaEndpoints = NoEndpoints, legacyEndpoints = NoEndpoints
  PROVE  CurrentEvent["ws"] = {}
<1>1. \A d \in Dopplers : chooseAddrs[d] = NoNode
  BY DEF chooseAddrs, addLegacyAddrs, NoEndpoints
<1>2. \A keys \in SUBSET Dopplers : eventWithPrefix(keys)["ws"] = {}
  BY <1>1 DEF eventWithPrefix, Kinds
<1> QED BY <1>2, FinderAssumption DEF CurrentEvent

\* The event depends on the maps alone.
LEMMA EventUnchanged ==
  ASSUME UNCHANGED <<metaEndpoints, legacyEndpoints>>
  PROVE  CurrentEvent' = CurrentEvent
BY DEF CurrentEvent, eventWithPrefix, chooseAddrs, addLegacyAddrs

(***************************************************************************)
(* The process begins, and begins again.                                    *)
(***************************************************************************)
\* Nothing is read, nothing is queued.
LEMMA InitInv == Init => IInv
<1> SUFFICES ASSUME Init PROVE IInv
  OBVIOUS
<1>1. /\ \A r \in Roots : Map(r) = NoEndpoints /\ watch[r] = <<>> /\ etcd[r] = NoEndpoints
      /\ metaEndpoints = NoEndpoints /\ legacyEndpoints = NoEndpoints
  BY DEF Init, Map, Roots
<1>2. \A r \in Roots : NoNode \in Values(r) /\ NoNode \in Parsed(r)
  BY DEF Values, Parsed, parseNode
<1>3. NoEvent \in [ev : Views, old : BOOLEAN]
  BY DEF NoEvent, Views
<1>4. Types
  <2>1. \A r \in Roots : NoEndpoints \in [Dopplers -> Values(r)] /\ NoEndpoints \in [Dopplers -> Parsed(r)]
    BY <1>2 DEF NoEndpoints
  <2>2. up \in [Dopplers -> Hosts \cup {NoNode}] /\ events \in Seq(Views) /\ \A r \in Roots : watch[r] \in Seq(Changed(r))
    BY <1>1 DEF Init, NoEndpoints
  <2>3. held \in [Threads -> [ev : Views, old : BOOLEAN]]
    BY <1>3 DEF Init
  <2>4. watch = [r \in Roots |-> watch[r]] /\ etcd = [r \in Roots |-> etcd[r]]
    BY DEF Init
  <2> QED BY <1>1, <2>1, <2>2, <2>3, <2>4 DEF Types, Init
<1>5. /\ pc["start"] = "watchMeta" /\ pc["meta"] = "unwatched" /\ pc["legacy"] = "unwatched"
      /\ pc = [t \in Threads |-> pc[t]] /\ \A t \in Threads : pc[t] \in {"watchMeta", "unwatched"}
  BY DEF Init, Threads, Roots
<1>6. Places
  BY <1>1, <1>5 DEF Places, StartPlaces, RunPlaces, Roots
<1>7. Follows /\ OneNewest
  BY <1>5 DEF Follows, OneNewest, Newest, Roots
<1>8. Fresh
  BY <1>1, <1>5, EventOfNothing DEF Init, Fresh, Newest, Delivered
<1>9. Counted
  <2>1. Len(events) = 0 /\ Len(watch["meta"]) = 0 /\ Len(watch["legacy"]) = 0
        /\ Busy(pc["meta"]) = 0 /\ Busy(pc["legacy"]) = 0 /\ changes = 0
    BY <1>1, <1>5 DEF Init, Busy, Roots
  <2> QED BY <2>1 DEF Counted
<1> QED BY <1>4, <1>6, <1>7, <1>8, <1>9 DEF IInv

\* A new process starts where the first one did; etcd keeps what it has.
LEMMA DieInv ==
  ASSUME IInv, Die, UNCHANGED <<up, etcd, changes, faults>>
  PROVE  IInv'
<1>1. /\ \A r \in Roots : Map(r)' = NoEndpoints /\ watch'[r] = <<>>
      /\ metaEndpoints' = NoEndpoints /\ legacyEndpoints' = NoEndpoints
      /\ watch' = [r \in Roots |-> watch'[r]]
  BY DEF Die, Map, Roots
<1>2. \A r \in Roots : NoNode \in Values(r) /\ NoNode \in Parsed(r)
  BY DEF Values, Parsed, parseNode
<1>3. NoEvent \in [ev : Views, old : BOOLEAN]
  BY DEF NoEvent, Views
<1>4. Types'
  <2>1. \A r \in Roots : NoEndpoints \in [Dopplers -> Parsed(r)]
    BY <1>2 DEF NoEndpoints
  <2>2. events' \in Seq(Views) /\ \A r \in Roots : watch'[r] \in Seq(Changed(r))
    BY <1>1 DEF Die
  <2>3. held' \in [Threads -> [ev : Views, old : BOOLEAN]]
    BY <1>3 DEF Die
  <2> QED BY <1>1, <2>1, <2>2, <2>3 DEF IInv, Types, Die
<1>5. /\ pc'["start"] = "watchMeta" /\ pc'["meta"] = "unwatched" /\ pc'["legacy"] = "unwatched"
      /\ pc' = [t \in Threads |-> pc'[t]] /\ \A t \in Threads : pc'[t] \in {"watchMeta", "unwatched"}
  BY DEF Die, Threads, Roots
<1>6. Places'
  BY <1>1, <1>5 DEF Places, StartPlaces, RunPlaces, Roots
<1>7. Follows' /\ OneNewest'
  BY <1>5 DEF Follows, OneNewest, Newest, Roots
<1>8. Fresh'
  <2>1. CurrentEvent'["ws"] = {}
    <3>1. \A d \in Dopplers : chooseAddrs'[d] = NoNode
      BY <1>1 DEF chooseAddrs, addLegacyAddrs, NoEndpoints
    <3>2. \A keys \in SUBSET Dopplers : eventWithPrefix(keys)'["ws"] = {}
      BY <3>1 DEF eventWithPrefix, Kinds
    <3> QED BY <3>2, FinderAssumption DEF CurrentEvent
  <2> QED BY <1>1, <1>5, <2>1 DEF Die, Fresh, Newest, Delivered
<1>9. Counted'
  <2>1. Len(events') = 0 /\ Len(watch'["meta"]) = 0 /\ Len(watch'["legacy"]) = 0
        /\ Busy(pc'["meta"]) = 0 /\ Busy(pc'["legacy"]) = 0 /\ changes' = changes
    BY <1>1, <1>5 DEF Die, Busy, Roots
  <2> QED BY <2>1 DEF Counted, IInv, Types
<1> QED BY <1>4, <1>6, <1>7, <1>8, <1>9 DEF IInv

\* How a step changes the events sent, the events to be read, the events about
\* to be sent, and the writes.
Shift(e, m, l, x, y, n) ==
  /\ Len(events') = Len(events) + e
  /\ Len(watch'["meta"]) = Len(watch["meta"]) + m
  /\ Len(watch'["legacy"]) = Len(watch["legacy"]) + l
  /\ Busy(pc'["meta"]) = Busy(pc["meta"]) + x
  /\ Busy(pc'["legacy"]) = Busy(pc["legacy"]) + y
  /\ changes' = changes + n

\* No step adds more events than writes.
LEMMA CountedStep ==
  ASSUME IInv, pc'["start"] # "done" => pc["start"] # "done",
         NEW e \in Int, NEW m \in Int, NEW l \in Int, NEW x \in Int, NEW y \in Int, NEW n \in Int,
         Shift(e, m, l, x, y, n), e + m + l + x + y <= n
  PROVE  Counted'
<1> DEFINE ev == Len(events)
           wm == Len(watch["meta"])
           wl == Len(watch["legacy"])
           bm == Busy(pc["meta"])
           bl == Busy(pc["legacy"])
<1>1. ev \in Nat /\ wm \in Nat /\ wl \in Nat /\ bm \in Nat /\ bl \in Nat /\ changes \in Nat
  BY DEF IInv, Types, Roots, Busy
<1>2. pc["start"] # "done" => ev + wm + wl + bm + bl <= changes
  BY DEF IInv, Counted
<1>3. /\ Len(events') = ev + e /\ Len(watch'["meta"]) = wm + m /\ Len(watch'["legacy"]) = wl + l
      /\ Busy(pc'["meta"]) = bm + x /\ Busy(pc'["legacy"]) = bl + y /\ changes' = changes + n
  BY DEF Shift
<1> HIDE DEF ev, wm, wl, bm, bl
<1>4. pc'["start"] # "done" => (ev + e) + (wm + m) + (wl + l) + (bm + x) + (bl + y) <= changes + n
  BY <1>1, <1>2
<1> QED BY <1>3, <1>4 DEF Counted

(***************************************************************************)
(* The announcer's steps.                                                   *)
(***************************************************************************)
\* What the finder has is as fresh as before.
LEMMA FinderIdle ==
  ASSUME IInv, UNCHANGED <<finderVars, missed, overtaken>>
  PROVE  Fresh' /\ OneNewest'
<1>1. CurrentEvent' = CurrentEvent
  BY EventUnchanged DEF finderVars
<1> QED BY <1>1 DEF IInv, finderVars, Fresh, OneNewest, Newest, Computed, Delivered

\* Only the dopplers change.
LEMMA DopplersChange ==
  ASSUME IInv, UNCHANGED <<etcd, changes, faults, watch, finderVars, missed, overtaken>>,
         up' \in [Dopplers -> Hosts \cup {NoNode}]
  PROVE  IInv'
<1>1. UNCHANGED <<Map("meta"), Map("legacy")>> /\ \A r \in Roots : Map(r)' = Map(r)
  BY DEF finderVars, Map
<1>2. Types'
  BY <1>1 DEF IInv, Types, finderVars
<1>3. Places'
  BY <1>1 DEF IInv, Places, finderVars
<1>4. Follows'
  BY <1>1 DEF IInv, Follows, Kept, finderVars
<1>5. Counted'
  BY DEF IInv, Counted, Busy, finderVars
<1> QED BY <1>2, <1>3, <1>4, <1>5, FinderIdle DEF IInv

\* A write under a root: its event is queued when somebody watches.
LEMMA PutInv ==
  ASSUME IInv, NEW r \in Roots, NEW d \in Dopplers, NEW v \in Values(r), Put(r, d, v),
         UNCHANGED <<up, faults, finderVars, missed, overtaken>>
  PROVE  IInv'
<1> DEFINE prev == etcd[r][d]
           kind == IF v = NoNode THEN "delete" ELSE IF prev = NoNode THEN "create" ELSE "update"
           e == [type |-> kind, key |-> d, prev |-> prev, node |-> v]
<1>1. \A s \in Roots : Map(s)' = Map(s)
  BY DEF finderVars, Map
<1>2. /\ changes' = changes + 1 /\ etcd' = [etcd EXCEPT ![r][d] = v]
      /\ watch' = IF pc[r] \in {"unwatched", "broken"} THEN watch ELSE [watch EXCEPT ![r] = Append(@, e)]
  BY DEF Put
<1>3. \A s \in Roots : etcd[s] \in [Dopplers -> Values(s)] /\ watch[s] \in Seq(Changed(s))
  BY DEF IInv, Types
<1>4. /\ etcd = [s \in Roots |-> etcd[s]] /\ watch = [s \in Roots |-> watch[s]]
      /\ changes \in Nat
  BY DEF IInv, Types
<1>5. e \in Changed(r) /\ e.key = d /\ e.prev = prev /\ e.node = v
      /\ (e.type = "update" => v # NoNode /\ prev # NoNode)
  BY <1>3 DEF Changed
<1> HIDE DEF e
<1>6. /\ etcd' = [s \in Roots |-> etcd'[s]] /\ \A s \in Roots : s # r => etcd'[s] = etcd[s]
      /\ etcd'[r] = [etcd[r] EXCEPT ![d] = v]
  BY <1>2, <1>4
<1>7. /\ watch' = [s \in Roots |-> watch'[s]] /\ \A s \in Roots : s # r => watch'[s] = watch[s]
      /\ watch'[r] = IF pc[r] \in {"unwatched", "broken"} THEN watch[r] ELSE Append(watch[r], e)
  BY <1>2, <1>4
<1>8. Types'
  <2>1. \A s \in Roots : etcd'[s] \in [Dopplers -> Values(s)]
    BY <1>3, <1>6
  <2>2. \A s \in Roots : watch'[s] \in Seq(Changed(s))
    BY <1>3, <1>5, <1>7
  <2> QED BY <1>1, <1>2, <1>6, <1>7, <2>1, <2>2 DEF IInv, Types, finderVars
<1>9. Places'
  BY <1>1, <1>7 DEF IInv, Places, finderVars
<1>10. Follows'
  <2> SUFFICES ASSUME ~missed, NEW s \in Roots, pc[s] # "unwatched", NEW x \in Dopplers
               PROVE  Lasts(s, watch'[s], Kept(s, x)', etcd'[s][x], x)
    BY DEF Follows, finderVars
  <2>1. Lasts(s, watch[s], Kept(s, x), etcd[s][x], x)
    BY DEF IInv, Follows
  <2>2. CASE s # r
    BY <1>1, <1>6, <1>7, <2>1, <2>2 DEF Kept, finderVars
  <2>3. CASE s = r
    <3>1. watch'[r] = Append(watch[r], e)
      BY <1>7, <2>3 DEF IInv, Places, Roots
    <3>2. Loud(r, e, x) => e.node = etcd'[r][x]
      BY <1>3, <1>5, <1>6 DEF Loud
    <3>3. ASSUME ~Loud(r, e, x)
          PROVE  etcd'[r][x] = etcd[r][x] /\ Kept(r, x)' = Kept(r, x)
      <4>1. etcd'[r][x] = etcd[r][x]
        <5>1. CASE x # d
          BY <1>3, <1>6, <5>1
        <5>2. CASE x = d
          <6>1. e.type = "update" /\ equal(r, e)
            BY <1>5, <3>3, <5>2 DEF Loud
          <6>2. prev = v
            BY <1>5, <6>1, ValuesKept
          <6> QED BY <1>3, <1>6, <5>2, <6>2
        <5> QED BY <5>1, <5>2
      <4> QED BY <1>1, <4>1 DEF Kept, finderVars
    <3>4. Lasts(r, Append(watch[r], e), Kept(r, x)', etcd'[r][x], x)
      BY <1>3, <1>5, <2>1, <2>3, <3>2, <3>3, LastsAppend
    <3> QED BY <2>3, <3>1, <3>4
  <2> QED BY <2>2, <2>3
<1>11. Counted'
  <2>1. /\ \A s \in Roots : Len(watch[s]) \in Nat
        /\ Len(watch'[r]) \in {Len(watch[r]), Len(watch[r]) + 1}
        /\ \A s \in Roots : s # r => Len(watch'[s]) = Len(watch[s])
    BY <1>3, <1>5, <1>7
  <2>2. /\ Len(watch["meta"]) \in Nat /\ Len(watch["legacy"]) \in Nat
        /\ \/ /\ Len(watch'["meta"]) \in {Len(watch["meta"]), Len(watch["meta"]) + 1}
              /\ Len(watch'["legacy"]) = Len(watch["legacy"])
           \/ /\ Len(watch'["legacy"]) \in {Len(watch["legacy"]), Len(watch["legacy"]) + 1}
              /\ Len(watch'["meta"]) = Len(watch["meta"])
    BY <2>1 DEF Roots
  <2>3. /\ pc' = pc /\ events' = events
        /\ Busy(pc["meta"]) \in Nat /\ Busy(pc["legacy"]) \in Nat /\ Len(events) \in Nat
    BY DEF Busy, finderVars, IInv, Types
  <2>4. Shift(0, 0, 0, 0, 0, 1) \/ Shift(0, 1, 0, 0, 0, 1) \/ Shift(0, 0, 1, 0, 0, 1)
    BY <1>2, <2>2, <2>3 DEF Shift
  <2> QED BY <2>3, <2>4, CountedStep
<1> QED BY <1>8, <1>9, <1>10, <1>11, FinderIdle DEF IInv

(***************************************************************************)
(* The finder's steps.                                                      *)
(***************************************************************************)
\* Nothing is computed, sent or taken.
LEMMA FreshKept ==
  ASSUME IInv, UNCHANGED <<metaEndpoints, legacyEndpoints, held, events, got, overtaken>>,
         \A t \in Threads : pc'[t] = "holding" => pc[t] = "holding",
         Computed' => Computed /\ \A t \in Threads : pc[t] = "holding" => pc'[t] = "holding"
  PROVE  Fresh' /\ OneNewest'
<1>1. CurrentEvent' = CurrentEvent
  BY EventUnchanged
<1>2. OneNewest'
  BY DEF IInv, OneNewest, Newest
<1>3. Computed' => Delivered(CurrentEvent)' = Delivered(CurrentEvent)
  BY <1>1 DEF Delivered
<1>4. Computed' => \A t \in Threads : Newest(t)' <=> Newest(t)
  BY DEF Newest
<1>5. Fresh'
  BY <1>1, <1>3, <1>4 DEF IInv, Fresh
<1> QED BY <1>2, <1>5

\* Start watches a root.
LEMMA StartWatchesInv ==
  ASSUME IInv, NEW r \in Roots, StartWatches(r)
  PROVE  IInv'
<1>1. /\ UNCHANGED <<up, etcd, changes, faults, watch, metaEndpoints, legacyEndpoints, held, events,
                     got, missed, overtaken>>
      /\ \A s \in Roots : Map(s)' = Map(s)
  BY DEF StartWatches, Map
<1>2. /\ pc' = [t \in Threads |-> pc'[t]] /\ pc'[r] = "listing" /\ pc[r] = "unwatched"
      /\ \A s \in Roots : s # r => pc'[s] = pc[s]
      /\ r = "meta" => pc["start"] = "watchMeta" /\ pc'["start"] = "readMeta"
      /\ r = "legacy" => pc["start"] = "watchLegacy" /\ pc'["start"] = "readLegacy"
      /\ watch[r] = <<>>
  BY DEF StartWatches, IInv, Places, Roots, Threads
<1>3. Types'
  BY <1>1 DEF IInv, Types
<1>4. Places'
  <2>1. CASE r = "meta"
    BY <1>1, <1>2, <2>1 DEF IInv, Places, Roots, StartPlaces, RunPlaces
  <2>2. CASE r = "legacy"
    BY <1>1, <1>2, <2>2 DEF IInv, Places, Roots, StartPlaces, RunPlaces
  <2> QED BY <2>1, <2>2 DEF Roots
<1>5. Follows'
  <2> SUFFICES ASSUME ~missed, NEW s \in Roots, pc'[s] # "unwatched", NEW d \in Dopplers
               PROVE  Lasts(s, watch[s], Kept(s, d)', etcd[s][d], d)
    BY <1>1 DEF Follows
  <2>1. CASE s = r
    <3>1. watch[s] = <<>> /\ Len(watch[s]) = 0 /\ Kept(s, d)' = parseNode(s, etcd[s][d])
      BY <1>1, <1>2, <2>1 DEF Kept
    <3> QED BY <3>1 DEF Lasts
  <2>2. CASE s # r
    <3>1. Kept(s, d)' = Kept(s, d) /\ pc[s] # "unwatched"
      BY <1>1, <1>2, <2>2 DEF Kept
    <3> QED BY <3>1 DEF IInv, Follows
  <2> QED BY <2>1, <2>2
<1>6. Fresh' /\ OneNewest'
  <2>1. \A t \in Threads : pc[t] \in {"holding", "iterating"} => t # r /\ t # "start" /\ pc'[t] = pc[t]
    BY <1>2 DEF Threads, Roots
  <2>2. \A t \in Threads : pc'[t] \in {"holding", "iterating"} => t # r /\ t # "start" /\ pc'[t] = pc[t]
    BY <1>2 DEF Threads, Roots
  <2>3. pc'["start"] \notin {"holding", "done"}
    BY <1>2 DEF Roots
  <2>4. Computed' => Computed
    BY <1>1, <2>1, <2>3 DEF Computed
  <2> QED BY <1>1, <2>1, <2>2, <2>4, FreshKept
<1>7. Counted'
  <2>1. /\ Busy(pc'["meta"]) = Busy(pc["meta"]) /\ Busy(pc'["legacy"]) = Busy(pc["legacy"])
        /\ Busy(pc["meta"]) \in Nat /\ Busy(pc["legacy"]) \in Nat
    BY <1>2 DEF Busy, Roots
  <2>2. Len(events) \in Nat /\ Len(watch["meta"]) \in Nat /\ Len(watch["legacy"]) \in Nat /\ changes \in Nat
    BY DEF IInv, Types, Roots
  <2>3. Shift(0, 0, 0, 0, 0, 0)
    BY <1>1, <2>1, <2>2 DEF Shift
  <2>4. pc["start"] # "done"
    BY <1>2 DEF Roots
  <2> QED BY <2>3, <2>4, CountedStep
<1> QED BY <1>3, <1>4, <1>5, <1>6, <1>7 DEF IInv

\* What a listing adds to a map.
Listed(r) == [d \in Dopplers |-> IF etcd[r][d] # NoNode THEN parseNode(r, etcd[r][d]) ELSE Map(r)[d]]

\* A listing changes one map, or nothing when it fails.
LEMMA ReadEffect ==
  ASSUME IInv, NEW r \in Roots, read(r), UNCHANGED etcd
  PROVE  /\ \A s \in Roots : Map(s)' \in [Dopplers -> Parsed(s)]
         /\ \A s \in Roots : s # r => Map(s)' = Map(s)
         /\ \/ Map(r)' = Listed(r) /\ missed' = missed /\ faults' = faults
            \/ (\A s \in Roots : Map(s)' = Map(s)) /\ missed' = TRUE /\ faults' = faults + 1
         /\ faults' \in Nat /\ missed' \in BOOLEAN
<1>1. /\ \A s \in Roots : s # r => Map(s)' = Map(s)
      /\ \/ Map(r)' = Listed(r) /\ missed' = missed /\ faults' = faults
         \/ (\A s \in Roots : Map(s)' = Map(s)) /\ missed' = TRUE /\ faults' = faults + 1
  BY DEF read, SaveAll, Listed, Map, Roots
<1>2. \A s \in Roots : Map(s) \in [Dopplers -> Parsed(s)] /\ etcd[s] \in [Dopplers -> Values(s)]
  BY DEF IInv, Types
<1>3. Listed(r) \in [Dopplers -> Parsed(r)]
  BY <1>2 DEF Listed, Parsed
<1>4. faults' \in Nat
  BY <1>1 DEF IInv, Types
<1>5. missed' \in BOOLEAN
  BY <1>1 DEF IInv, Types
<1>6. \A s \in Roots : Map(s)' \in [Dopplers -> Parsed(s)]
  BY <1>1, <1>2, <1>3
<1> QED BY <1>1, <1>4, <1>5, <1>6

\* Start lists a root and lets its watcher run.
LEMMA StartReadsInv ==
  ASSUME IInv, NEW r \in Roots, StartReads(r)
  PROVE  IInv'
<1>1. UNCHANGED <<up, etcd, changes, watch, held, events, got, overtaken>>
  BY DEF StartReads
<1>2. /\ pc' = [t \in Threads |-> pc'[t]] /\ pc'[r] = "idle" /\ pc[r] = "listing"
      /\ \A s \in Roots : s # r => pc'[s] = pc[s]
      /\ r = "meta" => pc["start"] = "readMeta" /\ pc'["start"] = "watchLegacy"
      /\ r = "legacy" => /\ pc["start"] = "readLegacy"
                         /\ pc'["start"] = IF hasAddrs THEN "iterating" ELSE "done"
      /\ Map(r) = NoEndpoints
  BY DEF StartReads, IInv, Places, Roots, Threads
<1>3. /\ \A s \in Roots : Map(s)' \in [Dopplers -> Parsed(s)]
      /\ \A s \in Roots : s # r => Map(s)' = Map(s)
      /\ (Map(r)' = Listed(r) /\ missed' = missed) \/ missed' = TRUE
      /\ faults' \in Nat /\ missed' \in BOOLEAN
  BY <1>1, ReadEffect DEF StartReads
<1>4. Types'
  BY <1>1, <1>3 DEF IInv, Types
<1>5. Places'
  <2>1. \A s \in Roots : /\ pc'[s] = "unwatched" => watch'[s] = <<>>
                         /\ pc'[s] \in {"unwatched", "listing"} => Map(s)' = NoEndpoints
                         /\ pc'[s] \in {"broken", "relisting"} => missed'
    <3>1. \A s \in Roots : /\ pc[s] = "unwatched" => watch[s] = <<>>
                           /\ pc[s] \in {"unwatched", "listing"} => Map(s) = NoEndpoints
                           /\ pc[s] \in {"broken", "relisting"} => missed
      BY DEF IInv, Places
    <3>2. missed => missed'
      BY <1>3
    <3> QED BY <1>1, <1>2, <1>3, <3>1, <3>2
  <2>2. CASE r = "meta"
    BY <1>2, <2>1, <2>2 DEF IInv, Places, Roots, StartPlaces, RunPlaces
  <2>3. CASE r = "legacy"
    BY <1>2, <2>1, <2>3 DEF IInv, Places, Roots, StartPlaces, RunPlaces
  <2> QED BY <2>2, <2>3 DEF Roots
<1>6. ASSUME ~missed'
      PROVE  /\ ~missed
             /\ \A d \in Dopplers : Map(r)'[d] = parseNode(r, etcd[r][d])
  BY <1>2, <1>3, <1>6 DEF IInv, Types, Listed, NoEndpoints, parseNode
<1>7. Follows'
  <2> SUFFICES ASSUME ~missed', NEW s \in Roots, pc'[s] # "unwatched", NEW d \in Dopplers
               PROVE  Lasts(s, watch[s], Kept(s, d)', etcd[s][d], d)
    BY <1>1 DEF Follows
  <2>1. Kept(s, d)' = Kept(s, d) /\ pc[s] # "unwatched"
    BY <1>1, <1>2, <1>3, <1>6 DEF Kept
  <2> QED BY <1>6, <2>1 DEF IInv, Follows
<1>8. OneNewest'
  BY <1>1, <1>2 DEF IInv, OneNewest, Newest, Roots, Threads
<1>9. Fresh'
  <2> SUFFICES ASSUME Computed' PROVE Fresh'
    BY DEF Fresh
  <2>1. ~missed' /\ \A t \in Threads : pc'[t] # "iterating"
    BY DEF Computed
  <2>2. metaEndpoints' = NoEndpoints /\ legacyEndpoints' = NoEndpoints
    <3>1. CASE r = "meta"
      BY <1>2, <3>1 DEF Computed
    <3>2. CASE r = "legacy"
      <4>1. ~hasAddrs
        BY <1>2, <2>1, <3>2 DEF Threads
      <4>2. \A s \in Roots : Map(s)' \in [Dopplers -> Parsed(s)]
        BY <1>3
      <4> QED BY <4>1, <4>2 DEF hasAddrs, Map, Roots, NoEndpoints
    <3> QED BY <3>1, <3>2 DEF Roots
  <2>3. \A s \in Roots : Map(s)' = NoEndpoints
    BY <2>2 DEF Map
  <2>4. \A s \in Roots : Map(s) = NoEndpoints
    BY <1>2, <1>3, <2>3
  <2>5. metaEndpoints = NoEndpoints /\ legacyEndpoints = NoEndpoints
    BY <2>4 DEF Map, Roots
  <2>6. \A t \in Threads : (pc'[t] = "holding" <=> pc[t] = "holding") /\ pc[t] # "iterating"
    BY <1>2, <2>1 DEF Threads, Roots
  <2>7. Computed
    BY <1>6, <2>1, <2>5, <2>6 DEF Computed
  <2> QED BY <1>1, <2>2, <2>5, <2>6, <2>7, FreshKept
<1>10. Counted'
  <2>1. /\ Busy(pc'["meta"]) = Busy(pc["meta"]) /\ Busy(pc'["legacy"]) = Busy(pc["legacy"])
        /\ Busy(pc["meta"]) \in Nat /\ Busy(pc["legacy"]) \in Nat
    BY <1>2 DEF Busy, Roots
  <2>2. Len(events) \in Nat /\ Len(watch["meta"]) \in Nat /\ Len(watch["legacy"]) \in Nat /\ changes \in Nat
    BY DEF IInv, Types, Roots
  <2>3. Shift(0, 0, 0, 0, 0, 0)
    BY <1>1, <2>1, <2>2 DEF Shift
  <2>4. pc["start"] # "done"
    BY <1>2 DEF Roots
  <2> QED BY <2>3, <2>4, CountedStep
<1> QED BY <1>4, <1>5, <1>7, <1>8, <1>9, <1>10 DEF IInv

\* A watcher handles an event.
LEMMA handleEventInv ==
  ASSUME IInv, NEW r \in Roots, handleEvent(r)
  PROVE  IInv'
<1> DEFINE e == Head(watch[r])
           quiet == e.type = "update" /\ equal(r, e)
           map(old) == IF quiet THEN old ELSE [old EXCEPT ![e.key] = parseNode(r, e.node)]
<1>1. UNCHANGED <<up, etcd, changes, faults>> /\ pc[r] = "idle" /\ watch[r] # <<>>
  BY DEF handleEvent
<1>2. CASE Die
  BY <1>1, <1>2, DieInv
<1>3. CASE ~Die
  <2>1. /\ watch' = [watch EXCEPT ![r] = Tail(@)]
        /\ pc' = [pc EXCEPT ![r] = IF quiet THEN "idle" ELSE "iterating"]
        /\ UNCHANGED <<held, events, got, missed, overtaken>>
        /\ metaEndpoints' = IF r = "meta" THEN map(metaEndpoints) ELSE metaEndpoints
        /\ legacyEndpoints' = IF r = "legacy" THEN map(legacyEndpoints) ELSE legacyEndpoints
    BY <1>3 DEF handleEvent
  <2>2. /\ Map(r)' = map(Map(r)) /\ \A s \in Roots : s # r => Map(s)' = Map(s)
    BY <2>1 DEF Map, Roots
  <2>3. /\ \A s \in Roots : watch[s] \in Seq(Changed(s)) /\ Map(s) \in [Dopplers -> Parsed(s)]
        /\ watch = [s \in Roots |-> watch[s]] /\ pc = [t \in Threads |-> pc[t]]
    BY DEF IInv, Types, Places
  <2>4. e \in Changed(r) /\ e.key \in Dopplers /\ e.node \in Values(r) /\ Tail(watch[r]) \in Seq(Changed(r))
        /\ Len(watch[r]) \in Nat /\ Len(Tail(watch[r])) = Len(watch[r]) - 1
    <3>1. e \in Changed(r)
      BY <1>1, <2>3
    <3>2. /\ Tail(watch[r]) \in Seq(Changed(r)) /\ Len(watch[r]) \in Nat
          /\ Len(Tail(watch[r])) = Len(watch[r]) - 1
      BY <1>1, <2>3
    <3> HIDE DEF e
    <3>3. e.key \in Dopplers /\ e.node \in Values(r)
      BY <3>1 DEF Changed
    <3> QED BY <3>1, <3>2, <3>3
  <2>5. /\ watch' = [s \in Roots |-> watch'[s]] /\ watch'[r] = Tail(watch[r])
        /\ \A s \in Roots : s # r => watch'[s] = watch[s]
    BY <2>1, <2>3
  <2>6. /\ pc' = [t \in Threads |-> pc'[t]] /\ pc'[r] = IF quiet THEN "idle" ELSE "iterating"
        /\ \A t \in Threads : t # r => pc'[t] = pc[t]
    BY <2>1, <2>3 DEF Threads
  <2> HIDE DEF e
  <2>7. Types'
    <3>1. \A s \in Roots : Map(s)' \in [Dopplers -> Parsed(s)]
      <4>1. Map(r)' \in [Dopplers -> Parsed(r)]
        BY <2>2, <2>3, <2>4 DEF Parsed
      <4> QED BY <2>2, <2>3, <4>1
    <3>2. \A s \in Roots : watch'[s] \in Seq(Changed(s))
      BY <2>3, <2>4, <2>5
    <3> QED BY <1>1, <2>1, <2>5, <3>1, <3>2 DEF IInv, Types
  <2>8. Places'
    <3>1. \A s \in Roots : /\ pc[s] = "unwatched" => watch[s] = <<>>
                           /\ pc[s] \in {"unwatched", "listing"} => Map(s) = NoEndpoints
                           /\ pc[s] \in {"broken", "relisting"} => missed
      BY DEF IInv, Places
    <3>2. \A s \in Roots : /\ pc'[s] = "unwatched" => watch'[s] = <<>>
                           /\ pc'[s] \in {"unwatched", "listing"} => Map(s)' = NoEndpoints
                           /\ pc'[s] \in {"broken", "relisting"} => missed'
      BY <2>1, <2>2, <2>5, <2>6, <3>1 DEF Threads
    <3>3. pc'[r] \in {"idle", "iterating"}
      BY <2>6
    <3>4. CASE r = "meta"
      BY <1>1, <2>6, <3>2, <3>3, <3>4 DEF IInv, Places, Roots, Threads, StartPlaces, RunPlaces
    <3>5. CASE r = "legacy"
      BY <1>1, <2>6, <3>2, <3>3, <3>5 DEF IInv, Places, Roots, Threads, StartPlaces, RunPlaces
    <3> QED BY <3>4, <3>5 DEF Roots
  <2>9. Follows'
    <3> SUFFICES ASSUME ~missed, NEW s \in Roots, pc'[s] # "unwatched", NEW d \in Dopplers
                 PROVE  Lasts(s, watch'[s], Kept(s, d)', etcd[s][d], d)
      BY <1>1, <2>1 DEF Follows
    <3>1. pc[s] # "unwatched"
      BY <1>1, <2>6 DEF Threads
    <3>2. Lasts(s, watch[s], Kept(s, d), etcd[s][d], d)
      BY <3>1 DEF IInv, Follows
    <3>3. CASE s = r
      <4>1. Kept(r, d) = Map(r)[d] /\ Kept(r, d)' = Map(r)'[d]
        BY <1>1, <2>6 DEF Kept
      <4>2. Loud(r, e, d) <=> e.key = d /\ ~quiet
        BY DEF Loud
      <4> HIDE DEF quiet
      <4>3. /\ Loud(r, e, d) => Map(r)'[d] = parseNode(r, e.node)
            /\ ~Loud(r, e, d) => Map(r)'[d] = Map(r)[d]
        BY <2>2, <2>3, <4>2
      <4>4. Lasts(r, Tail(watch[r]), Kept(r, d)', etcd[r][d], d)
        BY <1>1, <2>3, <3>2, <3>3, <4>1, <4>3, LastsTail DEF e
      <4> QED BY <2>5, <3>3, <4>4
    <3>4. CASE s # r
      <4>1. Kept(s, d)' = Kept(s, d)
        BY <1>1, <2>2, <2>6, <3>4 DEF Kept, Threads
      <4> QED BY <2>5, <3>2, <3>4, <4>1
    <3> QED BY <3>3, <3>4
  <2>10. Fresh' /\ OneNewest'
    <3>1. CASE quiet
      <4>1. UNCHANGED <<metaEndpoints, legacyEndpoints>>
        BY <2>1, <3>1
      <4>2. \A t \in Threads : pc'[t] = pc[t]
        BY <1>1, <2>6, <3>1 DEF Threads
      <4>3. Computed' => Computed
        BY <2>1, <4>1, <4>2 DEF Computed, Threads
      <4> QED BY <2>1, <4>1, <4>2, <4>3, FreshKept
    <3>2. CASE ~quiet
      <4>1. pc'[r] = "iterating" /\ r \in Threads
        BY <2>6, <3>2 DEF Threads
      <4>2. ~Computed'
        BY <4>1 DEF Computed
      <4>3. OneNewest'
        BY <2>1, <2>6, <4>1 DEF IInv, OneNewest, Newest
      <4> QED BY <4>2, <4>3 DEF Fresh
    <3> QED BY <3>1, <3>2
  <2>11. Counted'
    <3>1. /\ Busy(pc[r]) = 0 /\ Busy(pc'[r]) \in {0, 1}
          /\ \A s \in Roots : Busy(pc[s]) \in Nat /\ (s # r => Busy(pc'[s]) = Busy(pc[s]))
      BY <1>1, <2>6 DEF Busy, Threads
    <3>2. Len(events) \in Nat /\ Len(watch["meta"]) \in Nat /\ Len(watch["legacy"]) \in Nat /\ changes \in Nat
      BY DEF IInv, Types, Roots
    <3>3. Len(watch'[r]) = Len(watch[r]) - 1 /\ \A s \in Roots : s # r => Len(watch'[s]) = Len(watch[s])
      BY <2>4, <2>5
    <3>4. pc'["start"] = pc["start"]
      BY <2>6 DEF Threads, Roots
    <3>5. CASE r = "meta"
      <4>1. Shift(0, 0 - 1, 0, 0, 0, 0) \/ Shift(0, 0 - 1, 0, 1, 0, 0)
        BY <1>1, <2>1, <3>1, <3>2, <3>3, <3>5 DEF Shift, Roots
      <4> QED BY <3>4, <4>1, CountedStep
    <3>6. CASE r = "legacy"
      <4>1. Shift(0, 0, 0 - 1, 0, 0, 0) \/ Shift(0, 0, 0 - 1, 0, 1, 0)
        BY <1>1, <2>1, <3>1, <3>2, <3>3, <3>6 DEF Shift, Roots
      <4> QED BY <3>4, <4>1, CountedStep
    <3> QED BY <3>5, <3>6 DEF Roots
  <2> QED BY <2>7, <2>8, <2>9, <2>10, <2>11 DEF IInv
<1> QED BY <1>2, <1>3

\* An event is computed: what others hold is old now.
LEMMA ComputeInv ==
  ASSUME IInv, NEW t \in Threads, Compute(t)
  PROVE  IInv'
<1>1. UNCHANGED <<up, etcd, changes, faults>> /\ pc[t] = "iterating"
  BY DEF Compute
<1>2. CASE Panics
  BY <1>1, <1>2, DieInv DEF Compute
<1>3. CASE ~Panics
  <2>1. /\ held' = [u \in Threads |-> IF u = t THEN [ev |-> CurrentEvent, old |-> FALSE]
                                      ELSE [held[u] EXCEPT !.old = pc[u] = "holding"]]
        /\ pc' = [pc EXCEPT ![t] = "holding"]
        /\ UNCHANGED <<watch, metaEndpoints, legacyEndpoints, events, got, missed, overtaken>>
    BY <1>3 DEF Compute
  <2>2. \A s \in Roots : Map(s)' = Map(s)
    BY <2>1 DEF Map
  <2>3. /\ pc' = [u \in Threads |-> pc'[u]] /\ pc'[t] = "holding"
        /\ \A u \in Threads : u # t => pc'[u] = pc[u]
    BY <2>1 DEF IInv, Places
  <2>4. Types'
    <3>1. CurrentEvent \in Views
      BY EventTyped DEF IInv, Types, Roots
    <3>2. ASSUME NEW u \in Threads PROVE held'[u] \in [ev : Views, old : BOOLEAN]
      <4>1. held[u] \in [ev : Views, old : BOOLEAN]
        BY DEF IInv, Types
      <4> QED BY <2>1, <3>1, <4>1
    <3>3. held' = [u \in Threads |-> held'[u]]
      BY <2>1
    <3>4. held' \in [Threads -> [ev : Views, old : BOOLEAN]]
      BY <3>2, <3>3
    <3> QED BY <1>1, <2>1, <2>2, <3>4 DEF IInv, Types
  <2>5. Places'
    <3>1. CASE t = "start"
      BY <1>1, <2>1, <2>2, <2>3, <3>1 DEF IInv, Places, Roots, Threads, StartPlaces, RunPlaces
    <3>2. CASE t = "meta"
      BY <1>1, <2>1, <2>2, <2>3, <3>2 DEF IInv, Places, Roots, Threads, StartPlaces, RunPlaces
    <3>3. CASE t = "legacy"
      BY <1>1, <2>1, <2>2, <2>3, <3>3 DEF IInv, Places, Roots, Threads, StartPlaces, RunPlaces
    <3> QED BY <3>1, <3>2, <3>3 DEF Threads, Roots
  <2>6. Follows'
    <3> SUFFICES ASSUME ~missed, NEW s \in Roots, pc'[s] # "unwatched", NEW d \in Dopplers
                 PROVE  Lasts(s, watch[s], Kept(s, d)', etcd[s][d], d)
      BY <1>1, <2>1 DEF Follows
    <3>1. pc[s] # "unwatched" /\ (pc'[s] = "listing" <=> pc[s] = "listing")
      BY <1>1, <2>3 DEF Threads
    <3>2. Kept(s, d)' = Kept(s, d)
      BY <1>1, <2>2, <3>1 DEF Kept
    <3> QED BY <3>1, <3>2 DEF IInv, Follows
  <2>7. \A u \in Threads : Newest(u)' <=> u = t
    <3>1. ASSUME NEW u \in Threads, u # t
          PROVE  pc'[u] = "holding" => held'[u].old
      <4>1. held[u] \in [ev : Views, old : BOOLEAN]
        BY DEF IInv, Types
      <4>2. held'[u] = [held[u] EXCEPT !.old = pc[u] = "holding"]
        BY <2>1, <3>1
      <4>3. held'[u].old = (pc[u] = "holding")
        BY <4>1, <4>2
      <4> QED BY <2>3, <3>1, <4>3
    <3>2. ~held'[t].old
      BY <2>1
    <3> QED BY <2>3, <3>1, <3>2 DEF Newest
  <2>8. OneNewest'
    BY <2>7 DEF OneNewest
  <2>9. Fresh'
    <3>1. held'[t].ev = CurrentEvent /\ CurrentEvent' = CurrentEvent
      BY <2>1, EventUnchanged
    <3> QED BY <2>7, <3>1 DEF Fresh
  <2>10. Counted'
    <3>1. \A s \in Roots : Busy(pc[s]) \in Nat /\ Busy(pc'[s]) = Busy(pc[s])
      BY <1>1, <2>3 DEF Busy, Threads
    <3>2. Len(events) \in Nat /\ Len(watch["meta"]) \in Nat /\ Len(watch["legacy"]) \in Nat /\ changes \in Nat
      BY DEF IInv, Types, Roots
    <3>3. Shift(0, 0, 0, 0, 0, 0)
      BY <1>1, <2>1, <3>1, <3>2 DEF Shift, Roots
    <3>4. pc["start"] # "done" \/ pc'["start"] = "done"
      BY <1>1, <2>3 DEF Threads
    <3> QED BY <3>3, <3>4, CountedStep
  <2> QED BY <2>4, <2>5, <2>6, <2>8, <2>9, <2>10 DEF IInv
<1> QED BY <1>2, <1>3

\* An event is sent; only an old one can follow a newer one.
LEMMA SendInv ==
  ASSUME IInv, NEW t \in Threads, Send(t)
  PROVE  IInv'
<1>1. /\ UNCHANGED <<up, etcd, changes, faults, watch, metaEndpoints, legacyEndpoints, got, missed>>
      /\ pc[t] = "holding" /\ events' = Append(events, held[t].ev) /\ held' = [held EXCEPT ![t] = NoEvent]
      /\ overtaken' = (held[t].old /\ ~\E u \in Threads : pc[u] = "holding" /\ ~held[u].old)
  BY DEF Send
<1>2. \A s \in Roots : Map(s)' = Map(s)
  BY <1>1 DEF Map
<1>3. /\ pc' = [u \in Threads |-> pc'[u]] /\ pc'[t] = IF t = "start" THEN "done" ELSE "idle"
      /\ \A u \in Threads : u # t => pc'[u] = pc[u]
  BY DEF Send, IInv, Places
<1>4. /\ held[t] \in [ev : Views, old : BOOLEAN] /\ events \in Seq(Views)
      /\ held \in [Threads -> [ev : Views, old : BOOLEAN]]
  BY DEF IInv, Types
<1>5. /\ events' \in Seq(Views) /\ events' # <<>> /\ Len(events') = Len(events) + 1 /\ Len(events) \in Nat
      /\ events'[Len(events')] = held[t].ev
  BY <1>1, <1>4
<1>6. Types'
  <2>1. NoEvent \in [ev : Views, old : BOOLEAN]
    BY DEF NoEvent, Views
  <2>2. held' \in [Threads -> [ev : Views, old : BOOLEAN]]
    BY <1>1, <1>4, <2>1
  <2>3. overtaken' \in BOOLEAN
    BY <1>1, <1>4
  <2> QED BY <1>1, <1>2, <1>5, <2>2, <2>3 DEF IInv, Types
<1>7. Places'
  <2>1. CASE t = "start"
    BY <1>1, <1>2, <1>3, <2>1 DEF IInv, Places, Roots, Threads, StartPlaces, RunPlaces
  <2>2. CASE t = "meta"
    BY <1>1, <1>2, <1>3, <2>2 DEF IInv, Places, Roots, Threads, StartPlaces, RunPlaces
  <2>3. CASE t = "legacy"
    BY <1>1, <1>2, <1>3, <2>3 DEF IInv, Places, Roots, Threads, StartPlaces, RunPlaces
  <2> QED BY <2>1, <2>2, <2>3 DEF Threads, Roots
<1>8. Follows'
  <2> SUFFICES ASSUME ~missed, NEW s \in Roots, pc'[s] # "unwatched", NEW d \in Dopplers
               PROVE  Lasts(s, watch[s], Kept(s, d)', etcd[s][d], d)
    BY <1>1 DEF Follows
  <2>1. pc[s] # "unwatched" /\ (pc'[s] = "listing" <=> pc[s] = "listing")
    BY <1>1, <1>3 DEF Threads
  <2>2. Kept(s, d)' = Kept(s, d)
    BY <1>1, <1>2, <2>1 DEF Kept
  <2> QED BY <2>1, <2>2 DEF IInv, Follows
<1>9. \A u \in Threads : /\ u # t => (Newest(u)' <=> Newest(u)) /\ held'[u] = held[u]
                         /\ ~Newest(t)'
  BY <1>1, <1>3, <1>4 DEF Newest
<1>10. OneNewest'
  BY <1>9 DEF IInv, OneNewest
<1>11. Fresh'
  <2> SUFFICES ASSUME Computed' PROVE Fresh'
    BY DEF Fresh
  <2>1. CurrentEvent' = CurrentEvent
    BY <1>1, EventUnchanged
  <2>2. Computed
    BY <1>1, <1>3 DEF Computed, Threads, Roots
  <2>3. \A u \in Threads : Newest(u)' => held'[u].ev = CurrentEvent'
    BY <1>9, <2>1, <2>2 DEF IInv, Fresh
  <2>4. ASSUME \A u \in Threads : ~Newest(u)'
        PROVE  overtaken' \/ Delivered(CurrentEvent)'
    <3>1. CASE Newest(t)
      <4>1. held[t].ev = CurrentEvent
        BY <2>2, <3>1 DEF IInv, Fresh
      <4> QED BY <1>5, <2>1, <4>1 DEF Delivered
    <3>2. CASE ~Newest(t)
      <4>1. held[t].old
        BY <1>1, <3>2 DEF Newest
      <4>2. ~\E u \in Threads : pc[u] = "holding" /\ ~held[u].old
        BY <1>9, <2>4, <3>2 DEF Newest
      <4> QED BY <1>1, <4>1, <4>2
    <3> QED BY <3>1, <3>2
  <2> QED BY <2>3, <2>4 DEF Fresh
<1>12. Counted'
  <2>1. /\ \A s \in Roots : Busy(pc[s]) \in Nat /\ (s # t => Busy(pc'[s]) = Busy(pc[s]))
        /\ t # "start" => Busy(pc[t]) = 1 /\ Busy(pc'[t]) = 0
    BY <1>1, <1>3 DEF Busy, Threads
  <2>2. Len(events) \in Nat /\ Len(watch["meta"]) \in Nat /\ Len(watch["legacy"]) \in Nat /\ changes \in Nat
    BY DEF IInv, Types, Roots
  <2>3. CASE t = "start"
    BY <1>3, <2>3 DEF Counted
  <2>0. t # "start" => pc'["start"] = pc["start"]
    BY <1>3 DEF Threads
  <2>4. CASE t = "meta"
    <3>1. Shift(1, 0, 0, 0 - 1, 0, 0)
      BY <1>1, <1>5, <2>1, <2>2, <2>4 DEF Shift, Roots
    <3> QED BY <2>0, <2>4, <3>1, CountedStep
  <2>5. CASE t = "legacy"
    <3>1. Shift(1, 0, 0, 0, 0 - 1, 0)
      BY <1>1, <1>5, <2>1, <2>2, <2>5 DEF Shift, Roots
    <3> QED BY <2>0, <2>5, <3>1, CountedStep
  <2> QED BY <2>3, <2>4, <2>5 DEF Threads, Roots
<1> QED BY <1>6, <1>7, <1>8, <1>10, <1>11, <1>12 DEF IInv

\* The connector takes an event.
LEMMA TakeInv ==
  ASSUME IInv, Take
  PROVE  IInv'
<1>1. /\ UNCHANGED <<up, etcd, changes, faults, watch, metaEndpoints, legacyEndpoints, pc, held,
                     missed, overtaken>>
      /\ pc["start"] = "done" /\ events # <<>> /\ got' = Head(events)["ws"] /\ events' = Tail(events)
      /\ events \in Seq(Views)
  BY DEF Take, IInv, Types
<1>2. \A s \in Roots : Map(s)' = Map(s)
  BY <1>1 DEF Map
<1>3. /\ events' \in Seq(Views)
      /\ events' = <<>> => events[Len(events)] = Head(events)
      /\ events' # <<>> => events'[Len(events')] = events[Len(events)]
  <2>1. /\ events' \in Seq(Views) /\ Len(events') = Len(events) - 1 /\ Len(events) \in Nat \ {0}
        /\ \A i \in 1..Len(events') : events'[i] = events[i + 1]
        /\ Head(events) = events[1]
    BY <1>1
  <2>2. events' = <<>> => Len(events) = 1
    BY <2>1
  <2>3. events' # <<>> => Len(events') \in 1..Len(events') /\ Len(events') + 1 = Len(events)
    BY <2>1
  <2> QED BY <2>1, <2>2, <2>3
<1>4. Types' /\ Places'
  BY <1>1, <1>2, <1>3 DEF IInv, Types, Places
<1>5. Follows'
  BY <1>1, <1>2 DEF IInv, Follows, Kept
<1>6. OneNewest' /\ Counted'
  BY <1>1 DEF IInv, OneNewest, Newest, Counted
<1>7. Fresh'
  <2>1. CurrentEvent' = CurrentEvent
    BY <1>1, EventUnchanged
  <2>2. Delivered(CurrentEvent) => Delivered(CurrentEvent)'
    BY <1>1, <1>3, <2>1 DEF Delivered
  <2>3. (Computed' <=> Computed) /\ \A t \in Threads : Newest(t)' <=> Newest(t)
    BY <1>1 DEF Computed, Newest
  <2> QED BY <1>1, <2>1, <2>2, <2>3 DEF IInv, Fresh
<1> QED BY <1>4, <1>5, <1>6, <1>7 DEF IInv

\* A watcher loses its watch, watches and lists again: until the process ends
\* the finder may have missed something.
LEMMA MissedInv ==
  ASSUME IInv, Types', NEW r \in Roots, missed',
         pc' = [t \in Threads |-> pc'[t]], \A t \in Threads : t # r => pc'[t] = pc[t],
         pc[r] \in {"idle", "broken", "relisting"}, pc'[r] \in {"idle", "broken", "relisting"},
         UNCHANGED <<changes, held, events>>,
         watch'[r] = watch[r] \/ watch'[r] = <<>>,
         \A s \in Roots : s # r => Map(s)' = Map(s) /\ watch'[s] = watch[s]
  PROVE  IInv'
<1>1. Places'
  <2>1. \A s \in Roots : /\ pc[s] = "unwatched" => watch[s] = <<>>
                         /\ pc[s] \in {"unwatched", "listing"} => Map(s) = NoEndpoints
    BY DEF IInv, Places
  <2>2. \A s \in Roots : /\ pc'[s] = "unwatched" => watch'[s] = <<>>
                         /\ pc'[s] \in {"unwatched", "listing"} => Map(s)' = NoEndpoints
    BY <2>1 DEF Threads
  <2>3. CASE r = "meta"
    BY <2>2, <2>3 DEF IInv, Places, Roots, Threads, StartPlaces, RunPlaces
  <2>4. CASE r = "legacy"
    BY <2>2, <2>4 DEF IInv, Places, Roots, Threads, StartPlaces, RunPlaces
  <2> QED BY <2>3, <2>4 DEF Roots
<1>2. Follows' /\ Fresh'
  BY DEF Follows, Fresh, Computed
<1>3. OneNewest'
  BY DEF IInv, OneNewest, Newest
<1>4. Counted'
  <2>1. \A s \in Roots : Busy(pc[s]) \in Nat /\ Busy(pc'[s]) = Busy(pc[s])
    BY DEF Busy, Threads
  <2>2. /\ \A s \in Roots : Len(watch[s]) \in Nat /\ Len(watch'[s]) \in Nat
        /\ Len(events) \in Nat /\ changes \in Nat
    BY DEF IInv, Types
  <2>3. pc'["start"] = pc["start"]
    BY DEF Threads, Roots
  <2>4. Len(watch'["meta"]) <= Len(watch["meta"]) /\ Len(watch'["legacy"]) <= Len(watch["legacy"])
    BY <2>2 DEF Roots
  <2>5. /\ Busy(pc'["meta"]) = Busy(pc["meta"]) /\ Busy(pc'["legacy"]) = Busy(pc["legacy"])
        /\ Busy(pc["meta"]) \in Nat /\ Busy(pc["legacy"]) \in Nat
    BY <2>1 DEF Roots
  <2>6. /\ Len(watch["meta"]) \in Nat /\ Len(watch["legacy"]) \in Nat
        /\ Len(watch'["meta"]) \in Nat /\ Len(watch'["legacy"]) \in Nat
    BY <2>2 DEF Roots
  <2>7. pc["start"] # "done" => Len(events) + Len(watch["meta"]) + Len(watch["legacy"])
                                  + Busy(pc["meta"]) + Busy(pc["legacy"]) <= changes
    BY DEF IInv, Counted
  <2>8. pc["start"] # "done" => Len(events) + Len(watch'["meta"]) + Len(watch'["legacy"])
                                  + Busy(pc["meta"]) + Busy(pc["legacy"]) <= changes
    <3>1. \A e, m, l, x, y, n, p, q \in Nat :
            e + m + l + x + y <= n /\ p <= m /\ q <= l => e + p + q + x + y <= n
      OBVIOUS
    <3> QED BY <2>2, <2>4, <2>5, <2>6, <2>7, <3>1
  <2> QED BY <2>3, <2>5, <2>8 DEF Counted
<1> QED BY <1>1, <1>2, <1>3, <1>4 DEF IInv

\* WatchFails, Rewatch and Reread.
LEMMA WatcherInv ==
  ASSUME IInv, NEW r \in Roots, WatchFails(r) \/ Rewatch(r) \/ Reread(r)
  PROVE  IInv'
<1>1. pc = [t \in Threads |-> pc[t]] /\ (pc[r] \in {"broken", "relisting"} => missed)
  BY DEF IInv, Places
<1>2. CASE WatchFails(r)
  <2>1. /\ UNCHANGED <<up, etcd, changes, metaEndpoints, legacyEndpoints, held, events, got, overtaken>>
        /\ faults' = faults + 1 /\ missed' = TRUE /\ watch' = [watch EXCEPT ![r] = <<>>]
        /\ pc[r] = "idle" /\ pc' = [pc EXCEPT ![r] = "broken"]
    BY <1>2 DEF WatchFails
  <2>2. \A s \in Roots : Map(s)' = Map(s)
    BY <2>1 DEF Map
  <2>3. /\ watch' = [s \in Roots |-> watch'[s]] /\ watch'[r] = <<>>
        /\ \A s \in Roots : s # r => watch'[s] = watch[s]
    BY <2>1 DEF IInv, Types
  <2>4. \A s \in Roots : watch'[s] \in Seq(Changed(s))
    <3>1. \A s \in Roots : watch[s] \in Seq(Changed(s))
      BY DEF IInv, Types
    <3>2. watch'[r] \in Seq(Changed(r))
      BY <2>3
    <3> QED BY <2>3, <3>1, <3>2
  <2>5. faults' \in Nat
    BY <2>1 DEF IInv, Types
  <2>6. Types'
    BY <2>1, <2>2, <2>3, <2>4, <2>5 DEF IInv, Types
  <2>7. /\ pc' = [t \in Threads |-> pc'[t]] /\ pc'[r] = "broken"
        /\ \A t \in Threads : t # r => pc'[t] = pc[t]
    BY <1>1, <2>1 DEF Threads
  <2> QED BY <2>1, <2>2, <2>3, <2>6, <2>7, MissedInv
<1>3. CASE Rewatch(r)
  <2>1. /\ UNCHANGED <<up, etcd, changes, faults, watch, metaEndpoints, legacyEndpoints, held, events,
                       got, missed, overtaken>>
        /\ pc[r] = "broken" /\ pc' = [pc EXCEPT ![r] = "relisting"]
    BY <1>3 DEF Rewatch
  <2>2. \A s \in Roots : Map(s)' = Map(s)
    BY <2>1 DEF Map
  <2>3. Types'
    BY <2>1, <2>2 DEF IInv, Types
  <2>4. /\ pc' = [t \in Threads |-> pc'[t]] /\ pc'[r] = "relisting"
        /\ \A t \in Threads : t # r => pc'[t] = pc[t]
    BY <1>1, <2>1 DEF Threads
  <2> QED BY <1>1, <2>1, <2>2, <2>3, <2>4, MissedInv
<1>4. CASE Reread(r) /\ Die /\ UNCHANGED faults
  BY <1>4, DieInv DEF Reread
<1>5. CASE Reread(r) /\ ~(Die /\ UNCHANGED faults)
  <2>1. /\ read(r) /\ pc[r] = "relisting" /\ pc' = [pc EXCEPT ![r] = "idle"]
        /\ UNCHANGED <<up, etcd, changes, watch, held, events, got, overtaken>>
    BY <1>5 DEF Reread
  <2>2. /\ \A s \in Roots : Map(s)' \in [Dopplers -> Parsed(s)]
        /\ \A s \in Roots : s # r => Map(s)' = Map(s)
        /\ missed' = missed \/ missed' = TRUE
        /\ faults' \in Nat /\ missed' \in BOOLEAN
    BY <2>1, ReadEffect
  <2>3. Types'
    BY <2>1, <2>2 DEF IInv, Types
  <2>4. /\ pc' = [t \in Threads |-> pc'[t]] /\ pc'[r] = "idle"
        /\ \A t \in Threads : t # r => pc'[t] = pc[t]
    BY <1>1, <2>1 DEF Threads
  <2>5. missed'
    BY <1>1, <2>1, <2>2
  <2> QED BY <2>1, <2>2, <2>3, <2>4, <2>5, MissedInv
<1> QED BY <1>2, <1>3, <1>4, <1>5

(***************************************************************************)
(* The theorems.                                                            *)
(***************************************************************************)
\* Whatever dopplers come, go, announce and expire, and however Start and the
\* watchers interleave: the maps and the events not yet read lead to what etcd
\* holds, and the newest event is held, queued, taken or overtaken.
THEOREM Inductive == Spec => []IInv
<1>1. IInv /\ [Next]_vars => IInv'
  <2> SUFFICES ASSUME IInv, [Next]_vars PROVE IInv'
    OBVIOUS
  <2>1. ASSUME NEW d \in Dopplers, DopplerStarts(d) \/ DopplerDies(d)
        PROVE  IInv'
    <3>1. up' \in [Dopplers -> Hosts \cup {NoNode}]
      BY <2>1 DEF DopplerStarts, DopplerDies, IInv, Types
    <3> QED BY <2>1, <3>1, DopplersChange DEF DopplerStarts, DopplerDies
  <2>2. ASSUME NEW d \in Dopplers, Announce(d) \/ AnnounceLegacy(d)
        PROVE  IInv'
    <3>1. up[d] \in Hosts
      BY <2>2 DEF Announce, AnnounceLegacy, IInv, Types
    <3>2. CASE Announce(d)
      <4>1. buildDopplerMeta(up[d]) \in Values("meta")
        BY <3>1 DEF Values
      <4> QED BY <3>2, <4>1, PutInv DEF Announce, Roots
    <3>3. CASE AnnounceLegacy(d)
      <4>1. up[d] \in Values("legacy")
        BY <3>1 DEF Values
      <4> QED BY <3>3, <4>1, PutInv DEF AnnounceLegacy, Roots
    <3> QED BY <2>2, <3>2, <3>3
  <2>3. ASSUME NEW d \in Dopplers, NEW r \in Roots, Expire(r, d)
        PROVE  IInv'
    <3>1. NoNode \in Values(r)
      BY DEF Values
    <3> QED BY <2>3, <3>1, PutInv DEF Expire
  <2>4. CASE UNCHANGED vars
    <3>1. up' \in [Dopplers -> Hosts \cup {NoNode}]
      BY <2>4 DEF vars, IInv, Types
    <3> QED BY <2>4, <3>1, DopplersChange DEF vars
  <2>5. CASE FinderStep
    BY <2>5, TakeInv, StartWatchesInv, StartReadsInv, handleEventInv, WatcherInv, ComputeInv, SendInv
       DEF FinderStep
  <2>6. CASE \E r \in Roots : WatchFails(r)
    BY <2>6, WatcherInv
  <2> QED BY <2>1, <2>2, <2>3, <2>4, <2>5, <2>6 DEF Next
<1> QED BY <1>1, InitInv, PTL DEF Spec

\* When everything is handled and taken, the connector knows exactly the
\* dopplers that etcd lists for its zone, unless a watch or a listing failed or
\* a newer event was overtaken.
THEOREM SettledCorrect == Spec => []SettledView
<1>1. IInv => SettledView
  <2> SUFFICES ASSUME IInv, Quiet, ~missed, ~overtaken PROVE got = Announced
    BY DEF SettledView
  <2>1. \A t \in Threads : pc[t] \in {"idle", "done"}
    BY DEF Quiet, Threads
  <2>2. Computed /\ \A t \in Threads : ~Newest(t)
    BY <2>1 DEF Computed, Newest, Quiet
  <2>3. got = CurrentEvent["ws"]
    BY <2>2 DEF IInv, Fresh, Delivered, Quiet
  <2>4. ASSUME NEW r \in Roots, NEW d \in Dopplers
        PROVE  Map(r)[d] = parseNode(r, etcd[r][d])
    <3>1. pc[r] = "idle" /\ watch[r] = <<>> /\ Len(watch[r]) = 0
      BY DEF Quiet
    <3>2. Lasts(r, watch[r], Map(r)[d], etcd[r][d], d)
      BY <3>1 DEF IInv, Follows, Kept
    <3> QED BY <3>1, <3>2 DEF Lasts
  <2>5. CurrentEvent["ws"] = Announced
    BY <2>4, EventSettled DEF IInv
  <2> QED BY <2>3, <2>5
<1> QED BY <1>1, Inductive, PTL

\* Start never waits for room in the channel of events while etcd has changed
\* less often than the channel has places.
THEOREM StartProceeds == Spec => []StartNeverStuck
<1>1. IInv => StartNeverStuck
  <2> SUFFICES ASSUME IInv, pc["start"] = "holding", Len(events) = EventsCap PROVE changes >= EventsCap
    BY DEF StartNeverStuck
  <2>1. /\ Len(events) \in Nat /\ Len(watch["meta"]) \in Nat /\ Len(watch["legacy"]) \in Nat
        /\ Busy(pc["meta"]) \in Nat /\ Busy(pc["legacy"]) \in Nat /\ changes \in Nat
    BY DEF IInv, Types, Roots, Busy
  <2>2. Len(events) + Len(watch["meta"]) + Len(watch["legacy"])
          + Busy(pc["meta"]) + Busy(pc["legacy"]) <= changes
    BY DEF IInv, Counted
  <2> QED BY <2>1, <2>2
<1> QED BY <1>1, Inductive, PTL
====
