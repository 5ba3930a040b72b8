---- MODULE Finder ----
(***************************************************************************)
(* Service discovery through etcd (package dopplerservice): a doppler       *)
(* announces its addresses under two roots (Announce, AnnounceLegacy) and   *)
(* a traffic controller's Finder turns the two watches into events for the  *)
(* gRPC connector.  Start and the two watchers are goroutines that share    *)
(* metaEndpoints and legacyEndpoints; each computes an event from the maps  *)
(* and then sends it on a channel of EventsCap places.  chooseAddrs ranges  *)
(* over metaEndpoints without its lock: a write by the meta watcher in the  *)
(* middle may end the process (Die), which is then started again.           *)
(*                                                                         *)
(* An address is a record of protocol and host; ports, JSON and key paths   *)
(* are left out.  An event is a function from protocols to sets of hosts:   *)
(* the order of a map iteration is not defined.                             *)
(***************************************************************************)
EXTENDS Integers, Sequences, FiniteSets, Functions

CONSTANTS NoNode,      \* no node under a key
          Dopplers,    \* the node keys below either root
          Preferred,   \* the keys that start with preferredDopplerZone
          Hosts,       \* the addresses a doppler may come up with
          Protocols,   \* the sequence NewFinder is given (<<"ws">> in the code)
          EventsCap,   \* places of Finder.events, 10 in the code
          MaxChanges,  \* bound on the writes to etcd
          MaxFaults    \* bound on watch errors and failed listings

VARIABLES up,          \* the host of a running doppler, NoNode when it is down
          etcd,        \* the value under each root and key, or NoNode
          changes,     \* writes to etcd so far
          faults,      \* watch errors and failed listings so far
          watch,       \* events of each root not yet read
          metaEndpoints, legacyEndpoints,
          pc,          \* where Start and the two watchers are
          held,        \* the event computed and not yet sent
          events,      \* Finder.events
          got,         \* the dopplers of the last event the connector took
          missed,      \* history: a fault or a restart since the process began
          overtaken    \* history: the last event sent is not the last computed

finderVars == <<metaEndpoints, legacyEndpoints, pc, held, events, got>>
vars == <<up, etcd, changes, faults, watch, finderVars, missed, overtaken>>

Roots == {"meta", "legacy"}
Threads == Roots \cup {"start"}
Kinds == {"udp", "tcp", "tls", "ws"}
NoEvent == [ev |-> [k \in Kinds |-> {}], old |-> FALSE]

(***************************************************************************)
(* The announcer.                                                           *)
(***************************************************************************)
\* buildDopplerMeta: the UDP address first, then the websocket one
buildDopplerMeta(ip) ==
  [version |-> 1, endpoints |-> <<[kind |-> "udp", host |-> ip], [kind |-> "ws", host |-> ip]>>]

\* parseMetaValue: the endpoints of a meta node; its version is not looked at
parseMetaValue(v) == v.endpoints

\* a write under a root, and the event of it to whoever watches
Put(root, d, v) ==
  /\ changes < MaxChanges
  /\ changes' = changes + 1
  /\ etcd' = [etcd EXCEPT ![root][d] = v]
  /\ LET prev == etcd[root][d]
         kind == IF v = NoNode THEN "delete" ELSE IF prev = NoNode THEN "create" ELSE "update"
     IN watch' = IF pc[root] \in {"unwatched", "broken"} THEN watch
                 ELSE [watch EXCEPT ![root] = Append(@, [type |-> kind, key |-> d, prev |-> prev, node |-> v])]

\* a doppler process comes up; its old nodes may not have expired yet
DopplerStarts(d) ==
  /\ up[d] = NoNode
  /\ \E ip \in Hosts :
       /\ \A e \in Dopplers : up[e] # ip
       /\ up' = [up EXCEPT ![d] = ip]
  /\ UNCHANGED <<etcd, changes, faults, watch, finderVars, missed, overtaken>>

DopplerDies(d) ==
  /\ up[d] # NoNode
  /\ up' = [up EXCEPT ![d] = NoNode]
  /\ UNCHANGED <<etcd, changes, faults, watch, finderVars, missed, overtaken>>

\* Create, then MaintainNode: the first write and every later refresh of it
Announce(d) ==
  /\ up[d] # NoNode
  /\ Put("meta", d, buildDopplerMeta(up[d]))
  /\ UNCHANGED <<up, faults, finderVars, missed, overtaken>>

AnnounceLegacy(d) ==
  /\ up[d] # NoNode
  /\ Put("legacy", d, up[d])
  /\ UNCHANGED <<up, faults, finderVars, missed, overtaken>>

\* the TTL of a node nobody maintains runs out
Expire(root, d) ==
  /\ up[d] = NoNode
  /\ etcd[root][d] # NoNode
  /\ Put(root, d, NoNode)
  /\ UNCHANGED <<up, faults, finderVars, missed, overtaken>>

(***************************************************************************)
(* From the maps to an event.                                               *)
(***************************************************************************)
\* protocolIndex: 0 stands for the error
protocolIndex(kind) ==
  IF \E i \in DOMAIN Protocols : Protocols[i] = kind
  THEN CHOOSE i \in DOMAIN Protocols : Protocols[i] = kind /\ \A j \in 1..(i - 1) : Protocols[j] # kind
  ELSE 0

parseLegacyValue(ip) == [kind |-> "udp", host |-> ip]

\* the zone is a part of the dopplers, and no value is taken for a missing node
ASSUME FinderAssumption ==
  /\ Preferred \subseteq Dopplers
  /\ MaxChanges \in Nat /\ MaxFaults \in Nat /\ EventsCap \in Nat
  /\ NoNode \notin Hosts
  /\ \A ip \in Hosts : NoNode \notin {buildDopplerMeta(ip), parseMetaValue(buildDopplerMeta(ip)),
                                      <<parseLegacyValue(ip)>>}

\* addLegacyAddrs panics on a meta address of no protocol of the list
Panics ==
  /\ protocolIndex("udp") # 0
  /\ \E d \in Dopplers :
       /\ legacyEndpoints[d] # NoNode
       /\ metaEndpoints[d] # NoNode
       /\ protocolIndex(metaEndpoints[d][1].kind) = 0

\* the legacy address is taken where the meta one is missing or less preferred
addLegacyAddrs(addrs) ==
  [d \in Dopplers |->
     IF \/ protocolIndex("udp") = 0
        \/ legacyEndpoints[d] = NoNode
        \/ /\ addrs[d] # NoNode
           /\ \/ addrs[d][1].kind = "udp"
              \/ protocolIndex(addrs[d][1].kind) < protocolIndex("udp")
     THEN addrs[d]
     ELSE <<parseLegacyValue(legacyEndpoints[d])>>]

chooseAddrs == addLegacyAddrs(metaEndpoints)

eventWithPrefix(keys) ==
  [k \in Kinds |->
     {a.host : a \in {b \in UNION {{chooseAddrs[d][i] : i \in DOMAIN chooseAddrs[d]} :
                                    d \in {e \in keys : chooseAddrs[e] # NoNode}} : b.kind = k}}]

\* Event.empty does not look at the gRPC dopplers
empty(ev) == \A k \in Kinds \ {"ws"} : ev[k] = {}

CurrentEvent ==
  IF empty(eventWithPrefix(Preferred)) THEN eventWithPrefix(Dopplers) ELSE eventWithPrefix(Preferred)

(***************************************************************************)
(* The finder.                                                              *)
(***************************************************************************)
NoEndpoints == [d \in Dopplers |-> NoNode]

\* NewFinder
Init ==
  /\ up = NoEndpoints
  /\ etcd = [r \in Roots |-> NoEndpoints]
  /\ changes = 0 /\ faults = 0
  /\ watch = [r \in Roots |-> <<>>]
  /\ metaEndpoints = NoEndpoints /\ legacyEndpoints = NoEndpoints
  /\ pc = [t \in Threads |-> IF t = "start" THEN "watchMeta" ELSE "unwatched"]
  /\ held = [t \in Threads |-> NoEvent]
  /\ events = <<>>
  /\ got = {}
  /\ missed = FALSE /\ overtaken = FALSE

\* the process ends (a concurrent map iteration and write, or a panic), and
\* is started again with nothing but what etcd holds
Die ==
  /\ watch' = [r \in Roots |-> <<>>]
  /\ metaEndpoints' = NoEndpoints /\ legacyEndpoints' = NoEndpoints
  /\ pc' = [t \in Threads |-> IF t = "start" THEN "watchMeta" ELSE "unwatched"]
  /\ held' = [t \in Threads |-> NoEvent]
  /\ events' = <<>> /\ got' = {}
  /\ missed' = FALSE /\ overtaken' = FALSE

\* another goroutine ranges over metaEndpoints
Iterating(t) == \E u \in Threads \ {t} : pc[u] = "iterating"

\* parseNode: what the maps keep of a node; a missing node is kept as missing
parseNode(root, v) == IF v = NoNode \/ root = "legacy" THEN v ELSE parseMetaValue(v)

\* saveEndpoints for every node of the listing: nothing is ever removed
SaveAll(root) ==
  LET listed(old) == [d \in Dopplers |-> IF etcd[root][d] # NoNode THEN parseNode(root, etcd[root][d])
                                         ELSE old[d]]
  IN IF root = "meta"
     THEN metaEndpoints' = listed(metaEndpoints) /\ UNCHANGED legacyEndpoints
     ELSE legacyEndpoints' = listed(legacyEndpoints) /\ UNCHANGED metaEndpoints

\* read: ListRecursively may fail, and its error is ignored
read(root) ==
  \/ SaveAll(root) /\ UNCHANGED <<faults, missed>>
  \/ /\ faults < MaxFaults
     /\ faults' = faults + 1 /\ missed' = TRUE
     /\ UNCHANGED <<metaEndpoints, legacyEndpoints>>

\* Start: watch a root, list it, let its watcher run; the meta root first
StartWatches(root) ==
  /\ pc["start"] = (IF root = "meta" THEN "watchMeta" ELSE "watchLegacy")
  /\ pc' = [pc EXCEPT !["start"] = IF root = "meta" THEN "readMeta" ELSE "readLegacy",
                      ![root] = "listing"]
  /\ UNCHANGED <<up, etcd, changes, faults, watch, metaEndpoints, legacyEndpoints, held, events,
                 got, missed, overtaken>>

hasAddrs == \E d \in Dopplers : metaEndpoints'[d] # NoNode \/ legacyEndpoints'[d] # NoNode

StartReads(root) ==
  /\ pc["start"] = (IF root = "meta" THEN "readMeta" ELSE "readLegacy")
  /\ read(root)
  /\ pc' = [pc EXCEPT ![root] = "idle",
                      !["start"] = IF root = "meta" THEN "watchLegacy"
                                   ELSE IF hasAddrs THEN "iterating" ELSE "done"]
  /\ UNCHANGED <<up, etcd, changes, watch, held, events, got, overtaken>>

\* mutant: every update is taken for a refresh
equalAlways(root, e) == TRUE

\* equal: the same set of endpoints, or the same legacy value
equal(root, e) ==
  IF root = "legacy" THEN e.prev = e.node
  ELSE Range(parseMetaValue(e.prev)) = Range(parseMetaValue(e.node))

\* mutant: a watcher may send the event of one change again
SendTwice(t) ==
  /\ pc[t] = "holding"
  /\ Len(events) < EventsCap
  /\ events' = Append(events, held[t].ev)
  /\ \/ held' = [held EXCEPT ![t] = NoEvent]
        /\ pc' = [pc EXCEPT ![t] = IF t = "start" THEN "done" ELSE "idle"]
     \/ t # "start" /\ UNCHANGED <<held, pc>>
  /\ overtaken' = (held[t].old /\ ~\E u \in Threads : pc[u] = "holding" /\ ~held[u].old)
  /\ UNCHANGED <<up, etcd, changes, faults, watch, metaEndpoints, legacyEndpoints, got, missed>>

\* handleEvent up to the change of the maps; an update that is equal does nothing
handleEvent(root) ==
  /\ pc[root] = "idle"
  /\ watch[root] # <<>>
  /\ LET e == Head(watch[root])
         quiet == e.type = "update" /\ equal(root, e)
         map(old) == IF quiet THEN old ELSE [old EXCEPT ![e.key] = parseNode(root, e.node)]
     IN \/ /\ watch' = [watch EXCEPT ![root] = Tail(@)]
           /\ pc' = [pc EXCEPT ![root] = IF quiet THEN "idle" ELSE "iterating"]
           /\ metaEndpoints' = IF root = "meta" THEN map(metaEndpoints) ELSE metaEndpoints
           /\ legacyEndpoints' = IF root = "legacy" THEN map(legacyEndpoints) ELSE legacyEndpoints
           /\ UNCHANGED <<held, events, got, missed, overtaken>>
        \/ root = "meta" /\ ~quiet /\ Iterating(root) /\ Die
  /\ UNCHANGED <<up, etcd, changes, faults>>

\* sendEvent computes the event ...
Compute(t) ==
  /\ pc[t] = "iterating"
  /\ IF Panics THEN Die ELSE
        /\ held' = [u \in Threads |-> IF u = t THEN [ev |-> CurrentEvent, old |-> FALSE]
                                      ELSE [held[u] EXCEPT !.old = pc[u] = "holding"]]
        /\ pc' = [pc EXCEPT ![t] = "holding"]
        /\ UNCHANGED <<watch, metaEndpoints, legacyEndpoints, events, got, missed, overtaken>>
  /\ UNCHANGED <<up, etcd, changes, faults>>

\* ... and blocks until the channel has room
Send(t) ==
  /\ pc[t] = "holding"
  /\ Len(events) < EventsCap
  /\ events' = Append(events, held[t].ev)
  /\ held' = [held EXCEPT ![t] = NoEvent]
  /\ pc' = [pc EXCEPT ![t] = IF t = "start" THEN "done" ELSE "idle"]
  /\ overtaken' = (held[t].old /\ ~\E u \in Threads : pc[u] = "holding" /\ ~held[u].old)
  /\ UNCHANGED <<up, etcd, changes, faults, watch, metaEndpoints, legacyEndpoints, got, missed>>

\* the watch ends in an error: what is unread is lost, and so is what happens
\* until run watches again a second later
WatchFails(root) ==
  /\ pc[root] = "idle"
  /\ faults < MaxFaults
  /\ faults' = faults + 1 /\ missed' = TRUE
  /\ watch' = [watch EXCEPT ![root] = <<>>]
  /\ pc' = [pc EXCEPT ![root] = "broken"]
  /\ UNCHANGED <<up, etcd, changes, metaEndpoints, legacyEndpoints, held, events, got, overtaken>>

Rewatch(root) ==
  /\ pc[root] = "broken"
  /\ pc' = [pc EXCEPT ![root] = "relisting"]
  /\ UNCHANGED <<up, etcd, changes, faults, watch, metaEndpoints, legacyEndpoints, held, events,
                 got, missed, overtaken>>

\* run reads the root again; no event is sent for what it finds
Reread(root) ==
  /\ pc[root] = "relisting"
  /\ \/ /\ read(root)
        /\ pc' = [pc EXCEPT ![root] = "idle"]
        /\ UNCHANGED <<watch, held, events, got, overtaken>>
     \/ root = "meta" /\ Iterating(root) /\ Die /\ UNCHANGED faults
  /\ UNCHANGED <<up, etcd, changes>>

\* Next, called by the connector, which main creates once Start has returned
Take ==
  /\ pc["start"] = "done"
  /\ events # <<>>
  /\ got' = Head(events)["ws"]
  /\ events' = Tail(events)
  /\ UNCHANGED <<up, etcd, changes, faults, watch, metaEndpoints, legacyEndpoints, pc, held,
                 missed, overtaken>>

FinderStep ==
  \/ Take
  \/ \E r \in Roots : StartWatches(r) \/ StartReads(r) \/ handleEvent(r) \/ Rewatch(r) \/ Reread(r)
  \/ \E t \in Threads : Compute(t) \/ Send(t)

Next ==
  \/ \E d \in Dopplers : DopplerStarts(d) \/ DopplerDies(d) \/ Announce(d) \/ AnnounceLegacy(d)
  \/ \E d \in Dopplers, r \in Roots : Expire(r, d)
  \/ \E r \in Roots : WatchFails(r)
  \/ FinderStep

Spec == Init /\ [][Next]_vars

(***************************************************************************)
(* Properties.                                                              *)
(***************************************************************************)
\* the preferred zone counts when any of its dopplers has an address
Zone ==
  IF \E d \in Preferred : \/ etcd["meta"][d] # NoNode
                          \/ protocolIndex("udp") # 0 /\ etcd["legacy"][d] # NoNode
  THEN Preferred ELSE Dopplers

Announced == {parseMetaValue(etcd["meta"][d])[2].host : d \in {e \in Zone : etcd["meta"][e] # NoNode}}

Quiet ==
  /\ pc["start"] = "done"
  /\ \A r \in Roots : pc[r] = "idle" /\ watch[r] = <<>>
  /\ events = <<>>

\* Once every watch event is handled and every event is taken, the connector
\* knows exactly the dopplers etcd lists (those of the preferred zone, when it
\* has any), unless a watch or a listing failed (reading again only adds, and a
\* refresh that changes nothing is not looked at) or one watcher sent its older
\* view after the other's newer one.
SettledView == Quiet /\ ~missed /\ ~overtaken => got = Announced

\* Start sends its event on a channel nobody reads before Start returns: it
\* never meets a full channel while etcd has changed less often than the
\* channel has places.  (With more changes Start and both watchers wait for a
\* reader that main only creates after Start.)
StartNeverStuck == pc["start"] = "holding" /\ Len(events) = EventsCap => changes >= EventsCap
====
