---- MODULE DrainBinder ----
(***************************************************************************)
(* The syslog drain binders: instances that elect a leader through an etcd  *)
(* node, poll the cloud controller page by page, filter the bindings and    *)
(* write each app's drains to etcd with a TTL.  Nothing is ever deleted:    *)
(* an unbound drain leaves etcd when its TTL runs out.  An etcd request may *)
(* fail before or after it took effect; a poll may fail, and a response     *)
(* that cannot be decoded counts as an empty last page.                     *)
(*                                                                         *)
(* A page holds one app; the key of a drain is the hash of host name and    *)
(* URL, here the pair itself.  UrlKind says what the code finds in a URL:   *)
(* "v2" (drain-version=2.0), "unparsable", "blank", "quoted" (a quote that  *)
(* breaks the unescaped JSON) or "plain".                                   *)
(***************************************************************************)
EXTENDS Integers, Sequences, FiniteSets, SequencesExt

CONSTANTS Binders, NoLeader,
          Pages,        \* the apps, in the order the cloud controller lists them
          UrlKind,      \* function from URLs to their kinds
          Bindings,     \* the bindings each app may have: [host, urls]
          QueueCap,     \* bound on unread watch events
          MaxBindings,  \* bound on changes in the cloud controller
          MaxFaults     \* bound on failures and crashes

VARIABLES cc,       \* the cloud controller: the binding of each app
          changes, faults,
          leader,   \* the node syslog_drain_binder/leader
          isLeader, bpc, page, polled, todo,   \* one of each per binder
          services, \* the nodes below /loggregator/v2/services
          watch     \* events of that directory the store watcher has not read

Apps == Range(Pages)
Urls == DOMAIN UrlKind
Nodes == [app : Apps, host : {b.host : b \in UNION Range(Bindings)}, url : Urls]
NoBinding == [host |-> "", urls |-> {}]

\* there are finitely many URLs, and a binding is a host name and some of them
ASSUME BindingsAssumption ==
  /\ IsFiniteSet(Urls)
  /\ DOMAIN Bindings = Apps
  /\ \A b \in UNION Range(Bindings) : b = [host |-> b.host, urls |-> b.urls] /\ b.urls \subseteq Urls

binderVars == <<leader, isLeader, bpc, page, polled, todo>>
bindingVars == <<cc, changes, faults, binderVars, services, watch>>

\* NewElector has connected (it tries until it can), and the ticker runs
BinderInit ==
  /\ cc \in {f \in [Apps -> (UNION Range(Bindings)) \cup {NoBinding}] :
              \A a \in Apps : f[a] \in Bindings[a] \cup {NoBinding}}
  /\ changes = 0 /\ faults = 0
  /\ leader = NoLeader
  /\ isLeader = [b \in Binders |-> FALSE]
  /\ bpc = [b \in Binders |-> "tick"]
  /\ page = [b \in Binders |-> 1]
  /\ polled = [b \in Binders |-> [a \in Apps |-> NoBinding]]
  /\ todo = [b \in Binders |-> {}]
  /\ services = {}
  /\ watch = <<>>

Fault == faults < MaxFaults /\ faults' = faults + 1

\* a drain is bound, unbound or moved to another host in the cloud controller
Rebind(a) ==
  /\ changes < MaxBindings
  /\ changes' = changes + 1
  /\ \E b \in (Bindings[a] \cup {NoBinding}) \ {cc[a]} : cc' = [cc EXCEPT ![a] = b]
  /\ UNCHANGED <<faults, binderVars, services, watch>>

\* mutant: the node is deleted whoever wrote it
VacateAny(b) ==
  /\ isLeader' = [isLeader EXCEPT ![b] = FALSE]
  /\ leader' = NoLeader

\* Vacate: CompareAndDelete of a node that holds this instance's name; its
\* own failure is ignored
Vacate(b) ==
  /\ isLeader' = [isLeader EXCEPT ![b] = FALSE]
  /\ \/ leader' = IF leader = b THEN NoLeader ELSE leader
     \/ faults' > faults /\ leader' = leader

\* Poll begins with no results and the first page
Nothing == [a \in Apps |-> NoBinding]
ForgetPoll(b) == page' = [page EXCEPT ![b] = 1] /\ polled' = [polled EXCEPT ![b] = Nothing]

Poll(b) == bpc' = [bpc EXCEPT ![b] = "poll"] /\ ForgetPoll(b)

\* the body of main's loop gives up until the next tick
GiveUp(b) ==
  /\ Vacate(b)
  /\ bpc' = [bpc EXCEPT ![b] = "tick"]
  /\ ForgetPoll(b)

\* a leader's tick: CompareAndSwap of its own node restarts the TTL
StayAsLeader(b) ==
  /\ bpc[b] = "tick" /\ isLeader[b]
  /\ \/ leader = b /\ Poll(b) /\ UNCHANGED <<leader, isLeader, faults>>
     \/ leader # b /\ UNCHANGED faults /\ GiveUp(b)
     \/ Fault /\ GiveUp(b)
  /\ UNCHANGED <<cc, changes, todo, services, watch>>

\* any other instance's tick: Create again and again until it succeeds
RunForElection(b) ==
  /\ bpc[b] = "tick" /\ ~isLeader[b]
  /\ \/ /\ leader = NoLeader /\ leader' = b
        /\ isLeader' = [isLeader EXCEPT ![b] = TRUE]
        /\ Poll(b) /\ UNCHANGED faults
     \/ Fault /\ GiveUp(b)
     \/ /\ Fault /\ leader = NoLeader /\ leader' = b  \* created, answered with an error,
        /\ bpc' = bpc /\ UNCHANGED <<isLeader, page, polled>>  \* and not vacated either
  /\ UNCHANGED <<cc, changes, todo, services, watch>>

\* the node's TTL is the interval of the ticks: it may run out before the next
LeaderExpires ==
  /\ leader # NoLeader
  /\ leader' = NoLeader
  /\ UNCHANGED <<cc, changes, faults, isLeader, bpc, page, polled, todo, services, watch>>

\* Filter: what is parsed and not for drain version 2.0; apps left with nothing go
Filter(bs) ==
  LET left(b) == {u \in b.urls : UrlKind[u] \notin {"unparsable", "v2"}}
  IN [a \in Apps |-> IF left(bs[a]) = {} THEN NoBinding ELSE [host |-> bs[a].host, urls |-> left(bs[a])]]

\* pollAndDecode for one page; next_id is null on the last one
PollPage(b) ==
  /\ bpc[b] = "poll"
  /\ LET a == Pages[page[b]]
         result == [polled[b] EXCEPT ![a] = cc[a]]
         done(bs) == /\ bpc' = [bpc EXCEPT ![b] = "store"]
                     /\ todo' = [todo EXCEPT ![b] = {x \in Apps : Filter(bs)[x].urls # {}}]
                     /\ polled' = [polled EXCEPT ![b] = Filter(bs)]
                     /\ page' = [page EXCEPT ![b] = 1]
                     /\ UNCHANGED <<leader, isLeader>>
     IN \/ page[b] = Len(Pages) /\ done(result) /\ UNCHANGED faults
        \/ /\ page[b] < Len(Pages)
           /\ page' = [page EXCEPT ![b] = @ + 1]
           /\ polled' = [polled EXCEPT ![b] = result]
           /\ UNCHANGED <<leader, isLeader, bpc, todo, faults>>
        \/ Fault /\ done(polled[b])                    \* the body does not decode
        \/ Fault /\ GiveUp(b) /\ UNCHANGED todo        \* no answer, or not a 200
  /\ UNCHANGED <<cc, changes, services, watch>>

\* updateAppDrains: one node per URL that is not blank
DrainNodes(a, binding) ==
  {[app |-> a, host |-> binding.host, url |-> u] : u \in {v \in binding.urls : UrlKind[v] # "blank"}}

\* SetMulti refreshes a node that is there and creates one that is not
SetMulti(nodes) ==
  /\ Len(watch) + Cardinality(nodes) <= QueueCap
  /\ services' = services \cup nodes
  /\ watch' = watch \o SetToSeq({[type |-> "set", node |-> n] : n \in nodes})

\* UpdateDrains: the apps in any order, until one write fails
UpdateDrains(b) ==
  /\ bpc[b] = "store"
  /\ \/ \E a \in todo[b] :
          /\ SetMulti(DrainNodes(a, polled[b][a]))
          /\ todo' = [todo EXCEPT ![b] = @ \ {a}]
          /\ UNCHANGED <<leader, isLeader, bpc, page, polled, faults>>
     \/ /\ todo[b] = {}
        /\ bpc' = [bpc EXCEPT ![b] = "tick"]
        /\ ForgetPoll(b)
        /\ UNCHANGED <<leader, isLeader, todo, services, watch, faults>>
     \/ /\ Fault /\ GiveUp(b)        \* of the nodes of the write some may have been set
        /\ \E a \in todo[b] : \E part \in SUBSET DrainNodes(a, polled[b][a]) : SetMulti(part)
        /\ todo' = [todo EXCEPT ![b] = {}]
  /\ UNCHANGED <<cc, changes>>

\* the process ends and is started again; its leader node stays behind
BinderCrashes(b) ==
  /\ Fault
  /\ isLeader' = [isLeader EXCEPT ![b] = FALSE]
  /\ bpc' = [bpc EXCEPT ![b] = "tick"]
  /\ todo' = [todo EXCEPT ![b] = {}]
  /\ ForgetPoll(b)
  /\ UNCHANGED <<cc, changes, leader, services, watch>>

\* the TTL of a drain that has not been refreshed runs out
DrainExpires(n) ==
  /\ n \in services
  /\ Len(watch) < QueueCap
  /\ services' = services \ {n}
  /\ watch' = Append(watch, [type |-> "delete", node |-> n])
  /\ UNCHANGED <<cc, changes, faults, binderVars>>

BinderStep(b) == StayAsLeader(b) \/ RunForElection(b) \/ PollPage(b) \/ UpdateDrains(b)

BinderNext ==
  \/ \E a \in Apps : Rebind(a)
  \/ \E b \in Binders : BinderStep(b) \/ BinderCrashes(b)
  \/ LeaderExpires
  \/ \E n \in services : DrainExpires(n)

Bound(n) == n.url \in cc[n.app].urls /\ n.host = cc[n.app].host

\* The tickers tick and etcd drops what is not refreshed: the leader's node
\* and the drains that are bound no more (strongly fair, since only the bound
\* on unread events holds an expiry back).
BinderFairness ==
  /\ \A b \in Binders : WF_bindingVars(BinderStep(b))
  /\ WF_bindingVars(LeaderExpires)
  /\ SF_bindingVars(\E n \in Nodes : ~Bound(n) /\ DrainExpires(n))

\* No step of one binder takes the leader node away from another, a binder's
\* that lost the lead without knowing included: when StayAsLeader or
\* RunForElection fails it vacates although another may lead by then, and so it
\* does when a poll or a write fails.  And no binder begins a round unless the
\* node has its name at that moment.
LeadershipKept ==
  [][\A b \in Binders :
       /\ BinderStep(b) \/ BinderCrashes(b) => leader \in {b, NoLeader} \/ leader' = leader
       /\ bpc[b] = "tick" /\ bpc'[b] = "poll" => leader' = b]_bindingVars
====
