---- MODULE AppServiceStore ----
(***************************************************************************)
(* Doppler's end of drain binding: the AppServiceStoreWatcher lists and     *)
(* watches the drains the binders keep in etcd (DrainBinder), mirrors them  *)
(* in the AppServiceCache and hands every addition and removal to the sink  *)
(* manager over unbuffered channels.  The cache knows a drain by app and    *)
(* URL, etcd by app, host name and URL.  After a watch error the watcher    *)
(* watches again without listing.                                           *)
(***************************************************************************)
EXTENDS DrainBinder

VARIABLES cache,   \* appServicesByAppId: the host name under each <<app, url>>
          wpc,     \* the watcher: "watch", "list", "run", "broken" or "stopped"
          listed,  \* nodes of the listing not yet added
          out,     \* additions and removals not yet taken from the channels
          drains,  \* what the sink manager was told to run
          missed   \* history: the watch was lost, or the listing failed

storeVars == <<cache, wpc, listed, out, drains, missed>>
vars == <<bindingVars, storeVars>>

\* ServiceInfo.Id hashes the URL alone
Id(n) == <<n.app, n.url>>
Empty == [i \in {} |-> ""]

Init ==
  /\ BinderInit
  /\ cache = Empty
  /\ wpc = "watch"
  /\ listed = {}
  /\ out = <<>>
  /\ drains = {}
  /\ missed = FALSE

\* Watch first, then ListRecursively, whose error is ignored
Watch ==
  /\ wpc = "watch"
  /\ wpc' = "list"
  /\ watch' = <<>>
  /\ \/ listed' = services /\ UNCHANGED <<faults, missed>>
     \/ Fault /\ listed' = {} /\ missed' = TRUE
  /\ UNCHANGED <<cc, changes, binderVars, services, cache, out, drains>>

\* appServiceFromStoreNode fails on JSON that a quote in the URL broke
Decodes(n) == UrlKind[n.url] # "quoted"

\* the cache: a drain is looked up, added and removed by app and Id
Exists(n) == Id(n) \in DOMAIN cache
CacheAdd(n) == [i \in DOMAIN cache \cup {Id(n)} |-> IF i = Id(n) THEN n.host ELSE cache[i]]
CacheRemove(ids) == [i \in DOMAIN cache \ ids |-> cache[i]]

\* Add and Remove: the cache first, then the channel
Add(n) ==
  IF Exists(n) \/ ~Decodes(n) THEN UNCHANGED <<cache, out>>
  ELSE /\ cache' = CacheAdd(n)
       /\ out' = Append(out, [op |-> "add", id |-> Id(n)])

\* RemoveApp and Remove: every entry of the ids that the cache holds
RemoveIds(ids) ==
  LET gone == ids \cap DOMAIN cache IN
  /\ cache' = CacheRemove(gone)
  /\ out' = out \o SetToSeq({[op |-> "remove", id |-> i] : i \in gone})

\* registerExistingServicesFromStore, a node at a time; then the loop begins
Register ==
  /\ wpc = "list" /\ out = <<>>
  /\ \/ \E n \in listed : Add(n) /\ listed' = listed \ {n} /\ UNCHANGED wpc
     \/ listed = {} /\ wpc' = "run" /\ UNCHANGED <<cache, out, listed>>
  /\ UNCHANGED <<bindingVars, drains, missed>>

\* mutant: only a node that is new is looked at, not the refresh of one
HandleCreated ==
  /\ wpc = "run" /\ out = <<>> /\ watch # <<>>
  /\ LET e == Head(watch) IN
       CASE e.type = "set" -> UNCHANGED <<cache, out>>
         [] e.type = "delete" -> IF Decodes(e.node) THEN RemoveIds({Id(e.node)}) ELSE UNCHANGED <<cache, out>>
         [] e.type = "deleteDir" -> RemoveIds({i \in DOMAIN cache : i[1] = e.app})
  /\ watch' = Tail(watch)
  /\ UNCHANGED <<cc, changes, faults, binderVars, services, wpc, listed, drains, missed>>

\* mutant: the deletion of a directory is ignored, like its creation
HandleLeaves ==
  /\ wpc = "run" /\ out = <<>> /\ watch # <<>>
  /\ LET e == Head(watch) IN
       CASE e.type = "set" -> Add(e.node)
         [] e.type = "delete" -> IF Decodes(e.node) THEN RemoveIds({Id(e.node)}) ELSE UNCHANGED <<cache, out>>
         [] e.type = "deleteDir" -> UNCHANGED <<cache, out>>
  /\ watch' = Tail(watch)
  /\ UNCHANGED <<cc, changes, faults, binderVars, services, wpc, listed, drains, missed>>

\* one event of Run's loop: create and update add, delete and expire remove a
\* drain or, for a directory, all drains of its app
HandleEvent ==
  /\ wpc = "run" /\ out = <<>> /\ watch # <<>>
  /\ LET e == Head(watch) IN
       CASE e.type = "set" -> Add(e.node)
         [] e.type = "delete" -> IF Decodes(e.node) THEN RemoveIds({Id(e.node)}) ELSE UNCHANGED <<cache, out>>
         [] e.type = "deleteDir" -> RemoveIds({i \in DOMAIN cache : i[1] = e.app})
  /\ watch' = Tail(watch)
  /\ UNCHANGED <<cc, changes, faults, binderVars, services, wpc, listed, drains, missed>>

\* an error of the watch: what is unread is lost until Watch is called again
WatchFails ==
  /\ wpc = "run" /\ out = <<>>
  /\ Fault
  /\ wpc' = "broken"
  /\ watch' = <<>>
  /\ missed' = TRUE
  /\ UNCHANGED <<cc, changes, binderVars, services, cache, listed, out, drains>>

Rewatch ==
  /\ wpc = "broken"
  /\ wpc' = "run"
  /\ watch' = <<>>
  /\ UNCHANGED <<cc, changes, faults, binderVars, services, cache, listed, out, drains, missed>>

\* somebody deletes the directory of an app
AppDeleted(a) ==
  /\ Fault
  /\ Len(watch) < QueueCap
  /\ \E n \in services : n.app = a
  /\ services' = {n \in services : n.app # a}
  /\ watch' = Append(watch, [type |-> "deleteDir", app |-> a])
  /\ UNCHANGED <<cc, changes, binderVars, storeVars>>

\* the sink manager takes an addition or a removal off its channel
Deliver ==
  /\ out # <<>>
  /\ out' = Tail(out)
  /\ drains' = IF Head(out).op = "add" THEN drains \cup {Head(out).id} ELSE drains \ {Head(out).id}
  /\ UNCHANGED <<bindingVars, cache, wpc, listed, missed>>

\* Stop closes done: Run returns and closes both channels
Stop ==
  /\ wpc = "run" /\ out = <<>>
  /\ Fault
  /\ wpc' = "stopped"
  /\ UNCHANGED <<cc, changes, binderVars, services, watch, cache, listed, out, drains, missed>>

\* a watcher that is not running reads nothing: its events go nowhere
Unread ==
  /\ wpc = "stopped" /\ watch # <<>>
  /\ watch' = <<>>
  /\ UNCHANGED <<cc, changes, faults, binderVars, services, storeVars>>

WatcherStep == Watch \/ Register \/ HandleEvent \/ Rewatch \/ Deliver \/ Unread

Next ==
  \/ BinderNext /\ UNCHANGED storeVars
  \/ WatcherStep \/ WatchFails \/ Stop
  \/ \E a \in Apps : AppDeleted(a)

Spec == Init /\ [][Next]_vars
FairSpec == Spec /\ BinderFairness /\ WF_vars(WatcherStep)

(***************************************************************************)
(* Properties.                                                              *)
(***************************************************************************)
Quiet == wpc = "run" /\ watch = <<>> /\ out = <<>>

\* With no event unread and none lost, the sink manager runs no drain that
\* etcd does not hold: neither the listing, nor a refresh under another host
\* name, nor the deletion of a whole app leaves one behind.
NoDrainLeftBehind ==
  Quiet /\ ~missed => drains = DOMAIN cache /\ drains \subseteq {Id(n) : n \in services}

Usable(u) == UrlKind[u] = "plain"

\* A usable drain that stays bound in the cloud controller is served again
\* and again, through elections, crashes of a binder, failed polls and lost
\* watches: each poll refreshes the node, and the watcher takes a refresh for
\* an addition.  One that stays unbound is dropped for good, unless a watch
\* event was lost.
CacheFollowsController ==
  \A a \in {x \in Apps : Bindings[x] # {}} : \A u \in {x \in Urls : Usable(x)} :
    /\ <>[](u \in cc[a].urls /\ wpc # "stopped") => []<>(<<a, u>> \in drains)
    /\ <>[](u \notin cc[a].urls /\ ~missed /\ wpc # "stopped") => <>[](<<a, u>> \notin drains)
====
