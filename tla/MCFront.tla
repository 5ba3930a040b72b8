------------------------------- MODULE MCFront ------------------------------
(***************************************************************************)
(* The parts of the system that clients and drains meet, one at a time:    *)
(* the traffic controller's proxy, the reverse log proxy, the queries for  *)
(* recent data, the conversion of envelopes and a syslog drain.  They      *)
(* share no state, so a behavior is a behavior of one part, chosen in the  *)
(* initial state; the others are idle, in a state where nothing is due.    *)
(***************************************************************************)
EXTENDS TrafficController, ReverseLogProxy, RecentData, MCConversion, SyslogSink

CONSTANT Parts    \* the parts a run explores

VARIABLE part

frontVars == <<part, proxyVars, rlpVars, recentVars, conversionVars, syslogVars>>

ThreeMessages ==
    <<[type |-> "OUT", newline |-> TRUE], [type |-> "ERR", newline |-> FALSE],
      [type |-> "OUT", newline |-> FALSE]>>

TwoRequests == {NoFilter, [filter |-> TRUE, source |-> "", message |-> "log"]}

LogsOrMetrics == {[logs |-> 3, metrics |-> 0], [logs |-> 0, metrics |-> 2]}

SomeLimits == {<<>>, <<1>>, <<-1>>}

NoJourney ==
    /\ start = [version |-> 0] /\ preferred = FALSE
    /\ v1s = {} /\ v2s = {} /\ hops = MaxHops

NoProxy ==
    /\ rlp = [NewRLP EXCEPT !.server = "stopped", !.graceful = "returned"]
    /\ sub = [s \in Subscribers |-> NoSub]

NoDrain ==
    /\ scheme = "https" /\ input = <<>> /\ closed = TRUE /\ disconnected = FALSE
    /\ pc = "done" /\ cur = 0 /\ connected = FALSE /\ armed = FALSE /\ tick = FALSE
    /\ conn = 0 /\ open = {} /\ watchers = {} /\ lastError = FALSE
    /\ sent = <<>>

Init ==
    /\ part \in Parts
    /\ ProxyInit
    /\ IF part = "rlp" THEN RlpInit ELSE NoProxy
    /\ RecentInit /\ (part # "recent" => emitted.load.logs = 0)
    /\ IF part = "conversion" THEN ConversionInit ELSE NoJourney
    /\ IF part = "syslog" THEN SyslogInit ELSE NoDrain

Next ==
    /\ UNCHANGED part
    /\ \/ /\ part = "proxy" /\ ProxyNext
          /\ UNCHANGED <<rlpVars, recentVars, conversionVars, syslogVars>>
       \/ /\ part = "rlp" /\ RlpNext
          /\ UNCHANGED <<proxyVars, recentVars, conversionVars, syslogVars>>
       \/ /\ part = "recent" /\ RecentNext
          /\ UNCHANGED <<proxyVars, rlpVars, conversionVars, syslogVars>>
       \/ /\ part = "conversion" /\ ConversionNext
          /\ UNCHANGED <<proxyVars, rlpVars, recentVars, syslogVars>>
       \/ /\ part = "syslog" /\ SyslogNext
          /\ UNCHANGED <<proxyVars, rlpVars, recentVars, conversionVars>>

Spec ==
    /\ Init /\ [][Next]_frontVars
    /\ ProxyFairness /\ RlpFairness /\ SyslogFairness

=============================================================================
