------------------------------- MODULE Startup ------------------------------
(***************************************************************************)
(* How the five processes come up and go down: doppler, the traffic        *)
(* controller, metron, the reverse log proxy and the syslog drain binder.  *)
(*                                                                         *)
(* A process is a main goroutine and the goroutines it starts; what they   *)
(* run is given as a sequence of steps of a few kinds, in the order of the *)
(* code.  A step that fails ends the whole process (log.Fatal, a panic),   *)
(* except where the code only logs.  What the goroutines do once they run  *)
(* is the subject of the other modules.                                    *)
(***************************************************************************)
EXTENDS Naturals, Sequences, FiniteSets

CONSTANTS Processes,   \* a subset of AllProcesses
          Configs      \* configurations: a subset of AllConfigs

AllProcesses == {"doppler", "trafficcontroller", "metron", "rlp", "syslog_drain_binder"}

AllPorts == {"health", "grpc", "websocket", "udp", "profiler", "proxy", "egress"}

\* What the configuration tells apart: whether the required fields are there,
\* the TLS files, the named cipher suites, the interval for timers ("huge": its
\* nanoseconds overflow and are not positive), whether a truncating buffer can
\* have the size it is given, the ports whose address cannot be listened on, and
\* the options that leave something out.
AllConfigs ==
    [required : BOOLEAN, etcdTLS : {"off", "complete", "incomplete"},
     files : {"good", "no key pair", "bad ca", "not signed by ca", "no ca"},
     ciphers : SUBSET {"known", "unknown"}, interval : {"absent", "zero", "positive", "huge"},
     buffer : {"usable", "unusable"}, badPorts : SUBSET AllPorts,
     announce : BOOLEAN, drains : BOOLEAN, udp : BOOLEAN, addrs : BOOLEAN, securityLog : BOOLEAN]

ASSUME StartupAssumption == Processes \subseteq AllProcesses /\ Configs \subseteq AllConfigs

VARIABLES proc, conf,    \* the process and its configuration
          timer,         \* what conf.interval is once it is parsed
          todo,          \* the steps each goroutine has left
          opened,        \* ports the process listens on
          serving,       \* ports whose connections are accepted
          gone,          \* ports whose server has returned with an error
          nodes,         \* what etcd has of a doppler
          signal,        \* an interrupt: "none", "lost" or "received"
          ended          \* "no", or why the process has ended

startupVars == <<proc, conf, timer, todo, opened, serving, gone, nodes, signal, ended>>

-----------------------------------------------------------------------------
(* Configuration. *)

EtcdTLSComplete(c) == c.etcdTLS # "incomplete"

\* The interval as a time.Duration.
Seconds(c, zero) ==
    IF c.interval = "huge" THEN "negative" ELSE IF c.interval = "positive" THEN "positive" ELSE zero

\* [mutant] an interval of zero is left as it is
DopplerParseZero(c) == [ok |-> c.required /\ EtcdTLSComplete(c), timer |-> Seconds(c, "zero")]

\* Parse: validate, then the defaults; an interval of zero gets one.  Nothing
\* looks at the size of the buffers, nor at how large the interval or a port is.
DopplerParse(c) == [ok |-> c.required /\ EtcdTLSComplete(c), timer |-> Seconds(c, "positive")]

\* setDefaults, then validate.
TrafficControllerParse(c) == [ok |-> c.required /\ EtcdTLSComplete(c), timer |-> Seconds(c, "positive")]

MetronParse(c) == [ok |-> c.required, timer |-> "unused"]

\* There is no default for the update interval.
BinderParse(c) == [ok |-> c.required /\ EtcdTLSComplete(c), timer |-> Seconds(c, "zero")]

\* Flags with their defaults.  strings.Split always has a result, so that a
\* missing -ingress-addrs is not noticed.
RlpFlags(c) == [ok |-> TRUE, timer |-> "unused"]

Parsed(p, c) ==
    CASE p = "doppler" -> DopplerParse(c)
      [] p = "trafficcontroller" -> TrafficControllerParse(c)
      [] p = "metron" -> MetronParse(c)
      [] p = "syslog_drain_binder" -> BinderParse(c)
      [] p = "rlp" -> RlpFlags(c)

\* setCA: the CA is read and has signed the certificate.
setCA(c) == c.files \notin {"bad ca", "not signed by ca"}

\* newMutualTLSConfig: without a CA file nothing is verified.
newMutualTLSConfig(c) == c.files # "no key pair" /\ (c.files # "no ca" => setCA(c))

\* WithCipherSuites skips what it does not know and panics if nothing is left.
WithCipherSuites(names) == names \ {"unknown"}

\* The option is used if there are names; for the reverse log proxy there
\* always are, the empty one at least.
NewServerMutualTLSConfig(c) ==
    /\ newMutualTLSConfig(c)
    /\ (c.ciphers # {} \/ proc = "rlp") => WithCipherSuites(c.ciphers) # {}

-----------------------------------------------------------------------------
(* The programs. *)

Step(op, x) == <<[op |-> op, x |-> x]>>
When(b, steps) == IF b THEN steps ELSE <<>>

Client == Step("client credentials", "")
Server == Step("server credentials", "")
Interrupted == Step("notify", "") \o Step("receive", "")

\* StartServer: the port is opened at once, and served by a goroutine.
HealthEndpoint == Step("listen", "health") \o Step("go", "health")

connectToEtcd == Step("try", "etcd")

\* main, as far as etcd is needed ...
DopplerSetup(c) ==
    Step("parse", "") \o Step("try", "dropsonde") \o Client \o HealthEndpoint
      \o When(c.announce \/ c.drains, connectToEtcd)

\* ... and from the listeners to the end.
DopplerMain(c) ==
    DopplerSetup(c)
      \o Server \o Step("listen", "grpc") \o Step("listen", "websocket")
      \o Step("go", "start")
      \o When(c.announce, Step("announce", "meta") \o Step("announce", "legacy"))
      \o Step("go", "profiler") \o Interrupted \o Step("exit", "")

\* start: the goroutines that open, serve or tick; those that only move
\* envelopes have no step of their own here.
DopplerStart(c) ==
    Step("go", "grpc") \o When(c.drains, Step("go", "watcher")) \o Step("go", "udp")
      \o Step("go", "websocket") \o Step("go", "uptime") \o Step("go", "openfd")

\* Start, and the functions it defers.  The finder of static addresses has
\* nothing to start.
TrafficControllerStart(c) ==
    Step("go", "uptime") \o Step("go", "openfd") \o HealthEndpoint \o Client
      \o When(~c.addrs, connectToEtcd \o Step("f.Start", ""))
      \o When(c.securityLog, Step("try", "access log"))
      \o Step("go", "proxy") \o Step("go", "profiler")
      \o Interrupted \o Step("stop", "openfd") \o Step("stop", "uptime") \o Step("exit", "")

\* Credentials for metron and for the cloud controller come first.
TrafficControllerMain(c) == Step("parse", "") \o Client \o Client \o TrafficControllerStart(c)

\* main becomes the profiler's server.
MetronMain ==
    Step("parse", "") \o Client \o Server \o Client \o HealthEndpoint
      \o Step("go", "v1") \o Step("go", "v2")
      \o Step("listen", "profiler") \o Step("serve", "profiler")

AppV1(c) == When(c.udp, Step("listen", "udp") \o Step("serve", "udp"))

AppV2 == Step("listen", "grpc") \o Step("serve", "grpc")

RlpMain ==
    Client \o Server \o Client \o Step("parse", "") \o Step("listen", "egress")
      \o Step("go", "rlp") \o Step("go", "profiler")
      \o Step("notify", "buffered") \o Step("receive", "buffered") \o Step("rlp.Stop", "")

RlpStart == HealthEndpoint \o Step("serve", "egress")

\* With drains disabled the binder sleeps for ever.  NewElector does not return
\* before etcd answers.
BinderMain(c) ==
    Step("parse", "")
      \o When(c.drains, Step("go", "profiler") \o Client \o Step("try", "etcd adapter")
                          \o Step("NewElector", "") \o Step("ticker", ""))

\* profiler.Start, and the monitors' Start.
Profiler == Step("listen", "profiler") \o Step("serve", "profiler")
Monitor == Step("ticker", "") \o Step("monitor", "")

Goroutines == {"main", "start", "health", "grpc", "watcher", "udp", "websocket", "uptime", "openfd",
               "profiler", "proxy", "v1", "v2", "rlp"}

Main(p, c) ==
    CASE p = "doppler" -> DopplerMain(c)
      [] p = "trafficcontroller" -> TrafficControllerMain(c)
      [] p = "metron" -> MetronMain
      [] p = "rlp" -> RlpMain
      [] p = "syslog_drain_binder" -> BinderMain(c)

\* doppler's udpListener listens in its own goroutine; its gRPC and websocket
\* servers only serve what was opened before.
Code(g) ==
    CASE g = "start" -> DopplerStart(conf)
      [] g \in {"health", "grpc", "websocket"} -> Step("serve", g)
      [] g \in {"udp", "proxy"} -> Step("listen", g) \o Step("serve", g)
      [] g \in {"uptime", "openfd"} -> Monitor
      [] g = "profiler" -> Profiler
      [] g = "v1" -> AppV1(conf)
      [] g = "v2" -> AppV2
      [] g = "rlp" -> RlpStart
      [] g = "watcher" -> Step("watch", "")

\* The ports a process that is up has open.
Ports ==
    CASE proc = "doppler" -> {"health", "grpc", "websocket", "udp", "profiler"}
      [] proc = "trafficcontroller" -> {"health", "proxy", "profiler"}
      [] proc = "metron" -> {"health", "grpc", "profiler"} \cup (IF conf.udp THEN {"udp"} ELSE {})
      [] proc = "rlp" -> {"health", "egress", "profiler"}
      [] proc = "syslog_drain_binder" -> IF conf.drains THEN {"profiler"} ELSE {}

-----------------------------------------------------------------------------

StartupInit ==
    /\ proc \in Processes /\ conf \in Configs
    /\ timer = "unknown"
    /\ todo = [g \in Goroutines |-> IF g = "main" THEN Main(proc, conf) ELSE <<>>]
    /\ opened = {} /\ serving = {} /\ gone = {} /\ nodes = {}
    /\ signal = "none"
    /\ ended = "no"

At(g, op) == ended = "no" /\ todo[g] # <<>> /\ Head(todo[g]).op = op
Arg(g) == Head(todo[g]).x

Advance(g) == todo' = [todo EXCEPT ![g] = Tail(@)]

\* The process ends: whatever it had open is closed.  etcd keeps the nodes until
\* they expire.
End(why) == ended' = why /\ opened' = {} /\ serving' = {}

Parse ==
    /\ At("main", "parse")
    /\ timer' = Parsed(proc, conf).timer
    /\ Advance("main")
    /\ IF Parsed(proc, conf).ok THEN UNCHANGED <<opened, serving, ended>> ELSE End("configuration")
    /\ UNCHANGED <<proc, conf, gone, nodes, signal>>

\* Credentials are loaded, and may turn out to be of no use.
Credentials(g) ==
    /\ \/ At(g, "client credentials") /\ IF newMutualTLSConfig(conf) THEN UNCHANGED <<opened, serving, ended>>
                                                                     ELSE End("configuration")
       \/ At(g, "server credentials") /\ IF NewServerMutualTLSConfig(conf) THEN UNCHANGED <<opened, serving, ended>>
                                                                           ELSE End("configuration")
    /\ Advance(g)
    /\ UNCHANGED <<proc, conf, gone, timer, nodes, signal>>

\* time.NewTicker panics unless its interval is positive.
NewTicker(g) ==
    /\ At(g, "ticker") /\ Advance(g)
    /\ IF timer = "positive" THEN UNCHANGED <<opened, serving, ended>> ELSE End("configuration")
    /\ UNCHANGED <<proc, conf, gone, timer, nodes, signal>>

\* Something outside the process is there, or is not.
Try(g) ==
    /\ At(g, "try") /\ Advance(g)
    /\ UNCHANGED <<opened, serving, ended>> \/ End("failure")
    /\ UNCHANGED <<proc, conf, gone, timer, nodes, signal>>

\* [mutant] a port that cannot be opened is only logged
ListenLogs(g) ==
    /\ At(g, "listen") /\ Advance(g)
    /\ \/ opened' = opened \cup {Arg(g)} /\ Arg(g) \notin conf.badPorts
       \/ UNCHANGED opened
    /\ UNCHANGED <<serving, ended>>
    /\ UNCHANGED <<proc, conf, gone, timer, nodes, signal>>

\* A port is opened, or taken, or none that can be opened.
Listen(g) ==
    /\ At(g, "listen") /\ Advance(g)
    /\ IF Arg(g) \in conf.badPorts THEN End("configuration")
       ELSE \/ opened' = opened \cup {Arg(g)} /\ UNCHANGED <<serving, ended>>
            \/ End("failure")
    /\ UNCHANGED <<proc, conf, gone, timer, nodes, signal>>

\* Finder.Start returns, or waits for ever for a place among its events, which
\* nobody takes yet (Finder.tla).
StartFinder(g) ==
    /\ At(g, "f.Start")
    /\ Advance(g) \/ todo' = [todo EXCEPT ![g] = Step("blocked", "")]
    /\ UNCHANGED <<proc, conf, gone, timer, opened, serving, nodes, signal, ended>>

\* etcd has answered NewElector, which tries until then.
NewElector(g) ==
    /\ At(g, "NewElector") /\ Advance(g)
    /\ UNCHANGED <<proc, conf, gone, timer, opened, serving, nodes, signal, ended>>

\* doppler's first sink runs, for a drain the watcher finds in etcd or for a
\* websocket client, and its truncating buffer cannot be made.
RunTruncatingBuffer ==
    /\ proc = "doppler" /\ conf.buffer = "unusable"
    /\ At("watcher", "watch") \/ (ended = "no" /\ "websocket" \in serving)
    /\ End("configuration")
    /\ UNCHANGED <<proc, conf, gone, timer, todo, nodes, signal>>

Go(g) ==
    /\ At(g, "go")
    /\ todo' = [todo EXCEPT ![g] = Tail(@), ![Arg(g)] = Code(Arg(g))]
    /\ UNCHANGED <<proc, conf, gone, timer, opened, serving, nodes, signal, ended>>

\* Connections are accepted from now on.
ServePort(g) ==
    /\ At(g, "serve") /\ Arg(g) \notin serving
    /\ serving' = serving \cup {Arg(g)}
    /\ UNCHANGED <<proc, conf, gone, timer, todo, opened, nodes, signal, ended>>

\* Servers whose error ends the process.  doppler's websocket server and both
\* UDP listeners write a line and return, and the process goes on without them.
FatalToProcess(port) == port \in {"health", "grpc", "profiler", "proxy", "egress"}

ServeFails(g) ==
    /\ At(g, "serve") /\ Arg(g) \in serving
    /\ IF FatalToProcess(Arg(g)) THEN End("failure") /\ UNCHANGED todo
       ELSE /\ serving' = serving \ {Arg(g)} /\ opened' = opened \ {Arg(g)}
            /\ Advance(g) /\ UNCHANGED ended
    /\ gone' = gone \cup {Arg(g)}
    /\ UNCHANGED <<proc, conf, timer, nodes, signal>>

\* Announce and AnnounceLegacy: a node that is kept from now on, or a panic.
Announce(g) ==
    /\ At(g, "announce") /\ Advance(g)
    /\ \/ nodes' = nodes \cup {Arg(g)} /\ UNCHANGED <<opened, serving, ended>>
       \/ End("failure") /\ UNCHANGED nodes
    /\ UNCHANGED <<proc, conf, gone, timer, signal>>

NodeExpires(n) ==
    /\ n \in nodes /\ ended # "no"
    /\ nodes' = nodes \ {n}
    /\ UNCHANGED <<proc, conf, gone, timer, todo, opened, serving, signal, ended>>

\* signal.Notify: from here on an interrupt no longer kills the process.
Notify(g) ==
    /\ At(g, "notify") /\ Advance(g)
    /\ UNCHANGED <<proc, conf, gone, timer, opened, serving, nodes, signal, ended>>

\* An interrupt kills, is lost because main does not receive yet and killChan
\* has no room (the reverse log proxy's has), or is received.
Interrupt ==
    /\ ended = "no" /\ signal = "none"
    /\ IF At("main", "receive")
         THEN /\ \E lost \in {TRUE, FALSE} :
                   /\ lost => Arg("main") # "buffered"
                   /\ signal' = IF lost THEN "lost" ELSE "received"
                   /\ IF lost THEN UNCHANGED todo ELSE Advance("main")
              /\ UNCHANGED <<opened, serving, ended>>
         ELSE End("interrupt") /\ signal' = "received" /\ UNCHANGED todo
    /\ UNCHANGED <<proc, conf, gone, timer, nodes>>

\* A monitor's Stop hands its loop a channel and waits until it is closed.
StopMonitor(g) ==
    /\ At(g, "stop") /\ At(Arg(g), "monitor")
    /\ todo' = [todo EXCEPT ![g] = Tail(@), ![Arg(g)] = Tail(@)]
    /\ UNCHANGED <<proc, conf, gone, timer, opened, serving, nodes, signal, ended>>

\* main returns.
Exit(g) ==
    /\ At(g, "exit") /\ End("interrupt") /\ Advance(g)
    /\ UNCHANGED <<proc, conf, gone, timer, nodes, signal>>

\* The reverse log proxy's Stop returns, panics or never returns
\* (ReverseLogProxy.tla).
RlpStops(g) ==
    /\ At(g, "rlp.Stop") /\ End("interrupt") /\ Advance(g)
    /\ UNCHANGED <<proc, conf, gone, timer, nodes, signal>>

-----------------------------------------------------------------------------

GoroutineStep(g) ==
    \/ Credentials(g) \/ NewTicker(g) \/ Try(g) \/ Listen(g) \/ Go(g) \/ ServePort(g)
    \/ Announce(g) \/ Notify(g) \/ StopMonitor(g) \/ Exit(g) \/ StartFinder(g)

StartupNext ==
    \/ Parse \/ Interrupt \/ RunTruncatingBuffer
    \/ \E g \in Goroutines : GoroutineStep(g) \/ ServeFails(g) \/ RlpStops(g) \/ NewElector(g)
    \/ \E n \in nodes : NodeExpires(n)

\* As long as some goroutine can run, one does.  Nothing is assumed of etcd, of
\* clients or of drains.
StartupFairness == WF_startupVars(Parse \/ \E g \in Goroutines : GoroutineStep(g))

StartupSpec == StartupInit /\ [][StartupNext]_startupVars /\ StartupFairness

-----------------------------------------------------------------------------
(* Properties. *)

\* What nothing looks at before a goroutine of doppler needs it.
Unvalidated(c) == c.buffer = "unusable" \/ c.interval = "huge" \/ c.badPorts \cap {"udp", "profiler"} # {}

\* A doppler that is in etcd and has not ended listens on the gRPC port that
\* traffic controllers dial and, unless its server has failed since, on the
\* websocket port it announces.  A mistake in its configuration ends a doppler
\* before it is announced, with four exceptions that Parse lets through and that
\* are first met by goroutines: MessageDrainBufferSize, which is missing, below 3
\* or larger than a channel can be (truncating_buffer.go:30-38, when the first
\* sink runs), an interval that overflows, and the UDP and the profiler's port.
AnnouncedIsSound ==
    (proc = "doppler" /\ nodes # {}) =>
        /\ ended = "no" => "grpc" \in opened
        /\ ended = "no" /\ "websocket" \notin gone => "websocket" \in opened
        /\ ended = "configuration" => Unvalidated(conf)

\* No process stays half up: it opens every port it should have (though a
\* server may fail later) or ends, with one exception, a traffic controller
\* whose finder waits for ever for room among its events, with nobody to read
\* them yet (traffic_controller.go:162-164).  And once main has received the
\* interrupt it ends, whatever the monitors it stops are doing.
NeverHalfUp ==
    /\ ended = "no" ~>
          \/ Ports \subseteq opened \cup gone \/ ended # "no"
          \/ proc = "trafficcontroller" /\ At("main", "blocked")
    /\ (signal = "received" /\ proc # "rlp") ~> ended # "no"

=============================================================================
