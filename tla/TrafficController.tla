-------------------------- MODULE TrafficController -------------------------
(***************************************************************************)
(* The traffic controller's proxy, from the request of a client to the end *)
(* of the last goroutine that serves it.                                   *)
(*                                                                         *)
(* A request is logged, routed and authorized: for an application's data   *)
(* by the cloud controller, for the firehose by the UAA.  A query is then  *)
(* answered (RecentData.tla has the answers); the handler of a stream      *)
(* subscribes to the dopplers (GRPCConnector.tla) and serves the websocket *)
(* with four goroutines: the handler's own loop, the reader that takes     *)
(* messages from the subscription and passes them on through an unbuffered *)
(* channel, one that waits for the client to close, and the keep-alive.    *)
(*                                                                         *)
(* Timers are abstracted to the order of what happens: a tick comes when   *)
(* nothing else has happened in time.  Since the reader's timer is as long *)
(* as five seconds, it does not fire while the loop is ready to receive.   *)
(*                                                                         *)
(* One write on a websocket is made at a time.  A message has six seconds; *)
(* pings and the close message are written with no deadline, so a client   *)
(* that does not read, once the buffers on the way are full, holds up the  *)
(* goroutine that writes one and every other that has something to write.  *)
(***************************************************************************)
EXTENDS Naturals, FiniteSets

CONSTANTS Conns,          \* requests
          MaxMessages,    \* messages a subscription yields
          MaxPongs,       \* pings a client answers before it is silent
          AccessControl   \* values of !disableAccessControl

ASSUME StreamBoundsAssumption == MaxMessages \in Nat /\ MaxPongs \in Nat

VARIABLES stream,           \* a record for every request
          logged          \* requests in the access log

proxyVars == <<stream, logged>>

\* The routes of NewDopplerProxy; "query" is recentlogs and containermetrics.
Endpoints == {"stream", "query", "firehose", "set-cookie"}
Tokens == {"none", "header", "cookie"}

\* What the authorizing service answers: a status, or nothing at all.
Answers == {"200", "401", "403", "404", "500", "error"}

-----------------------------------------------------------------------------
(* Authorization. *)

\* The Authorization header, else the authorization cookie.
getAuthToken(c) == stream[c].token # "none"

\* The cloud controller's status is the authorizer's; no token is 401.
LogAccessAuthorizer(c, control, answer) ==
    IF ~control THEN "200"
    ELSE IF ~getAuthToken(c) THEN "401"
    ELSE IF answer = "error" THEN "500" ELSE answer

\* [mutant] only an answer that says no is a no
LogAccessWrapLenient(status) ==
    CASE status = "401" -> "401" [] status \in {"403", "404"} -> "404" [] OTHER -> "200"

\* LogAccessMiddleware.Wrap: what the client is told.
LogAccessWrap(status) ==
    CASE status = "200" -> "200"
      [] status = "401" -> "401"
      [] status \in {"403", "404"} -> "404"
      [] OTHER -> "500"

\* GetAuthData fails unless the UAA answers 200; then the scope must include
\* doppler.firehose.
GetAuthData(answer) == answer = "200"

AdminAccessAuthorizer(c, control, answer, hasPermission) ==
    ~control \/ (getAuthToken(c) /\ GetAuthData(answer) /\ hasPermission)

AdminAccessWrap(authorized) == IF authorized THEN "200" ELSE "401"

-----------------------------------------------------------------------------

NoConn ==
    [pc |-> "new", endpoint |-> "stream", token |-> "none", granted |-> FALSE, status |-> "none",
     loop |-> "off", reader |-> "off", closed |-> FALSE, canceled |-> FALSE,
     gone |-> FALSE, left |-> FALSE, received |-> 0,
     stalled |-> FALSE, broken |-> FALSE,
     ka |-> "off", armed |-> FALSE, tick |-> FALSE, pong |-> FALSE, pongs |-> 0,
     expired |-> FALSE, code |-> "none"]

ProxyInit ==
    /\ stream = [c \in Conns |-> NoConn]
    /\ logged = {}

\* AccessHandler writes its line, or fails to, and goes on.
Access(c) ==
    /\ stream[c].pc = "new"
    /\ \E e \in Endpoints, t \in Tokens, ok \in BOOLEAN :
         /\ stream' = [stream EXCEPT ![c].pc = "routed", ![c].endpoint = e, ![c].token = t]
         /\ logged' = IF ok THEN logged \cup {c} ELSE logged

\* SetCookieHandler, the only route nobody authorizes: the cookie is set
\* unless the form does not parse.
SetCookie(c) ==
    /\ stream[c].pc = "routed" /\ stream[c].endpoint = "set-cookie"
    /\ \E status \in {"200", "400"} :
         stream' = [stream EXCEPT ![c].pc = "done", ![c].status = status]
    /\ UNCHANGED logged

\* The middleware of the endpoint lets the request through or answers it.
Authorize(c) ==
    /\ stream[c].pc = "routed" /\ stream[c].endpoint # "set-cookie"
    /\ \E answer \in Answers, hasPermission \in BOOLEAN, control \in AccessControl :
         LET status == IF stream[c].endpoint # "firehose"
                         THEN LogAccessWrap(LogAccessAuthorizer(c, control, answer))
                         ELSE AdminAccessWrap(AdminAccessAuthorizer(c, control, answer, hasPermission))
         IN  stream' = [stream EXCEPT
                ![c].granted = \/ ~control
                               \/ /\ stream[c].token # "none" /\ answer = "200"
                                  /\ stream[c].endpoint = "firehose" => hasPermission,
                ![c].status = IF status = "200" THEN "none" ELSE status,
                ![c].pc = IF status = "200" THEN "authorized" ELSE "done"]
    /\ UNCHANGED logged

\* The handlers that are next once a request is authorized.
StreamHandler(c) == stream[c].pc = "authorized" /\ stream[c].endpoint = "stream"
FirehoseHandler(c) == stream[c].pc = "authorized" /\ stream[c].endpoint = "firehose"
QueryHandler(c) == stream[c].pc = "authorized" /\ stream[c].endpoint = "query"

\* ContainerMetricsHandler and RecentLogsHandler ask all dopplers until the
\* deadline and serve what they have got.
ServeQuery(c) ==
    /\ QueryHandler(c)
    /\ stream' = [stream EXCEPT ![c].pc = "done", ![c].status = "200", ![c].canceled = TRUE]
    /\ UNCHANGED logged

\* ServeHTTP counts the stream and subscribes; without a subscription the
\* client is told 503.
ServeHTTPFails(c) ==
    /\ StreamHandler(c) \/ FirehoseHandler(c)
    /\ stream' = [stream EXCEPT ![c].pc = "done", ![c].status = "503", ![c].canceled = TRUE]
    /\ UNCHANGED logged

\* Otherwise serveWS starts the reader and the websocket handler, which
\* starts the rest once the handshake is made.
ServeWS(c) ==
    /\ StreamHandler(c) \/ FirehoseHandler(c)
    /\ \E upgraded \in BOOLEAN :
         stream' = [stream EXCEPT
            ![c].reader = "recv",
            ![c].pc = IF upgraded THEN "serving" ELSE "done",
            ![c].canceled = ~upgraded,
            ![c].status = IF upgraded THEN "101" ELSE "400",
            ![c].loop = IF upgraded THEN "select" ELSE "ended",
            ![c].ka = IF upgraded THEN "ping" ELSE "off"]
    /\ UNCHANGED logged

-----------------------------------------------------------------------------
(* serveWS: the reader. *)

\* recv yields a message.
recv(c) ==
    /\ stream[c].reader = "recv" /\ ~stream[c].canceled /\ stream[c].received < MaxMessages
    /\ stream' = [stream EXCEPT ![c].reader = "send", ![c].received = @ + 1]
    /\ UNCHANGED logged

\* recv fails, at the latest when the context is canceled; data is closed.
recvFails(c) ==
    /\ stream[c].reader = "recv"
    /\ stream' = [stream EXCEPT ![c].reader = "ended", ![c].closed = TRUE]
    /\ UNCHANGED logged

\* [mutant] the reader waits for the loop however long it takes
SlowConsumerWaits(c) ==
    /\ stream[c].reader = "send" /\ stream[c].loop = "writing"
    /\ stream' = [stream EXCEPT ![c].reader = "ended", ![c].closed = TRUE]
    /\ UNCHANGED logged

\* Nobody has taken the message for five seconds: the loop is writing, or has
\* ended.
SlowConsumer(c) ==
    /\ stream[c].reader = "send" /\ stream[c].loop # "select"
    /\ stream' = [stream EXCEPT ![c].reader = "ended", ![c].closed = TRUE]
    /\ UNCHANGED logged

-----------------------------------------------------------------------------
(* runWebsocketUntilClosed: the loop. *)

\* It takes the message the reader holds.
TakeMessage(c) ==
    /\ stream[c].loop = "select" /\ stream[c].reader = "send"
    /\ stream' = [stream EXCEPT ![c].loop = "writing", ![c].reader = "recv"]
    /\ UNCHANGED logged

\* The write waits for a ping that is being written, and for the client.
WriteMessage(c) ==
    /\ stream[c].loop = "writing" /\ stream[c].ka # "pinging" /\ ~stream[c].stalled
    /\ stream' = [stream EXCEPT ![c].loop = "select"]
    /\ UNCHANGED logged

\* The loop ends with a code for the close message.
Ends(c, code) == [stream EXCEPT ![c].loop = "closing", ![c].code = code]

\* The deadline has passed or the connection is broken; no later write on it
\* is tried.
WriteMessageFails(c) ==
    /\ stream[c].loop = "writing" /\ stream[c].ka # "pinging"
    /\ stream' = [Ends(c, "normal") EXCEPT ![c].broken = TRUE]
    /\ UNCHANGED logged

ClientWentAway(c) ==
    /\ stream[c].loop = "select" /\ stream[c].left
    /\ stream' = Ends(c, "normal")
    /\ UNCHANGED logged

KeepAliveExpired(c) ==
    /\ stream[c].loop = "select" /\ stream[c].expired
    /\ stream' = Ends(c, "policy violation")
    /\ UNCHANGED logged

MessagesClosed(c) ==
    /\ stream[c].loop = "select" /\ stream[c].closed
    /\ stream' = Ends(c, "normal")
    /\ UNCHANGED logged

\* The handler returns when the close message is written, or cannot be: then
\* ws.Close and the deferred cancel.
Returned(c) ==
    /\ stream[c].loop = "closing" /\ stream[c].ka # "pinging"
    /\ ~stream[c].stalled \/ stream[c].gone \/ stream[c].broken
    /\ stream' = [stream EXCEPT ![c].loop = "ended", ![c].pc = "done", ![c].canceled = TRUE]
    /\ UNCHANGED logged

\* The client does not read, and nothing more can be written ...
ClientStalls(c) ==
    /\ stream[c].pc = "serving" /\ ~stream[c].gone /\ ~stream[c].stalled
    /\ stream' = [stream EXCEPT ![c].stalled = TRUE]
    /\ UNCHANGED logged

\* ... until it reads again.
ClientReads(c) ==
    /\ stream[c].pc = "serving" /\ ~stream[c].gone /\ stream[c].stalled
    /\ stream' = [stream EXCEPT ![c].stalled = FALSE]
    /\ UNCHANGED logged

\* The client closes its end.
ClientLeaves(c) ==
    /\ stream[c].pc = "serving" /\ ~stream[c].gone
    /\ stream' = [stream EXCEPT ![c].gone = TRUE]
    /\ UNCHANGED logged

\* ReadMessage fails when either end has closed.
ReadMessageFails(c) ==
    /\ stream[c].status = "101" /\ ~stream[c].left
    /\ stream[c].gone \/ stream[c].loop = "ended"
    /\ stream' = [stream EXCEPT ![c].left = TRUE]
    /\ UNCHANGED logged

-----------------------------------------------------------------------------
(* KeepAlive.Run. *)

\* The keep-alive starts to write a ping ...
Ping(c) ==
    /\ stream[c].ka = "ping" /\ ~stream[c].broken /\ stream[c].loop # "ended"
    /\ stream' = [stream EXCEPT ![c].ka = "pinging"]
    /\ UNCHANGED logged

\* ... and sets the timer again when it is written; a tick that is in the
\* timer's channel stays there.
PingWritten(c) ==
    /\ stream[c].ka = "pinging" /\ ~stream[c].stalled
    /\ stream' = [stream EXCEPT ![c].ka = "wait", ![c].armed = TRUE]
    /\ UNCHANGED logged

\* The ping cannot be written.
PingFails(c) ==
    /\ \/ stream[c].ka \in {"ping", "pinging"} /\ stream[c].gone
       \/ stream[c].ka = "ping" /\ (stream[c].broken \/ stream[c].loop = "ended")
    /\ stream' = [stream EXCEPT ![c].ka = "ended", ![c].expired = TRUE]
    /\ UNCHANGED logged

\* The client answers a ping; pongHandler keeps one pong at most.
pongHandler(c) ==
    /\ stream[c].ka \in {"wait", "sleep"} /\ ~stream[c].gone /\ stream[c].loop # "ended"
    /\ stream[c].pongs < MaxPongs
    /\ stream' = [stream EXCEPT ![c].pong = TRUE, ![c].pongs = @ + 1]
    /\ UNCHANGED logged

PongReceived(c) ==
    /\ stream[c].ka = "wait" /\ stream[c].pong
    /\ stream' = [stream EXCEPT ![c].ka = "sleep", ![c].pong = FALSE]
    /\ UNCHANGED logged

\* Half an interval later the next ping is due.
SleepEnds(c) ==
    /\ stream[c].ka = "sleep"
    /\ stream' = [stream EXCEPT ![c].ka = "ping"]
    /\ UNCHANGED logged

\* The interval since the last ping has passed; if the pong was late this may
\* happen during the sleep.
KeepAliveFires(c) ==
    /\ stream[c].armed
    /\ stream' = [stream EXCEPT ![c].armed = FALSE, ![c].tick = TRUE]
    /\ UNCHANGED logged

Timeout(c) ==
    /\ stream[c].ka = "wait" /\ stream[c].tick
    /\ stream' = [stream EXCEPT ![c].ka = "ended", ![c].expired = TRUE, ![c].tick = FALSE]
    /\ UNCHANGED logged

-----------------------------------------------------------------------------

ProxyNext ==
    \E c \in Conns :
        \/ Access(c) \/ SetCookie(c) \/ Authorize(c) \/ ServeQuery(c)
        \/ ServeHTTPFails(c) \/ ServeWS(c)
        \/ recv(c) \/ recvFails(c) \/ SlowConsumer(c)
        \/ TakeMessage(c) \/ WriteMessage(c) \/ WriteMessageFails(c)
        \/ ClientWentAway(c) \/ KeepAliveExpired(c) \/ MessagesClosed(c) \/ Returned(c)
        \/ ClientStalls(c) \/ ClientReads(c) \/ ClientLeaves(c) \/ ReadMessageFails(c)
        \/ Ping(c) \/ PingWritten(c) \/ PingFails(c) \/ pongHandler(c) \/ PongReceived(c) \/ SleepEnds(c)
        \/ KeepAliveFires(c) \/ Timeout(c)

\* The goroutines run, timers fire, a message is written or fails by its
\* deadline, and a canceled subscription fails.  A control message, which has
\* no deadline, is written if the client goes on reading, or reads again and
\* again.  Nothing is assumed of the client or of the dopplers.
ProxyFairness ==
    \A c \in Conns :
        /\ WF_proxyVars(WriteMessage(c) \/ WriteMessageFails(c))
        /\ WF_proxyVars(ClientWentAway(c) \/ KeepAliveExpired(c) \/ MessagesClosed(c))
        /\ WF_proxyVars(TakeMessage(c) \/ SlowConsumer(c))
        /\ WF_proxyVars(recvFails(c) /\ stream[c].canceled)
        /\ WF_proxyVars(ReadMessageFails(c))
        /\ WF_proxyVars(Ping(c) \/ PingFails(c)) /\ SF_proxyVars(PingWritten(c)) /\ SF_proxyVars(Returned(c))
        /\ WF_proxyVars(SleepEnds(c)) /\ WF_proxyVars(PongReceived(c))
        /\ WF_proxyVars(KeepAliveFires(c)) /\ WF_proxyVars(Timeout(c))

ProxySpec == ProxyInit /\ [][ProxyNext]_proxyVars /\ ProxyFairness

-----------------------------------------------------------------------------
(* Properties. *)

\* A subscription to an application's logs or to the firehose, or a query, is
\* only made for a request the authorizing service has said yes to: an error of the
\* service, a missing token or a missing scope never lets one through, and
\* what the service refuses is told to the client as the middleware documents
\* (a forbidden application does not exist).
ServedOnlyIfGranted ==
    \A c \in Conns :
        /\ \/ stream[c].pc \in {"authorized", "serving"} \/ stream[c].reader # "off"
           \/ stream[c].endpoint = "query" /\ stream[c].status = "200"
           => stream[c].granted
        /\ stream[c].pc = "done" /\ ~stream[c].granted =>
              stream[c].status \in (CASE stream[c].endpoint \in {"stream", "query"} -> {"401", "404", "500"}
                                      [] stream[c].endpoint = "firehose" -> {"401"}
                                      [] stream[c].endpoint = "set-cookie" -> {"200", "400"})

\* The goroutine that writes a control message waits for a client that is
\* there and does not read.
HeldUp(c) ==
    /\ stream[c].pc = "serving" /\ stream[c].stalled /\ ~stream[c].gone
    /\ stream[c].ka = "pinging" \/ stream[c].loop = "closing"

\* A client that stops answering pings, or goes, is let go of: its handler
\* returns, and after that none of its goroutines is left, even a reader that
\* holds a message nobody will take.  The one exception is a client that never
\* reads again and never goes, while a ping or the close message is written to
\* it: those writes have no deadline (keepalive.go:29, websocket_handler.go:44)
\* and the handler stays.
StreamsReleased ==
    \A c \in Conns :
        /\ (stream[c].pc = "serving" ~> stream[c].pc = "done") \/ <>[]HeldUp(c)
        /\ stream[c].pc = "done" ~>
              (stream[c].reader \in {"off", "ended"} /\ stream[c].ka \in {"off", "ended"})

=============================================================================
