---- MODULE SyslogSink ----
(***************************************************************************)
(* A syslog drain of doppler: SyslogSink.Run takes envelopes from its       *)
(* buffer, connects, writes each until a write succeeds, and ends when it   *)
(* is disconnected or its input is closed.  Run waits for its timer after a *)
(* failed Connect only, and looks at disconnectChannel only there and       *)
(* between two messages.  Three writers:                                    *)
(*   "syslog"     TCP; a goroutine per connection reads, and closes the     *)
(*                writer when the read fails - whatever connection the      *)
(*                writer has by then;                                       *)
(*   "syslog-tls" TCP without such a watcher;                               *)
(*   "https"      a POST per message; Connect reports the last error once.  *)
(* The truncating buffer is TruncatingBuffer's subject: here the envelopes  *)
(* come in order and none is dropped.                                       *)
(***************************************************************************)
EXTENDS Integers, Sequences, FiniteSets

CONSTANTS Messages,      \* the log messages: records [type, newline]
          Schemes,       \* the kinds of writer explored
          MaxConns       \* bound on connections that are open or watched at a time

ASSUME SyslogAssumption ==
  Messages \in Seq([type : STRING, newline : BOOLEAN]) /\ MaxConns \in Nat

VARIABLES scheme,
          input,        \* messages not yet taken from the buffer
          closed,       \* the buffer's output channel is closed
          disconnected, \* disconnectChannel is closed
          pc, cur,      \* Run, and the index of the message it has
          connected, armed, tick,  \* locals of Run: the timer runs, its channel has a tick
          conn, open, watchers,    \* the writer's connection (0: nil), open ones, their watchers
          lastError,    \* httpsWriter.lastError
          sent          \* the messages whose Write returned no error

timerVars == <<armed, tick>>
envVars == <<input, closed, disconnected>>
writerVars == <<conn, open, watchers, lastError>>
syslogVars == <<scheme, envVars, pc, cur, connected, timerVars, writerVars, sent>>

\* NewWriter chooses by the URL's scheme and knows no other
NewWriter == Schemes \cap {"https", "syslog", "syslog-tls"}

\* tlsWriter.Connect and Close are syslogWriter's without the watcher
HasWatcher == scheme = "syslog"

\* Run creates its timer at once
SyslogInit ==
  /\ scheme \in NewWriter
  /\ input = [i \in 1..Len(Messages) |-> i]
  /\ closed = FALSE /\ disconnected = FALSE
  /\ pc = "select" /\ cur = 0
  /\ connected = FALSE /\ armed = TRUE /\ tick = FALSE
  /\ conn = 0 /\ open = {} /\ watchers = {} /\ lastError = FALSE
  /\ sent = <<>>

(***************************************************************************)
(* What is written.                                                         *)
(***************************************************************************)
messagePriorityValue(type) == IF type = "OUT" THEN 14 ELSE IF type = "ERR" THEN 11 ELSE -1

\* createMessage adds a newline to a message that does not end in one
createMessage(i) ==
  [priority |-> messagePriorityValue(Messages[i].type), message |-> i, added |-> ~Messages[i].newline]

(***************************************************************************)
(* Run.                                                                     *)
(***************************************************************************)
\* a message is taken; numberOfTries starts again (it sets the wait's length)
Take ==
  /\ pc = "select"
  /\ input # <<>>
  /\ cur' = Head(input) /\ input' = Tail(input)
  /\ pc' = IF connected THEN "write" ELSE "connect"
  /\ UNCHANGED <<scheme, closed, disconnected, connected, timerVars, writerVars, sent>>

\* mutant: a sink that backs off does not look at its disconnectChannel
ReturnIdle ==
  /\ pc = "select" /\ (disconnected \/ (closed /\ input = <<>>))
  /\ pc' = "closing"
  /\ UNCHANGED <<scheme, envVars, cur, connected, timerVars, writerVars, sent>>

\* Run returns from either select when disconnected, and from the outer one
\* when the buffer is closed and empty
Return ==
  /\ \/ pc = "select" /\ (disconnected \/ (closed /\ input = <<>>))
     \/ pc = "backoff" /\ disconnected
  /\ pc' = "closing"
  /\ UNCHANGED <<scheme, envVars, cur, connected, timerVars, writerVars, sent>>

\* the deferred Close of the writer
CloseWriter ==
  /\ pc = "closing"
  /\ pc' = "done"
  /\ open' = open \ {conn} /\ conn' = 0
  /\ UNCHANGED <<scheme, envVars, cur, connected, timerVars, watchers, lastError, sent>>

\* a failed Connect: handleSendError, and the timer is reset; a tick that is
\* already in its channel stays there
BackOff == pc' = "backoff" /\ armed' = TRUE /\ UNCHANGED <<connected, tick>>
Connected == pc' = "write" /\ connected' = TRUE /\ UNCHANGED timerVars

\* httpsWriter.Connect: the error of the last write, once
ConnectHttps ==
  /\ pc = "connect" /\ scheme = "https"
  /\ lastError' = FALSE
  /\ IF lastError THEN BackOff ELSE Connected
  /\ UNCHANGED <<scheme, envVars, cur, conn, open, watchers, sent>>

\* A number that names no connection, once the writer has closed its own.
Free == (1..MaxConns) \ watchers

\* mutant: Connect dials without closing the connection it has
DialOver ==
  /\ pc = "connect" /\ scheme # "https" /\ Free # {}
  /\ pc' = "dialing"
  /\ UNCHANGED <<scheme, envVars, cur, connected, timerVars, writerVars, sent>>

\* syslogWriter.Connect and tlsWriter.Connect close what there is and dial,
\* with the writer locked until the dial ends
Dial ==
  /\ pc = "connect" /\ scheme # "https" /\ Free # {}
  /\ open' = open \ {conn} /\ conn' = 0
  /\ pc' = "dialing"
  /\ UNCHANGED <<scheme, envVars, cur, connected, timerVars, watchers, lastError, sent>>

Dialed ==
  /\ pc = "dialing"
  /\ \/ \E c \in Free :
          /\ conn' = c /\ open' = open \cup {c}
          /\ watchers' = IF HasWatcher THEN watchers \cup {c} ELSE watchers
          /\ Connected
     \/ BackOff /\ UNCHANGED <<conn, open, watchers>>
  /\ UNCHANGED <<scheme, envVars, cur, lastError, sent>>

TimerFires ==
  /\ armed
  /\ armed' = FALSE /\ tick' = TRUE
  /\ UNCHANGED <<scheme, envVars, pc, cur, connected, writerVars, sent>>

\* the wait ends with the next tick, an old one included
BackedOff ==
  /\ pc = "backoff" /\ tick
  /\ tick' = FALSE
  /\ pc' = "connect"
  /\ UNCHANGED <<scheme, envVars, cur, connected, armed, writerVars, sent>>

\* no error: Run goes back to the outer select
Written ==
  /\ sent' = Append(sent, createMessage(cur))
  /\ connected' = TRUE
  /\ pc' = "select"

\* mutant: a message whose write failed is given up
NotWrittenSkips ==
  /\ connected' = FALSE
  /\ pc' = "select"
  /\ UNCHANGED sent

\* an error: connect again, with the same message and without waiting
NotWritten ==
  /\ connected' = FALSE
  /\ pc' = "connect"
  /\ UNCHANGED sent

\* writeHttp: no answer, or a status that is not 2xx
WriteHttps ==
  /\ pc = "write" /\ scheme = "https"
  /\ \/ Written /\ lastError' = FALSE
     \/ NotWritten /\ lastError' = TRUE
  /\ UNCHANGED <<scheme, envVars, cur, timerVars, conn, open, watchers>>

\* a write fails when the writer has no connection, on one that is lost, at
\* once or only at a later write, and on one that times out; the connection is
\* kept until the next Connect closes it
WriteTCP ==
  /\ pc = "write" /\ scheme # "https"
  /\ (conn # 0 /\ Written) \/ NotWritten
  /\ UNCHANGED <<scheme, envVars, cur, timerVars, writerVars>>

\* the drain's server closes a connection
PeerCloses ==
  /\ \E c \in open : open' = open \ {c}
  /\ UNCHANGED <<scheme, envVars, pc, cur, connected, timerVars, conn, watchers, lastError, sent>>

\* watchConnection: the read fails once its connection is closed by either
\* end; Close waits while a Connect dials
WatcherCloses(c) ==
  /\ c \in watchers /\ c \notin open
  /\ pc # "dialing"
  /\ watchers' = watchers \ {c}
  /\ open' = open \ {conn} /\ conn' = 0
  /\ UNCHANGED <<scheme, envVars, pc, cur, connected, timerVars, lastError, sent>>

\* the drain is unbound, or the sink manager closes the sink's input
Disconnect ==
  /\ ~disconnected
  /\ disconnected' = TRUE
  /\ UNCHANGED <<scheme, input, closed, pc, cur, connected, timerVars, writerVars, sent>>

InputClosed ==
  /\ ~closed
  /\ closed' = TRUE
  /\ UNCHANGED <<scheme, input, disconnected, pc, cur, connected, timerVars, writerVars, sent>>

Run == Take \/ Return \/ CloseWriter \/ ConnectHttps \/ Dial \/ Dialed \/ BackedOff \/ WriteHttps \/ WriteTCP

SyslogNext == Run \/ TimerFires \/ PeerCloses \/ (\E c \in watchers : WatcherCloses(c)) \/ Disconnect \/ InputClosed

\* Run and the watchers are goroutines, and a timer that runs fires.  A
\* select with two ready cases takes either in the end.
SyslogFairness ==
  /\ WF_syslogVars(Run) /\ SF_syslogVars(Return) /\ WF_syslogVars(TimerFires)
  /\ WF_syslogVars(\E c \in watchers : WatcherCloses(c))

SyslogSpec == SyslogInit /\ [][SyslogNext]_syslogVars /\ SyslogFairness

(***************************************************************************)
(* Properties.                                                              *)
(***************************************************************************)
\* The sink implements DrainDelivery: the message that Run holds is pending
\* until a Write of it returns no error.
Delivery == INSTANCE DrainDelivery WITH
  pending <- IF Len(sent) < cur THEN <<cur>> \o input ELSE input,
  delivered <- [i \in 1..Len(sent) |-> sent[i].message],
  ended <- pc \in {"closing", "done"}

\* Through lost connections, refused ones and retries no message is skipped,
\* none overtakes another, none is written again after a write that succeeded,
\* and nothing is written once Run has returned.
DeliversInOrder == Delivery!Spec

\* No connection is left open behind the writer's back, although the watcher
\* of an old connection may close a new one: what is open is what the writer
\* holds, and a writer whose sink has ended holds nothing.
NoConnectionLeaks == open \subseteq {conn} /\ (pc = "done" => open = {})

\* A write of Run that fails, and what only the drain's server can do.
LostWrite == pc = "write" /\ pc' = "connect"
PeerFault == (LostWrite /\ conn \in open) \/ PeerCloses

\* A sink that is disconnected ends, and with it its connection and every
\* watcher, however often its drain refuses connections.  An https sink always
\* does, since a failed write makes the next Connect fail.  A TLS sink does
\* unless its drain goes on for ever to accept a connection and then to fail it.
\* A TCP sink does unless its writes fail for ever, for which one lost
\* connection is enough: its watcher may close the next connection before the
\* message is written, that one's watcher the one after, and Run does not look
\* at disconnectChannel between them (syslog_writer.go:98-110,
\* syslog_sink.go:74-106).
DisconnectEnds ==
  \/ disconnected ~> (pc = "done" /\ open = {} /\ watchers = {})
  \/ scheme = "syslog-tls" /\ []<><<PeerFault>>_syslogVars
  \/ scheme = "syslog" /\ []<><<LostWrite>>_syslogVars
====
