-------------------------- MODULE TruncatingBuffer --------------------------
(***************************************************************************)
(* doppler/internal/truncatingbuffer: the bounded queue between a sink's    *)
(* input channel and the code that writes to a slow consumer (a websocket   *)
(* or a syslog drain).  When the output channel is full the buffer throws   *)
(* away everything queued, queues a notice that says how much was lost and  *)
(* goes on with the newest message.                                         *)
(*                                                                         *)
(* Two goroutines share the output channel: Run (the writer, one pc) and    *)
(* the sink that receives from it.  Every channel operation of Run is a     *)
(* step of its own, because the receiver runs between any two of them.      *)
(***************************************************************************)
EXTENDS Naturals, Sequences

CONSTANTS
  BufferSize,    (* capacity of outputChannel                              *)
  Word,          (* 2^64 in the program: the uint64 counters wrap at Word  *)
  Allowed,       (* the event types the BufferContext lets through         *)
  OriginSet,     (* the context's origin is non-empty: emitter.Wrap works  *)
  MaxInput       (* bound: messages offered on inputChannel in a behaviour *)

EventTypes == {"LogMessage", "CounterEvent", "Other"}

ASSUME BufferSizeAssumption == BufferSize \in Nat /\ BufferSize >= 3
ASSUME WordAssumption == Word \in Nat /\ Word > BufferSize
ASSUME AllowedAssumption == Allowed \subseteq EventTypes
ASSUME OriginSetAssumption == OriginSet \in BOOLEAN
ASSUME MaxInputAssumption == MaxInput \in Nat

VARIABLES
  pc,                          (* where Run is                             *)
  inputChannel,                (* messages waiting, by event type          *)
  inputClosed, stopped,        (* inputChannel closed, stopChannel closed  *)
  outputChannel,               (* a queue of "message" and "notice"        *)
  outputClosed,
  sentMessageCount,
  queuedInternalMessageCount,
  droppedMessageCount,
  drained,                     (* dropMessages' local counter              *)
  \* History: what a perfect observer would have counted.
  offered,                     (* messages ever put on inputChannel        *)
  lost,                        (* messages thrown away by dropMessages     *)
  notices,                     (* notices queued by the last overflow      *)
  taken,                       (* receives since the last overflow         *)
  raced                        (* a receive took a notice mid-overflow     *)

counters == <<sentMessageCount, queuedInternalMessageCount, droppedMessageCount>>
history == <<lost, notices, taken, raced>>
vars == <<pc, inputChannel, inputClosed, stopped, outputChannel, outputClosed,
          counters, drained, offered, history>>

-----------------------------------------------------------------------------
(* Environment: GroupedSinks fills and closes the input channel, the sink   *)
(* receives from the output channel and closes stopChannel.                 *)

\* Broadcast puts a message on the sink's input channel.
Offer(type) ==
  /\ offered < MaxInput
  /\ ~inputClosed
  /\ offered' = offered + 1
  /\ inputChannel' = Append(inputChannel, type)
  /\ UNCHANGED <<pc, inputClosed, stopped, outputChannel, outputClosed,
                 counters, drained, history>>

CloseInput ==
  /\ ~inputClosed
  /\ inputClosed' = TRUE
  /\ UNCHANGED <<pc, inputChannel, stopped, outputChannel, outputClosed,
                 counters, drained, offered, history>>

Stop ==
  /\ ~stopped
  /\ stopped' = TRUE
  /\ UNCHANGED <<pc, inputChannel, inputClosed, outputChannel, outputClosed,
                 counters, drained, offered, history>>

\* The sink receives the head of GetOutputChannel().
Receive ==
  /\ outputChannel # <<>>
  /\ outputChannel' = Tail(outputChannel)
  /\ taken' = taken + 1
  /\ raced' = (raced \/ (pc = "drop" /\ Head(outputChannel) = "notice"))
  /\ UNCHANGED <<pc, inputChannel, inputClosed, stopped, outputClosed,
                 counters, drained, offered, lost, notices>>

-----------------------------------------------------------------------------
(* The writer goroutine.                                                    *)

eventAllowed(type) == type \in Allowed

\* Mutant: Run looks only at its input, never at stopChannel.
ExitOnInputOnly ==
  /\ pc = "select"
  /\ inputClosed /\ inputChannel = <<>>
  /\ pc' = "done"
  /\ outputClosed' = TRUE
  /\ UNCHANGED <<inputChannel, inputClosed, stopped, outputChannel,
                 counters, drained, offered, history>>

\* Run's deferred close(outputChannel): on stop, or once the closed input
\* channel has been read to its end.
Exit ==
  /\ pc = "select"
  /\ stopped \/ (inputClosed /\ inputChannel = <<>>)
  /\ pc' = "done"
  /\ outputClosed' = TRUE
  /\ UNCHANGED <<inputChannel, inputClosed, stopped, outputChannel,
                 counters, drained, offered, history>>

\* Run receives a message; one the context filters out is forgotten.
RecvInput ==
  /\ pc = "select"
  /\ inputChannel # <<>>
  /\ inputChannel' = Tail(inputChannel)
  /\ pc' = IF eventAllowed(Head(inputChannel)) THEN "forward" ELSE "select"
  /\ UNCHANGED <<inputClosed, stopped, outputChannel, outputClosed,
                 counters, drained, offered, history>>

\* Mutant: the notice is thought gone one send too late.
queuedAfterSendLate(sent) ==
  IF queuedInternalMessageCount > 0
       /\ sent + queuedInternalMessageCount > BufferSize + 1
    THEN queuedInternalMessageCount - 1
    ELSE queuedInternalMessageCount

\* What is left of queuedInternalMessageCount after one more successful send.
queuedAfterSend(sent) ==
  IF queuedInternalMessageCount > 0
       /\ sent + queuedInternalMessageCount > BufferSize
    THEN queuedInternalMessageCount - 1
    ELSE queuedInternalMessageCount

\* forwardMessage, the send succeeds.
ForwardSend ==
  /\ pc = "forward"
  /\ Len(outputChannel) < BufferSize
  /\ outputChannel' = Append(outputChannel, "message")
  /\ sentMessageCount' = sentMessageCount + 1
  /\ queuedInternalMessageCount' = queuedAfterSend(sentMessageCount + 1)
  /\ pc' = "select"
  /\ UNCHANGED <<inputChannel, inputClosed, stopped, outputClosed,
                 droppedMessageCount, drained, offered, history>>

\* forwardMessage, the channel is full: the select takes its default branch.
ForwardFull ==
  /\ pc = "forward"
  /\ Len(outputChannel) = BufferSize
  /\ pc' = "drop"
  /\ drained' = 0
  /\ UNCHANGED <<inputChannel, inputClosed, stopped, outputChannel,
                 outputClosed, counters, offered, history>>

\* dropMessages, one receive of its loop.
DropOne ==
  /\ pc = "drop"
  /\ outputChannel # <<>>
  /\ outputChannel' = Tail(outputChannel)
  /\ drained' = drained + 1
  /\ lost' = IF Head(outputChannel) = "message" THEN lost + 1 ELSE lost
  /\ UNCHANGED <<pc, inputChannel, inputClosed, stopped, outputClosed,
                 counters, offered, notices, taken, raced>>

\* Mutant: the notices are counted among the dropped messages.
deltaDroppedWithNotices == drained % Word

\* deltaDropped: the subtraction is on uint64 and wraps below zero.
deltaDropped == (drained + Word - queuedInternalMessageCount) % Word

\* Mutant: dropMessages stops after its first receive.
DropEndEarly ==
  /\ pc = "drop"
  /\ outputChannel = <<>> \/ drained > 0
  /\ droppedMessageCount' = (droppedMessageCount + deltaDropped) % Word
  /\ queuedInternalMessageCount' = 0
  /\ drained' = 0
  /\ notices' = 0
  /\ taken' = 0
  /\ pc' = "notifyLog"
  /\ UNCHANGED <<inputChannel, inputClosed, stopped, outputChannel,
                 outputClosed, sentMessageCount, offered, lost, raced>>

\* Mutant: queuedInternalMessageCount is not reset by an overflow.
DropEndNoReset ==
  /\ pc = "drop"
  /\ outputChannel = <<>>
  /\ droppedMessageCount' = (droppedMessageCount + deltaDropped) % Word
  /\ drained' = 0
  /\ notices' = 0
  /\ taken' = 0
  /\ pc' = "notifyLog"
  /\ UNCHANGED <<inputChannel, inputClosed, stopped, outputChannel,
                 outputClosed, sentMessageCount, queuedInternalMessageCount,
                 offered, lost, raced>>

\* dropMessages finds the channel empty; forwardMessage updates its counters.
DropEnd ==
  /\ pc = "drop"
  /\ outputChannel = <<>>
  /\ droppedMessageCount' = (droppedMessageCount + deltaDropped) % Word
  /\ queuedInternalMessageCount' = 0
  /\ drained' = 0
  /\ notices' = 0
  /\ taken' = 0
  /\ pc' = "notifyLog"
  /\ UNCHANGED <<inputChannel, inputClosed, stopped, outputChannel,
                 outputClosed, sentMessageCount, offered, lost, raced>>

\* emitMessage: a blocking send of one notice, nothing if Wrap fails.
emitMessage ==
  IF OriginSet
    THEN /\ Len(outputChannel) < BufferSize
         /\ outputChannel' = Append(outputChannel, "notice")
         /\ queuedInternalMessageCount' = queuedInternalMessageCount + 1
         /\ notices' = notices + 1
    ELSE UNCHANGED <<outputChannel, queuedInternalMessageCount, notices>>

\* notifyMessagesDropped: a log message, then a counter event, each only if
\* the context allows its type.
Notify(at, type, next) ==
  /\ pc = at
  /\ IF eventAllowed(type)
       THEN emitMessage
       ELSE UNCHANGED <<outputChannel, queuedInternalMessageCount, notices>>
  /\ pc' = next
  /\ UNCHANGED <<inputChannel, inputClosed, stopped, outputClosed,
                 sentMessageCount, droppedMessageCount, drained, offered,
                 lost, taken, raced>>

NotifyLog == Notify("notifyLog", "LogMessage", "notifyCounter")
NotifyCounter == Notify("notifyCounter", "CounterEvent", "write")

\* writeToOutput: queue the new message, or count it as dropped.
writeToOutput ==
  IF Len(outputChannel) < BufferSize
    THEN /\ outputChannel' = Append(outputChannel, "message")
         /\ UNCHANGED <<droppedMessageCount, lost>>
    ELSE /\ droppedMessageCount' = (droppedMessageCount + 1) % Word
         /\ lost' = lost + 1
         /\ UNCHANGED outputChannel

WriteNewest ==
  /\ pc = "write"
  /\ writeToOutput
  /\ sentMessageCount' = 1
  /\ pc' = "select"
  /\ UNCHANGED <<inputChannel, inputClosed, stopped, outputClosed, drained,
                 queuedInternalMessageCount, offered, notices, taken, raced>>

-----------------------------------------------------------------------------
Init ==
  /\ pc = "select"
  /\ inputChannel = <<>>
  /\ inputClosed = FALSE
  /\ stopped = FALSE
  /\ outputChannel = <<>>
  /\ outputClosed = FALSE
  /\ sentMessageCount = 0
  /\ queuedInternalMessageCount = 0
  /\ droppedMessageCount = 0
  /\ drained = 0
  /\ offered = 0
  /\ lost = 0
  /\ notices = 0
  /\ taken = 0
  /\ raced = FALSE

Run ==
  \/ Exit
  \/ RecvInput
  \/ ForwardSend
  \/ ForwardFull
  \/ DropOne
  \/ DropEnd
  \/ NotifyLog
  \/ NotifyCounter
  \/ WriteNewest

Environment ==
  \/ \E type \in EventTypes : Offer(type)
  \/ CloseInput
  \/ Stop
  \/ Receive

Next == Run \/ Environment

Spec == Init /\ [][Next]_vars

(* Run is a goroutine the Go scheduler keeps running while it can: weak     *)
(* fairness.  Nothing is assumed of the sink that reads the output.         *)
FairSpec == Spec /\ WF_vars(Run)

-----------------------------------------------------------------------------
(* Properties.                                                              *)

writing == {"notifyLog", "notifyCounter", "write"}

\* Every variable has its type: the output channel stays within its capacity and
\* forwardMessage never believes more than its two notices to be queued.
TypeOK ==
  /\ pc \in {"select", "forward", "drop", "done"} \cup writing
  /\ inputChannel \in Seq(EventTypes)
  /\ inputClosed \in BOOLEAN
  /\ stopped \in BOOLEAN
  /\ outputChannel \in Seq({"message", "notice"})
  /\ Len(outputChannel) <= BufferSize
  /\ outputClosed \in BOOLEAN
  /\ sentMessageCount \in Nat
  /\ queuedInternalMessageCount \in Nat
  /\ queuedInternalMessageCount <= 2
  /\ droppedMessageCount \in 0..(Word - 1)
  /\ drained \in Nat
  /\ offered \in 0..MaxInput
  /\ lost \in Nat
  /\ notices \in Nat
  /\ taken \in Nat
  /\ raced \in BOOLEAN

\* The guess queuedInternalMessageCount makes is right when it is used: Run
\* never learns when the sink receives a notice, it infers it from the number
\* of its own sends (forwardMessage, queuedInternalMessageWasSent).  Whenever
\* the channel is full, the first queuedInternalMessageCount entries are the
\* notices still queued, and nothing else is.
NoticesCountedWhenFull ==
  (pc \in {"select", "forward"} /\ Len(outputChannel) = BufferSize) =>
    \A i \in 1..Len(outputChannel) :
      (outputChannel[i] = "notice") <=> (i <= queuedInternalMessageCount)

\* An overflow never blocks Run and never loses the message that caused it:
\* emitMessage's blocking sends and writeToOutput always find room.  This is
\* why NewTruncatingBuffer insists on a buffer of at least 3.
RoomAfterOverflow == pc \in writing => Len(outputChannel) < BufferSize

\* If no notice was received while dropMessages was emptying the channel, the
\* total that the notices and the metric report is the number of messages lost.
ExactUnlessRaced ==
  (~raced /\ pc # "drop") => droppedMessageCount = lost % Word

\* Run ends, and closes the output channel, once it is stopped or its input is
\* closed, however slowly or rarely the sink receives.
ShutsDown == (stopped \/ inputClosed) ~> outputClosed

=============================================================================
