----------------------- MODULE TruncatingBufferProofs -----------------------
(***************************************************************************)
(* The truncating buffer is right for every buffer size from 3 up, every    *)
(* set of allowed events and every interleaving of Run with the sink.       *)
(*                                                                         *)
(* NoticesCountedWhenFull is not inductive: it says nothing while the       *)
(* channel has room.  The strengthening counts instead: since the last      *)
(* overflow `notices` notices and then sentMessageCount messages were       *)
(* queued and `taken` entries were received, so the channel's length and    *)
(* the place of its notices are known at every moment.                      *)
(***************************************************************************)
EXTENDS TruncatingBuffer, TLAPS

assumptions == /\ BufferSize \in Nat /\ BufferSize >= 3
               /\ Word \in Nat /\ Word > BufferSize
               /\ OriginSet \in BOOLEAN
               /\ MaxInput \in Nat

\* Between overflows: the notices left are at the head, the guess is what the
\* number of sends leaves of them.
Accounted ==
  pc \in {"select", "forward", "done"} =>
    /\ notices <= 2
    /\ taken <= notices + sentMessageCount
    /\ Len(outputChannel) = notices + sentMessageCount - taken
    /\ queuedInternalMessageCount <= notices
    /\ queuedInternalMessageCount + sentMessageCount <= BufferSize
         \/ queuedInternalMessageCount = 0
    /\ queuedInternalMessageCount < notices =>
         queuedInternalMessageCount + sentMessageCount >= BufferSize
    /\ \A i \in 1..Len(outputChannel) :
         (outputChannel[i] = "notice") <=> (i <= notices - taken)

\* During an overflow, once the channel is empty: only notices are queued.
Refilling ==
  pc \in writing =>
    /\ taken <= notices
    /\ Len(outputChannel) = notices - taken
    /\ queuedInternalMessageCount = notices
    /\ notices <= 2
    /\ pc = "notifyCounter" => notices <= 1
    /\ pc = "notifyLog" => notices = 0
    /\ \A i \in 1..Len(outputChannel) : outputChannel[i] = "notice"

IInv == TypeOK /\ Accounted /\ Refilling

-----------------------------------------------------------------------------
\* The constants' assumptions in one fact.
LEMMA Constants == assumptions
  BY BufferSizeAssumption, WordAssumption, OriginSetAssumption,
     MaxInputAssumption DEF assumptions

\* Appending to the output channel: its type, length and entries.
LEMMA AppendOutput ==
  ASSUME NEW s \in Seq({"message", "notice"}), NEW x \in {"message", "notice"}
  PROVE  /\ Append(s, x) \in Seq({"message", "notice"})
         /\ Len(Append(s, x)) = Len(s) + 1
         /\ \A i \in 1..Len(s) : Append(s, x)[i] = s[i]
         /\ Append(s, x)[Len(s) + 1] = x
  OBVIOUS

\* Receiving from the output channel: its type, length and entries.
LEMMA TailOutput ==
  ASSUME NEW s \in Seq({"message", "notice"}), s # <<>>
  PROVE  /\ Tail(s) \in Seq({"message", "notice"})
         /\ Len(s) \in Nat \ {0}
         /\ Len(Tail(s)) = Len(s) - 1
         /\ \A i \in 1..Len(Tail(s)) : Tail(s)[i] = s[i + 1]
  OBVIOUS

\* The buffer starts empty with all counters at zero.
LEMMA InitIInv == Init => IInv
<1> SUFFICES ASSUME Init PROVE IInv
  OBVIOUS
<1> USE Constants DEF Init, assumptions
<1>1. TypeOK
  <2>1. Len(outputChannel) = 0
    OBVIOUS
  <2>2. /\ inputChannel \in Seq(EventTypes)
        /\ outputChannel \in Seq({"message", "notice"})
    OBVIOUS
  <2>3. droppedMessageCount \in 0..(Word - 1) /\ offered \in 0..MaxInput
    OBVIOUS
  <2>4. /\ inputClosed \in BOOLEAN /\ stopped \in BOOLEAN
        /\ outputClosed \in BOOLEAN /\ raced \in BOOLEAN
    OBVIOUS
  <2>5. Len(outputChannel) <= BufferSize
    BY <2>1
  <2>6. /\ sentMessageCount \in Nat /\ queuedInternalMessageCount \in Nat
        /\ queuedInternalMessageCount <= 2 /\ drained \in Nat /\ lost \in Nat
        /\ notices \in Nat /\ taken \in Nat
    OBVIOUS
  <2>7. pc \in {"select", "forward", "drop", "done"} \cup writing
    OBVIOUS
  <2> HIDE DEF Init, assumptions
  <2> QED BY <2>2, <2>3, <2>4, <2>5, <2>6, <2>7 DEF TypeOK
<1>2. Accounted
  <2>1. Len(outputChannel) = 0
    OBVIOUS
  <2>2. 1..Len(outputChannel) = {}
    BY <2>1
  <2> QED BY <2>1, <2>2 DEF Accounted
<1>3. Refilling
  BY DEF Refilling, writing
<1> QED BY <1>1, <1>2, <1>3 DEF IInv

-----------------------------------------------------------------------------
\* Every step keeps the types and the counter bounds of TypeOK.
LEMMA StepTypeOK == IInv /\ Next => TypeOK'
<1> SUFFICES ASSUME IInv, Next PROVE TypeOK'
  OBVIOUS
<1> USE Constants DEF IInv, TypeOK, Accounted, Refilling, writing, assumptions,
        counters, history
<1>1. ASSUME NEW type \in EventTypes, Offer(type) PROVE TypeOK'
  BY <1>1 DEF Offer
<1>2. CASE CloseInput
  BY <1>2 DEF CloseInput
<1>3. CASE Stop
  BY <1>3 DEF Stop
<1>4. CASE Receive
  BY <1>4, TailOutput DEF Receive
<1>5. CASE Exit
  BY <1>5 DEF Exit
<1>6. CASE RecvInput
  BY <1>6 DEF RecvInput
<1>7. CASE ForwardSend
  BY <1>7, AppendOutput DEF ForwardSend, queuedAfterSend
<1>8. CASE ForwardFull
  BY <1>8 DEF ForwardFull
<1>9. CASE DropOne
  BY <1>9, TailOutput DEF DropOne
<1>10. CASE DropEnd
  <2>1. deltaDropped \in Nat
    BY DEF deltaDropped
  <2>2. droppedMessageCount' \in 0..(Word - 1)
    BY <1>10, <2>1 DEF DropEnd
  <2> QED BY <1>10, <2>2 DEF DropEnd
<1>11. CASE NotifyLog
  BY <1>11, AppendOutput DEF NotifyLog, Notify, emitMessage
<1>12. CASE NotifyCounter
  BY <1>12, AppendOutput DEF NotifyCounter, Notify, emitMessage
<1>13. CASE WriteNewest
  <2>1. Len(outputChannel) < BufferSize
    BY <1>13 DEF WriteNewest
  <2>2. /\ outputChannel' \in Seq({"message", "notice"})
        /\ Len(outputChannel') <= BufferSize
    BY <1>13, <2>1, AppendOutput DEF WriteNewest, writeToOutput
  <2>3. UNCHANGED <<droppedMessageCount, lost>>
    BY <1>13, <2>1 DEF WriteNewest, writeToOutput
  <2> QED BY <1>13, <2>2, <2>3 DEF WriteNewest
<1> QED
  BY <1>1, <1>2, <1>3, <1>4, <1>5, <1>6, <1>7, <1>8, <1>9, <1>10, <1>11, <1>12,
     <1>13 DEF Next, Run, Environment

\* Every step keeps the account of the channel between overflows.
LEMMA StepAccounted == IInv /\ Next => Accounted'
<1> SUFFICES ASSUME IInv, Next PROVE Accounted'
  OBVIOUS
<1> USE Constants DEF IInv, TypeOK, Accounted, assumptions, counters, history
<1>1. ASSUME NEW type \in EventTypes, Offer(type) PROVE Accounted'
  BY <1>1 DEF Offer
<1>2. CASE CloseInput
  BY <1>2 DEF CloseInput
<1>3. CASE Stop
  BY <1>3 DEF Stop
<1>4. CASE Receive
  BY <1>4, TailOutput DEF Receive
<1>5. CASE Exit
  BY <1>5 DEF Exit
<1>6. CASE RecvInput
  BY <1>6 DEF RecvInput
<1>7. CASE ForwardSend
  <2>1. /\ Len(outputChannel') = Len(outputChannel) + 1
        /\ outputChannel'[Len(outputChannel) + 1] = "message"
        /\ \A i \in 1..Len(outputChannel) : outputChannel'[i] = outputChannel[i]
    BY <1>7, AppendOutput DEF ForwardSend
  <2>2. /\ notices - taken <= Len(outputChannel)
        /\ Len(outputChannel') = notices + sentMessageCount' - taken
    <3>1. /\ Len(outputChannel) = notices + sentMessageCount - taken
          /\ sentMessageCount' = sentMessageCount + 1
      BY <1>7 DEF ForwardSend
    <3>2. notices \in Nat /\ taken \in Nat /\ sentMessageCount \in Nat
      OBVIOUS
    <3> HIDE DEF IInv
    <3> QED BY <3>1, <3>2, <2>1
  <2>3. ASSUME NEW i \in 1..Len(outputChannel')
        PROVE  (outputChannel'[i] = "notice") <=> (i <= notices - taken)
    <3>1. CASE i = Len(outputChannel) + 1
      BY <3>1, <2>1, <2>2
    <3>2. CASE i \in 1..Len(outputChannel)
      BY <1>7, <3>2, <2>1 DEF ForwardSend
    <3> QED BY <2>1, <3>1, <3>2
  <2>4. /\ (queuedInternalMessageCount + sentMessageCount <= BufferSize
             \/ queuedInternalMessageCount = 0)'
        /\ queuedInternalMessageCount' <= notices
        /\ queuedInternalMessageCount' < notices =>
             queuedInternalMessageCount' + sentMessageCount' >= BufferSize
    BY <1>7 DEF ForwardSend, queuedAfterSend
  <2>5. UNCHANGED <<notices, taken>> /\ taken <= notices + sentMessageCount'
        /\ notices <= 2
    BY <1>7 DEF ForwardSend
  <2> QED BY <2>2, <2>3, <2>4, <2>5
<1>8. CASE ForwardFull
  BY <1>8 DEF ForwardFull
<1>9. CASE DropOne
  BY <1>9 DEF DropOne
<1>10. CASE DropEnd
  BY <1>10 DEF DropEnd
<1>11. CASE NotifyLog
  BY <1>11 DEF NotifyLog, Notify
<1>12. CASE NotifyCounter
  BY <1>12 DEF NotifyCounter, Notify
<1>13. CASE WriteNewest
  <2> USE DEF Refilling, writing
  <2>1. /\ Len(outputChannel) < BufferSize
        /\ outputChannel' = Append(outputChannel, "message")
    BY <1>13 DEF WriteNewest, writeToOutput
  <2>2. /\ Len(outputChannel') = Len(outputChannel) + 1
        /\ outputChannel'[Len(outputChannel) + 1] = "message"
        /\ \A i \in 1..Len(outputChannel) : outputChannel'[i] = outputChannel[i]
    BY <2>1, AppendOutput
  <2>3. ASSUME NEW i \in 1..Len(outputChannel')
        PROVE  (outputChannel'[i] = "notice") <=> (i <= notices - taken)
    <3>1. CASE i = Len(outputChannel) + 1
      BY <1>13, <3>1, <2>2 DEF WriteNewest
    <3>2. CASE i \in 1..Len(outputChannel)
      BY <1>13, <3>2, <2>2 DEF WriteNewest
    <3> QED BY <2>2, <3>1, <3>2
  <2> QED BY <1>13, <2>2, <2>3 DEF WriteNewest
<1> QED
  BY <1>1, <1>2, <1>3, <1>4, <1>5, <1>6, <1>7, <1>8, <1>9, <1>10, <1>11, <1>12,
     <1>13 DEF Next, Run, Environment

\* Every step keeps the account of the channel during an overflow.
LEMMA StepRefilling == IInv /\ Next => Refilling'
<1> SUFFICES ASSUME IInv, Next PROVE Refilling'
  OBVIOUS
<1> USE Constants DEF IInv, TypeOK, Refilling, writing, assumptions, counters,
        history
<1>1. ASSUME NEW type \in EventTypes, Offer(type) PROVE Refilling'
  BY <1>1 DEF Offer
<1>2. CASE CloseInput
  BY <1>2 DEF CloseInput
<1>3. CASE Stop
  BY <1>3 DEF Stop
<1>4. CASE Receive
  BY <1>4, TailOutput DEF Receive
<1>5. CASE Exit
  BY <1>5 DEF Exit
<1>6. CASE RecvInput
  BY <1>6 DEF RecvInput
<1>7. CASE ForwardSend
  BY <1>7 DEF ForwardSend
<1>8. CASE ForwardFull
  BY <1>8 DEF ForwardFull
<1>9. CASE DropOne
  BY <1>9 DEF DropOne
<1>10. CASE DropEnd
  BY <1>10 DEF DropEnd
<1>11. CASE NotifyLog
  BY <1>11, AppendOutput DEF NotifyLog, Notify, emitMessage
<1>12. CASE NotifyCounter
  BY <1>12, AppendOutput DEF NotifyCounter, Notify, emitMessage
<1>13. CASE WriteNewest
  BY <1>13 DEF WriteNewest
<1> QED
  BY <1>1, <1>2, <1>3, <1>4, <1>5, <1>6, <1>7, <1>8, <1>9, <1>10, <1>11, <1>12,
     <1>13 DEF Next, Run, Environment

\* The strengthening holds in every reachable state.
THEOREM Inductive == Spec => []IInv
<1>1. Init => IInv
  BY InitIInv
<1>2. IInv /\ [Next]_vars => IInv'
  <2> SUFFICES ASSUME IInv, [Next]_vars PROVE IInv'
    OBVIOUS
  <2>1. CASE Next
    BY <2>1, StepTypeOK, StepAccounted, StepRefilling DEF IInv
  <2>2. CASE UNCHANGED vars
    BY <2>2 DEF vars, counters, history, IInv, TypeOK, Accounted, Refilling,
       writing
  <2> QED BY <2>1, <2>2
<1> QED BY <1>1, <1>2, PTL DEF Spec

-----------------------------------------------------------------------------
\* Types and bounds: the channel never exceeds its capacity, at most two
\* notices are thought queued, the total stays a uint64.
THEOREM TypeCorrect == Spec => []TypeOK
<1>1. IInv => TypeOK
  BY DEF IInv
<1> QED BY <1>1, Inductive, PTL

\* When the channel is full, sends and notices together tell where the notices are.
LEMMA FullMeansCounted == IInv => NoticesCountedWhenFull
<1> SUFFICES ASSUME IInv, pc \in {"select", "forward"},
                    Len(outputChannel) = BufferSize,
                    NEW i \in 1..Len(outputChannel)
             PROVE  (outputChannel[i] = "notice")
                      <=> (i <= queuedInternalMessageCount)
  BY DEF NoticesCountedWhenFull
<1> USE Constants DEF IInv, TypeOK, Accounted, assumptions
<1>1. notices - taken = BufferSize - sentMessageCount
  OBVIOUS
<1>2. (outputChannel[i] = "notice") <=> (i <= notices - taken)
  OBVIOUS
<1>3. (i <= notices - taken) <=> (i <= queuedInternalMessageCount)
  BY <1>1
<1> QED BY <1>2, <1>3

\* The count of queued notices is exact whenever the channel is full, which is
\* when forwardMessage subtracts it from what dropMessages threw away.
THEOREM NoticesCounted == Spec => []NoticesCountedWhenFull
  BY FullMeansCounted, Inductive, PTL

\* Every send that follows an overflow finds room, so Run never blocks on the
\* sink and the message that overflowed the buffer is not lost.
THEOREM RoomForNotices == Spec => []RoomAfterOverflow
<1>1. IInv => RoomAfterOverflow
  BY Constants DEF IInv, TypeOK, Refilling, RoomAfterOverflow, writing,
     assumptions
<1> QED BY <1>1, Inductive, PTL
-----------------------------------------------------------------------------
(* The reported total.  While dropMessages empties the channel, the notices  *)
(* left in it are what queuedInternalMessageCount is short of the number     *)
(* drained, until a receive takes one of them; what was drained beyond them  *)
(* are messages, which the total has yet to be told of.                      *)

Exact ==
  ~raced =>
    /\ pc # "drop" \/ drained <= queuedInternalMessageCount =>
         droppedMessageCount = lost % Word
    /\ pc = "drop" /\ drained <= queuedInternalMessageCount =>
         /\ queuedInternalMessageCount - drained <= Len(outputChannel)
         /\ \A i \in 1..Len(outputChannel) :
              (outputChannel[i] = "notice") <=> (i <= queuedInternalMessageCount - drained)
    /\ pc = "drop" /\ drained > queuedInternalMessageCount =>
         /\ drained - queuedInternalMessageCount <= lost
         /\ droppedMessageCount = (lost - (drained - queuedInternalMessageCount)) % Word
         /\ \A i \in 1..Len(outputChannel) : outputChannel[i] = "message"

\* A multiple of the modulus more or less does not matter.
LEMMA ModPlus ==
  ASSUME NEW w \in Nat \ {0}, NEW c \in Nat, NEW k \in Nat
  PROVE  (c + w * k) % w = c % w
<1> DEFINE r == c % w
           m == c \div w
<1>1. r \in 0..(w - 1) /\ m \in Nat /\ c = r + w * m
  OBVIOUS
<1> HIDE DEF r, m
<1>2. c + w * k = r + w * (m + k)
  BY <1>1
<1> DEFINE n == m + k
<1>3. n \in Nat
  BY <1>1
<1> HIDE DEF n
<1>4. (r + w * n) % w = r
  BY <1>1, <1>3
<1> QED BY <1>2, <1>4 DEF r, n

\* Wrapping early or late gives the same sum.
LEMMA ModSum ==
  ASSUME NEW w \in Nat \ {0}, NEW a \in Nat, NEW b \in Nat
  PROVE  ((a % w) + (b % w)) % w = (a + b) % w
<1> DEFINE p == a % w
           q == b % w
           k == a \div w
           l == b \div w
<1>1. /\ p \in Nat /\ k \in Nat /\ a = p + w * k
      /\ q \in Nat /\ l \in Nat /\ b = q + w * l
  OBVIOUS
<1> HIDE DEF p, q, k, l
<1> DEFINE c == p + q
           n == k + l
<1>2. a + b = c + w * n /\ c \in Nat /\ n \in Nat
  BY <1>1
<1> HIDE DEF c, n
<1>3. (c + w * n) % w = c % w
  BY <1>2, ModPlus
<1> QED BY <1>2, <1>3 DEF c, p, q

\* The total is told of what was drained less the notices that were in it.
LEMMA DropEndExact ==
  ASSUME IInv, Exact, DropEnd, ~raced
  PROVE  droppedMessageCount' = lost % Word
<1> USE Constants DEF IInv, TypeOK, assumptions
<1> DEFINE over == drained - queuedInternalMessageCount
<1>1. over \in Nat /\ over <= lost
  BY DEF Exact, DropEnd
<1>2. droppedMessageCount = (lost - over) % Word
  BY <1>1 DEF Exact, DropEnd
<1>3. deltaDropped = (over + Word) % Word
  BY DEF deltaDropped
<1>4. droppedMessageCount' = (droppedMessageCount + deltaDropped) % Word
  BY DEF DropEnd
<1> HIDE DEF over
<1>5. lost - over \in Nat /\ over + Word \in Nat /\ Word \in Nat \ {0} /\ lost \in Nat
  BY <1>1
<1> DEFINE a == lost - over
           b == over + Word
<1>6. a \in Nat /\ b \in Nat /\ a + b = lost + Word * 1
  BY <1>1, <1>5
<1> HIDE DEF a, b
<1>7. ((a % Word) + (b % Word)) % Word = (a + b) % Word
  BY <1>5, <1>6, ModSum
<1>8. (lost + Word * 1) % Word = lost % Word
  BY <1>5, ModPlus
<1> QED BY <1>2, <1>3, <1>4, <1>6, <1>7, <1>8 DEF a, b

\* Every step keeps the account of the total.
LEMMA StepExact == IInv /\ Exact /\ Next => Exact'
<1> SUFFICES ASSUME IInv, Exact, Next, ~raced' PROVE Exact'
  BY DEF Exact
<1> USE Constants DEF IInv, TypeOK, assumptions, counters, history
<1>1. ASSUME NEW type \in EventTypes, Offer(type) PROVE Exact'
  BY <1>1 DEF Offer, Exact
<1>2. CASE CloseInput
  BY <1>2 DEF CloseInput, Exact
<1>3. CASE Stop
  BY <1>3 DEF Stop, Exact
<1>4. CASE Receive
  <2>1. /\ ~raced /\ outputChannel # <<>> /\ outputChannel' = Tail(outputChannel)
        /\ pc = "drop" => outputChannel[1] # "notice"
        /\ UNCHANGED <<pc, drained, lost, queuedInternalMessageCount, droppedMessageCount>>
    <3>1. outputChannel # <<>> /\ Head(outputChannel) = outputChannel[1]
      BY <1>4 DEF Receive
    <3>2. raced' = (raced \/ (pc = "drop" /\ Head(outputChannel) = "notice"))
      BY <1>4 DEF Receive
    <3>3. ~raced /\ (pc = "drop" => Head(outputChannel) # "notice")
      BY <3>2, Zenon
    <3> QED BY <1>4, <3>1, <3>3 DEF Receive
  <2>2. /\ Len(outputChannel) \in Nat \ {0} /\ Len(outputChannel') = Len(outputChannel) - 1
        /\ \A i \in 1..Len(outputChannel') : outputChannel'[i] = outputChannel[i + 1]
    BY <2>1, TailOutput
  <2>3. CASE pc = "drop" /\ drained <= queuedInternalMessageCount
    <3>1. drained = queuedInternalMessageCount
      BY <2>1, <2>2, <2>3 DEF Exact
    <3>2. \A i \in 1..Len(outputChannel) : outputChannel[i] # "notice"
      BY <2>1, <2>3, <3>1 DEF Exact
    <3>3. \A i \in 1..Len(outputChannel') : outputChannel'[i] # "notice"
      BY <2>2, <3>2
    <3> QED BY <2>1, <2>2, <2>3, <3>1, <3>3 DEF Exact
  <2>4. CASE pc = "drop" /\ drained > queuedInternalMessageCount
    <3>1. \A i \in 1..Len(outputChannel') : outputChannel'[i] = "message"
      BY <2>1, <2>2, <2>4 DEF Exact
    <3> QED BY <2>1, <2>4, <3>1 DEF Exact
  <2>5. CASE pc # "drop"
    BY <2>1, <2>5 DEF Exact
  <2> QED BY <2>3, <2>4, <2>5
<1>5. CASE Exit
  BY <1>5 DEF Exit, Exact
<1>6. CASE RecvInput
  BY <1>6 DEF RecvInput, Exact
<1>7. CASE ForwardSend
  BY <1>7 DEF ForwardSend, Exact
<1>8. CASE ForwardFull
  <2>1. \A i \in 1..Len(outputChannel) :
           (outputChannel[i] = "notice") <=> (i <= queuedInternalMessageCount)
    BY <1>8, FullMeansCounted DEF ForwardFull, NoticesCountedWhenFull
  <2> QED BY <1>8, <2>1 DEF ForwardFull, Exact
<1>9. CASE DropOne
  <2>1. /\ ~raced /\ pc = "drop" /\ pc' = "drop"
        /\ outputChannel # <<>> /\ outputChannel' = Tail(outputChannel)
        /\ drained' = drained + 1
        /\ lost' = IF outputChannel[1] = "message" THEN lost + 1 ELSE lost
        /\ UNCHANGED <<queuedInternalMessageCount, droppedMessageCount>>
    BY <1>9 DEF DropOne
  <2>2. /\ Len(outputChannel) \in Nat \ {0} /\ Len(outputChannel') = Len(outputChannel) - 1
        /\ \A i \in 1..Len(outputChannel') : outputChannel'[i] = outputChannel[i + 1]
        /\ \A i \in 1..Len(outputChannel) : outputChannel[i] \in {"message", "notice"}
    BY <2>1, TailOutput
  <2>3. CASE drained < queuedInternalMessageCount
    <3>1. outputChannel[1] = "notice"
      BY <2>1, <2>2, <2>3 DEF Exact
    <3>2. \A i \in 1..Len(outputChannel') :
             (outputChannel'[i] = "notice") <=> (i <= queuedInternalMessageCount - drained')
      BY <2>1, <2>2, <2>3 DEF Exact
    <3> QED BY <2>1, <2>2, <2>3, <3>1, <3>2 DEF Exact
  <2>4. CASE drained >= queuedInternalMessageCount
    <3>1. \A i \in 1..Len(outputChannel) : outputChannel[i] = "message"
      BY <2>1, <2>2, <2>4 DEF Exact
    <3>2. \A i \in 1..Len(outputChannel') : outputChannel'[i] = "message"
      BY <2>2, <3>1
    <3>3. /\ lost' = lost + 1 /\ drained' > queuedInternalMessageCount'
          /\ lost' - (drained' - queuedInternalMessageCount')
               = lost - (drained - queuedInternalMessageCount)
      BY <2>1, <2>2, <2>4, <3>1
    <3>4. /\ drained - queuedInternalMessageCount <= lost
          /\ droppedMessageCount = (lost - (drained - queuedInternalMessageCount)) % Word
      BY <2>1, <2>4 DEF Exact
    <3>5. drained' - queuedInternalMessageCount' <= lost'
      BY <2>1, <3>3, <3>4
    <3> QED BY <2>1, <3>2, <3>3, <3>4, <3>5 DEF Exact
  <2> QED BY <2>3, <2>4
<1>10. CASE DropEnd
  <2>1. ~raced /\ pc' # "drop" /\ lost' = lost
    BY <1>10 DEF DropEnd
  <2> QED BY <1>10, <2>1, DropEndExact DEF Exact
<1>11. CASE NotifyLog
  BY <1>11 DEF NotifyLog, Notify, Exact
<1>12. CASE NotifyCounter
  BY <1>12 DEF NotifyCounter, Notify, Exact
<1>13. CASE WriteNewest
  <2>1. /\ UNCHANGED <<droppedMessageCount, lost, raced>> /\ pc = "write" /\ pc' = "select"
    BY <1>13 DEF WriteNewest, writeToOutput, Refilling, writing
  <2> QED BY <2>1 DEF Exact
<1> QED
  BY <1>1, <1>2, <1>3, <1>4, <1>5, <1>6, <1>7, <1>8, <1>9, <1>10, <1>11, <1>12,
     <1>13 DEF Next, Run, Environment

\* The total that the notices and the metric report is the number of messages
\* lost, modulo 2^64, unless the sink took a notice while the channel was being
\* emptied: then it was subtracted and not drained.
THEOREM TotalExact == Spec => []ExactUnlessRaced
<1>1. Init => Exact
  BY Constants DEF Init, Exact, assumptions
<1>2. IInv /\ Exact /\ [Next]_vars => Exact'
  <2> SUFFICES ASSUME IInv, Exact, [Next]_vars PROVE Exact'
    OBVIOUS
  <2>1. CASE Next
    BY <2>1, StepExact
  <2>2. CASE UNCHANGED vars
    BY <2>2 DEF vars, counters, history, Exact
  <2> QED BY <2>1, <2>2
<1>3. Exact => ExactUnlessRaced
  BY DEF Exact, ExactUnlessRaced
<1> QED BY <1>1, <1>2, <1>3, Inductive, PTL DEF Spec
=============================================================================
