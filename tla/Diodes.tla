------------------------------- MODULE Diodes -------------------------------
(***************************************************************************)
(* The diodes between goroutines: rings of Size buckets whose writers never  *)
(* wait.  A writer that comes round to the bucket the reader has not emptied *)
(* overwrites it; the reader, when it gets there, finds a later message than *)
(* it expected, skips everything in between and alerts with the number it    *)
(* missed.  So a write to a full diode leaves the new message as the next    *)
(* one to be read.  The ring is the library github.com/cloudfoundry/diodes;  *)
(* the types of this repository wrap it.                                     *)
(***************************************************************************)
EXTENDS Naturals, Sequences

\* A diode: the messages the reader will get, and how many it will be told it
\* missed before the next one.
EmptyDiode == [queue |-> << >>, missed |-> 0]

\* Set, by any writer.
DiodeSet(d, size, x) ==
  IF Len(d.queue) < size
    THEN [d EXCEPT !.queue = Append(@, x)]
    ELSE [queue |-> <<x>>, missed |-> d.missed + size]

\* TryNext succeeds, Next returns: there is a message.
DiodeReady(d) == d.queue # << >>

\* What the reader gets, and the diode after that; the alert has been given.
DiodeHead(d) == Head(d.queue)
DiodeTail(d) == [queue |-> Tail(d.queue), missed |-> 0]
=============================================================================
