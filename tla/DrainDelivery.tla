---------------------------- MODULE DrainDelivery ---------------------------
(***************************************************************************)
(* What a drain is promised: the messages its sink takes are delivered one *)
(* at a time, in the order they came, each once.  The sink may end at any  *)
(* moment; what is then pending is lost, and nothing is delivered later.   *)
(***************************************************************************)
EXTENDS Naturals, Sequences

VARIABLES pending,    \* messages not yet delivered
          delivered,  \* the messages the drain has
          ended       \* the sink has ended

deliveryVars == <<pending, delivered, ended>>

Init ==
    /\ pending \in Seq(Nat) /\ delivered = <<>>
    /\ ended \in BOOLEAN

Deliver ==
    /\ ~ended /\ pending # <<>>
    /\ delivered' = Append(delivered, Head(pending))
    /\ pending' = Tail(pending)
    /\ UNCHANGED ended

End ==
    /\ ~ended /\ ended' = TRUE
    /\ UNCHANGED <<pending, delivered>>

Spec == Init /\ [][Deliver \/ End]_deliveryVars

=============================================================================
