---- MODULE MCDrainBinding ----
(***************************************************************************)
(* Instances of AppServiceStore.                                            *)
(***************************************************************************)
EXTENDS AppServiceStore

CONSTANTS b1, b2, a1, a2, u1, u2

TwoPages == <<a1, a2>>
Kinds == [u \in {u1, u2} |-> IF u = u1 THEN "plain" ELSE "v2"]
Moves == (a1 :> {[host |-> "h1", urls |-> {u1}], [host |-> "h2", urls |-> {u1, u2}]}) @@ (a2 :> {})
====
