-------------------------- MODULE MCGRPCConnector --------------------------
(***************************************************************************)
(* GRPCConnector for TLC: two consumers that compete for one slot and share *)
(* a doppler, or one consumer of two dopplers for the liveness property.    *)
(***************************************************************************)
EXTENDS GRPCConnector, TLC

CONSTANTS u1, u2, c1, c2, q1

OneUri == {u1}
OneConsumer == {c1}
TwoConsumers == {c1, c2}
OneQuery == {q1}

\* The consumers are interchangeable.
ConsumerSymmetry == Permutations(TwoConsumers)
=============================================================================
