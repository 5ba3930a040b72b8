---- MODULE MCMetron ----
(***************************************************************************)
(* Instances of Metron.                                                      *)
(***************************************************************************)
EXTENDS Metron

CONSTANT c1

Inputs == <<2, 1>>
V1AndV2Writers == <<{"udp", "emitter"}, {"transponder"}>>
====
