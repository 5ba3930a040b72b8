---- MODULE MCFinder ----
(***************************************************************************)
(* Instances of Finder.                                                     *)
(***************************************************************************)
EXTENDS Finder, TLC

CONSTANTS d1, d2, h1, h2

WebsocketOnly == <<"ws">>
Symmetry == Permutations({h1, h2})
====
