---- MODULE MCSinkManager ----
(***************************************************************************)
(* Instances of SinkManager: one drain URL and one that is refused; one      *)
(* websocket of each kind.                                                   *)
(***************************************************************************)
EXTENDS SinkManager

CONSTANTS drain, refused, ws, firehose

PlainUrls == {drain, refused}
RefusedUrls == {refused}
Itself == [u \in Urls |-> u]

\* How many sinks are made of each identifier.
MadeClients == [k \in Keys |-> 1]
MadeDrains == [k \in Keys |-> IF k = drain THEN 2 ELSE IF k = refused THEN 0 ELSE 1]
====
