----------------------------- MODULE MCDoppler ------------------------------
EXTENDS DopplerGRPC

Request(hasFilter, app, log, metric, shard) ==
    [hasFilter |-> hasFilter, app |-> app, log |-> log, metric |-> metric, shard |-> shard]

SomeRequests ==
    {Request(FALSE, "", FALSE, FALSE, "shard"), Request(FALSE, "", FALSE, FALSE, ""),
     Request(TRUE, "app", TRUE, FALSE, "")}

OneByOne == {{i} : i \in Streams} \cup {{"udp"}}

SomeContents ==
    {[app |-> "app", type |-> "log"], [app |-> "app", type |-> "metric"],
     [app |-> "", type |-> "metric"]}
=============================================================================
