------------------------------ MODULE MCStartup -----------------------------
(***************************************************************************)
(* Every process with a sound configuration, and with each one that is a   *)
(* mistake or an option away from it.                                      *)
(***************************************************************************)
EXTENDS Startup

GoodConfig ==
    [required |-> TRUE, etcdTLS |-> "off", files |-> "good", ciphers |-> {"known"},
     interval |-> "positive", buffer |-> "usable", badPorts |-> {}, announce |-> TRUE, drains |-> TRUE, udp |-> TRUE, addrs |-> FALSE,
     securityLog |-> TRUE]

\* One mistake or one option at a time.
OneOff ==
    LET With(f, values) == {[GoodConfig EXCEPT ![f] = v] : v \in values}
    IN  UNION {With(f, BOOLEAN) : f \in {"required", "announce", "drains", "udp", "addrs", "securityLog"}}
          \cup With("etcdTLS", {"complete", "incomplete"})
          \cup With("files", {"no key pair", "bad ca", "not signed by ca", "no ca"})
          \cup With("ciphers", {{}, {"unknown"}, {"known", "unknown"}})
          \cup With("interval", {"absent", "zero", "huge"})
          \cup With("buffer", {"unusable"})
          \cup With("badPorts", {{port} : port \in AllPorts})

=============================================================================
