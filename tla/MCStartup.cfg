SPECIFICATION StartupSpec
CONSTANTS
    Processes = {"doppler", "trafficcontroller", "metron", "rlp", "syslog_drain_binder"}
    Configs <- OneOff
INVARIANT
    AnnouncedIsSound
PROPERTY
    NeverHalfUp
CHECK_DEADLOCK FALSE
