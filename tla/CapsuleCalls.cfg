SPECIFICATION FairSpec
CONSTANTS
    k1 = k1  k2 = k2
    Main = Main
    NoCall = NoCall
    Calls = {k1, k2}
    MaxStarts = 2
    WaitsForConns = TRUE
    DockerFails = TRUE
    HostKills = TRUE
    QuietExit = FALSE
INVARIANTS TypeOK ContextOwned TrackedNotRemoved
PROPERTIES StraysExplained EveryCallEnds
