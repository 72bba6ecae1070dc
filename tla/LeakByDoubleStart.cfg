SPECIFICATION Spec
CONSTANTS
    k1 = k1  k2 = k2
    Main = Main
    NoCall = NoCall
    Calls = {k1, k2}
    MaxStarts = 2
    WaitsForConns = FALSE
    DockerFails = FALSE
    HostKills = FALSE
    QuietExit = TRUE
INVARIANTS NoLeak
