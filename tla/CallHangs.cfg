SPECIFICATION FairSpec
CONSTANTS
    k1 = k1  k2 = k2
    Main = Main
    NoCall = NoCall
    Calls = {k1, k2}
    MaxStarts = 1
    WaitsForConns = FALSE
    DockerFails = FALSE
    HostKills = TRUE
    QuietExit = FALSE
PROPERTIES TimeoutEndsCalls
