SPECIFICATION FairSpec
CONSTANTS
    h1 = h1  h2 = h2
    r1 = r1  r2 = r2
    Nobody = Nobody
    HostCalls = {h1, h2}
    RtCalls = {r1, r2}
INVARIANTS TypeOK DisposedIsQuiet
PROPERTIES ImplementsCalls CallsServed
