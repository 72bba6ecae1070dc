SPECIFICATION BSpec
CONSTANTS
    c1 = c1  i1 = i1
    s1 = s1  s2 = s2
    t1 = t1  t2 = t2
    rd = rd  wr = wr
    g = g  h = h  bad = bad
    p1 = p1  p2 = p2
    NoScope = NoScope
    NoSession = NoSession
    Malformed = {}
    MaxTTL = 3
    Requests = {p1}
    Scopes <- OneSessionScopes
    Manifest <- OneSession
    Params <- OneSessionParams
    BadParams <- BadCalls
    Registered = {g}
    MaxTime = 0
    MaxAsks = 1
PROPERTIES LiveWhenUsed
