SPECIFICATION Spec
CONSTANTS
    c1 = c1  c2 = c2
    i1 = i1  i2 = i2  i3 = i3
    s1 = s1  s2 = s2
    t1 = t1  bad = bad
    rd = rd  wr = wr
    p1 = p1  p2 = p2
    NoScope = NoScope
    Malformed = {bad}
    MaxTTL = 3
    Requests = {p1, p2}
    Scopes <- RivalScopes
    MaxTime = 1
    MaxAsks = 2
INVARIANTS ExclusiveHolder
