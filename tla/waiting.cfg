SPECIFICATION FairSpec
CONSTANTS
    r1 = r1
    r2 = r2
    r3 = r3
    p1 = p1
    p2 = p2
    d1 = d1
    d2 = d2
    d3 = d3
    s1 = s1
    s2 = s2
    c1 = c1
    c2 = c2
    c3 = c3
    Request = {r1, r2, r3}
    Provider = {p1}
    Dataset = {d1, d2, d3}
    Structure = {s1, s2}
    Cell = {c1, c2}
    Call <- WaitingCalls
    LockOf <- Collision
    MaxConns = 2
    BatchSize = 1
PROPERTIES
    EveryRequestEnds
