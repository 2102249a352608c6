SPECIFICATION Spec
CONSTANTS
    n1 = n1
    n2 = n2
    n3 = n3
    h1 = h1
    o1 = o1
    a1 = a1
    v1 = v1
    Names = {n1, n2}
    Hostnames = {h1}
    Addrs = {a1, v1, v2, srv}
    ServerIP = srv
    ClientSubnet = {a1, srv}
    ServiceSubnet = {v1, v2}
    Origins = {o1}
    PortSets = {{}}
    Ports = {p1}
    Databases <- GrantedOnly
    MaxId <- MCMaxId
    MaxClock = 4
    Requests = {r1, r2}
    Conns = {}
    MaxCommits = 2
    MaxFaults = 0
SYMMETRY Symmetry
INVARIANT IndexInSyncAtRest
CHECK_DEADLOCK FALSE
