SPECIFICATION Spec
CONSTANTS
    n1 = n1
    n2 = n2
    n3 = n3
    h1 = h1
    o1 = o1
    a1 = a1
    v1 = v1
    Names = {n1, n2, n3}
    Hostnames = {h1}
    Addrs = {a1, v1, v2, srv}
    ServerIP = srv
    ClientSubnet = {a1, srv}
    ServiceSubnet = {v1, v2}
    Origins = {o1}
    PortSets = {{}, {p1}}
    Ports = {p1, p2}
    Databases <- GrantedOnly
    MaxId <- MCMaxId
    MaxClock = 4
    Requests = {r1}
    Conns = {c1}
    MaxCommits = 2
    MaxFaults = 0
INVARIANTS GatewayTypeOK IndexInSyncAtRest PeersInSyncAtRest OnlyStraddlersSurvive
PROPERTIES ImplementsPublication RevokedFlowsLeave
CHECK_DEADLOCK FALSE
