SPECIFICATION AdminSpec
CONSTANTS
    Requests = {r1, r2}
    Names = {a, b}
    Hostnames = {h1}
    h1 = h1
    v1 = v1
    n1 = n1
    NoText = NoText
    Addrs <- MCAddrs
    Origins <- MCOrigins
    PortSets = {{}, {p1}}
    MaxId <- MCMaxId
    MaxClock = 1
    MaxHandled = 4
    ClientSubnet = {0, 1, 2, 3}
    ServiceSubnet = {4, 5, 6}
    ServerIP = 1
    DefaultHostname <- MCDefault
    Lower <- MCLower
    Updates <- MCUpdates
SYMMETRY Symmetry
INVARIANTS HostServicesDeclarePorts NotFoundIsTrue
PROPERTY UpdateLeavesRestAlone ConflictsAreReal
CHECK_DEADLOCK FALSE
