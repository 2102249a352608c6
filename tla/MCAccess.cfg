SPECIFICATION StoreSpec
CONSTANTS
    Names = {n1, n2, n3}
    Hostnames = {h1, h2}
    Addrs = {a1, a2}
    Origins = {o1}
    PortSets = {{}}
    Ports = {p1}
    MaxId <- MCMaxId
    MaxClock = 2
SYMMETRY Symmetry
INVARIANTS LANModeIsMutual LoopFindsHighestId TypeOK KeysUnique NamesUnambiguous AddressesUnique RulesReferToLiveRows MembershipsReferToLiveRows OneRulePerPair
PROPERTIES FreshRowsStartDenied ScrubIsExact IdsNeverReused
CHECK_DEADLOCK FALSE
