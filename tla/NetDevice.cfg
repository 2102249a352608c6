SPECIFICATION NetDeviceSpec
CONSTANTS
    Peers = {p1, p2}
    Stacks = {s1}
    QueueSlots = 2
INVARIANTS OneStragglerPerRevocation NoPacketStranded
PROPERTY WritesReturn
CHECK_DEADLOCK FALSE
