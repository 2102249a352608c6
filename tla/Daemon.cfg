SPECIFICATION DaemonSpec
CONSTANTS
    Origins = {o1, o2}
    o1 = o1
    o2 = o2
    Kind <- MCKind
    Calls = {c1}
    Sockets = {s1}
    NoSocket = NoSocket
    Dns = Dns
    Nothing = Nothing
    BadSocket = BadSocket
    Unreadable = Unreadable
    SignalSlots = 2
    MaxFiles = 2
    MaxKeys = 4
    MaxEdits = 1
INVARIANTS MigrationsRunOnce ServerKeyIsStable ClientFollowsConfiguration AnswersComeFromTheClient
PROPERTY ReloadsTakeEffect
CHECK_DEADLOCK FALSE
