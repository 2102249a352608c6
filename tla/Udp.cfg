SPECIFICATION Spec
CONSTANTS
    Keys = {k1}
    Endpoints = {e1}
    Handlers = {h1, h2}
    Sessions = {s1, s2}
    None = None
    Timeout = 0
INVARIANTS PumpsOwnTheirSessions OpenSessionsAreRevocable OnlyStraddlersSurvive
PROPERTIES RevokedSessionsEnd IdleSessionsExpire
CHECK_DEADLOCK FALSE
