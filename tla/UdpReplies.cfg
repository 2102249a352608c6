SPECIFICATION Spec
CONSTANTS
    Keys = {k1}
    Endpoints = {e1, e2}
    Handlers = {h1}
    Sessions = {s1}
    None = None
    Timeout = 2
SYMMETRY Symmetry
INVARIANTS RepliesReachTheClient
CHECK_DEADLOCK FALSE
