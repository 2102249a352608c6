SPECIFICATION Spec
CONSTANTS
    Width = 3
    Prefixes <- AllPrefixes
INVARIANTS LowestFreeOrNone
PROPERTIES SearchEnds
CHECK_DEADLOCK FALSE
