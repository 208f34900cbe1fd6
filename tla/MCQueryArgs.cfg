CONSTANTS
    IntBits = 8
    UintBits = 6
    QueryDefaultLimit = 5
    QueryMaxLimit = 5
    MaxQuerySize = 5
    MaxNamespaces = 3

SPECIFICATION Spec

INVARIANTS
    ParsedArgsMatchReference

CHECK_DEADLOCK FALSE
