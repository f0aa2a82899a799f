CONSTANTS
    None = None
    MaxDepth = 3
    MaxSessions = 3
    MaxWrites = 2

INIT Init
NEXT Next

INVARIANTS
    TypeOK
    SessionScope

CHECK_DEADLOCK FALSE
