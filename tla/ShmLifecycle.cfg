SPECIFICATION SpecLifecycle
CONSTANTS
    Clients = {c1, c2, c3}
    NoOne = NoOne
INVARIANTS
    SessionsApart
CHECK_DEADLOCK FALSE
