CONSTANTS
    Requests = {r1, r2, r3}
    Workers = {w1}
    u1 = u1
    u2 = u2
    s1 = s1
    s2 = s2
    Users = {u1, u2}
    Sessions = {s1, s2}
    Callers <- MCCallers
    MaxSessions = 1
    HistoryTurns = 1
    Durable = FALSE
    MaxInFlight = 2
    None = None
SPECIFICATION Spec
INVARIANT ClearedStaysCleared
SYMMETRY Symmetry
CHECK_DEADLOCK FALSE
