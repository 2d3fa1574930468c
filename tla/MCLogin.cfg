SPECIFICATION LoginSpec
CONSTANTS
    Keys = {k1}
    Attempts = {a1, a2, a3}
    Ids = {i1, i2}
    MaxFailures = 2
    MaxDelay = 3
    MaxExponent = 2
    SessionTtl = 2
    Persistent = TRUE
    SessionsKept = TRUE
    None = None
PROPERTIES LockHolds LockEnds
