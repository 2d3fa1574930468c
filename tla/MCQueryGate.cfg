CONSTANTS
    Queries = {q1, q2}
    Glossaries = {g1}
    Analyses = {a1}
    Capacity = 2
    Permits = 1
    MaxStatements <- MCMaxStatements
    Busy = q1
    Closing = TRUE
    None = None
SPECIFICATION Spec
INVARIANTS TypeOK ConnectionsAccounted GateHolds
PROPERTY RequestsFinish
CHECK_DEADLOCK FALSE
