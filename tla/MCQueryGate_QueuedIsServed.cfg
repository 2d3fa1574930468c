CONSTANTS
    Queries = {q1, q2}
    Glossaries = {g1, g2}
    Analyses = {}
    Capacity = 2
    Permits = 2
    MaxStatements <- MCMaxStatements
    Busy = q1
    Closing = FALSE
    None = None
SPECIFICATION Spec
PROPERTY QueuedIsServed
CHECK_DEADLOCK FALSE
