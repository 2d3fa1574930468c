CONSTANTS
    Queries = {q1, q2}
    Glossaries = {g1}
    Analyses = {}
    Capacity = 2
    Permits = 2
    MaxStatements <- MCMaxStatements
    Busy = q1
    Closing = FALSE
    None = None
SPECIFICATION Spec
INVARIANT StatementsExclusive
CHECK_DEADLOCK FALSE
