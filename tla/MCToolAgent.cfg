CONSTANTS
    Requests = {r1}
    MaxSteps = 4
    MaxRewrites = 1
    MaxEntities = 5
    None = None
SPECIFICATION Spec
INVARIANTS WorkBounded FailureStops LastCallDecides ExportFollowsQuery
PROPERTY RunsEnd
CHECK_DEADLOCK FALSE
