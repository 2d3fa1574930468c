CONSTANTS
    Requests = {r1, r2}
    MaxSteps = 3
    MaxRewrites = 3
    MaxEntities = 2
    None = None
SPECIFICATION Spec
INVARIANT PlansOnOwnContext
CHECK_DEADLOCK FALSE
