SPECIFICATION PageSpec
CONSTANTS
    MaxStreams = 3
    MaxRetries = 1
    Null = Null
INVARIANTS ThreadsApart
PROPERTIES SubmissionEnds
CHECK_DEADLOCK FALSE
