CONSTANTS
    StepIds = {"s1", "s2", "s3", "s4"}
    LlmPlans = {}
    Findings = {"f1"}
    MaxIterations = 24
    MaxRetries = 3
SPECIFICATION Spec
PROPERTY ReplanFollowsProgress
