CONSTANTS
    StepIds = {"s1", "s2", "s3", "s4"}
    LlmPlans <- MCLlmPlans
    Findings = {"f1"}
    MaxIterations = 11
    MaxRetries = 2
SPECIFICATION Spec
INVARIANTS PausedIsResumable PlansWithoutNoData AnswerHasRows DiagnosisHasSummary
PROPERTIES ComesToRest ContractKept
