SPECIFICATION Spec
CONSTANTS
    Questions <- MCQuestions
    PlannerArgs <- MCArgs
    LlmDsls <- MCLlm
    MaxRewrites = 1
    MaxFills = 1
INVARIANTS RowFilterOnce EngineResolves HistoryIsAskedFor
PROPERTIES AnswerIsUsed
