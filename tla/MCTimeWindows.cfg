SPECIFICATION WindowSpec
CONSTANTS
    AsOfDates <- MCAsOf
    Amounts = {1, 2, 5}
    LlmDates <- MCDates
    LlmRefs <- MCRefs
INVARIANTS WindowsOrdered PeriodsPair SpineCovers
