SPECIFICATION FairSpec
CONSTANTS
    Workers = {"v", "w"}
    Results <- TwoAndNone
    MaxFailures = 3
INVARIANTS ResultsNotLost HandledInOrder
PROPERTIES EndedStays JobsSettle
\* All jobs may have ended.
CHECK_DEADLOCK FALSE
