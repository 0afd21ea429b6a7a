SPECIFICATION FairSpec

CONSTANTS
    None = None
    Workers = {w1, w2}
    Kinds <- ImportsAndAccount
    Exports = {}
    Imports = {i1, i2}
    Services = {s1}
    MaxTasks = 2
    MaxListens = 0
    MaxFailures = 1
    SlowWorkers = FALSE

INVARIANTS
    CancelledNotImported

PROPERTIES
    FinishedImportsStay
    TasksSettle

\* The user may ask for nothing more.
CHECK_DEADLOCK FALSE
