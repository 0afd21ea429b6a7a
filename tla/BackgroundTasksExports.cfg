SPECIFICATION Spec

CONSTANTS
    None = None
    Workers = {w1, w2}
    Kinds <- ExportsAndHistory
    Exports = {e1, e2}
    Imports = {}
    Services = {}
    MaxTasks = 3
    MaxListens = 1
    MaxFailures = 1
    SlowWorkers = FALSE

SYMMETRY Symmetry

INVARIANTS
    OneWorkerPerTask
    ExportHasTask
    LaterListensKept

\* The user may ask for nothing more.
CHECK_DEADLOCK FALSE
