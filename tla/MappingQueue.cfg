SPECIFICATION FairSpec
CONSTANTS
    Msids = {"old", "new"}
    Batches <- OldAndNewAtOnce
    Listened <- OldAndNew
    Legacy = {"old"}
    Now = 3
    Window = 2
    Day = 2
    MinimumDate = 0
    MaxThreads = 2
    MaxQueued = 2
    MaxFailures = 1
    MaxDue = 1
    None = None
PROPERTIES ListensMapped RowsRechecked
INVARIANT NoneForgotten
CHECK_DEADLOCK FALSE
