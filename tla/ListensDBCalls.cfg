SPECIFICATION Spec
CONSTANTS
    Users = {1}
    Times = {1, 2}
    Msids = {"m"}
    Sessions = {s1, s2}
    Ops = {"insert", "deletePending", "deleteUser", "deleteAccount", "addMissing", "recalculate"}
    Batches <- OneUserBatches
    InitListens <- UserOneListens
    InsertBatchSize = 1
    RecalculateBatchSize = 1
    MaxNow = 1
    MaxRequests = 1
    MaxFailures = 1
    Null = Null
SYMMETRY Symm
INVARIANTS CountsInductive CountsRight BoundsRight
CHECK_DEADLOCK FALSE
