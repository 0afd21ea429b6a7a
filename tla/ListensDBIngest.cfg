SPECIFICATION FairSpec
CONSTANTS
    Users = {1, 2}
    Times = {1, 2}
    Msids = {"m"}
    Sessions = {s1, s2}
    Ops = {"insert", "deletePending"}
    Batches <- TwoUserBatches
    InitListens <- SomeListens
    InsertBatchSize = 2
    RecalculateBatchSize = 1
    MaxNow = 2
    MaxRequests = 2
    MaxFailures = 1
    Null = Null
INVARIANTS ResolvedListensGone NoInsertDeleteDeadlock
PROPERTY RequestsResolved

CHECK_DEADLOCK FALSE
