SPECIFICATION FairSpec
CONSTANTS
    c1 = c1
    c2 = c2
    w1 = w1
    w2 = w2
    Clients = {c1, c2}
    Batch <- OverlappingBatches
    Writers = {w1}
    MessageSize = 2
    RecentMax = 1
    MaxFailures = 2
    MaxMessages = 4
    None = None
INVARIANTS AcceptedNotLost FailedWriteStillReported AnnouncedOnce NewestAreThere
PROPERTIES DeliverySpec MessagesSettled
CHECK_DEADLOCK FALSE
