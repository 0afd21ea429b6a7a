SPECIFICATION StatsFairSpec
CONSTANTS
    a = a
    b = b
    c = c
    Users = {a, b, c}
    Readers = {b}
    FullRuns <- Turns
    MaxRuns = 2
    MaxErrors = 1
    Absent = Absent
    None = None
PROPERTIES StatsStay LockedKept AnswersNotOlder MessagesSettled
CHECK_DEADLOCK FALSE
