SPECIFICATION Spec
CONSTANTS
    Users = {u, v}
    Handlers = {g, h}
    Kinds = {"recommendation", "personal", "thanks", "notification", "pin", "follow"}
    Lengths = {9}
    Count = 1
    MaxNow = 3
    MaxFailures = 1
    None = None
INVARIANTS OnePin PinsReadable
PROPERTIES FeedExact HiddenMarked
SYMMETRY Symmetry
CHECK_DEADLOCK FALSE
