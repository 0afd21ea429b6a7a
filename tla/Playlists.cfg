SPECIFICATION Spec
CONSTANTS
    Users = {u1, u2}
    Bot = bot
    Requests = {q1, q2}
    Mbids = {"a", "b"}
    Payloads <- OneAlbum
    MaxPlaylists = 2
    MaxTracks = 4
    MaxRequests = 2
    Absent = Absent
    Unknown = Unknown
INVARIANTS PositionsContiguous
PROPERTIES JamsReplaced ListsAsAsked

SYMMETRY Symmetry
CHECK_DEADLOCK FALSE
