SPECIFICATION ImportersFairSpec
CONSTANTS
    Services = {"lastfm", "spotify"}
    PageSize = 2
    RecentLimit = 2
    MaxPlays = 4
    MaxTokens = 3
    MaxChanges = 3
    MaxErrors = 2
    Absent = Absent
INVARIANTS NoneSkipped
PROPERTIES PlaysArrive
