\* No statement fails and nothing crashes: only orderly shutdowns and restarts.
SPECIFICATION FairSpec
CONSTANTS
    Path = {p1}
    Admin = {}
    TwiceNamed = {}
    BatchLimit = 1
    DbMayFail = FALSE
    StatMayFail = FALSE
    MayCrash = FALSE
PROPERTIES
    AttemptsConclude
