\* A listing shows one row only, so a row can stay hidden behind an older one.
SPECIFICATION FairSpec
CONSTANTS
    Path = {p1, p2}
    Admin = {}
    TwiceNamed = {p2}
    BatchLimit = 1
    DbMayFail = FALSE
    StatMayFail = FALSE
    MayCrash = FALSE
PROPERTIES
    QueuedIsResolved
