\* Two files, one administrator; statements and stats fail, the process crashes.
SPECIFICATION Spec
CONSTANTS
    Path = {p1, p2}
    Admin = {a1}
    TwiceNamed = {p2}
    BatchLimit = 2
    DbMayFail = TRUE
    StatMayFail = TRUE
    MayCrash = TRUE
INVARIANTS
    TypeOK
    RetryAccounting
    UploadedInBucket
    NoLogLost
    SnapshotsNameTheirRow
PROPERTIES
    ImplementsLifecycle
