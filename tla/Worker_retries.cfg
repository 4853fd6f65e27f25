\* Two administrators, and nothing that fails.
SPECIFICATION Spec
CONSTANTS
    Path = {p1}
    Admin = {a1, a2}
    TwiceNamed = {}
    BatchLimit = 1
    DbMayFail = FALSE
    StatMayFail = FALSE
    MayCrash = FALSE
PROPERTIES
    ResetOnlyGivenUp
