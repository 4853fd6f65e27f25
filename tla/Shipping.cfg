\* Hour 0 has a name of its own: Writes may be held up, and opens, writes and stats
\* fail.  Hour 2 has the name of hour 1, and is steady: its file can be opened,
\* written and stat'ed.
SPECIFICATION ShippingSpec
CONSTANTS
    Writer = {w1}
    LastHour = 2
    File = {0, 1}
    NameOf <- RepeatNames
    NoFile = NoFile
    Nobody = Nobody
    OpenMayFail = TRUE
    Admin = {a1}
    BatchLimit = 2
    DbMayFail = TRUE
    StatMayFail = TRUE
    WriteMayFail = TRUE
    MayCrash = TRUE
    Steady = {2}
INVARIANTS
    NoLineLost
PROPERTIES
    RemovedNamesRetire
