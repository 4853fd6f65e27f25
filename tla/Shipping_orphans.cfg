\* Orderly shutdowns and restarts only.
SPECIFICATION FairShippingSpec
CONSTANTS
    Writer = {w1}
    LastHour = 1
    File = {0, 1}
    NameOf <- HourNames
    NoFile = NoFile
    Nobody = Nobody
    OpenMayFail = FALSE
    Admin = {}
    BatchLimit = 1
    DbMayFail = FALSE
    StatMayFail = FALSE
    WriteMayFail = FALSE
    MayCrash = FALSE
    Steady = {0, 1}
PROPERTIES
    LogFilesAreQueued
