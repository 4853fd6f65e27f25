\* Three hours, of which the first two share a name.
SPECIFICATION FairSpec
CONSTANTS
    Writer = {w1, w2}
    LastHour = 2
    File = {0, 1, 2}
    NameOf <- RepeatNames
    NoFile = NoFile
    Nobody = Nobody
    OpenMayFail = TRUE
INVARIANTS
    TypeOK
    LineInItsHour
    HandedOverIsFinal
PROPERTIES
    WritesReturn
    ClosedIsHandedOver
