\* Two tabs, two sign-ins; rotations and restarts, with and without RSA keys.
SPECIFICATION FairConsoleSpec
CONSTANTS
    Role = {"admin"}
    Claims <- ConsoleClaims
    NoClaims = NoClaims
    Tab = {t1, t2}
    AccessTTL = 1
    RefreshTTL = 2
    Configured = {TRUE, FALSE}
    MaxClock = 1
    MaxKid = 4
    MaxIssued = 2
INVARIANTS
    ConsoleTypeOK
    StaysValid
PROPERTIES
    RefusalIsFinal
    EveryVisitSettles
