\* A sign-in next to requests on accounts, which anybody with a token signed with the
\* HMAC key may make; two accounts, one after the other, and a restart.
SPECIFICATION SessionSpec
CONSTANTS
    Id = {i1, i2}
    Email = {e1}
    Key = {}
    Value = {}
    Request = {r1}
    AdminEmail = e1
    Keep = Keep
    DbMayFail = TRUE
    Client = {c1}
    Elsewhere <- SessionClaims
    Claims <- SessionClaims
    NoClaims = NoClaims
    AccessTTL = 1
    RefreshTTL = 2
    Configured = {TRUE}
    MaxClock = 3
    MaxKid = 2
    MaxIssued = 2
SYMMETRY IdSymmetry
INVARIANTS
    SessionTypeOK
    HandedOutIsRecent
    PairsAreStored
