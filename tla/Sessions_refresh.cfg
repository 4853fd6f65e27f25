\* One account signs in and asks for a new pair; no statement fails.
SPECIFICATION SessionSpec
CONSTANTS
    Id = {i1}
    Email = {e1}
    Key = {}
    Value = {}
    Request = {r1}
    AdminEmail = e1
    Keep = Keep
    DbMayFail = FALSE
    Client = {c1}
    Elsewhere = {}
    Claims <- SessionClaims
    NoClaims = NoClaims
    AccessTTL = 1
    RefreshTTL = 2
    Configured = {TRUE}
    MaxClock = 2
    MaxKid = 9
    MaxIssued = 4
PROPERTIES
    RefreshTokensWork
