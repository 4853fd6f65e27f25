\* A PATCH and a deactivation of the same account at the same time.
SPECIFICATION Spec
CONSTANTS
    Id = {i1}
    Email = {e1}
    Key = {k1, k2}
    Value = {v1}
    Request = {r1, r2}
    AdminEmail = e1
    Keep = Keep
    DbMayFail = TRUE
PROPERTIES
    DeactivationHolds
