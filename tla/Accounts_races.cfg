\* Two requests at a time; statements fail and the server is restarted.
SPECIFICATION Spec
CONSTANTS
    Id = {i1, i2}
    Email = {e1, e2}
    Key = {k1}
    Value = {v1}
    Request = {r1, r2}
    AdminEmail = e1
    Keep = Keep
    DbMayFail = TRUE
SYMMETRY RequestSymmetry
INVARIANTS
    TypeOK
    EmailsAreUnique
PROPERTIES
    HardDeleteIsFinal
