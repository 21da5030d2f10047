SPECIFICATION Spec
CONSTANTS
    User = {u1, u2}
    Group = {g1}
    Key = {k1}
    BindingId = {b1, b2}
    Profile = {f1}
    Name = {n1, n2}
    Grant = {r1}
    Setting = {v1}
    None = None
    Proc = {api, mcp}
    ClientIds = FALSE
    MaxOps = 3
    MaxLookups = 1
SYMMETRY Symmetry
INVARIANTS TypeOK FileSound EndedKeysRefused GrantsCurrent
PROPERTIES SavesAreSerial
