SPECIFICATION Spec
CONSTANTS
    User = {u1, u2}
    Group = {g1}
    Key = {k1}
    BindingId = {b1}
    Profile = {f1}
    Name = {n1, n2}
    Grant = {r1}
    Setting = {v1}
    None = None
    Proc = {api}
    ClientIds = TRUE
    MaxOps = 2
    MaxLookups = 1
SYMMETRY Symmetry
INVARIANT GrantsCurrent
