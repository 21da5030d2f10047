CONSTANTS
    Watch = {w1, w2}
    Tenant = {t1}
    Watched = {t1}
    Caller = {c1}
    Kind = {k1}
    Choking = {}
    None = none
    MaxChanges = 1
SPECIFICATION Spec
INVARIANT CaptureNeverRaises
