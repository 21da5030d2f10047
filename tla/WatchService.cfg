CONSTANTS
    Watch = {w1, w2}
    Tenant = {t1, t2}
    Watched = {t1}
    Caller = {c1, c2}
    Kind = {k1}
    Choking = {k1}
    None = none
    MaxChanges = 1
SPECIFICATION FairSpec
INVARIANT TypeOK
INVARIANT TenantsApart
INVARIANT RegistryAgrees
INVARIANT ListFindsAll
INVARIANT NoneMissed
PROPERTY EventuallyFed
PROPERTY FeedSpec
