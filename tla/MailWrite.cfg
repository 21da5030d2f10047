CONSTANTS
    MaxUid = 2
    Caller = {c1, c2}
    Tools = {"move", "delete", "seen"}
    Dest = {d1, d2}
    MaxCalls = 2
    MaxClients = 2
    MaxFaults = 1
SPECIFICATION ByUidSpec
CHECK_DEADLOCK FALSE
INVARIANT TypeOK
INVARIANT NothingLost
INVARIANT MovedIsKept
INVARIANT MutatesNamedUids
