CONSTANTS
    MaxUid = 3
    Caller = {c1}
    Tools = {"duplicates"}
    Dest = {d1}
    MaxCalls = 1
    MaxClients = 1
    MaxFaults = 0
SPECIFICATION Spec
CHECK_DEADLOCK FALSE
INVARIANT MutatesNamedUids
