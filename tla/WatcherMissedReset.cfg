CONSTANTS
    MaxUid = 2
    MaxValidity = 2
    NoFlags = noFlags
    NoMsg = noMsg
    FlagSets = {noFlags, seen}
    MaxNew = 1
    SizeGuard = 2
    SnapshotLimit = 1
    MaxEdits = 2
    MaxFaults = 0
SPECIFICATION RacingSpec
INVARIANT HighWaterOfGeneration
