CONSTANTS
    MaxUid = 2
    MaxValidity = 2
    NoFlags = noFlags
    NoMsg = noMsg
    FlagSets = {noFlags, seen}
    MaxNew = 1
    SizeGuard = 1
    SnapshotLimit = 1
    MaxEdits = 1
    MaxFaults = 1
SPECIFICATION FairSpec
INVARIANT HighWaterCoversKnown
INVARIANT HighWaterOfGeneration
 
PROPERTY ArrivalsReported
