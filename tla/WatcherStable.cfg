CONSTANTS
    MaxUid = 3
    MaxValidity = 2
    NoFlags = noFlags
    NoMsg = noMsg
    FlagSets = {noFlags, seen}
    MaxNew = 2
    SizeGuard = 2
    SnapshotLimit = 1
    MaxEdits = 1
    MaxFaults = 0
SPECIFICATION StableSpec
INVARIANT TypeOK
INVARIANT NoReplay
INVARIANT AtMostOnce
INVARIANT NamesRealMessage
INVARIANT NoFalseMove
INVARIANT Tracked
PROPERTY FeedSpec
