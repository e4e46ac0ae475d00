SPECIFICATION FairSpec
CONSTANTS
    v1 = v1
    v2 = v2
    v3 = v3
    Values = {v1, v2, v3}
    WatchSpecs <- ManySpecs
    MaxVersions = 3
INVARIANT IInv
INVARIANT NoSpuriousEvent
INVARIANT OneLateEvent
INVARIANT PoolAccounted
INVARIANT WatchNeverWrites
PROPERTY CancelDrains
PROPERTY Reported
