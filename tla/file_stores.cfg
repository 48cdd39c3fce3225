SPECIFICATION StoreSpec
CONSTANTS
    s1 = s1
    s2 = s2
    ssoA = ssoA
    None = None
    Procs = {p1, p2}
    Stream <- FourMessages
    BatchSize = 2
    MaxStarts = 2
    MaxFaults = 1
    Shape <- ThreeShapes
    KeyColumn = 2
    Files = {f1, f2}
    FlushAt = 2
    MaxFailures = 1
    CutAlerts <- ThreeCutouts
    Kinds <- TwoKinds
    Writers = {w1, w2}
    Days = 1
    MaxClock = 3
    Nowhere = Nowhere
INVARIANTS TypeOK NoSilentLoss  RowsOnce  LockExcludes DynamicReadsBack RecordsKept PathsHold GoodStampsSaved
PROPERTY MergedOnce
SYMMETRY Symmetry
CHECK_DEADLOCK FALSE
