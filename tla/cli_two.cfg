CONSTANTS
    p1 = p1  p2 = p2
    a1 = a1  a2 = a2  a3 = a3  a4 = a4  a5 = a5  a6 = a6  s1 = s1  s2 = s2
    None = None
    Alerts = {a1, a2, a3, a4, a5, a6}
    Sources = {s1, s2}
    IdOf <- MCIdOf
    SourceOf <- MCSourceOf
    MjdOf <- MCMjdOf
    Procs = {p1, p2}
    Backfills = {p1}
    Kafka = {p2}
    Feed <- TwoFeeds
    Undecodable = {a6}
    Unstorable = {a5}
    BatchSize = 2
    Limits = {None, 2}
    MaxRuns = 2
SPECIFICATION FairSpec
INVARIANTS TypeOK TrackingExact CompletedStored IngestedCovers
PROPERTIES ImplementsAuditLog CommandEnds
CHECK_DEADLOCK FALSE
