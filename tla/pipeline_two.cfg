CONSTANTS
    p1 = p1  p2 = p2  a1 = a1  a2 = a2  a3 = a3  a4 = a4  a5 = a5  s1 = s1  s2 = s2
    None = None  Begun = Begun  Newest = Newest
    Alerts = {a1, a2, a3, a4, a5}
    Sources = {s1, s2}
    IdOf <- MCIdOf
    SourceOf <- MCSourceOf
    MjdOf <- MCMjdOf
    Procs = {p1, p2}
    Kafka = {p2}
    Feed <- TwoFeeds
    Undecodable = {}
    Unstorable = {a5}
    Options <- LimitedOptions
    AutoCommit = TRUE
    Thresholds = {6}
    MaxRuns = 1
SPECIFICATION Spec
INVARIANTS TrackingCoversLog CountCoversRows RunAccounting
PROPERTIES AuditTrail ImplementsAuditLog
CHECK_DEADLOCK FALSE
