SPECIFICATION FairSpec
CONSTANTS
    None = None
    NoValue = None
    Arrivals <- FourAlerts
    BatchEnds = {2, 4}
    Clients = {analyst, runner}
    Analysts = {analyst}
    Runner = runner
    Configs <- TwoConfigs
    Plugins <- TwoPlugins
    Requests <- ThreeRequests
    Now = 10
    MaxCommands = 3
INVARIANTS TypeOK FilteredMatches CopyCovers SelectionsAgree BuiltinsAvailable BatchFollowsList ReportMatchesTable ResultsAreCurrent MinimoonProcessorAgrees
PROPERTY CommandsEnd
CHECK_DEADLOCK FALSE
