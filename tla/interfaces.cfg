SPECIFICATION Spec
CONSTANTS
    SourceKinds = {"file", "fink", "spacerocks", "antares", "history", "mock"}
    Folders <- MCFolders
    Beside <- MCBeside
    Fixtures <- MCFixtures
    Rocks <- MCRocks
    Loci <- MCLoci
    MockCount = 5
    Limits = {NoLimit, 0, 1, 2}
    NoLimit = NoLimit
    None = None
    MaxFetches = 2
    Values = {0, 1}
    Times = {1, 2, 4}
    Absent = Absent
    BrokerTags = {"sso", "neo"}
    Creators = {c1, c2, c3}
    MaxOpenings = 4
    Table <- MCTable
    Listing <- MCListing
    Blank = Blank
    KnownCodes = {"X05"}
    Options <- MCOptions
    Fwhm = 100
    DefaultError = 20
    Exact = 8
    name1 = name1
    name2 = name2
INVARIANTS TypeOK FetchDelivers FiltersAgree SchemaComplete ExportsAgree
CHECK_DEADLOCK FALSE
