\* Two revisions, one of them the recipe's, one what main resolves to.
CONSTANTS
    Revs = {"r1", "r2"}
    Wanted = "r1"
    Latest = "r2"
    None = "none"
    Distributed = TRUE
    MaxJobs = 2
    MaxOps = 2
    MaxRestarts = 1
\* The machine stops when the bounds are used up.
CHECK_DEADLOCK FALSE
SPECIFICATION MCSpec
INVARIANTS
    RunsOnVerifiedContent
    ShownIsWhole
    NothingIsLost
PROPERTIES
    DownloadsSettle
