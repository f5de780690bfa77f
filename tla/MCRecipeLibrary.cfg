\* One community recipe with three revisions; a release of scripts is refused.
CONSTANTS
    Revisions <- MCRevisions
    Release <- MCRelease
    Drafts <- MCDrafts
    HistoryLimit = 3
    Requests = {1, 2}
    MaxCalls = 6
    MaxRevocations = 2
    MaxFails = 1
    MaxUpgrades = 1
    None = None
\* The users' calls are bounded.
CHECK_DEADLOCK FALSE
SPECIFICATION MCSpec
INVARIANTS
    RevocationHolds
    RollbackIsTheLastInstalled
    LibraryIsAsAsked
    LabelsAreEarned
