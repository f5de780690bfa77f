\* Runs that fail or are aborted anywhere, and restarts.
CONSTANTS
    a = a
    b = b
    None = None
    Managed = Managed
    Recipes = {a, b}
    Resources <- Owned
    Ephemeral <- Owned
    ClusterModes = {TRUE, FALSE}
    AutoRestarts = {TRUE, FALSE}
    Starts = {"unloaded", "managed"}
    Requests = {"run", "stop", "abort"}
    Faults = {"prepare", "hook", "health"}
    MaxOps = 3
    MaxCrashes = 2
\* The system stops when the bounds are used up and nobody calls.
CHECK_DEADLOCK FALSE
SPECIFICATION MCSpec
INVARIANTS
    SelectionIsServedAfterFailures
    FilesAgree
