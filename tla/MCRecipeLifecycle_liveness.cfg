\* Every call, every fault and a restart: whatever happens, it ends.
CONSTANTS
    None = None
    Managed = Managed
    Recipes = {b}
    Resources <- Owned
    Ephemeral <- Owned
    ClusterModes = {FALSE}
    AutoRestarts = {TRUE}
    Starts = {"managed"}
    Requests = {"run", "stop", "idle-stop", "abort", "late-abort", "retry", "late-retry"}
    Faults = {"prepare", "hook", "health", "remove", "engine", "journal", "state"}
    MaxOps = 2
    MaxCrashes = 1

\* The system stops when the bounds are used up and nobody calls.
CHECK_DEADLOCK FALSE
SPECIFICATION FairSpec
PROPERTIES
    EveryTaskEnds
