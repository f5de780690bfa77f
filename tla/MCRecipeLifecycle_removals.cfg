\* Containers that stay, saves that fail, and cleanups that are retried.
CONSTANTS
    None = None
    Managed = Managed
    Recipes = {a, b}
    Resources <- Owned
    Ephemeral <- Owned
    ClusterModes = {TRUE, FALSE}
    AutoRestarts = {}
    Starts = {"unloaded", "managed"}
    Requests = {"run", "stop", "abort", "cluster-abort", "retry", "late-retry"}
    Faults = {"prepare", "hook", "health", "remove", "engine", "state"}
    MaxOps = 3
    MaxCrashes = 0

\* The system stops when the bounds are used up and nobody calls.
CHECK_DEADLOCK FALSE
SPECIFICATION Spec
INVARIANTS
    OneBackend
    NothingIsOffTheRecord
