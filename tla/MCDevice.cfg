\* Three releases on two channels; updates, checks and qualification rollbacks
\* with one kill of the worker or one switch of the channel anywhere. Two
\* outputs, two changes of the layout, two failures, a hotplug and a restart.
CONSTANTS
    MaxRelease = 3
    FirstStable = 3
    MaxSwitches = 1
    MaxKills = 1
    Changes <- MCChanges
    GatesOf <- MCGates
    Outputs = {"A", "B"}
    Requests = {1, 2}
    None = None
    MaxAttempts = 2
    MaxCalls = 2
    MaxFaults = 2
    MaxPlugs = 1
    MaxRestarts = 1
\* The machine stops when the bounds are used up.
CHECK_DEADLOCK FALSE
SPECIFICATION MCSpec
INVARIANTS
    UpdatedIsInstalledAndKept
    RollbackRestoresWhatWasKept
    InstallsWhatWasVerified
PROPERTIES
    InstallingEnds
    ScreenIsAsConfirmed
