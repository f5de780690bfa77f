\* A dependency, its dependant, and an application that comes with the system.
CONSTANTS
    research = research
    search = search
    hermes = hermes
    knowledge = knowledge
    tools = tools
    AppOrder <- MCAppOrder
    Deps <- MCDeps
    PackApps <- MCPackApps
    Preinstall = {hermes}
    Core = {hermes}
    Built = {research}
    MaxAsked = 3
    MaxFaults = 1
    MaxRestarts = 1
    MaxPin = 2
    MaxSaves = 2
    Sharers = {1, 2}
    None = None
\* The machine stops when the bounds are used up.
CHECK_DEADLOCK FALSE
SPECIFICATION MCSpec
INVARIANTS
    AppsAreAsAsked
    PacksAreWhole
    ConfigIsApplied
PROPERTIES
    JobsEnd
