SPECIFICATION Spec
CONSTANTS
    Contents = {1, 2}
    Recipes <- MCRecipes
    MaxCalls = 3
    MaxChanges = 1
    MaxFaults = 1
    MaxCrashes = 1
    MovedTags = TRUE
    None = None
INVARIANTS
    BootKeepsTheImage
CHECK_DEADLOCK FALSE
