--------------------------- MODULE MCRecipeSafety ---------------------------
(* Two settings of the recipe lifecycle in one run: runs that fail or are   *)
(* aborted anywhere; the same with restarts of the daemon or the host.      *)
EXTENDS RecipeLifecycle

CONSTANTS a, b

VARIABLE scenario

Owned == {"backend", "proxy", "port"}

Failures == INSTANCE RecipeLifecycle WITH AutoRestarts <- {}, MaxCrashes <- 0

Restarts == INSTANCE RecipeLifecycle WITH Recipes <- {b}

MCInit == Init /\ scenario \in {"failures", "restarts"}

MCNext ==
    /\ UNCHANGED scenario
    /\ \/ scenario = "failures" /\ Failures!Next
       \/ scenario = "restarts" /\ Restarts!Next

MCSpec == MCInit /\ [][MCNext]_<<vars, scenario>>
=============================================================================
