-------------------------- MODULE MCRecipeLibrary --------------------------
(* Three settings: revisions that come, go back and are revoked; edits,       *)
(* imports and updates of the package; deletions among operations.            *)
EXTENDS RecipeLibrary

VARIABLE scenario

MCRevisions == {"r1", "r2", "r3", "scripts"}
MCRelease ==
    [rev \in MCRevisions |->
        [signed |-> TRUE, schema |-> "v1",
         draft |-> IF rev = "scripts" THEN [Profile(1) EXCEPT !.name = rev]
                   ELSE Draft(rev, "managed-container-v1")]]

MCDrafts ==
    {Draft("custom", "managed-container-v1"), Profile(1),
     [Draft("unpinned", "managed-container-v1") EXCEPT !.pinned = FALSE]}

MCInit == Init /\ scenario \in {"revisions", "edits", "deletions"}

MCNext ==
    /\ UNCHANGED scenario
    /\ Next
    /\ scenario = "revisions" =>
        /\ upgrades' = 0 /\ \A id \in Ids : work'[id] = "none"
        /\ asked' \subseteq {Community} /\ tombstones' = {}
        /\ \A i \in DOMAIN library' : library'[i].community # None
    /\ scenario = "edits" =>
        /\ feed' = <<>> /\ \A id \in Ids : work'[id] = "none"
    /\ scenario = "deletions" =>
        /\ feed' = <<>> /\ asked' \subseteq {Community}
        /\ \A q \in Requests : request'[q] # None => request'[q].revision \in {"r1", "r2"}
        /\ \A q \in Requests \ {1} : request'[q] = None
    /\ scenario # "revisions" => calls' <= 5
    /\ scenario # "edits" => package'.base = 1

MCSpec == MCInit /\ [][MCNext]_<<vars, scenario>>
MCFairSpec == MCSpec /\ Fairness
=============================================================================
