-------------------------- MODULE MCRecipeRecords --------------------------
(* Four histories of the journal: any admissions, transitions and claims    *)
(* of three operations; the late cleanups of four, after one check; two,    *)
(* with checks that pass and fail next to edits, deletions, prunes and      *)
(* cleanup retries; and every call on one operation and one deletion, with  *)
(* community installs.                                                      *)
EXTENDS RecipeOps, TLC

CONSTANTS commit1, commit2, digest, Signed, only

VARIABLE scenario

Admissions ==
    INSTANCE RecipeOps WITH Revisions <- {only}, Verdicts <- {"pass"}

OneOperation ==
    INSTANCE RecipeOps WITH Community <- Signed, Verdicts <- {"pass"},
        Sources <- {commit1, commit2}, Images <- {digest}, Percents <- {0, 1}

\* The first operation is a check and the others are none; a run goes to its
\* last phase by way of a recovery.
LateCleanups ==
    /\ \/ /\ \/ \E recipe \in Recipes : Admissions!Lookup(recipe)
             \/ Admissions!Admit
             \/ Admissions!Work
          /\ Admissions!StillLate
       \/ Admissions!LateCleanup
    /\ \A i \in Live(doc') :
          LET op == doc'.operations[i] IN
          /\ op.kind = "check" <=> i = 1
          /\ op.phase \in {InitialPhase(op.kind), "active", "recovering", "failed",
                           IF i = 1 THEN "prepared" ELSE "stopping"}

MCInit ==
    \/ scenario \in {"admissions", "late cleanups"} /\ Admissions!Init
    \/ scenario \in {"evidence", "one operation"} /\ Init

MCNext ==
    /\ UNCHANGED scenario
    /\ \/ scenario = "admissions" /\ Admissions!Next /\ issued' <= 3 /\ disk'.tombstones = {}
       \/ scenario = "late cleanups" /\ LateCleanups
       \/ scenario = "evidence" /\ Next /\ issued' <= 2
       \/ scenario = "one operation" /\ OneOperation!Next /\ issued' <= 1

MCSpec == MCInit /\ [][MCNext]_<<vars, scenario>>

Interchangeable == Permutations(Recipes) \cup Permutations(Revisions)
=============================================================================
