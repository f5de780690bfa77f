-------------------------- MODULE MCRecipeEvidence --------------------------
(* Recipes from the registry, built and in a container, on one Spark and on two. *)
EXTENDS RecipeEvidence

MCRecipes ==
    {[adapter |-> a, nodes |-> n, sourced |-> a # "managed"] :
        a \in {"registry", "build", "managed"}, n \in 1..2}
    \cup {[adapter |-> "registry", nodes |-> 1, sourced |-> FALSE]}
=============================================================================
