------------------------- MODULE MCRecipeLifecycle -------------------------
(* Small instances of the recipe lifecycle for TLC.                         *)
EXTENDS RecipeLifecycle

Owned == {"backend", "proxy", "port"}
=============================================================================
