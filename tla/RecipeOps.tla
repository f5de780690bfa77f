----------------------------- MODULE RecipeOps -----------------------------
(***************************************************************************)
(* The durable recipe-operation journal of cloudlessd                      *)
(* (internal/recipeops/operation.go) with the recipe store it calls back   *)
(* into while it holds its lock (internal/localrecipes/store.go).          *)
(*                                                                         *)
(* Every method of the Go Store runs under one mutex, so each is one       *)
(* action.  The store has two copies: the document in memory and the file. *)
(* A mutator changes the memory, saves, and undoes its change when the     *)
(* save fails.  A crash forgets the memory and reads the file again.       *)
(*                                                                         *)
(* Abstracted: identifiers are numbers in creation order (CreatedAt),      *)
(* UpdatedAt is left out, an artifact keeps its verdicts and not its       *)
(* hashes, and the checkpoint list keeps the one entry the code reads back *)
(* (the last phase that is not "recovering").                              *)
(***************************************************************************)
EXTENDS Naturals, FiniteSets, RecipePhases

CONSTANTS
    Recipes,      \* recipe ids
    Community,    \* the ones installed from the signed community catalogue
    Revisions,    \* executable revisions of a recipe (RecipeRevision)
    CheckIds,     \* ids of preflight checks
    Verdicts,     \* outcomes a check can record, of Statuses
    Sources,      \* resolved Git object ids
    Images,       \* prepared image identities
    Percents,     \* overall progress values
    Causes,       \* classes of error an operation can end with
    MaxOps,       \* bound: how many operations are ever begun
    None          \* the unset value of an optional field

Statuses == {"pass", "fail", "warning", "unknown"}

ASSUME CommunityAssumption == Community \subseteq Recipes
ASSUME VerdictsAssumption == Verdicts \subseteq Statuses
ASSUME PercentsAssumption == Percents \subseteq Nat
ASSUME MaxOpsAssumption == MaxOps \in Nat

VARIABLES
    doc,       \* the document in memory
    disk,      \* the document in recipe-operations/index.json
    issued,    \* how many operation ids were ever drawn
    library,   \* recipes/index.json: the stored revision of each recipe
    hidden,    \* the stored recipes with TombstonedAt set
    held,      \* <<recipe, revision>> pairs read by handlers and not used yet
    late       \* history: operations in progress again after they were over

vars == <<doc, disk, issued, library, hidden, held, late>>

-----------------------------------------------------------------------------
(* Types *)

OpIds == 1..MaxOps

Artifacts == [recipe : Recipes, revision : Revisions,
              source : Sources \cup {None},
              runnable : BOOLEAN, launchable : BOOLEAN]

Operations ==
    [kind : Kinds, recipe : Recipes, revision : Revisions,
     phase : Phases, interrupted : Phases,
     claims : SUBSET Resources,
     checks : [CheckIds -> Verdicts \cup {None}],
     preflight : Artifacts \cup {None},
     source : Sources \cup {None}, image : Images \cup {None},
     percent : Percents \cup {None}, error : Causes \cup {None}]

ASSUME NoneAssumption == None \notin Operations

Documents == [operations : [OpIds -> Operations \cup {None}],
              tombstones : SUBSET Recipes]

-----------------------------------------------------------------------------
(* Documents *)

Live(d) == {i \in OpIds : d.operations[i] # None}

Put(d, i, op) == [d EXCEPT !.operations[i] = op]

\* Fault: the memory keeps what could not be saved.
FaultySave(next) == doc' = next /\ disk' \in {disk, next}

\* saveLocked replaces the file in one rename, so a save happens or does not;
\* when it does not, the caller restores the memory and reports the error.
Save(next) ==
    \/ doc' = next /\ disk' = next
    \/ UNCHANGED <<doc, disk>>

Blocked(d, recipe) ==
    \E i \in Live(d) : d.operations[i].recipe = recipe
                       /\ BlocksMutation(d.operations[i])

-----------------------------------------------------------------------------
(* Preflight evidence *)

NewPreflight(op) ==
    LET recorded == {op.checks[c] : c \in CheckIds} \ {None}
        runnable == recorded # {} /\ recorded \cap {"fail", "unknown"} = {}
    IN [recipe |-> op.recipe, revision |-> op.revision, source |-> op.source,
        runnable |-> runnable, launchable |-> runnable /\ recorded = {"pass"}]

\* Fault: the revision is not compared.
FaultyRunnableChecks(d, recipe, revision) ==
    {i \in Live(d) :
        LET op == d.operations[i] IN
        CheckedOut(op) /\ op.recipe = recipe /\ op.preflight # None /\ op.preflight.runnable}

\* Checks whose evidence admits a run of this exact revision.
RunnableChecks(d, recipe, revision) ==
    {i \in Live(d) :
        LET op == d.operations[i] IN
        /\ CheckedOut(op)
        /\ op.recipe = recipe /\ op.revision = revision
        /\ op.preflight # None /\ op.preflight.runnable}

Newest(ids) == CHOOSE i \in ids : \A j \in ids : j <= i

-----------------------------------------------------------------------------
(* Operations of the journal *)

NewOperation(kind, recipe, revision, preflight) ==
    [kind |-> kind, recipe |-> recipe, revision |-> revision,
     phase |-> InitialPhase(kind), interrupted |-> InitialPhase(kind),
     claims |-> {}, checks |-> [c \in CheckIds |-> None],
     preflight |-> preflight, source |-> None, image |-> None,
     percent |-> None, error |-> None]

Admissible(kind, recipe) ==
    /\ recipe \notin doc.tombstones
    /\ \A i \in Live(doc) : ~BlocksAdmission(doc.operations[i], kind)

\* BeginUnique and BeginRunValidatedWithPrevious.  The caller passes a recipe
\* it read before it got the lock.
Begin(kind, recipe, revision) ==
    LET evidence == RunnableChecks(doc, recipe, revision)
        preflight == IF kind = "run"
                     THEN doc.operations[Newest(evidence)].preflight ELSE None
        begun == Put(doc, issued + 1, NewOperation(kind, recipe, revision, preflight))
    IN /\ issued < MaxOps
       /\ Admissible(kind, recipe)
       /\ kind = "run" => evidence # {}
       /\ Save(begun)
       /\ issued' = IF doc' = begun THEN issued + 1 ELSE issued

Change(i, op) == i \in Live(doc) /\ Save(Put(doc, i, op))

Transition(i, next, cause) ==
    /\ ValidTransition(doc.operations[i].phase, next)
    /\ Change(i, Moved(doc.operations[i], next, cause))

\* The overall percentage never moves back.
RecordProgress(i, percent) ==
    Change(i, [doc.operations[i] EXCEPT
                  !.percent = IF @ # None /\ @ > percent THEN @ ELSE percent])

BindResolvedSource(i, source) ==
    /\ doc.operations[i].source = None
    /\ Change(i, [doc.operations[i] EXCEPT !.source = source])

BindPreparedImage(i, image) ==
    /\ doc.operations[i].image = None
    /\ Change(i, [doc.operations[i] EXCEPT !.image = image])

RecordCheck(i, c, status) ==
    Change(i, [doc.operations[i] EXCEPT !.checks[c] = status])

BindPreflight(i) ==
    /\ doc.operations[i].kind = "check" /\ doc.operations[i].phase = "checking"
    /\ Change(i, [doc.operations[i] EXCEPT !.preflight = NewPreflight(doc.operations[i])])

Claim(i, resource) ==
    /\ resource \notin doc.operations[i].claims
    /\ Change(i, [doc.operations[i] EXCEPT !.claims = @ \cup {resource}])

Release(i, resource) ==
    /\ resource \in doc.operations[i].claims
    /\ Change(i, [doc.operations[i] EXCEPT !.claims = @ \ {resource}])

\* Finished checks with an artifact.  Prune keeps the newest of every revision;
\* which one that is (UpdatedAt) is left open.
Evidence(d) ==
    {i \in Live(d) : CheckedOut(d.operations[i]) /\ d.operations[i].preflight # None}

\* Fault: one check is kept per recipe, not per revision.
FaultyKeepsOne(d, remove) ==
    \A i \in Evidence(d) : \E j \in Evidence(d) \ remove :
        d.operations[j].recipe = d.operations[i].recipe

KeepsOne(d, remove) ==
    \A i \in Evidence(d) : \E j \in Evidence(d) \ remove :
        /\ d.operations[j].recipe = d.operations[i].recipe
        /\ d.operations[j].revision = d.operations[i].revision

\* Age and count decide which of the other records go.
Prune(remove) ==
    /\ remove # {} /\ remove \subseteq Live(doc)
    /\ \A i \in remove : ~NeedsRecovery(doc.operations[i])
    /\ KeepsOne(doc, remove)
    /\ Save([doc EXCEPT !.operations =
                [i \in OpIds |-> IF i \in remove THEN None ELSE @[i]]])

-----------------------------------------------------------------------------
(* The recipe store, and its mutations under the journal's lock *)

\* localRecipeUpdate, localRecipeImport, communityRecipeRollback: the callback
\* writes the store only when no operation blocks and no deletion is pending.
ExecuteMutation(recipe, revision) ==
    /\ recipe \notin doc.tombstones
    /\ ~Blocked(doc, recipe)
    /\ library' = [library EXCEPT ![recipe] = revision]
    /\ UNCHANGED <<doc, disk, hidden>>

\* communityRecipeInstall writes the store without asking the journal; the
\* record it writes carries no TombstonedAt.
InstallCommunity(recipe, revision) ==
    /\ recipe \in Community
    /\ library[recipe] # revision
    /\ library' = [library EXCEPT ![recipe] = revision]
    /\ hidden' = hidden \ {recipe}
    /\ UNCHANGED <<doc, disk>>

Marked(recipe) == [doc EXCEPT !.tombstones = @ \cup {recipe}]
Unmarked(recipe) == [doc EXCEPT !.tombstones = @ \ {recipe}]

\* Fault: the recipe is hidden although its tombstone was not saved.
FaultyTombstone(recipe) ==
    /\ library[recipe] # None
    /\ disk' \in {disk, Marked(recipe)}
    /\ doc' = disk'
    /\ hidden' = hidden \cup {recipe}
    /\ UNCHANGED library

\* A failing save or callback undoes the tombstone in memory; the file keeps
\* it when the save that undoes it fails as well.
Tombstone(recipe) ==
    /\ library[recipe] # None
    /\ \/ /\ recipe \in doc.tombstones
          /\ hidden' = hidden \cup {recipe}
          /\ UNCHANGED <<doc, disk>>
       \/ /\ recipe \notin doc.tombstones
          /\ doc' = Marked(recipe) /\ disk' = Marked(recipe)
          /\ hidden' = hidden \cup {recipe}
       \/ /\ recipe \notin doc.tombstones
          /\ disk' \in {disk, Marked(recipe)}
          /\ UNCHANGED <<doc, hidden>>
    /\ UNCHANGED library

Purgeable(recipe) == recipe \in doc.tombstones /\ ~Blocked(doc, recipe)

\* localrecipes.Delete
Purge(recipe) ==
    /\ library' = [library EXCEPT ![recipe] = None]
    /\ hidden' = hidden \ {recipe}

\* The purge comes first.  The tombstone leaves the memory even when the save
\* that should record it fails.
FinalizeTombstone(recipe) ==
    /\ Purgeable(recipe)
    /\ Purge(recipe)
    /\ doc' = Unmarked(recipe)
    /\ disk' \in {disk, Unmarked(recipe)}

-----------------------------------------------------------------------------
(* Callers *)

\* recipes.Get: a handler reads the recipe before it asks for admission.
Lookup(recipe) ==
    /\ library[recipe] # None /\ recipe \notin hidden
    /\ held' = held \cup {<<recipe, library[recipe]>>}
    /\ UNCHANGED <<doc, disk, issued, library, hidden>>

Admit ==
    /\ \E kind \in Kinds, request \in held : Begin(kind, request[1], request[2])
    /\ UNCHANGED <<library, hidden, held>>

\* The phases a handler or a goroutine asks for, by kind of operation.
Entered(kind) ==
    CASE kind = "check" -> {"checking", "prepared", "recovering"} \cup Settled
      [] kind = "run"   -> Phases \ {"checking"}
      [] kind = "stop"  -> {"stopping", "recovering"} \cup Settled

\* A run, or the Stop that ends it, fails because something is still there.
LeftBehind(op) ==
    /\ op.kind # "check"
    /\ \E j \in Live(doc) : /\ doc.operations[j].kind = "run"
                           /\ doc.operations[j].recipe = op.recipe
                           /\ Owns(doc.operations[j])

\* A check that recorded a failure or an unknown never gets to "prepared":
\* failRecipeCheck and unknownRecipeCheck end it.
Advance(i) ==
    \E next \in Entered(doc.operations[i].kind), cause \in Causes \cup {None} :
        /\ doc.operations[i].kind = "check" /\ next = "prepared" =>
              doc.operations[i].preflight # None /\ doc.operations[i].preflight.runnable
        /\ cause = "inventory" => next = "failed" /\ LeftBehind(doc.operations[i])
        /\ Transition(i, next, cause)

\* What is done to an operation by those who work on it.  Only a check still
\* releases (its workspace) after it is over.
Work ==
    /\ \E i \in Live(doc) :
          \/ \E percent \in Percents : RecordProgress(i, percent)
          \/ /\ NeedsRecovery(doc.operations[i])
             /\ \/ Advance(i)
                \/ \E source \in Sources : BindResolvedSource(i, source)
                \/ \E image \in Images : BindPreparedImage(i, image)
                \/ \E c \in CheckIds, status \in Verdicts : RecordCheck(i, c, status)
                \/ BindPreflight(i)
                \/ /\ doc.operations[i].kind = "check"
                   /\ \E resource \in Resources : Release(i, resource)
          \/ /\ Unfinished(doc.operations[i])
             /\ \E resource \in Resources : Claim(i, resource) \/ Release(i, resource)
    /\ UNCHANGED <<issued, library, hidden, held>>

\* localRecipeCleanupRetry also takes an operation that owns nothing, when its
\* error only says that something was still there.
RetryCleanup ==
    /\ \E i \in Live(doc) : /\ doc.operations[i].phase \in Settled
                            /\ doc.operations[i].error = "inventory"
                            /\ Transition(i, "recovering", None)
    /\ UNCHANGED <<issued, library, hidden, held>>

PruneHistory ==
    /\ \E remove \in SUBSET Live(doc) : Prune(remove)
    /\ UNCHANGED <<issued, library, hidden, held>>

Mutate ==
    /\ \E recipe \in Recipes :
          \/ \E revision \in Revisions :
                ExecuteMutation(recipe, revision) \/ InstallCommunity(recipe, revision)
          \/ Tombstone(recipe)
          \/ FinalizeTombstone(recipe)
    /\ UNCHANGED <<issued, held>>

\* The daemon dies and opens the journal again.
Crash ==
    /\ doc' = disk
    /\ held' = {}
    /\ UNCHANGED <<disk, issued, library, hidden>>

\* It dies between the two files of a deletion.
CrashDuringDeletion ==
    /\ \E recipe \in Recipes :
          \/ /\ library[recipe] # None /\ recipe \notin doc.tombstones
             /\ disk' = Marked(recipe)
             /\ UNCHANGED <<library, hidden>>
          \/ /\ Purgeable(recipe)
             /\ Purge(recipe)
             /\ UNCHANGED disk
    /\ doc' = disk'
    /\ held' = {}
    /\ UNCHANGED issued

-----------------------------------------------------------------------------

InProgress(d) == {i \in Live(d) : NeedsRecovery(d.operations[i])}

NoDocument == [operations |-> [i \in OpIds |-> None],
               tombstones |-> {}]

Init ==
    /\ doc = NoDocument /\ disk = NoDocument
    /\ issued = 0
    /\ library \in [Recipes -> Revisions]
    /\ hidden = {} /\ held = {} /\ late = {}

\* History: who is late until it is over again, or forgotten.
StillLate == late' = late \cap InProgress(doc')

LateCleanup ==
    /\ RetryCleanup
    /\ late' = late \cup (InProgress(doc') \ InProgress(doc))

Next ==
    \/ /\ \/ \E recipe \in Recipes : Lookup(recipe)
          \/ Admit
          \/ Work
          \/ PruneHistory
          \/ Mutate
          \/ Crash
          \/ CrashDuringDeletion
       /\ StillLate
    \/ LateCleanup

Spec == Init /\ [][Next]_vars

-----------------------------------------------------------------------------
(* Properties *)

TypeOK ==
    /\ doc \in Documents /\ disk \in Documents
    /\ issued \in 0..MaxOps
    /\ library \in [Recipes -> Revisions \cup {None}]
    /\ hidden \subseteq Recipes
    /\ held \subseteq Recipes \X Revisions
    /\ late \subseteq OpIds

\* Whatever was saved or failed to be saved, the journal the daemon decides by
\* is the one it will find after a crash: every mutator that cannot save puts
\* its record back (operation.go, "s.doc.Operations[id] = previous").  Deletions
\* may be known to the file only, never to the memory only.
MemoryMatchesDisk ==
    /\ doc.operations = disk.operations
    /\ doc.tombstones \subseteq disk.tombstones

\* One recipe operation at a time on the whole machine: two operations that are
\* unfinished or still own something are a run and the Stop that was let in to
\* end it.  Over any order of admissions, failures, recoveries and crashes
\* (operationBlocksAdmission).  Exempt is an operation that was over, owned
\* nothing, and was brought back by a late cleanup: localRecipeCleanupRetry asks
\* nobody whether another one is in progress.
ExclusiveAdmission ==
    \A i, j \in InProgress(doc) \ late :
        i # j => {doc.operations[i].kind, doc.operations[j].kind} = {"run", "stop"}

\* A run carries the verdict of a check that passed for its own recipe and its
\* own revision, whatever was edited, pruned or lost since (BeginRunValidated).
RunsOnRunnableEvidence ==
    \A i \in Live(doc) :
        LET op == doc.operations[i] IN
        op.kind = "run" =>
            /\ op.preflight # None
            /\ op.preflight.recipe = op.recipe
            /\ op.preflight.revision = op.revision
            /\ op.preflight.runnable

\* An operation that owns a runtime resource stays in the journal with it until
\* the resource is released by name: pruning, transitions, failed saves and
\* crashes drop nothing (Prune, Release, Open).
OwnershipSurvives ==
    [][\A i \in Live(doc) :
          LET lost(r) == \/ i \notin Live(doc)'
                         \/ r \notin doc'.operations[i].claims
          IN \A r \in doc.operations[i].claims \cap Ephemeral :
                lost(r) => /\ i \in Live(doc)'
                           /\ doc'.operations[i] =
                                [doc.operations[i] EXCEPT !.claims = @ \ {r}]]_vars

\* Pruning never takes away the evidence a run of some revision could be
\* admitted on (Prune keeps the newest check of every revision).
PruningKeepsEvidence ==
    [][\A recipe \in Recipes, revision \in Revisions :
          /\ RunnableChecks(doc, recipe, revision) # {}
          /\ RunnableChecks(doc', recipe, revision) = {}
          => ~PruneHistory]_vars

\* A recipe hidden from the callers is on its way out in both copies of the
\* journal, so a restart finishes its removal (Tombstone, finalizeRecipeTombstones).
HiddenIsCondemned == hidden \subseteq doc.tombstones \cap disk.tombstones

-----------------------------------------------------------------------------
(* Statements of the documentation that the code does not keep *)

\* "mutation admission prevents an active revision from being changed
\* underneath its stop lifecycle" (RECIPE_RELIABILITY_ROADMAP.md:252-253).
InUseRevisionUnchanged ==
    \A i \in Live(doc) :
        LET op == doc.operations[i] IN
        op.kind = "run" /\ op.phase = "active" => library[op.recipe] = op.revision

\* "A false result means cleanup must finish before the same call is retried"
\* (operation.go:852-853): a purged recipe whose deletion is on file is one the
\* call can still finish.
FalseMeansPending ==
    \A recipe \in disk.tombstones :
        library[recipe] = None /\ recipe \notin doc.tombstones => Blocked(doc, recipe)

=============================================================================
