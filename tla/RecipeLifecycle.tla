-------------------------- MODULE RecipeLifecycle --------------------------
(***************************************************************************)
(* Running and stopping a recipe on the machine: the goroutines behind the *)
(* API calls Run, Stop, Abort and cleanup retry, recovery after a restart, *)
(* and the provisioner that runs beside it (internal/api/local_recipes.go, *)
(* recipe_recovery.go, recipe_rollback.go, recipe_cleanup_retry.go,        *)
(* recipe_boot_recovery.go, internal/provision/provision.go).              *)
(*                                                                         *)
(* Between two steps of a goroutine any other may step, the daemon may     *)
(* die, or the whole host.  What outlives the daemon: the journal (ops),   *)
(* the selection (inference) and, unless the host went down, the           *)
(* containers.                                                             *)
(*                                                                         *)
(* Abstracted: a recipe's containers, processes and private ports are one  *)
(* "backend"; the managed engine is up or not; the preparation of a run    *)
(* (download, build, distribution, checks) is one step that may fail; the  *)
(* container adapters take the same steps as the script adapter.           *)
(***************************************************************************)
EXTENDS Naturals, FiniteSets, Sequences, RecipePhases

CONSTANTS
    Recipes,      \* recipe ids
    ClusterModes, \* is the managed engine reached through the shared proxy
    AutoRestarts, \* settings of AutomaticRuntimeRestart a restart may find
    Starts,       \* what is selected at first: "unloaded", "managed"
    Requests,     \* which calls the API receives
    Faults,       \* what may go wrong
    MaxOps,       \* bound: operations ever begun
    MaxCrashes,   \* bound: restarts of the daemon or the host
    Managed,      \* the managed engine, as the owner of the shared proxy
    None          \* nobody, nothing

RequestKinds == {"run", "stop", "idle-stop", "abort", "late-abort", "cluster-abort",
                 "retry", "late-retry"}
FaultKinds == {"prepare",   \* the preparation of a run fails
               "hook",      \* a start or stop command of a recipe fails
               "health",    \* a runtime does not get healthy in time
               "remove",    \* a container cannot be removed
               "engine",    \* Docker does not start or list containers
               "journal",   \* the journal cannot be saved
               "state"}     \* the selection cannot be saved

ASSUME ClaimsAssumption == Ephemeral = {"backend", "proxy", "port"}
ASSUME OwnersAssumption == None \notin Nat /\ Managed \notin Nat
ASSUME RecipesAssumption == None \notin Recipes
ASSUME SettingsAssumption ==
    /\ ClusterModes \subseteq BOOLEAN /\ AutoRestarts \subseteq BOOLEAN
    /\ Starts \subseteq {"unloaded", "managed"}
    /\ Requests \subseteq RequestKinds /\ Faults \subseteq FaultKinds
    /\ MaxOps \in Nat /\ MaxCrashes \in Nat

VARIABLES
    ops,        \* the journal: the operations in creation order
    work,       \* per operation, where the goroutine that works on it is
    holder,     \* who holds EngineMu
    inference,  \* the selection on file: its recipe, and whether it is unloaded
    managed,    \* the managed engine is up
    backend,    \* the runs whose own containers are up
    proxy,      \* whose shared proxy (cloudless-cluster-engine-proxy) is up
    boot,       \* where the provisioner started at boot is
    clustered,  \* the managed engine is reached through the shared proxy
    crashes     \* restarts so far

journal == ops
tasks == <<work, holder, boot>>
runtime == <<managed, backend, proxy>>
setting == <<clustered, crashes>>
vars == <<journal, tasks, inference, runtime, setting>>

-----------------------------------------------------------------------------
(* The machine *)

Ids == 1..Len(ops)
Fails(fault) == fault \in Faults
Sticks == Fails("remove") \/ Fails("engine")

Unloaded == [recipe |-> None, unloaded |-> TRUE]
Loaded(recipe) == inference = [recipe |-> recipe, unloaded |-> FALSE]

\* Port 8000 has one listener: the proxy, or a managed engine that publishes it.
PublishesPort(m) == m /\ ~clustered

\* engineEndpointError: something answers at the stable endpoint.
HealthyWith(m, b, p) ==
    \/ p \in b
    \/ m /\ (clustered => p = Managed)
Healthy == HealthyWith(managed, backend, proxy)

\* Which of its claims the inventory finds, each in its own way: containers by
\* the operation's label, the proxy by its id, the port by anyone who listens.
Present(i, m, b, p) ==
    {r \in ops[i].claims :
        \/ r = "backend" /\ i \in b
        \/ r = "proxy" /\ p = i
        \/ r = "port" /\ (p # None \/ PublishesPort(m))}

\* Fault: what cannot be looked up counts as missing.
FaultyRemaining(i, b, p) ==
    {Present(i, managed, b, p)} \cup (IF Fails("engine") THEN {{}} ELSE {})

\* releaseMissingRecipeResources releases what it does not find and keeps what
\* it finds, cannot look up or cannot release.
Remaining(i, b, p) ==
    LET present == Present(i, managed, b, p) IN
    IF Fails("engine") \/ Fails("journal")
    THEN {kept \in SUBSET ops[i].claims : present \subseteq kept}
    ELSE {present}

-----------------------------------------------------------------------------
(* Steps of a goroutine *)

Resting == [at |-> "done", abort |-> FALSE, dirty |-> FALSE, stale |-> FALSE, boot |-> FALSE]

At(i, label) == i \in Ids /\ work[i].at = label
Go(i, label) == work' = [work EXCEPT ![i].at = label]
GoNoting(i, label, dirty) == work' = [work EXCEPT ![i].at = label, ![i].dirty = @ \/ dirty]
Aborted(i) == ops[i].phase = "stopping"

Recording(i, phase, cause) ==
    /\ ValidTransition(ops[i].phase, phase)
    /\ ops' = [ops EXCEPT ![i] = Moved(@, phase, cause)]
Unrecorded(i, phase) ==
    /\ ~ValidTransition(ops[i].phase, phase) \/ Fails("journal")
    /\ UNCHANGED ops

\* transitionRecipeOperation, and where the caller goes on either way.
Enter(i, phase, then, otherwise) ==
    \/ Recording(i, phase, None) /\ Go(i, then)
    \/ Unrecorded(i, phase) /\ Go(i, otherwise)

\* The last transition of an operation: its worker is done in any case.
Conclude(i, phase, cause) ==
    /\ Recording(i, phase, cause) \/ Unrecorded(i, phase)
    /\ work' = [work EXCEPT ![i] = Resting]
    /\ holder' = IF holder = i THEN None ELSE holder

\* A stop command takes down what carries the operation's name and, when the
\* script names its containers itself, whatever runs for the recipe.
WithoutRuntime(i, named) ==
    {backend \ named, {j \in backend : ops[j].recipe # ops[i].recipe}}

\* cleanupInterruptedRecipe: the stop command, the shared proxy whoever's it
\* is, the containers with the operation's label.
CleanUp(i, failed) ==
    /\ backend' \in WithoutRuntime(i, {i}) \/ (Sticks /\ UNCHANGED backend)
    /\ proxy' = None \/ (Sticks /\ UNCHANGED proxy)
    /\ failed => Fails("hook") \/ Sticks
    /\ ~failed => i \notin backend' /\ proxy' = None
    /\ UNCHANGED managed

\* An error that only says something was still there, as the retry reads it.
CausesOf(i, claims) == IF claims # {} THEN {"inventory", "other"} ELSE {"other"}

-----------------------------------------------------------------------------
(* Requests *)

\* localRecipeRun.  A recipe that is selected and loaded, or a recipe job that
\* is not done, keeps it out before the journal is asked.
Run(recipe) ==
    /\ "run" \in Requests /\ Len(ops) < MaxOps
    /\ inference.recipe = None \/ inference.unloaded
    /\ \A i \in Ids : work[i].at \in {"done", "queued"}
    /\ \A i \in Ids : ~BlocksAdmission(ops[i], "run")
    /\ ops' = Append(ops, [kind |-> "run", recipe |-> recipe, phase |-> "preparing",
                           interrupted |-> "preparing", error |-> None,
                           claims |-> {}, previous |-> inference])
    /\ work' = Append(work, [Resting EXCEPT !.at = "lock"])
    /\ UNCHANGED <<holder, boot, inference, runtime, setting>>

\* ActiveForRecipe
ActiveRuns(recipe) ==
    {i \in Ids : ops[i].kind = "run" /\ ops[i].phase = "active" /\ ops[i].recipe = recipe}

\* localRecipeStop asks only the journal, which does not ask whether the recipe
\* is running.
Stop(recipe) ==
    /\ (IF ActiveRuns(recipe) # {} THEN "stop" ELSE "idle-stop") \in Requests
    /\ Len(ops) < MaxOps
    /\ \A i \in Ids : ~BlocksAdmission(ops[i], "stop")
    /\ ops' = Append(ops, [kind |-> "stop", recipe |-> recipe, phase |-> "stopping",
                           interrupted |-> "stopping", error |-> None,
                           claims |-> {}, previous |-> inference])
    /\ work' = Append(work, [Resting EXCEPT !.at = "lock"])
    /\ UNCHANGED <<holder, boot, inference, runtime, setting>>

\* localRecipeAbort finds the control of a run that is not done.  A phase of
\* "stopping" goes with a cancelled context from here on.
Abort(i) ==
    /\ CASE ops[i].phase = "active"  -> "late-abort" \in Requests
         [] ops[i].phase # "active" -> (IF clustered THEN "cluster-abort" ELSE "abort") \in Requests
    /\ ops[i].kind = "run" /\ work[i].at # "done"
    /\ ops[i].phase \notin Settled \cup {"recovering", "stopping"}
    /\ Recording(i, "stopping", None)
    /\ UNCHANGED <<tasks, inference, runtime, setting>>

\* localRecipeCleanupRetry asks neither the journal's admission nor EngineMu.
Retry(i) ==
    /\ (IF Owns(ops[i]) THEN "retry" ELSE "late-retry") \in Requests
    /\ ops[i].phase \in Settled /\ work[i].at = "done"
    /\ Owns(ops[i]) \/ ops[i].error = "inventory"
    /\ Recording(i, "recovering", None)
    /\ work' = [work EXCEPT ![i] =
                  [Resting EXCEPT !.at = "retry", !.stale = ops[i].error = "inventory"]]
    /\ UNCHANGED <<holder, boot, inference, runtime, setting>>

-----------------------------------------------------------------------------
(* runLocalRecipe, under EngineMu from "prepare" to "succeed" *)

\* Fault: claims nothing before it starts.
FaultyRunLock(i) ==
    /\ At(i, "lock") /\ ops[i].kind = "run" /\ holder = None
    /\ holder' = i /\ Go(i, "prepare")
    /\ UNCHANGED <<journal, boot, inference, runtime, setting>>

\* Takes EngineMu and claims what the run is about to create.
RunLock(i) ==
    /\ At(i, "lock") /\ ops[i].kind = "run" /\ holder = None
    /\ holder' = i
    /\ \/ ops' = [ops EXCEPT ![i].claims = @ \cup {"backend"}] /\ Go(i, "prepare")
       \/ Fails("journal") /\ UNCHANGED ops /\ Go(i, "finish")
    /\ UNCHANGED <<boot, inference, runtime, setting>>

RunPrepare(i) ==
    /\ At(i, "prepare")
    /\ \/ Go(i, "prepared")
       \/ (Fails("prepare") \/ Aborted(i)) /\ Go(i, "finish")
    /\ UNCHANGED <<journal, holder, boot, inference, runtime, setting>>

\* The phases it writes on its way, each before what it announces.
Checkpoints ==
    {[at |-> "prepared",  phase |-> "prepared",  then |-> "switching", otherwise |-> "finish"],
     [at |-> "switching", phase |-> "switching", then |-> "switch",    otherwise |-> "finish"],
     [at |-> "starting",  phase |-> "starting",  then |-> "start",     otherwise |-> "rollback"],
     [at |-> "verifying", phase |-> "verifying", then |-> "verify",    otherwise |-> "rollback"],
     [at |-> "activate",  phase |-> "active",    then |-> "succeed",   otherwise |-> "rollback"]}

RunCheckpoint(i) ==
    /\ \E c \in Checkpoints : At(i, c.at) /\ Enter(i, c.phase, c.then, c.otherwise)
    /\ UNCHANGED <<holder, boot, inference, runtime, setting>>

\* stopManagedEngines.  With a cancelled context neither the removal nor the
\* lookup that would report it does anything, and the error is swallowed.
RunSwitch(i) ==
    /\ At(i, "switch")
    /\ \/ managed' = FALSE /\ proxy' = None /\ Go(i, "starting")
       \/ /\ Aborted(i) \/ Fails("engine")
          /\ proxy' \in {proxy, None} /\ UNCHANGED managed
          /\ Go(i, "starting")
       \/ Fails("remove") /\ proxy' \in {proxy, None} /\ UNCHANGED managed /\ Go(i, "rollback")
    /\ UNCHANGED <<journal, holder, boot, inference, backend, setting>>

\* The start command of the recipe; it may leave containers when it fails.
RunStart(i) ==
    /\ At(i, "start")
    /\ \/ backend' = backend \cup {i} /\ Go(i, "verifying")
       \/ /\ Fails("hook") \/ Aborted(i)
          /\ backend' \in {backend, backend \cup {i}}
          /\ Go(i, "rollback")
    /\ UNCHANGED <<journal, holder, boot, inference, managed, proxy, setting>>

RunVerify(i) ==
    /\ At(i, "verify")
    /\ \/ i \in backend /\ Go(i, "proxy")
       \/ (i \notin backend \/ Fails("health") \/ Aborted(i)) /\ Go(i, "rollback")
    /\ UNCHANGED <<journal, holder, boot, inference, runtime, setting>>

PortFree == proxy = None /\ ~PublishesPort(managed)

\* docker run of the shared proxy: its name and its port must be free.
RunProxy(i) ==
    /\ At(i, "proxy")
    /\ \/ PortFree /\ proxy' = i /\ Go(i, "claim")
       \/ /\ ~PortFree \/ Fails("engine") \/ Aborted(i)
          /\ UNCHANGED proxy /\ Go(i, "rollback")
    /\ UNCHANGED <<journal, holder, boot, inference, managed, backend, setting>>

RunClaim(i) ==
    /\ At(i, "claim")
    /\ \/ /\ ops' = [ops EXCEPT ![i].claims = @ \cup {"proxy", "port"}]
          /\ UNCHANGED proxy /\ Go(i, "promote")
       \/ /\ Fails("journal")
          /\ \E saved \in {{}, {"proxy"}} : ops' = [ops EXCEPT ![i].claims = @ \cup saved]
          /\ proxy' \in {None} \cup (IF Sticks THEN {proxy} ELSE {})
          /\ Go(i, "rollback")
    /\ UNCHANGED <<holder, boot, inference, managed, backend, setting>>

\* waitRecipePromotion
RunPromote(i) ==
    /\ At(i, "promote")
    /\ \/ Healthy /\ Go(i, "commit")
       \/ (~Healthy \/ Fails("health") \/ Aborted(i)) /\ Go(i, "rollback")
    /\ UNCHANGED <<journal, holder, boot, inference, runtime, setting>>

RunCommit(i) ==
    /\ At(i, "commit")
    /\ \/ inference' = [recipe |-> ops[i].recipe, unloaded |-> FALSE] /\ Go(i, "activate")
       \/ Fails("state") /\ UNCHANGED inference /\ Go(i, "rollback")
    /\ UNCHANGED <<journal, holder, boot, runtime, setting>>

\* The job is over and EngineMu is free, whatever the phase has become.
RunSucceed(i) ==
    /\ At(i, "succeed")
    /\ holder' = None
    /\ work' = [work EXCEPT ![i] = Resting]
    /\ UNCHANGED <<journal, boot, inference, runtime, setting>>

-----------------------------------------------------------------------------
(* Rolling back: rollbackFailedRecipe, and recovery from "restore" on *)

\* Fault: keeps EngineMu.
FaultyRollbackUnlock(i) ==
    /\ At(i, "rollback")
    /\ Go(i, "undo")
    /\ UNCHANGED <<journal, holder, boot, inference, runtime, setting>>

\* The managed engine takes EngineMu itself, so the run gives it up.
RollbackUnlock(i) ==
    /\ At(i, "rollback")
    /\ holder' = None /\ Go(i, "undo")
    /\ UNCHANGED <<journal, boot, inference, runtime, setting>>

\* cleanFailedRecipeRuntime
RollbackClean(i) ==
    /\ At(i, "undo")
    /\ proxy' = None \/ (Sticks /\ UNCHANGED proxy)
    /\ backend' \in WithoutRuntime(i, {i}) \/ (Fails("hook") /\ UNCHANGED backend)
    /\ Go(i, "restore")
    /\ UNCHANGED <<journal, holder, boot, inference, managed, setting>>

AfterRestore(i) == IF ops[i].phase = "recovering" THEN "conclude" ELSE "finish"
Safe(selection) == [selection EXCEPT !.unloaded = TRUE]

\* restorePreviousOrMarkUnloaded, up to the launch of the managed engine.
Restore(i) ==
    /\ At(i, "restore")
    /\ LET previous == ops[i].previous IN
       \/ /\ previous.unloaded
          /\ inference' = previous /\ Go(i, AfterRestore(i))
       \/ /\ ~previous.unloaded /\ previous.recipe # None
          /\ inference' = Safe(previous) /\ GoNoting(i, AfterRestore(i), TRUE)
       \/ /\ ~previous.unloaded /\ previous.recipe = None
          /\ inference' = previous /\ Go(i, "relaunch")
       \/ /\ Fails("state")
          /\ inference' \in {inference, Safe(previous)} /\ GoNoting(i, AfterRestore(i), TRUE)
    /\ UNCHANGED <<journal, holder, boot, runtime, setting>>

\* applyEngine while it holds EngineMu.
Relaunch(i) ==
    /\ At(i, "relaunch") /\ holder = None
    /\ inference' = [inference EXCEPT !.unloaded = FALSE]
    /\ \/ /\ managed' = TRUE /\ proxy' = (IF clustered THEN Managed ELSE None)
          /\ Go(i, "await")
       \/ /\ Fails("engine")
          /\ managed' \in BOOLEAN /\ proxy' \in {proxy, None}
          /\ Go(i, "withdraw")
    /\ UNCHANGED <<journal, holder, boot, backend, setting>>

\* It waits for the endpoint without the lock.
AwaitRelaunch(i) ==
    /\ At(i, "await")
    /\ \/ Healthy /\ inference' = ops[i].previous /\ Go(i, AfterRestore(i))
       \/ /\ Healthy /\ Fails("state")
          /\ inference' \in {inference, Safe(ops[i].previous)}
          /\ GoNoting(i, AfterRestore(i), TRUE)
       \/ (~Healthy \/ Fails("health")) /\ UNCHANGED inference /\ Go(i, "withdraw")
    /\ UNCHANGED <<journal, holder, boot, runtime, setting>>

\* Fault: leaves the previous selection loaded.
FaultyWithdraw(i) ==
    /\ At(i, "withdraw") /\ holder = None
    /\ managed' = FALSE /\ proxy' = None
    /\ inference' = ops[i].previous
    /\ GoNoting(i, AfterRestore(i), TRUE)
    /\ UNCHANGED <<journal, holder, boot, backend, setting>>

\* applyEngine's deferred cleanup, and the selection marked unloaded.
Withdraw(i) ==
    /\ At(i, "withdraw") /\ holder = None
    /\ managed' = FALSE /\ proxy' = None
    /\ inference' = Safe(ops[i].previous) \/ (Fails("state") /\ UNCHANGED inference)
    /\ GoNoting(i, AfterRestore(i), TRUE)
    /\ UNCHANGED <<journal, holder, boot, backend, setting>>

-----------------------------------------------------------------------------
(* finishRecipeOperation *)

\* A run whose abort was requested cleans up first.
Finish(i) ==
    /\ At(i, "finish")
    /\ IF Aborted(i)
       THEN \E failed \in BOOLEAN :
               /\ CleanUp(i, failed)
               /\ work' = [work EXCEPT ![i].at = "inventory", ![i].abort = TRUE, ![i].dirty = failed]
       ELSE /\ work' = [work EXCEPT ![i].at = "inventory", ![i].dirty = FALSE]
            /\ UNCHANGED runtime
    /\ UNCHANGED <<journal, holder, boot, inference, setting>>

\* releaseMissingRecipeResources
TakeInventory(i, then) ==
    \E remaining \in Remaining(i, backend, proxy) :
        /\ ops' = [ops EXCEPT ![i].claims = remaining]
        /\ GoNoting(i, then, remaining # {})

FinishInventory(i) ==
    /\ At(i, "inventory")
    /\ TakeInventory(i, "settle")
    /\ UNCHANGED <<holder, boot, inference, runtime, setting>>

Settle(i) ==
    /\ At(i, "settle")
    /\ \/ /\ work[i].abort /\ ~work[i].dirty
          /\ Conclude(i, "aborted", "other")
       \/ /\ ~work[i].abort \/ work[i].dirty
          /\ \E cause \in IF work[i].abort THEN CausesOf(i, ops[i].claims) ELSE {"other"} :
                Conclude(i, "failed", cause)
    /\ UNCHANGED <<boot, inference, runtime, setting>>

-----------------------------------------------------------------------------
(* stopLocalRecipe, under EngineMu throughout *)

StopLock(i) ==
    /\ At(i, "lock") /\ ops[i].kind = "stop" /\ holder = None
    /\ holder' = i /\ Go(i, "halt")
    /\ UNCHANGED <<journal, boot, inference, runtime, setting>>

\* The containers that look like the recipe's, as removeOrphanedRecipeRuntime
\* takes them for it when no run is active.
Orphans(i) ==
    {j \in backend : /\ ops[j].recipe = ops[i].recipe
                     /\ inference.unloaded \/ inference.recipe = ops[i].recipe}

\* The stop command; when it fails, cleanupOwnedRecipeRuntime for the active run.
StopHalt(i) ==
    /\ At(i, "halt")
    /\ LET target == ActiveRuns(ops[i].recipe) IN
       \/ /\ backend' \in WithoutRuntime(i, target) /\ Go(i, "unproxy")
          /\ UNCHANGED <<journal, proxy>>
       \/ /\ Fails("hook") /\ target # {}
          /\ \E j \in target, failed \in BOOLEAN :
                /\ CleanUp(j, failed)
                /\ \E remaining \in Remaining(j, backend', proxy') :
                      /\ ops' = [ops EXCEPT ![j].claims = remaining]
                      /\ Go(i, IF remaining = {} THEN "unproxy" ELSE "settle")
       \/ /\ Fails("hook") /\ target = {}
          /\ \/ UNCHANGED backend /\ Go(i, "settle")
             \/ /\ Orphans(i) # {}
                /\ backend' = backend \ Orphans(i) /\ Go(i, "unproxy")
          /\ UNCHANGED <<journal, proxy>>
    /\ UNCHANGED <<holder, boot, inference, managed, setting>>

\* The shared proxy goes, whoever's it is.
StopUnproxy(i) ==
    /\ At(i, "unproxy")
    /\ proxy' = None \/ (Sticks /\ UNCHANGED proxy)
    /\ Go(i, "unload")
    /\ UNCHANGED <<journal, holder, boot, inference, managed, backend, setting>>

\* Fault: the stopped recipe stays selected.
FaultyStopCommit(i) ==
    /\ At(i, "unload")
    /\ Go(i, "reconcile-active")
    /\ UNCHANGED <<journal, holder, boot, inference, runtime, setting>>

StopCommit(i) ==
    /\ At(i, "unload")
    /\ \/ inference' = Unloaded /\ Go(i, "reconcile-active")
       \/ Fails("state") /\ UNCHANGED inference /\ Go(i, "settle")
    /\ UNCHANGED <<journal, holder, boot, runtime, setting>>

\* reconcileActiveRecipeResources
StopReconcile(i) ==
    /\ At(i, "reconcile-active")
    /\ LET target == ActiveRuns(ops[i].recipe) IN
       IF target = {} THEN Go(i, "report") /\ UNCHANGED journal
       ELSE \E j \in target : \E remaining \in Remaining(j, backend, proxy) :
               /\ ops' = [ops EXCEPT ![j].claims = remaining]
               /\ GoNoting(i, "close", remaining # {})
    /\ UNCHANGED <<holder, boot, inference, runtime, setting>>

\* closeActiveRecipeOperation saves twice; dying in between leaves the run
\* "stopping".
StopClose(i) ==
    /\ At(i, "close")
    /\ \E j \in ActiveRuns(ops[i].recipe) :
          \/ Recording(j, "stopping", None) /\ Go(i, "closing")
          \/ Unrecorded(j, "stopping") /\ Go(i, "settle")
    /\ UNCHANGED <<holder, boot, inference, runtime, setting>>

StopClosed(i) ==
    /\ At(i, "closing")
    /\ \E j \in Ids :
          LET ending == IF work[i].dirty THEN "failed" ELSE "stopped" IN
          /\ ops[j].kind = "run" /\ ops[j].phase = "stopping" /\ ops[j].recipe = ops[i].recipe
          /\ \/ Recording(j, ending, IF work[i].dirty THEN "inventory" ELSE None) /\ Go(i, "report")
             \/ Unrecorded(j, ending) /\ Go(i, "settle")
    /\ UNCHANGED <<holder, boot, inference, runtime, setting>>

StopReport(i) ==
    /\ At(i, "report")
    /\ IF work[i].dirty THEN Conclude(i, "failed", "inventory") ELSE Conclude(i, "stopped", None)
    /\ UNCHANGED <<boot, inference, runtime, setting>>

-----------------------------------------------------------------------------
(* Recovery after a restart, one operation after the other in journal order *)

Turn(i) ==
    /\ At(i, "queued")
    /\ \A j \in Ids : j < i /\ work[j].boot => work[j].at = "done"

Owner(i) == ops[i].kind = "run" /\ ops[i].interrupted = "active" /\ Loaded(ops[i].recipe)
Resumable(i) == ops[i].kind = "run" /\ ops[i].interrupted \in {"preparing", "prepared"}
NeedsRollback(i) ==
    ops[i].kind = "run" /\ ops[i].interrupted \in {"switching", "starting", "verifying"}

\* recoverRecipeOperation, the part that decides.  Without Docker the operation
\* stays as it is until the next restart.
Recover(i) ==
    /\ Turn(i)
    /\ \/ Fails("engine") /\ Go(i, "done") /\ UNCHANGED journal
       \/ Resumable(i) /\ Go(i, "resume") /\ UNCHANGED journal
       \/ Owner(i) /\ Healthy /\ Enter(i, "active", "done", "done")
       \/ /\ Owner(i) /\ (~Healthy \/ Fails("health"))
          /\ Go(i, "restart") /\ UNCHANGED journal
       \/ ~Resumable(i) /\ ~Owner(i) /\ Go(i, "reconcile") /\ UNCHANGED journal
    /\ UNCHANGED <<holder, boot, inference, runtime, setting>>

\* reconcileRecipePreparationForResume.  A claim on a port is given up: the
\* engine that is still running may listen there.
RecoverResume(i) ==
    /\ At(i, "resume")
    /\ backend' = backend \ {i} \/ (Sticks /\ UNCHANGED backend)
    /\ \E remaining \in Remaining(i, backend', proxy) :
          LET op == [ops[i] EXCEPT !.claims = remaining \ {"port"}] IN
          \/ /\ op.claims = {}
             /\ ops' = [ops EXCEPT ![i] = Moved(op, "preparing", None)] /\ Go(i, "lock")
          \/ /\ op.claims # {} \/ Fails("journal")
             /\ ops' = [ops EXCEPT ![i] = Moved(op, "failed", "other")] /\ Go(i, "done")
    /\ UNCHANGED <<holder, boot, inference, managed, proxy, setting>>

\* restartActiveRecipeAfterBoot takes EngineMu.
RecoverRestart(i) ==
    /\ At(i, "restart") /\ holder = None
    /\ \/ backend' = backend \cup {i} /\ holder' = i /\ Go(i, "reconnect")
       \/ /\ Fails("hook") \/ Fails("health")
          /\ backend' \in {backend, backend \cup {i}}
          /\ UNCHANGED holder /\ Go(i, "reconcile")
    /\ UNCHANGED <<journal, boot, inference, managed, proxy, setting>>

\* It replaces the shared proxy; the claim on the new one stays when it does
\* not get healthy.
RecoverReconnect(i) ==
    /\ At(i, "reconnect")
    /\ holder' = None
    /\ \/ /\ ~PublishesPort(managed)
          /\ proxy' = i
          /\ ops' = [ops EXCEPT ![i].claims = @ \cup {"proxy"}]
          /\ HealthyWith(managed, backend, i)
          /\ Go(i, "reactivate")
       \/ /\ \/ PublishesPort(managed) \/ ~HealthyWith(managed, backend, i)
             \/ Fails("engine") \/ Fails("health") \/ Fails("journal")
          /\ proxy' = None \/ (Sticks /\ UNCHANGED proxy)
          /\ \E saved \in {{}, {"proxy"}} : ops' = [ops EXCEPT ![i].claims = @ \cup saved]
          /\ Go(i, "reconcile")
    /\ UNCHANGED <<boot, inference, managed, backend, setting>>

RecoverReactivate(i) ==
    /\ At(i, "reactivate")
    /\ Enter(i, "active", "done", "done")
    /\ UNCHANGED <<holder, boot, inference, runtime, setting>>

RecoverClean(i) ==
    /\ At(i, "reconcile")
    /\ \E failed \in BOOLEAN : CleanUp(i, failed)
    /\ Go(i, "account")
    /\ UNCHANGED <<journal, holder, boot, inference, setting>>

\* Fault: a recipe that could not be kept stays the selected one.
FaultyRecoverAccount(i) ==
    /\ At(i, "account")
    /\ \E remaining \in Remaining(i, backend, proxy) :
          /\ ops' = [ops EXCEPT ![i].claims = remaining]
          /\ IF remaining = {} /\ NeedsRollback(i)
             THEN Go(i, "restore") ELSE GoNoting(i, "conclude", remaining # {})
    /\ UNCHANGED <<holder, boot, inference, runtime, setting>>

\* With nothing left an interrupted switch restores the previous engine.
\* Otherwise the recipe stops being the selected one.
RecoverAccount(i) ==
    /\ At(i, "account")
    /\ \E remaining \in Remaining(i, backend, proxy) :
          /\ ops' = [ops EXCEPT ![i].claims = remaining]
          /\ IF remaining = {} /\ NeedsRollback(i)
             THEN Go(i, "restore") /\ UNCHANGED inference
             ELSE /\ GoNoting(i, "conclude", remaining # {})
                  /\ IF inference.recipe = ops[i].recipe
                     THEN inference' = Unloaded \/ (Fails("state") /\ UNCHANGED inference)
                     ELSE UNCHANGED inference
    /\ UNCHANGED <<holder, boot, runtime, setting>>

RecoverConclude(i) ==
    /\ At(i, "conclude")
    /\ \/ /\ ~work[i].dirty /\ ops[i].interrupted \in {"stopping", "stopped"}
          /\ Conclude(i, "stopped", None)
       \/ /\ work[i].dirty \/ ops[i].interrupted \notin {"stopping", "stopped"}
          /\ \E cause \in CausesOf(i, ops[i].claims) : Conclude(i, "failed", cause)
    /\ UNCHANGED <<boot, inference, runtime, setting>>

-----------------------------------------------------------------------------
(* retryRecipeCleanup *)

RetryClean(i) ==
    /\ At(i, "retry")
    /\ \E failed \in BOOLEAN : CleanUp(i, failed) /\ GoNoting(i, "count", failed)
    /\ UNCHANGED <<journal, holder, boot, inference, setting>>

RetryCount(i) ==
    /\ At(i, "count")
    /\ TakeInventory(i, "answer")
    /\ UNCHANGED <<holder, boot, inference, runtime, setting>>

\* Back to how it had ended; an end that only said something was still there
\* turns into "stopped".
RetryConclude(i) ==
    /\ At(i, "answer")
    /\ LET was == ops[i].interrupted IN
       \/ /\ work[i].dirty
          /\ \E cause \in CausesOf(i, ops[i].claims) : Conclude(i, "failed", cause)
       \/ /\ ~work[i].dirty /\ was = "failed" /\ ~work[i].stale
          /\ Conclude(i, "failed", "other")
       \/ /\ ~work[i].dirty /\ was # "failed"
          /\ Conclude(i, was, None)
       \/ /\ ~work[i].dirty /\ was = "failed" /\ work[i].stale
          /\ Conclude(i, "stopped", None)
    /\ UNCHANGED <<boot, inference, runtime, setting>>

-----------------------------------------------------------------------------
(* The provisioner at boot *)

\* provision.Run looks for a loaded recipe before it waits for EngineMu.
BootRead ==
    /\ boot = "read"
    /\ boot' = IF inference.recipe # None /\ ~inference.unloaded THEN "off" ELSE "apply"
    /\ UNCHANGED <<journal, work, holder, inference, runtime, setting>>

\* provisionEngine under EngineMu.
BootApply ==
    LET cluster == clustered /\ ~inference.unloaded
        kept == IF cluster THEN proxy ELSE None
        running == managed /\ (cluster => proxy # None)
    IN /\ boot = "apply" /\ holder = None
       /\ boot' = "off"
       /\ \/ /\ inference.unloaded
             /\ managed' = FALSE /\ proxy' = None
          \/ /\ ~inference.unloaded /\ running
             /\ managed' = TRUE /\ proxy' = kept
          \/ /\ ~inference.unloaded /\ ~running
             /\ managed' = TRUE /\ proxy' = (IF cluster THEN Managed ELSE None)
          \/ /\ ~inference.unloaded /\ ~running /\ Fails("engine")
             /\ managed' = FALSE /\ proxy' = None
       /\ UNCHANGED <<journal, work, holder, inference, backend, setting>>

-----------------------------------------------------------------------------
(* Restarts *)

\* NewServer: prepareRuntimeRestartOffer, then startRecipeRecovery, before the
\* API and the provisioner start.  A restart of the host ends every container.
Restart(host, automatic) ==
    /\ crashes < MaxCrashes /\ crashes' = crashes + 1 /\ UNCHANGED clustered
    /\ IF host THEN managed' = FALSE /\ backend' = {} /\ proxy' = None
       ELSE UNCHANGED runtime
    /\ inference' = IF automatic \/ HealthyWith(managed', backend', proxy')
                    THEN inference ELSE Safe(inference)
    /\ ops' = [i \in Ids |-> IF NeedsRecovery(ops[i]) /\ ops[i].phase # "recovering"
                            THEN Moved(ops[i], "recovering", "other") ELSE ops[i]]
    /\ work' = [i \in Ids |-> IF NeedsRecovery(ops[i])
                             THEN [Resting EXCEPT !.at = "queued", !.boot = TRUE]
                             ELSE Resting]
    /\ holder' = None /\ boot' = "read"

-----------------------------------------------------------------------------

Init ==
    /\ ops = << >> /\ work = << >>
    /\ holder = None /\ boot = "off" /\ crashes = 0 /\ clustered \in ClusterModes
    /\ backend = {}
    /\ \/ /\ "unloaded" \in Starts
          /\ inference = Unloaded /\ managed = FALSE /\ proxy = None
       \/ /\ "managed" \in Starts
          /\ inference = [recipe |-> None, unloaded |-> FALSE]
          /\ managed = TRUE
          /\ proxy = IF clustered THEN Managed ELSE None

RunStep(i) ==
    \/ RunLock(i) \/ RunPrepare(i) \/ RunCheckpoint(i) \/ RunSwitch(i)
    \/ RunStart(i) \/ RunVerify(i) \/ RunProxy(i) \/ RunClaim(i)
    \/ RunPromote(i) \/ RunCommit(i) \/ RunSucceed(i)
RollbackStep(i) ==
    \/ RollbackUnlock(i) \/ RollbackClean(i) \/ Restore(i)
    \/ Relaunch(i) \/ AwaitRelaunch(i) \/ Withdraw(i)
FinishStep(i) == Finish(i) \/ FinishInventory(i) \/ Settle(i)
StopStep(i) ==
    \/ StopLock(i) \/ StopHalt(i) \/ StopUnproxy(i) \/ StopCommit(i)
    \/ StopReconcile(i) \/ StopClose(i) \/ StopClosed(i) \/ StopReport(i)
RecoveryStep(i) ==
    \/ Recover(i) \/ RecoverResume(i) \/ RecoverRestart(i) \/ RecoverReconnect(i)
    \/ RecoverReactivate(i) \/ RecoverClean(i) \/ RecoverAccount(i) \/ RecoverConclude(i)
RetryStep(i) == RetryClean(i) \/ RetryCount(i) \/ RetryConclude(i)

Step(i) ==
    \/ RunStep(i) \/ RollbackStep(i) \/ FinishStep(i)
    \/ StopStep(i) \/ RecoveryStep(i) \/ RetryStep(i)

Request ==
    \/ \E recipe \in Recipes : Run(recipe) \/ Stop(recipe)
    \/ \E i \in Ids : Abort(i) \/ Retry(i)

Next ==
    \/ Request
    \/ \E i \in Ids : Step(i)
    \/ BootRead \/ BootApply
    \/ \E host \in BOOLEAN, automatic \in AutoRestarts : Restart(host, automatic)

Spec == Init /\ [][Next]_vars

\* Goroutines run on.  Weak fairness is enough for the ones that wait for
\* EngineMu, as every holder gives it up.  Nobody has to call the API, and
\* nothing has to crash.
Fairness ==
    /\ \A i \in 1..MaxOps : WF_vars(Step(i))
    /\ WF_vars(BootRead) /\ WF_vars(BootApply)
FairSpec == Spec /\ Fairness

-----------------------------------------------------------------------------
(* Properties *)

Labels ==
    {"done", "lock", "prepare", "switch", "start", "verify", "proxy", "claim",
     "promote", "commit", "succeed", "rollback", "undo", "restore", "relaunch",
     "await", "withdraw", "finish", "inventory", "settle", "halt", "unproxy",
     "unload", "reconcile-active", "close", "closing", "report", "queued",
     "resume", "restart", "reconnect", "reactivate", "reconcile", "account",
     "conclude", "retry", "count", "answer"} \cup {c.at : c \in Checkpoints}

Selections == [recipe : Recipes \cup {None}, unloaded : BOOLEAN]

Operations ==
    [kind : {"run", "stop"}, recipe : Recipes, phase : Phases \ {"checking"},
     interrupted : Phases \ {"checking", "recovering"},
     error : {None, "inventory", "other"}, claims : SUBSET Ephemeral,
     previous : Selections]

Tasks == [at : Labels, abort : BOOLEAN, dirty : BOOLEAN, stale : BOOLEAN, boot : BOOLEAN]

TypeOK ==
    /\ ops \in Seq(Operations) /\ Len(ops) <= MaxOps
    /\ work \in Seq(Tasks) /\ Len(work) = Len(ops)
    /\ holder \in Ids \cup {None}
    /\ inference \in Selections
    /\ managed \in BOOLEAN /\ backend \subseteq Ids
    /\ proxy \in Ids \cup {Managed, None}
    /\ boot \in {"off", "read", "apply"}
    /\ clustered \in BOOLEAN /\ crashes \in 0..MaxCrashes

\* Nothing goes on: no goroutine of an operation, no provisioner.
Idle == boot = "off" /\ \A i \in Ids : work[i].at = "done"

\* While the daemon lives, the containers of a run are on its record as long as
\* they are up, so the journal keeps other work out until they are gone; the
\* shared proxy of a run at least when the run is over.  Through failed commands,
\* removals that do not work and retries (Claim, releaseMissingRecipeResources).
NothingIsOffTheRecord ==
    crashes = 0 =>
        /\ \A i \in backend : "backend" \in ops[i].claims
        /\ proxy \in Ids /\ ops[proxy].phase \in Settled => "proxy" \in ops[proxy].claims

\* Two recipes never have their runtimes up together (Claim, admission).  A restart
\* that starts containers again without a claim, and a later stop that cannot
\* remove them, are the exception.
OneBackend == Cardinality(backend) <= 1

\* What answers at the stable endpoint when the selection is loaded.
Serving(recipe) ==
    IF recipe = None THEN managed /\ (clustered => proxy = Managed)
    ELSE \E i \in backend : ops[i].recipe = recipe /\ proxy = i

\* When all is quiet, what is selected is what answers, or the selection is
\* marked unloaded: the desktop never waits for a model nobody is starting, and
\* never talks to another one (restorePreviousOrMarkUnloaded, provisionEngine).
SelectionIsServed == Idle /\ ~inference.unloaded => Serving(inference.recipe)

\* When all is quiet the journal and the selection tell the same story: the
\* active run is the one that is selected and loaded, and the other way round.
\* The two are separate files, written one after the other.
SelectionMatchesJournal ==
    Idle => /\ \A i \in Ids : ops[i].phase = "active" => Loaded(ops[i].recipe)
            /\ inference.recipe # None /\ ~inference.unloaded =>
                  ActiveRuns(inference.recipe) # {}

\* Without a restart, through failures and aborts of a recipe, what is selected is
\* what answers.  It takes containers that can be looked up and removed and files
\* that can be saved, and no call but Run, Stop of what runs, and Abort.
SelectionIsServedAfterFailures == crashes = 0 => SelectionIsServed

\* The two files agree through failures, and over restarts at any point until a
\* first Stop is begun (CommitInferenceRuntime, recoverRecipeOperation).
FilesAgree == crashes = 0 \/ (\A i \in Ids : ops[i].kind = "run") => SelectionMatchesJournal

\* Every operation that was begun or found at a restart comes to an end, also
\* the ones that wait for EngineMu or for their turn in the recovery, and the
\* provisioner gets EngineMu in the end.
EveryTaskEnds ==
    /\ \A i \in 1..MaxOps : (i \in Ids /\ work[i].at # "done") ~> At(i, "done")
    /\ (boot # "off") ~> (boot = "off")

-----------------------------------------------------------------------------
(* Statements of the documentation that the code does not keep *)

\* "The UI must never report a recipe as ready when its stable API is
\* unavailable" (RECIPE_RELIABILITY_ROADMAP.md:85).
ActiveRunsAnswer ==
    Idle => \A i \in Ids : ops[i].phase = "active" => i \in backend /\ proxy = i

=============================================================================
