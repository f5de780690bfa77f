# Cloudless in TLA+

`cloudlessd` (`orchestrator/`) is the daemon of a one-machine or small-cluster AI
appliance. It installs apps as containers, serves one language model at a time at
a stable endpoint (`cloudless-ai`, port 8000), and runs *recipes*: reviewed, pinned
runtimes that take the endpoint over from the engine the daemon manages itself.
This directory holds specifications of the parts whose correctness is hardest to
test, the TLC configurations that check them, and proofs of the main invariants.

The code is the reference: every definition stands for the lines that
`PROJECT.json` ("map") names. Paths below are relative to `orchestrator/`.

## 1. Inventory

| Component | State | Operations | Hard because |
|---|---|---|---|
| Recipe operation journal, `internal/recipeops` | `recipe-operations/index.json` and its copy in memory: operations (phase, claims, evidence), tombstones | begin, transition, bind, record, claim, release, prune, mutate, tombstone, finalise | saves that fail, crashes, admission over any history |
| Recipe library, `internal/localrecipes`, `api/community_install.go` | `recipes/index.json`, the community feed | create, import, edit, install, roll back, revoke, delete | changed while an operation works from an older copy; two requests to the service cross |
| Recipe check and preparation, `api/local_recipes.go`, `recipe_*_preflight.go`, `recipe_managed_lifecycle.go` | evidence and bindings of an operation; images, checkouts, model copies | check, prepare, attest, start on one node or two | the world changes between what is found and what is used |
| Recipe lifecycle, `api/local_recipes.go`, `recipe_rollback.go`, `recipe_cleanup_retry.go` | one goroutine per operation; `EngineMu`; contexts of running jobs | run, stop, abort, retry | every step can fail, be aborted or be the last before a restart |
| Recipe recovery, `recipe_recovery.go`, `recipe_boot_recovery.go` | the operations found at start | resume, restart, roll back, reconcile | runs beside the API and the provisioner; may itself be interrupted |
| Provisioner, `internal/provision` | none of its own | bring up the selected engine and the bundled apps at boot, promote the default model | decides early, acts late |
| Engine switching, `api/server.go`, `inference_operation.go` | the inference-operation record, the job table, the restart offer | switch, restart, change model, unload, abort, roll back | a switch gives the lock up while it waits for health |
| Runtime state, `internal/state` | `state.json` | commits of single settings | a second file next to the journal |
| Model downloads and cache, `api/models.go`, `internal/modelcache`, `recipe_distribution.go`, `recipe_cache_gc.go` | the model tree (snapshots, blobs, markers), download records | download, cancel, uninstall, prepare, stage, promote, collect, import | helpers outlive their jobs; one tree, several writers, no common lock |
| Apps and packs, `api/server.go`, `packs.go`, `lan.go`, `tunnel.go`, `update.go` | containers, pinned images, packs and preferences on file | install, update, reset, remove, configure, share | locks by application; steps that fail half way |
| Spark cluster, `internal/sparkcluster` | `State` with one `Operation`; what is installed on the peers | connect, rebind, select, disconnect | fails on one of several nodes; a second record of a distributed truth |
| Cluster health, `sparkcluster.Status`, `api/cluster_compute.go` | a cached view | probe, refresh | stale when read |
| Updater, `cmd/cloudless-updater` | status documents, the kept generation | check, update, qualify, roll back, switch channel | killed in the middle; the workload has to survive |
| Display, `api/display.go`, `internal/displaylayout` | a pending change on file, the preference | set, confirm, revert, normalise, recover | timer against confirmation against restart |
| Jobs, `internal/jobs` | jobs in memory, subscribers | create, update, observe, prune | slow subscribers; ids start again in every process |
| Gateway, `gateway.go`, `gateway_security.go` | rate buckets, keys | proxy, limit, audit | proxying is I/O |
| Privileged helper, container broker | none | one checked call | policy on data, no state |
| Everything else (`PROJECT.json`, "components") | settings, tables, logs | reads and single writes | — |

How they interact. An API handler reads the recipe from the library, asks the
journal for admission, creates a job and starts a goroutine. The goroutine takes
`EngineMu`, moves the operation from phase to phase, claims what it creates, calls
Docker and the recipe's commands, and finally writes the selection (`state.json`)
and the phase `active` (the journal). Recovery and the provisioner do the same
from the other end after a restart, while handlers already answer. The library is
changed only inside the journal's lock, except by a signed community install. The
managed engine is launched by jobs that share `EngineMu` with the recipes; a
distributed launch reads the cluster's record three times. Downloads, recipe
preparation, the cache's cleanup and the engine share the model tree through the
file system alone. App jobs hold a lock per application, the provisioner's boot pass
holds none. The updater is a process of its own that restarts the daemon and asks it
whether the workload is back. The journal, the selection, the cluster's record and
what really runs can disagree after any failure; the rest of the system believes the
first three.

What makes the parts correct:

* journal: memory and file agree whatever saves fail; one operation at a time;
  a run stands on a verdict about its own revision; nothing owned is forgotten.
* library: a revoked revision does not run, a rollback is what was installed before,
  what was asked for is there, and the trust shown is earned.
* check and preparation: what is started is what was checked, the same on every node;
  nothing prepared is left off the record.
* lifecycle and recovery: what is selected is what answers; the journal and the
  selection agree when all is quiet; whatever is up is on record; everything ends.
* engine: what runs is what is on record, an abort holds, a record of a launch closes.
* model cache: what runs was verified, what is shown is whole, nothing whole is lost.
* apps: each ends as the last operation that reported said; packs are whole; the saved
  configuration runs.
* cluster: the record says what is installed on the Sparks, or says that it may not.
* updater and display: a change is finished or taken back to what it says.

`PROJECT.json` ("hazards") lists the places where these can go wrong, with the
property that covers each, or why none does.

## 2. Modules

| Module | Models | Checked by |
|---|---|---|
| `RecipePhases` | phases, allowed transitions, when an operation is unfinished, owns something, blocks others | with the next two |
| `RecipeOps` | the journal, the recipe library it guards, failed saves, crashes | `MCRecipeRecords`, `RecipeOpsProofs` |
| `RecipeLifecycle` | run, stop, abort, retry, recovery, provisioner, managed engine, selection, restarts | `MCRecipeSafety`, `MCRecipeLifecycle`, `RecipeLifecycleProofs` |
| `RecipeLibrary` | the file of recipes, provenance and history, the community service, revocation, deletion | `MCRecipeLibrary`, `RecipeLibraryProofs` |
| `CheckedLaunch` | what a preparation promises, in four actions | — |
| `RecipeEvidence` | check and run step by step, evidence, bindings, probe, a changing world; implements `CheckedLaunch` | `MCRecipeEvidence`, `RecipeEvidenceProofs` |
| `EngineSwitch` | launches, switches, model changes, unload, abort, promotion, boot, restarts | `MCEngineSwitch`, `EngineSwitchProofs` |
| `ModelCache` | the model tree, download jobs and helpers, preparation, staging, peer, cleanup, import | `MCModelCache`, `ModelCacheProofs` |
| `AppLibrary` | app, pack, configuration and sharing jobs, the manifest's pins, the boot pass | `MCAppLibrary` |
| `SparkCluster` | the cluster's record and the truth on the Sparks, a distributed launch | `MCSparkCluster`, `SparkClusterProofs` |
| `ClusterHealth` | the layers of `Status`, readiness, the cached view | `MCSparkCluster` |
| `Updater` | repository, channels, the update transaction, qualification and rollback | `MCDevice`, `UpdaterProofs` |
| `DisplayChange` | pending layout changes, timer, hotplug, restart | `MCDevice` |
| `RecipeOpsProofs`, `RecipeLifecycleProofs`, `RecipeLibraryProofs`, `RecipeEvidenceProofs`, `ModelCacheProofs`, `EngineSwitchProofs`, `SparkClusterProofs`, `UpdaterProofs` | theorems about the module they are named for | tlapm |

An `MC` module gives the constants values and puts several settings of one module,
or two modules that share no state, into one run: a variable `scenario` (or `part`) is
chosen at the start and never changes. A setting removes requests and faults; it
changes no action.

How state and actions correspond to the code:

**RecipeOps.** `doc` is `Store.doc`, `disk` the file, `library` and `hidden` the
recipe store and its `TombstonedAt` marks, `held` what handlers have read and not yet
used, `issued` the identifiers drawn, `late` (history) the operations a late cleanup
brought back. Every method of the Go store holds `Store.mu`
from its first read to its last write, so each is one action. `Save` is
`saveLocked`: it happens or it does not, and the caller puts its record back when it
does not; `FinalizeTombstone` is the method that does not put it back.
`CrashDuringDeletion` is a crash between the two files of a deletion. `Advance`,
`Work` and `RetryCleanup` are the callers: which phases the handlers and goroutines
of each kind of operation ask for, and under which conditions.

**RecipeLifecycle.** `ops` is the journal, `work[i].at` where operation `i`'s
goroutine is, `holder` who has `EngineMu`, `inference` the selection, `managed`,
`backend` and `proxy` what is up in Docker, `boot` the provisioner. A label of `work`
is a place where the Go code may be preempted with an effect others can see; the code
between two labels is one action. An action is named after what the function does
there (`RunSwitch` is `stopManagedEngines`, `Relaunch`, `AwaitRelaunch` and `Withdraw` are
`applyEngine` under the lock, without it, and its deferred cleanup). A cancelled
context is the phase `stopping` of a run: that is how the code, too, finds out
(`recipeAbortRequested`). The journal is one copy here and a call on it is atomic:
`MemoryMatchesDisk` is proved of `RecipeOps`, so a restart finds the operations it left.

**RecipeLibrary.** `library` is the file, each entry with its provenance and history;
`feed` the service's revocations, `request` an install or a check for revocations
between its steps, `work` and `tombstones` what the journal would answer. A call of the
store loads, changes and renames the file under one mutex and is one action; an
install is fetch, verification and store; a check for revocations takes them one by
one and stops at the first it cannot verify. `package` is the running package's edition
of the reviewed profile and the oldest one it migrates: `Normalize` brings the exact
values it knows up to its own and leaves all others. `asked`, `trail`, `untouched` and `seen` are
history: what the user did, against which the file is compared.

**RecipeEvidence.** `op` walks through `Path(op)`, the steps of `checkLocalRecipe`,
`runLocalRecipe` and their counterparts for container recipes; what it finds goes into
its evidence and bindings. `World` changes what is around it between any two
steps: the branch, the tag, the cluster, a port, the disk, an image, the model.
`CheckedLaunch` is the promise in four actions: only what the newest passing check found is
attested, and all nodes start that. The refinement mapping (`Checked`) reads `checked`
from the newest evidence; `attested` and `serving` keep their names, so the property
`LaunchesWhatWasChecked` says that every step of a check, a run, a restart or the world
is a step of the promise or none. Whatever removes may fail: `EndProbe` and `ProbeStays` are
the two ends of a probe, `CleanUp` and `WorkspaceStays` those of a check's deferred cleanup,
and `Sweeps` is what recovery, a failed run, a Stop and a retried cleanup have in common:
remove what is on record, give up what is gone, leave the rest to `owner`, the operation
that is over and still has it. `slipped` is history: something of that kind went wrong, or the
daemon was killed, since the newest operation began.

**EngineSwitch.** `store` is the inference part of `state.json`, `cont` and `answering` what
Docker runs and what answers at the endpoint, `jobs` the job table with each
goroutine's place, `mutex` `EngineMu`, `boot` the provisioner with the promotion. A
launch releases the lock while it waits for health; its deferred cleanup and
`rollbackInferenceRuntime` are steps after it. `mixed` notes how two actors were at the
selection at once.

**ModelCache.** `tree` maps each place (the repository, the older cache, the staging
area, what an exchange puts beside it, a peer) to its snapshots, unfinished blobs,
reference and completion markers; `jobs` are downloads, `op` a recipe's preparation,
`helper` the container that fetches files. The goroutine that waits for a helper may
time out and leave it. `had` is history: what was once whole; `crossed` notes which of
the meetings in section 4 has happened.

**AppLibrary.** A job is a record that walks through the calls of its goroutine, one
call of the container engine per step, under the locks of `app_operation_locks.go`;
the boot pass is a job without locks, and so is every save of a configuration: it looks
for a container and replaces it, whatever else is under way. `file`, `packs`, `local` and `cfg` are what is on
record, `pin`, `kept` and `published` the manifest, and `why` is history: why an
application does not run, empty if it should. `crossed` as above; `missed` are the
applications whose last save no restart has taken up.

**SparkCluster.** `file` is `state.json` of the cluster, `fabric`, `coordinator` and
`worker` the truth; `task` is the holder of `mutationMu` with its locals. `load()` is also
called without the lock and then writes what it recovered: `ReadState`,
`WriteRecovered`. `launch` is the part of `applyEngineVerified` that uses the cluster.
`accidents` and `forgotten` are history variables the properties refer to.
**ClusterHealth** has the faults a probe can meet, layer by layer, and the cache with
its age, its refresh in flight and the first readers that probe themselves.

**Updater.** A generation is a version of every package. `published` and `lists` are the
channels and APT's copy of them, `installed` the packages, `current` the generation kept
for recovery, `status` the document the desktop reads, `work` the AI workload. Each step
of the transaction (`job`) that calls APT, systemd or the daemon is an action; the
worker may be killed at any of them, and `SetChannel` may come in between (`setting`).

**DisplayChange.** `displayMu` is held from the look at `displayChange` to the last
write, so a handler is one action; `displaySet` queries the display before it takes the
lock and is two. A layout is the set of outputs that are lit.

**Abstractions.** Identifiers are numbers in order of creation. Time is left out:
a timeout is a step that may happen. Hashes, messages and progress texts are left out;
an artifact keeps its verdicts, a file is whole, torn or absent. In `RecipeLifecycle`
all containers, processes and private ports of one run are one `backend`, and
preparation is one step that succeeds or fails, because up to its end nothing but
staging changes; `RecipeEvidence` opens that step, `ModelCache` opens the download and
the staging in it. In `RecipeEvidence` the previous engine, port claims and aborts
are left out, and the recovery of an interrupted operation is one step with the restart.

## 3. Runs

Eleven runs pass; TLC explores each completely. The twelfth, `boot_image`, shows a divergence.

| Run | Asks | Bounds | States |
|---|---|---|---|
| `journal` | `MemoryMatchesDisk`, `OwnershipSurvives`, `HiddenIsCondemned` over every history; `ExclusiveAdmission` beside late cleanups; `RunsOnRunnableEvidence`, `PruningKeepsEvidence`: checks that pass and fail, edits, prunes, retries | 3 operations of any kind without a deletion; a check and 3 runs or Stops with late cleanups; 2 operations with deletions, 2 revisions; or 1 with every call, 2 sources, 2 percentages, community installs; 1 recipe, 1 resource | 683,266 |
| `lifecycle_safety` | `SelectionIsServedAfterFailures`, `FilesAgree` | 3 operations, cluster or not; 2 recipes with failures and aborts, or 1 recipe with 2 restarts | 169,720 |
| `lifecycle_removals` | `OneBackend`, `NothingIsOffTheRecord` with containers that stay, saves that fail, retried cleanups | 3 operations, 2 recipes, cluster or not | 826,728 |
| `lifecycle_liveness` | `EveryTaskEnds` with every call and fault | 2 operations, 1 restart | 147,724 |
| `library` | `RevocationHolds`, `RollbackIsTheLastInstalled`, `LibraryIsAsAsked`, `LabelsAreEarned` | 6 calls (5 with edits or deletions), 4 revisions, history of 3, 2 requests at once, 2 revocations, 1 failed save, 1 update that migrates or pins anew | 1,668,209 |
| `evidence` | `LaunchesWhatWasChecked` (refinement), `AnUnchangedMachineRuns`, `NothingIsLeftBehind` | 3 operations, 7 recipes, 2 contents, 1 change, 1 fault, 1 kill, 1–2 nodes | 2,162,832 |
| `boot_image` (violated) | `BootKeepsTheImage` | the same, and tags that move | 615,000 or so |
| `engine` | `RuntimeIsTheSelection`, `AbortHolds`, `PromotionReportsWhatRuns`, `LaunchRecordsClose` | 3 requests at once; or a promotion, 1 request, 1 restart | 974,127 |
| `model_cache` | `RunsOnVerifiedContent`, `ShownIsWhole`, `NothingIsLost`, `DownloadsSettle` | 2 revisions, 2 jobs, 2 preparations, 1 peer, 1 restart; the page's downloads meet the restart or a helper that times out | 1,147,777 |
| `apps` | `AppsAreAsAsked`, `PacksAreWhole`, `ConfigIsApplied`, `JobsEnd` | 3 apps (a dependency among them), 2 packs that share one, 3 requests, 1 fault, 1 restart, 2 pins, 2 saves at once, with a fault or a restart between; one request to share with the restart, two without | 731,038 |
| `cluster` | `EachSparkOnce`, `LeftoversAreRecorded`, `DisconnectIsVerified`, `MutationsEnd`, `ViewCatchesUp` | 2 Sparks, one with 2 addresses, 3 mutations, 1 launch, 1 restart; 2 readers, 3 changes of health | 285,276 |
| `device` | `UpdatedIsInstalledAndKept`, `RollbackRestoresWhatWasKept`, `InstallsWhatWasVerified`, `InstallingEnds`, `ScreenIsAsConfirmed` | 3 releases, 2 channels, 1 kill, 1 switch; 2 outputs, 2 changes, 2 faults, 1 hotplug, 1 restart, 2 attempts | 564,588 |

Why the bounds are enough to be interesting: three operations are a run, the Stop or
Abort that ends it and the next one that meets what they left; two recipes are the
one that fails and the one that finds the endpoint taken; two restarts are one in
the middle of an operation and one in the middle of its recovery; two revisions let an
edit come back to the first. Three engine requests are a launch, one that crosses it
and one that undoes both. Two downloads and two preparations meet on one repository,
with the second revision as what `main` resolves to and the first as what the recipe
wants. Two packs share a component, and the shared component is a dependency of
another. A Spark with two addresses can be typed twice; the second Spark is the one a
disconnect fails on. Two releases are an update, a third is one that must not be installed.
The bounds are guards of the models and not of the code (`Max...`, `Requests`). Deadlock
checking is off where the bounds let the system stop: when they are used up it is
quiet, as the daemon is when nobody calls it.

Each property has a seeded fault in `PROJECT.json` ("mutants"; operators `Faulty...`, or
named for what they are, in front of what they replace): a dropped guard, a missing
release, a lock not taken, which TLC must catch.

Several properties name *crossings*: histories (`crossed`, `missed`, `mixed`, `accidents`,
`forgotten`, `late`, `slipped`) in which the code is known not to keep them. Each is listed in section 4;
without any one of them the property is violated, with all of them it holds. They
are part of the statement: everything else that two actors can do to each other is
covered.

**Fairness.** Always weak, and only of steps a scheduler or a timer owes:

* `RecipeLifecycle`: each goroutine and the provisioner. Commands, requests to Docker
  and waits carry time limits. Weak fairness is enough for `EngineMu`, since within the
  bounds every holder gives it up for good.
* `EngineSwitch`: each request's goroutine, and the boot pass.
* `ModelCache`: each download's goroutine, and the end of a helper (it has a time limit).
* `AppLibrary`: some job steps as long as one can; locks are taken in one order.
* `SparkCluster`: the handlers; the steps that wait for a lock (`SetSelection`,
  `DisconnectUnload`, `DisconnectBegin`) by themselves; a launch gets on or fails.
* `ClusterHealth`: the cache expires, desktops poll, probes end.
* `Updater`: the worker's steps, and the daily check that the timer unit starts.
* `DisplayChange`: the timer fires; the watcher repeats what was not answered; the
  reply of a failed confirmation is written.

No fairness is assumed of requests, faults, restarts, hotplugs or publications.

## 4. Divergences

`boot_image`: after a boot a recipe of scripts is started from its tag and not from the
image it was bound to; when the tag has moved (or a later check built it anew) it runs
what was never checked (`PROJECT.json`, "findings").

The other divergences the models show. Those with a name in `code` are reproduced by
the setting or checked as the property named; each is a guard or a history the passing
runs state. "Docs" quotes where the repository says otherwise.

**Recipes.**

* A signed community install replaces the definition of an active run: the one writer
  that does not ask the journal. `InUseRevisionUnchanged` of `RecipeOps`, 2 operations.
* When the last save of a deletion fails the tombstone is gone from memory, so the call
  cannot be repeated before a restart. `FalseMeansPending`, 1 operation.
* An abort between the phase `active` and the end of the job is accepted and carried
  out by nobody: request `"late-abort"` in `RecipeLifecycle`.
* Stop of a recipe that is not running removes the proxy of the one that is and unloads
  the selection: request `"idle-stop"`, `ActiveRunsAnswer`.
* The provisioner looks for an active recipe, pulls images, takes the lock and does not
  look again: a run with one restart, `SelectionIsServed`.
* An edit between a handler's read and its admission starts a run on the old revision.
* A retried cleanup of an operation that owns nothing asks for no admission, and so works
  next to whatever is in progress (and removes the proxy both would use). The setting
  "late cleanups" of `journal` gets there with 4 operations: `ExclusiveAdmission` leaves the
  operations in `late` aside and is violated without that.
* A handler that read a recipe before its deletion can begin work after the purge.
* Any abort in a cluster removes the shared proxy, also the managed engine's
  (`"cluster-abort"` with `SelectionIsServed`).
* A restart while a Stop waits for the lock: the run is reactivated, the Stop is
  finished against it, and the journal keeps an active run that is not selected. Hence
  `FilesAgree`, over restarts, ends with the first Stop.
* A Stop whose command fails releases the claims of the active run; after a restart
  that run is started again without them. If then a later Stop cannot remove its
  containers either, it ends with them up and off the record, and another recipe may
  start beside them: 4 operations and 1 restart with `"hook"` and `"remove"` violate
  `OneBackend`.
* A failed run keeps its claim on the port when the managed engine is back on the same
  port, and blocks later runs until its cleanup is retried.

**Checks and preparation.**

* Recovery resumes every interrupted check and run through the script path
  (`recipe_recovery.go:161`, `:170`) whatever the adapter; one of a container recipe cannot succeed.
* A container of the contract probe that nobody knows of (`slipped`) is left by a daemon killed
  between its start and its claim, by a `docker run` cut off at its limit
  (`recipe_contract_preflight.go:156–161`), by a claim that cannot be saved when the removal
  fails too (`:162–166`), and by an end that fails: its error is ignored and whatever cannot be
  inspected, within what is left of the same ten seconds, counts as gone (`:167–177`).
* A probe of a check that stays on record makes the resumed check fail and blocks
  admission; neither recovery nor a retried cleanup removes it
  (`recipe_recovery.go:385–392`), they only give it up once it is gone.
* A check's workspace that cannot be removed stays on record (`local_recipes.go:2243–2247`) and
  blocks admission. The retry is for operations that failed (`recipe_cleanup_retry.go:47`): that
  of a check that passed waits for a restart, which takes the verdict with it.
* A recipe of scripts without a source passes its check and can never run
  (`recipe_node_attestation.go:51`).
* `preflightRecipeAccelerators` asks telemetry of every enrolled Spark, so a two-node recipe
  never passes on a cluster of three (docs: `RECIPE_RELIABILITY_ROADMAP.md:436`).
* A check killed between its end and its deferred cleanup loses its verdict.

**Library.**

* A deletion asked for during a check that ends well, a Stop that succeeds or a run that
  becomes active is not finalised by their end: `DeletionEnds` under `MCFairSpec` with
  `Requests = {1}`, `MaxCalls = 4` and no revocations, failures or updates (docs:
  `RECIPE_RELIABILITY_ROADMAP.md:257–258`).
* A package that pins another revision of the reviewed profile, or changes a value
  without a migration, leaves an untouched import as it was stored: it is
  `local-unreviewed`, and runs no more, until it is imported again (docs:
  `RECIPE_RELIABILITY_ROADMAP.md:477–479`). `untouched` ends with such an update.
* A recipe deleted while its run starts becomes active but hidden: Stop answers 404.
* Editing a community recipe drops its provenance, so the next install appends a second
  recipe of the same id (`crossed`); it also makes a revoked revision's unchanged draft
  executable again.
* A check for revocations between an install's look at the feed and its store leaves the
  revoked revision executable until the next (`late`); a check stops at the first
  revocation it cannot verify, and only runs when the user looks for updates.
* An install while a deletion is pending succeeds and is purged later; a reinstall of
  the same revision returns the hidden recipe. A purge whose journal save failed can
  delete a later import after a restart.

**Engine** (`mixed`).

* An abort misses a launch that is not registered yet (`server.go:883`).
* A failing launch's cleanup removes its successor's container of the same name, and a
  launch reports success because another's engine answers.
* `reconcileInferenceOperation` clears the record of a launch under way, and the abort the
  desktop then offers gets a 409; it offers one for a cluster disconnect that is refused.
* A cancelled launch in the queue marks an unloaded selection loaded for a moment.
* A crash after a model change leaves the old model under the new selection, as does a
  failed runtime build; the same for a promotion that is killed, which stays "verifying".
* A promotion overwrites a model chosen while it verifies.
* An interrupted unload or abort leaves its record open; an operation on record at a
  restart bypasses the consent a restart asks for.

**Model cache** (`crossed`).

* "removed": uninstall is not refused while a recipe is prepared or runs.
* "exchange", "torn": a page download across an exchange of the repository is torn.
* "stale-list", "collected": the cleanup lists once; what comes into use after is removed,
  and what an exchange killed between its renames left beside the repository, too.
* "shared": seeding the staging area links unfinished blobs, which both then write.
* "half-staged": markers, references and blobs are linked before the snapshots.
* "marker-left": the cleanup leaves the completion marker of what it removes, and a job
  whose helper is done by then writes one for files that are gone.
* "between": a download stopped between two files is shown as whole.
* Two jobs of one repository; a stale staging area that brings back what was
  uninstalled; a peer promotion that deletes the peer's other revisions; a timed-out job
  whose helper writes on. (Docs: `LOCAL_RECIPES.md:145–165`.)

**Apps** (`crossed`, `missed`, `why`).

* A configuration restart takes no app lock: it can bring back an app that is being
  removed, collide with its update, and run its unpinned tag.
* `missed`: a saved configuration is acknowledged and not applied when another job has
  read the older one and has yet to start the container: the save finds no container to
  restart, or its own start fails because the name is taken. The same holds when the
  lookup of the container fails, which the code takes for "no container", and when the
  daemon is killed between the write and the restart.
* A failed update or reset leaves the app removed (docs: `DECISIONS.md:742–747`); a daemon
  killed between remove and run loses it, if it is not one that comes with the system.
* The rollback of a pack removes components that were there, stopped; a removal that
  fails half way leaves the pack on record; a pack's removal takes a dependency of
  another app.
* A failed save leaves the new pack or preference in memory. Sharing and the boot pass
  race; sharing does not ask whether the app is installed; a start that fails may leave
  a forwarder behind.
* After the pin moved, uninstall fails at the image; a rollback removes an image that
  was there before.

**Cluster.**

* `ObligationsAreKept`: a later operation's record replaces the rollback obligation of a
  failed one (docs: `CLOUDLESS_MASTER_ROADMAP.md:410–413`).
* `LaunchUsesOneSelection`: a launch reads the record three times, and a selection may
  change in between. `NoStrandedWorker`: a pull that outlives its stop starts a worker on
  a Spark that is independent again ("late pull").
* A half-done disconnect lets a Spark be enrolled twice, and gives two nodes one fabric
  index ("half disconnected"). An unlocked `load()` can overwrite a newer record
  ("overwritten").
* A connect is completed, and says healthy, when its 15 s are over, whatever it saw. A
  missing local configuration makes the cluster unhealthy with no layer that says so.

**Updater.**

* `RollbackRestores`: the kept generation need not be what was installed before
  (docs: `UPDATES.md:15–22`); an install that fails is not rolled back and not resumed.
* `OneReleaseStream`: a kill between the two files of `SetChannel` parts them; an older
  channel makes every check fail; a switch between verification and installation
  installs what was not verified.
* A recipe operation that ends inside the qualification window triggers a rollback.

**Display** (`crossed`).

* "stale": `displaySet` reads the previous layout before it takes the lock, so a rollback
  may restore an older one.
* "apply failed": a session that changed the screen and then reported an error leaves it
  changed with nothing pending.
* "unsaved": a failed save of the preference leaves it in memory, and the next
  normalisation applies it. "pinned": when the record cannot be removed the detected
  layout becomes the preference.
* "half confirmed": a daemon that dies between the preference and the record takes a
  confirmed change back. "confirmed late": a change already taken back can be confirmed.
* `GivenUp`: after its attempts, or when only the record cannot be removed, nothing is
  armed, and the pending change blocks others until the user reverts it or a restart.

## 5. Proofs

Everything here is proved for all values of the constants: any number of recipes,
operations, Sparks, engines, revisions, releases, requests and restarts.

| Theorem | Module | Says |
|---|---|---|
| `JournalIsDurable` | `RecipeOpsProofs` | `[]TypeOK` and `[]MemoryMatchesDisk` |
| `AdmissionIsExclusive` | | `[]ExclusiveAdmission` |
| `RunsHaveEvidence` | | `[]RunsOnRunnableEvidence` |
| `OwnedResourcesSurvive` | | `OwnershipSurvives` |
| `HiddenRecipesAreCondemned` | | `[]HiddenIsCondemned` |
| `PruningLosesNoEvidence` | | `PruningKeepsEvidence` |
| `LifecycleTypes` | `RecipeLifecycleProofs` | `[]TypeOK` |
| `OneRuntimeAtATime` | | `[](Tame => OneBackend)`, `Tame`: no restart so far, or containers can be removed |
| `WhatIsUpIsOnRecord` | | `[]NothingIsOffTheRecord`, if `"journal" \notin Faults` |
| `TheSelectedOneAnswers` | | `[]SelectionIsServedAfterFailures`, if `Mild` |
| `TheFilesAgree` | | `[]FilesAgree`, if `Mild` |
| `LibraryIsTyped` | `RecipeLibraryProofs` | `[]LibraryTypes` |
| `RevokedIsNotRun` | | `[]RevocationHolds` |
| `RollbackIsWhatWas` | | `[]RollbackIsTheLastInstalled` |
| `AskedIsListed` | | `[]LibraryIsAsAsked` |
| `LabelsSayWhatIs` | | `[]LabelsAreEarned` |
| `ChecksImplementLaunches` | `RecipeEvidenceProofs` | `LaunchesWhatWasChecked`, if `MovedTags = FALSE` |
| `LeavesNothingBehind` | | `[]NothingIsLeftBehind` |
| `AnUnchangedMachineIsEnough` | | `[]AnUnchangedMachineRuns` |
| `VerifiedContent` | `ModelCacheProofs` | `[]RunsOnVerifiedContent` |
| `ShownModelsAreWhole` | | `[]ShownIsWhole` |
| `NothingWholeIsLost` | | `[]NothingIsLost` |
| `WhatRunsIsSelected` | `EngineSwitchProofs` | `[]RuntimeIsTheSelection` |
| `AnAbortHolds` | | `[]AbortHolds` |
| `PromotionsReportWhatRuns` | | `[]PromotionReportsWhatRuns` |
| `CompletedDisconnectIsClean` | `SparkClusterProofs` | `DisconnectIsVerified` |
| `LeftoversAreOnRecord` | | `[]LeftoversAreRecorded` |
| `SparksAreEnrolledOnce` | | `[]EachSparkOnce` |
| `VerifiedIsInstalled` | `UpdaterProofs` | `[]InstallsWhatWasVerified` |
| `UpdatesAreKept` | | `[]UpdatedIsInstalledAndKept` |
| `RollbacksRestore` | | `[]RollbackRestoresWhatWasKept` |

What the proofs assume of the constants is what the models state: `None` is none of the
values it stands apart from (`NoneAssumption`, `RecipesAssumption`, and a part of `EngineAssumption` and
`RevisionAssumption`); bounds are numbers; the default engine is an engine and the two named
revisions are revisions; `At` says which Spark an address belongs to; releases and
contents are numbered from 1 (`UpdaterAssumption`, `ContentsAssumption`); a release that
names the repository of the reviewed profile runs on the host, as `Valid` has it of every
draft with a repository (`ProfileIsOfARepository`); neither the managed engine
nor nobody is an operation (`OwnersAssumption`). Five theorems have a hypothesis. Two
leave out a divergence of section 4: tags that move between a check and a boot (`MovedTags`, the run
`boot_image`); a restart on a machine that cannot remove containers (`Tame`). The
third, `WhatIsUpIsOnRecord`, speaks of a journal that can be saved: when the save of a
claim on the proxy fails and so does its removal, nothing is left to write it to.
The last two share `Mild`: a preparation, a hook or the health of a recipe may fail and
Run, Stop and Abort may come at any time, but containers can be looked up and removed and
files saved, and the calls of section 4 (`"idle-stop"`, `"late-abort"`, `"cluster-abort"`, retried
cleanups) are not made. It is the setting of `lifecycle_safety`. TLC violates one of the two
properties or both when any of these is added, except a late retry: the answers with
`"remove"`, `"engine"`, `"journal"`, `"state"`, `"cluster-abort"` and `"retry"`, the files with
`"engine"`, `"journal"`, `"state"`, `"idle-stop"` and `"late-abort"`. A container that stays
keeps the endpoint from what is selected, and a file that cannot be saved does
not say what the other says; the calls are divergences.

The modules share one layout: `IInv` is the conjunction of named parts, a lemma per
action shows that it keeps them, `Invariance` is `Spec => []IInv`, and the theorems
follow from it. `IInv` was first checked by TLC on the module's run.

**The journal.** `TypeOK /\ MemoryMatchesDisk` is inductive: a mutator writes both copies or
neither, and a crash copies the file into a memory that equals it. On top of it every
step of the journal is shown to have one of four shapes (`Shape`, lemma `StepShape`): it
keeps all records; it rewrites one record of an operation that is at work, keeping its
kind, recipe, revision and, for a run, its artifact; it prunes finished records; or it
begins one operation that nothing blocks. The later theorems then look at four cases
and not at twenty actions. `ExclusiveAdmission` is inductive over shapes:
only a late cleanup brings a finished operation back, and that one is `late`; a begun
one met no other, late or not, but the run a Stop may join. `RunsOnRunnableEvidence` is not inductive alone, because a run
takes its artifact from a check; `OwnVerdicts` adds that the artifact of any finished check
is about the check's own recipe and revision. `OwnershipSurvives` needs `Fresh`:
identifiers on record were issued, so a new operation does not overwrite an old one.
`HiddenIsCondemned` uses `MemoryMatchesDisk` for the crash. `PruningKeepsEvidence` is
an action property and needs `ChecksAreRunnable`: what a prune keeps of a revision is
some finished check, and a check gets to its last phase only with a runnable verdict.

**The lifecycle.** Neither property is inductive, and `EngineMu` is not what keeps two
runtimes apart: recovery and retried cleanups run without it. What does is the record.
An operation is *live* when it claims a backend or is a run whose last checkpoint is not
an end; `OneLive` says that there is one, because a run is admitted only when every other
operation is over and owns nothing. `Sound` ties label, phase, checkpoint and claims of one
operation together: who is about to start containers has the claim, who has
containers up has the claim or was started again by a recovery (`Unclaimed`), who is
recovered is not also retried. A stop writes to the run it ends, so the others must stand
still meanwhile (`StopIsAlone`), and a run is closed only when what is up of it is claimed
(`Emptied`). Nearly all actions work on one operation and are shown *good*
(`Good`: it stays sound and does not become live, stopping or bare); `LocalStep` turns this
into the invariant once. The four actions in which a stop writes elsewhere go through
`StopKeeps`, admission through `BeginKeeps`.

The selection needs a second invariant, `SInv`, on top of the first. While no restart has
happened, or no stop was begun (`Calm`), somebody *accounts* for the selection
(`Accounted`): it is unloaded; or the managed engine is selected and up; or one run holds it
(`Holds`), because it is active, because it has promoted itself and will finish, roll back
or unload, or because it has taken the managed engine down and will bring it back.
There is one such run (`OneBusy`), so a step of a run at work has to show only that the
run itself still holds or that the selection is answered (`OwnStep`). `Selecting` says
at which labels the selection is the run's own, `Running` what is up where nothing has
restarted: an active run has its containers and the proxy unless a stop is emptying it.
A stop takes both from the run it ends, and between its save of the selection and its
close of the run the two files differ; `Ends` and `StoppedAt` say who is at that place. A run
remembers the selection it found, and a rollback that restored one with a recipe in it
would hold nothing: `Prior` says that it never does, since a run is admitted only
when no recipe is active. With restarts only `Selecting` and `Accounted` remain, and the
recovery goes on from the last checkpoint: `HoldsRecipe` reads it and not the phase. TLC
checked `SInv` on both settings of `lifecycle_safety` before it was proved; it found
that a stop begun after a restart breaks it, which is the divergence of section 4.

**The library.** Three things are kept, each by a lemma for every call. `OnRecord`, of every
recipe on file: a provenance belongs to the community recipe, what carries it (the recipe
and every entry of its history) is what the service released under it, and it is marked if a
check has gone over its revision; a recipe with the mark of a reviewed import is the import
as it came, in an edition the package migrates as long as none has pinned the profile anew
(`AsImported`), in an older one after. `Placed`, of the file and one id: it is there when it
was asked for or is to be deleted, and once, with the mark of the deletion it is under.
`Traced`, of the community recipe: it and its history are the last of what was installed. A
call replaces a recipe, adds one, rewrites all or drops some, so lemmas about these four
(`ExceptFiled`, `AppendPlaced`, `LoadedKeeps`, `WithoutKeeps`, ...) carry the calls. What a
purge leaves of the file is a recursion over its length; that it has a solution and that the
solution keeps the other recipes in their order (`PurgeIsDefined`, `WithoutIs`) is an
induction over a set of numbers, from the least-number principle of the library's
well-foundedness theorems. `RequestsKept` carries the verified release and the clean list of
revocations to the step that stores.

**The cluster.** `Shapes` is the type invariant with what a mutation under way knows of
itself: its record is well formed, its operation is of its kind and names its host.
Steps of launches, unloads and waiting handlers are *quiet* (`QuietStep`): they leave the
record and the networks alone and start workers only on Sparks that have a network.
For every other action one lemma says which record it writes and what the mutation
goes on to (`ConnectSaveShape`, ...); `ShapesStep` puts them together. `Cleaning` is the
strengthening for the disconnect: every enrolled Spark is pending, failed, or has no
network and no worker but one that a late pull started; past the Sparks nothing is
pending or failed and the coordinator's network is gone; and what a disconnect has on
file is not completed before it is over. `Tracked` is the one for what
is left over: a Spark that has a network and is not enrolled is owed by the record or
was forgotten; a connect owes its host from its beginning and makes it loose only until
its save; a mutation finds the nodes of the record it began with. `Once` says that the
records are distinct, that every enrolled Spark has a network while no disconnect has
begun to clean (so the preflight sees it whatever address is typed), and that the
Spark of a connect is not enrolled before its save.

**Checks and runs.** The properties speak of the end of an operation and the invariant
of the way there. A path is a sequence of steps of which some are skipped, so `IInv`
says what is true once a step lies *behind* the operation: a check that is past `Finder`
has found an image (`Found`), a run that is past `match` and `images` has the source
and the image of the newest check (`Bound`); lemmas about the paths (`RunPath`,
`CheckPath`, `PathPairs`) say which step comes before which. `Served`: nothing
serves but what is active or being launched, and that is attested. `Recorded`: a
workspace is claimed before it is made and a probe at the step after, and what is claimed
belongs to a check under way, to a probe about to answer, or was left by something that
went wrong (`slipped`). One lemma says what a sweep leaves (`Sweeping`): nothing that was not
there, and what exists stays on record. The
refinement is proved step by step (`Serves` of the promise by `Bound` and `Served`, a check's
end by `Found`, all else by what it leaves alone).

`AnUnchangedMachineRuns` says that nothing fails, so every guard of every step has to be
shown true from what an earlier step, or the check before, has left. `CInv` counts
disturbances (changes of the world, faults, kills) and speaks of what began at the
present count. `Learnt`: each step *behind* the operation has achieved its `Effect` and
the effect still holds. `Reliable`: what the newest check saw of room, ports, Sparks, platform,
cluster, source and images is still so, and a reference that is built names the image it
found whenever no other check is at work. From both follows `NothingMissing`: the step
ahead finds what it needs, except for an attestation without a source, which the property
leaves out. A disturbance makes both vacuous until the next check (`Disturbed`);
`Ordered`, `Tagged` and `Fitting` connect the two: nothing begins in the future, a
reference names an image on the head, and no operation is at a step that does not apply.

**The model cache.** Three properties, one invariant, because each hazard comes back in
several places. `Honest`: while no unfinished blob is shared, no file of the right size is
wrong, so a merge of two repositories has what either had (`SincereWhole`). `Evident` and
`Exchanged`: what a preparation goes by was looked at after the last download that
could write, and nothing writes between the two renames. `Kept`, `Filled`: in the gap
between the renames the old repository is beside the place and contained in what replaces
it; `Standing` is the repository wherever it is at that moment, and `Marked`, `Staged`
and `Loose` (markers name whole revisions; unfinished files have unfinished blobs) are
said of it and of every copy that can take its place. `Importing` is the boot.

**The engine.** `Base` has types, who is at which step with which kind of request
(`Placed`), who has `EngineMu` (`Locked`) and what stands still meanwhile (`Steady`).
The properties hold when all is quiet and are far from inductive. `Holding`: after an
abort every launch found is cancelled and one that still gets to the selection is
bound to take back what it does. `Reporting` relates phase, place of the promotion
and what runs. `Single`, `Current` and `Selecting` say the same of the
selection: one launch at a time, what it read is still on record, and at each of its
steps (`Launching`) which difference between Docker and the record it still has to settle.

**The updater.** `VersionIn` takes the newest release that changed a package, so its
lemmas rest on well-founded minima. `VerifiedIsOffered`, `StagedIsOffered` and
`InstalledIsStaged` carry the verified release through the transaction: what was
verified is what the lists offer, what is staged is that, what is installed is what
was staged. `KeptIsWhatWas` is the counterpart for the rollback;
`ListsWerePublished` (a channel never offers less again) makes an installed update newer;
`OutcomeIsLast` separates a reported outcome from a transaction under way.

**Only model-checked.** Liveness (`EveryTaskEnds`, `LaunchRecordsClose`, `DownloadsSettle`,
`JobsEnd`, `MutationsEnd`, `ViewCatchesUp`, `InstallingEnds`, `ScreenIsAsConfirmed`):
fairness and `ENABLED` are out of the prover's reach. The three invariants of
`AppLibrary`, where the order of an installation is computed by a fold over a sorted
sequence: the library's theorems about folds and sorting take operators as parameters, which no
installed prover can instantiate.
The type invariants (`TypeOK` of each module) hold and can be
added to any configuration.

## 6. Not modelled

* Timestamps. The newest check is picked by comparing RFC 3339 strings; the models
  take the order of creation, and leave open which check pruning keeps.
* Directory syncs: a completed rename is taken as durable.
* The contents of recipes, HTTP, authentication, cryptography, rendering of progress;
  anything in `PROJECT.json` with the status `not_modelled`. Packages marked "I/O",
  "built-in data" or "policy on data" keep no state between calls.
* Library: `CreateIndexed`, which nothing calls; a crash between tombstone and mark, which
  `RecipeOps` has. Field limits are one flag of a draft.
* Preparation: measurements are abstracted to what the evidence tells apart; copies of
  the model and the checkout on other Sparks, tools, failed saves of the journal but those
  that give up a claim. Of the removals that may fail, those of containers started by the
  launch itself are in `RecipeLifecycle`.
* Model cache: a source that reappears after the import; sets of dependent models;
  build images, runtime checkouts and workspaces in the cleanup; images and checkouts in
  the distribution.
* Apps: the update of the managed engine's image, recreation of a mismatched
  `hermes`, the packs' preflight, removal errors the code ignores, the tunnel's guard.
* Engine: removal errors the code ignores. `eng.Stop` and `eng.Remove` always remove the
  container (`server.go:1031`, `:1228–1229`, `:1243–1247`, `promotion.go:144`).
* Cluster: discovery, telemetry, download progress, the health summary over Sparks.
* Updater: the NVIDIA driver transaction (a second document under the same lock), failed
  writes of the status documents.
* Display: modes, positions, mirroring against extending, the parser of xrandr.
* Jobs: subscribers and lost updates. Gateway: proxying is I/O, and its rate limit is a
  real-valued bucket on one mutex.

## 7. Plan

1. `RecipeAdmission`: the journal's promise as a lock with one holder and a guest, with
   `RecipeOps` refining it: checked by TLC, then proved from `StepShape`.
2. `JobStream`: every subscriber learns the end of a job although updates are dropped.
3. The NVIDIA transaction beside the package update, under their common lock.
4. The cleanup of build images and checkouts, with `RecipeOps` as what refers to them.
