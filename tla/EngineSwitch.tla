---------------------------- MODULE EngineSwitch ----------------------------
(* The managed inference engine of one machine: launches, model changes,     *)
(* unloads and aborts of the desktop, each a goroutine of its own; the       *)
(* provisioner at daemon start; the promotion of the default model; and the  *)
(* runtime and operation records of state.json that all of them write.       *)
(* EngineMu serialises what they do to containers, not what they record.     *)
EXTENDS Naturals, FiniteSets

CONSTANTS
    Engines,          \* bundled and custom engines
    DefaultEngine,    \* what an empty selection means (catalog.DefaultEngine)
    None,
    NeedsBuild,       \* models whose runtime has to be built before a launch
    MaxJobs,          \* bound: requests of one daemon process
    MaxRestarts       \* bound: restarts of the daemon or of the device

ASSUME EngineAssumption ==
    /\ DefaultEngine \in Engines /\ None \notin Engines
    /\ NeedsBuild \subseteq {"target", "other"}
    /\ MaxJobs \in Nat /\ MaxRestarts \in Nat

VARIABLES
    store,      \* state.json: selection, inference operation, promotion
    cont,       \* engine -> the model its running container serves, or None
    answering,  \* the engines whose process answers at the stable endpoint
    jobs,       \* the requests of this process, in order of their job ids
    asked,      \* how many there are
    mutex,      \* who holds EngineMu
    boot,       \* where the provisioner of this process is, and what it read
    restarts,
    mixed       \* history: how two actors were at the selection at once, or what
                \* the code leaves half done: a build that failed, a container that stays

vars == <<store, cont, answering, jobs, asked, mutex, boot, restarts, mixed>>

Free == 0
Booting == MaxJobs + 1
JobIds == 1..MaxJobs
Models == {"bootstrap", "target", "other"}
Launches == {"launch", "switch", "model"}

Resolve(model) == IF model = "" THEN "target" ELSE model
Selected(s) == IF s.engine = None THEN DefaultEngine ELSE s.engine
Running == {e \in Engines : cont[e] # None}
Active == IF Running = {} THEN DefaultEngine ELSE CHOOSE e \in Running : TRUE
Runtime(s) == [engine |-> s.engine, model |-> s.model, unloaded |-> s.unloaded]

-----------------------------------------------------------------------------
(* The operation record. Writers of another id change nothing.               *)
NoRuntime == [engine |-> None, model |-> "", unloaded |-> FALSE]
NoOp == [id |-> 0, action |-> "none", phase |-> "none", previous |-> NoRuntime]

BeginOp(s, id, action, previous) ==
    [s EXCEPT !.op = [id |-> id, action |-> action, phase |-> "open",
                      previous |-> previous]]

UpdateOp(s, id, phase) == IF s.op.id = id /\ id # 0 THEN [s EXCEPT !.op.phase = phase] ELSE s
ClearOp(s, id) == IF s.op.id = id /\ id # 0 THEN [s EXCEPT !.op = NoOp] ELSE s

Commit(s, runtime) ==
    [s EXCEPT !.engine = runtime.engine, !.model = runtime.model,
              !.unloaded = runtime.unloaded]

NoPromotion == [phase |-> "none", active |-> ""]
Promote(s, phase, active) == [s EXCEPT !.promo = [phase |-> phase, active |-> active]]

ShouldBootstrap(s) ==
    s.model = "" /\ ~s.unloaded /\ s.promo.phase \notin {"none", "ready"}

-----------------------------------------------------------------------------
(* Containers. Docker refuses a second publisher of the endpoint's port.     *)
Remove(engines) ==
    /\ cont' = [e \in Engines |-> IF e \in engines THEN None ELSE cont[e]]
    /\ answering' = answering \ engines

Run(e, model) ==
    /\ Running = {}
    /\ cont' = [cont EXCEPT ![e] = model]
    /\ UNCHANGED answering

EngineAnswers ==
    /\ \E e \in Running \ answering : answering' = answering \cup {e}
    /\ UNCHANGED <<store, cont, jobs, asked, mutex, boot, restarts, mixed>>

-----------------------------------------------------------------------------
NoJob == [kind |-> "none", target |-> None, model |-> "", previous |-> NoRuntime,
          pc |-> "none", outcome |-> "none", cancelled |-> FALSE, swept |-> FALSE]

Ended(j, outcome) ==
    [jobs EXCEPT ![j] = [NoJob EXCEPT !.kind = jobs[j].kind, !.pc = "ended",
                                      !.outcome = outcome, !.swept = jobs[j].swept]]

Live == {j \in JobIds : jobs[j].pc \notin {"none", "ended"}}
LiveLaunches == {j \in Live : jobs[j].kind \in Launches}
Registered == {j \in LiveLaunches : jobs[j].pc # "begun"}
PromotionLive == boot.pc \in {"downloading", "downloaded", "switching", "verifying",
                              "committed", "restoring"}

Init ==
    /\ \E auto \in BOOLEAN, engine \in {None} \cup Engines, unloaded \in BOOLEAN,
          phase \in {"none", "downloading"} :
          store = [engine |-> engine, model |-> "", unloaded |-> unloaded, op |-> NoOp,
                   auto |-> auto, promo |-> [phase |-> phase, active |-> ""]]
    /\ cont = [e \in Engines |-> None] /\ answering = {}
    /\ jobs = [j \in JobIds |-> NoJob] /\ asked = 0
    /\ mutex = Free /\ boot = [pc |-> "pulling", read |-> None]
    /\ restarts = 0 /\ mixed = {}

(* A request: a job, its operation record, and a goroutine.                  *)
Ask(kind, target, previous, s) ==
    /\ asked < MaxJobs
    /\ asked' = asked + 1
    /\ jobs' = [jobs EXCEPT ![asked + 1] =
            [NoJob EXCEPT !.kind = kind, !.target = target, !.pc = "begun"]]
    /\ store' = BeginOp(s, asked + 1, kind, previous)
    /\ mixed' = mixed \cup {way \in {"launches", "boot", "promotion"} :
            \/ way = "launches" /\ LiveLaunches # {}
            \/ way = "boot" /\ boot.pc \in {"pulling", "stopped"}
            \/ way = "promotion" /\ kind = "model" /\ PromotionLive}
    /\ UNCHANGED <<cont, answering, mutex, boot, restarts>>

EngineLoad == Ask("launch", Selected(store), Runtime(store), store)
EngineSwitchTo(e) == Ask("switch", e, Runtime(store), store)
EngineRestart == Ask("launch", Active, Runtime(store), store)
SettingsModel(model) ==
    Ask("model", Active, Runtime(store), [store EXCEPT !.model = model])

EngineUnload ==
    /\ asked < MaxJobs /\ asked' = asked + 1
    /\ jobs' = [jobs EXCEPT ![asked + 1] = [NoJob EXCEPT !.kind = "unload", !.pc = "queued"]]
    /\ store' = BeginOp(store, asked + 1, "unload", NoRuntime)
    /\ UNCHANGED <<cont, answering, mutex, boot, restarts, mixed>>

(* Abort cancels what is registered, and is refused when there is nothing.   *)
AbortAccepted ==
    Registered # {} \/ (store.op.id # 0 /\ store.op.phase # "error")

EngineAbort ==
    /\ asked < MaxJobs /\ AbortAccepted
    /\ asked' = asked + 1
    /\ jobs' = [j \in JobIds |->
            IF j = asked + 1
            THEN [NoJob EXCEPT !.kind = "abort", !.pc = "queued",
                               !.swept = (LiveLaunches = Registered)]
            ELSE [jobs[j] EXCEPT !.cancelled = (@ \/ j \in Registered)]]
    /\ store' = BeginOp(store, asked + 1, "abort", NoRuntime)
    /\ UNCHANGED <<cont, answering, mutex, boot, restarts, mixed>>

-----------------------------------------------------------------------------
(* runEngineUnload, which an abort runs too.                                 *)
UnloadRemoves(j) ==
    /\ jobs[j].pc = "queued" /\ jobs[j].kind \in {"unload", "abort"} /\ mutex = Free
    /\ \/ /\ Remove(Running)
          /\ mutex' = j /\ UNCHANGED <<store, mixed>>
          /\ jobs' = [jobs EXCEPT ![j].pc = "removed"]
       \/ /\ store' = UpdateOp(store, j, "error")
          /\ jobs' = Ended(j, "error")
          /\ mixed' = mixed \cup {"stays"}
          /\ UNCHANGED <<cont, answering, mutex>>
    /\ UNCHANGED <<asked, boot, restarts>>

UnloadEnds(j) ==
    /\ jobs[j].pc = "removed"
    /\ store' = ClearOp([store EXCEPT !.unloaded = TRUE], j)
    /\ jobs' = Ended(j, "ok")
    /\ mutex' = Free
    /\ UNCHANGED <<cont, answering, asked, boot, restarts, mixed>>

(* runSwitch: an engine that already answers is left alone.                  *)
SwitchIsNoop(j) ==
    /\ jobs[j].pc = "begun" /\ jobs[j].kind = "switch"
    /\ cont[jobs[j].target] # None /\ answering # {}
    /\ store' = ClearOp(store, j)
    /\ jobs' = Ended(j, "ok")
    /\ UNCHANGED <<cont, answering, asked, mutex, boot, restarts, mixed>>

(* applyEngineVerified reads the model, becomes cancellable and then waits   *)
(* for EngineMu without looking at its context.                              *)
LaunchPrepares(j) ==
    /\ jobs[j].pc = "begun"
    /\ jobs[j].kind = "switch" => ~(cont[jobs[j].target] # None /\ answering # {})
    /\ jobs' = [jobs EXCEPT ![j].pc = "queued", ![j].model = store.model]
    /\ UNCHANGED <<store, cont, answering, asked, mutex, boot, restarts, mixed>>

BuildFails(j) ==
    /\ jobs[j].pc = "queued" /\ jobs[j].kind \in Launches /\ mutex = Free
    /\ Resolve(jobs[j].model) \in NeedsBuild
    /\ jobs' = Ended(j, "error")
    /\ store' = UpdateOp(store, j, "error")
    /\ mixed' = mixed \cup {"build"}
    /\ UNCHANGED <<cont, answering, asked, mutex, boot, restarts>>

LaunchSelects(j) ==
    /\ jobs[j].pc = "queued" /\ jobs[j].kind \in Launches /\ mutex = Free
    /\ mutex' = j
    /\ store' = [store EXCEPT !.engine = jobs[j].target, !.unloaded = FALSE]
    /\ jobs' = [jobs EXCEPT ![j].pc = "selected"]
    /\ UNCHANGED <<cont, answering, asked, boot, restarts, mixed>>

(* A cancelled context lets Docker calls fail, and their errors are dropped. *)
LaunchReplaces(j) ==
    /\ jobs[j].pc = "selected"
    /\ Remove(IF jobs[j].cancelled THEN {} ELSE Engines)
    /\ jobs' = [jobs EXCEPT ![j].pc = "replaced"]
    /\ UNCHANGED <<store, asked, mutex, boot, restarts, mixed>>

LaunchRuns(j) ==
    /\ jobs[j].pc = "replaced"
    /\ mutex' = Free
    /\ \/ /\ ~jobs[j].cancelled /\ Run(jobs[j].target, Resolve(jobs[j].model))
          /\ jobs' = [jobs EXCEPT ![j].pc = "loading"]
          /\ UNCHANGED store
       \/ /\ UNCHANGED <<cont, answering>>
          /\ jobs' = [jobs EXCEPT ![j].pc = "failing", ![j].outcome = "error"]
          /\ store' = UpdateOp(store, j, "error")
    /\ UNCHANGED <<asked, boot, restarts, mixed>>

(* Any answer at the stable endpoint is taken for the target's.              *)
LaunchSucceeds(j) ==
    /\ jobs[j].pc = "loading" /\ answering # {}
    /\ jobs' = Ended(j, "ok")
    /\ store' = ClearOp(store, j)
    /\ UNCHANGED <<cont, answering, asked, mutex, boot, restarts, mixed>>

(* Cancelled, out of time, or the tool-calling contract is not met.          *)
LaunchFails(j) ==
    /\ jobs[j].pc = "loading"
    /\ jobs' = [jobs EXCEPT ![j].pc = "failing", ![j].outcome = "error"]
    /\ store' = UpdateOp(store, j, "error")
    /\ UNCHANGED <<cont, answering, asked, mutex, boot, restarts, mixed>>

\* A superseded launch that leaves its own mark on the selection.
FaultyLaunchCleansUp(j) ==
    /\ jobs[j].pc = "failing" /\ mutex = Free
    /\ Remove({jobs[j].target})
    /\ IF store.op.id = j
       THEN /\ mutex' = j /\ store' = UpdateOp(store, j, "rollback")
            /\ jobs' = [jobs EXCEPT ![j].pc = "rolling-back",
                                    ![j].previous = store.op.previous]
       ELSE /\ mutex' = Free /\ UNCHANGED store /\ jobs' = Ended(j, "error")
    /\ UNCHANGED <<asked, boot, restarts, mixed>>

(* The deferred cleanup takes EngineMu again; rollbackInferenceRuntime then  *)
(* restores the runtime of the record, when the record is still its own.     *)
LaunchCleansUp(j) ==
    /\ jobs[j].pc = "failing" /\ mutex = Free
    /\ Remove({jobs[j].target})
    /\ IF store.op.id = j
       THEN /\ mutex' = j /\ store' = UpdateOp(store, j, "rollback")
            /\ jobs' = [jobs EXCEPT ![j].pc = "rolling-back",
                                    ![j].previous = store.op.previous]
       ELSE /\ mutex' = Free /\ store' = [store EXCEPT !.unloaded = TRUE]
            /\ jobs' = Ended(j, "error")
    /\ UNCHANGED <<asked, boot, restarts, mixed>>

RollbackCommits(j) ==
    /\ jobs[j].pc = "rolling-back"
    /\ LET safe == Commit(store, [jobs[j].previous EXCEPT !.unloaded = TRUE])
       IN  IF jobs[j].previous.unloaded
           THEN /\ store' = UpdateOp(safe, j, "error") /\ mutex' = Free
                /\ jobs' = Ended(j, "error")
           ELSE /\ store' = safe /\ UNCHANGED mutex
                /\ jobs' = [jobs EXCEPT ![j].pc = "restoring"]
    /\ UNCHANGED <<cont, answering, asked, boot, restarts, mixed>>

\* A restored engine that is not put back on record.
FaultyRollbackRestores(j) ==
    /\ jobs[j].pc = "restoring"
    /\ LET engine == Selected(jobs[j].previous)
       IN  \/ /\ Running \subseteq {engine}
              /\ cont' = [cont EXCEPT ![engine] = Resolve(jobs[j].previous.model)]
              /\ answering' = answering \ {engine}
          \/ Remove({engine})
    /\ store' = UpdateOp(store, j, "error") /\ mutex' = Free
    /\ jobs' = Ended(j, "error")
    /\ UNCHANGED <<asked, boot, restarts, mixed>>

RollbackRestores(j) ==
    /\ jobs[j].pc = "restoring"
    /\ LET previous == jobs[j].previous
           engine == Selected(previous)
       IN  \/ /\ Running \subseteq {engine}
              /\ cont' = [cont EXCEPT ![engine] = Resolve(previous.model)]
              /\ answering' = answering \ {engine}
              /\ store' = UpdateOp(Commit(store, previous), j, "error")
           \/ /\ Remove({engine})
              /\ store' = UpdateOp(store, j, "error")
    /\ mutex' = Free
    /\ jobs' = Ended(j, "error")
    /\ UNCHANGED <<asked, boot, restarts, mixed>>

-----------------------------------------------------------------------------
(* The provisioner. It pulls images without the lock, and under it stops     *)
(* what is not selected and starts what is, unless that is unloaded or runs. *)
BootStops ==
    /\ boot.pc = "pulling" /\ mutex = Free /\ mutex' = Booting
    /\ boot' = [pc |-> "stopped",
                read |-> [store EXCEPT !.op = NoOp,
                                       !.promo = IF ShouldBootstrap(store) THEN @ ELSE NoPromotion]]
    /\ Remove(IF store.unloaded THEN Engines ELSE Engines \ {Selected(store)})
    /\ store' = IF ShouldBootstrap(store) THEN Promote(store, "bootstrap", "bootstrap") ELSE store
    /\ UNCHANGED <<jobs, asked, restarts, mixed>>

\* A launch whose engine could not be started again stays as it was found.
FaultyReconciled(s, started) ==
    IF s.op.id # 0 /\ s.op.phase # "error"
       /\ (IF s.op.action \in {"unload", "abort"} THEN s.unloaded ELSE started)
    THEN ClearOp(s, s.op.id) ELSE s

(* reconcileInferenceOperation closes the record of an interrupted operation *)
(* by what the provisioner found or started.                                 *)
Reconciled(s, started) ==
    IF s.op.id = 0 \/ s.op.phase = "error" THEN s
    ELSE IF s.op.action \in {"unload", "abort"}
         THEN IF s.unloaded THEN ClearOp(s, s.op.id) ELSE s
         ELSE IF started THEN ClearOp(s, s.op.id) ELSE UpdateOp(s, s.op.id, "error")

BootStarts ==
    /\ boot.pc = "stopped"
    /\ LET read == boot.read
           engine == Selected(read)
           bootstrap == ShouldBootstrap(read)
           after == IF bootstrap THEN "downloading" ELSE "done"
       IN  /\ \/ /\ ~read.unloaded /\ cont[engine] = None
                 /\ Run(engine, IF bootstrap THEN "bootstrap" ELSE Resolve(read.model))
                 /\ store' = Reconciled(store, TRUE)
              \/ /\ UNCHANGED <<cont, answering>>
                 /\ store' = Reconciled(store, cont[engine] # None)
           /\ boot' = [pc |-> after, read |-> IF bootstrap THEN engine ELSE None]
    /\ mutex' = Free
    /\ UNCHANGED <<jobs, asked, restarts, mixed>>

-----------------------------------------------------------------------------
(* PromoteDefault: a download beside the bootstrap model, then the cut-over  *)
(* under EngineMu, verified before it is recorded.                           *)
PromotionEnds == boot' = [pc |-> "done", read |-> None]
PromotionAt(pc) == boot' = [boot EXCEPT !.pc = pc]

PromotionDownloads ==
    /\ boot.pc = "downloading"
    /\ IF ~ShouldBootstrap(store)
       THEN PromotionEnds /\ UNCHANGED store
       ELSE \/ /\ boot' = [pc |-> "downloaded", read |-> Selected(store)]
               /\ store' = Promote(store, "downloading", "bootstrap")
            \/ /\ PromotionEnds
               /\ store' = Promote(store, "error", "bootstrap")
    /\ UNCHANGED <<cont, answering, jobs, asked, mutex, restarts, mixed>>

PromotionSwitches ==
    /\ boot.pc = "downloaded" /\ mutex = Free
    /\ IF store.model # "" \/ store.unloaded \/ Selected(store) # boot.read
       THEN /\ PromotionEnds /\ store' = Promote(store, "canceled", "bootstrap")
            /\ UNCHANGED <<cont, answering, mutex>>
       ELSE /\ PromotionAt("switching") /\ mutex' = Booting
            /\ store' = Promote(store, "switching", "bootstrap")
            /\ Remove({boot.read})
    /\ UNCHANGED <<jobs, asked, restarts, mixed>>

PromotionRuns ==
    /\ boot.pc = "switching"
    /\ \/ /\ Run(boot.read, "target") /\ PromotionAt("verifying")
          /\ store' = Promote(store, "verifying", "target")
       \/ /\ PromotionAt("restoring")
          /\ store' = Promote(store, "rollback", "bootstrap")
          /\ UNCHANGED <<cont, answering>>
    /\ UNCHANGED <<jobs, asked, mutex, restarts, mixed>>

\* The model that was not verified is not taken away.
FaultyPromotionVerifies ==
    /\ boot.pc = "verifying"
    /\ \/ /\ answering # {} /\ PromotionAt("committed")
          /\ store' = [store EXCEPT !.model = "target"]
       \/ /\ PromotionAt("restoring")
          /\ store' = Promote(store, "rollback", "bootstrap")
    /\ UNCHANGED <<cont, answering, jobs, asked, mutex, restarts, mixed>>

PromotionVerifies ==
    /\ boot.pc = "verifying"
    /\ \/ /\ answering # {} /\ PromotionAt("committed")
          /\ store' = [store EXCEPT !.model = "target"]
          /\ UNCHANGED <<cont, answering>>
       \/ /\ PromotionAt("restoring")
          /\ store' = Promote(store, "rollback", "bootstrap")
          /\ Remove({boot.read})
    /\ UNCHANGED <<jobs, asked, mutex, restarts, mixed>>

PromotionRecords ==
    /\ boot.pc = "committed" /\ PromotionEnds /\ mutex' = Free
    /\ store' = Promote(store, "ready", "target")
    /\ UNCHANGED <<cont, answering, jobs, asked, restarts, mixed>>

PromotionRestores ==
    /\ boot.pc = "restoring" /\ PromotionEnds /\ mutex' = Free
    /\ \/ /\ Run(boot.read, "bootstrap")
          /\ store' = Promote(store, "error", "bootstrap")
       \/ /\ UNCHANGED <<cont, answering>>
          /\ store' = Promote(store, "error", "")
    /\ UNCHANGED <<jobs, asked, restarts, mixed>>

-----------------------------------------------------------------------------
(* The daemon starts again. A device restart takes the containers along. A   *)
(* runtime that does not answer is offered and marked unloaded, unless an    *)
(* operation is on record or restarts are automatic.                         *)
RestartOffer(s, answers) ==
    IF s.unloaded \/ s.op.id # 0 \/ s.auto
       \/ (answers /\ (s.engine # None \/ s.model # ""))
    THEN s ELSE [s EXCEPT !.unloaded = TRUE]

Restart ==
    /\ restarts < MaxRestarts /\ restarts' = restarts + 1
    /\ \/ UNCHANGED <<cont, answering>>
       \/ Remove(Engines)
    /\ store' = RestartOffer(store, answering' # {})
    /\ jobs' = [j \in JobIds |-> NoJob] /\ asked' = 0
    /\ mutex' = Free /\ boot' = [pc |-> "pulling", read |-> None]
    /\ mixed' = mixed \cup {way \in {"restart"} : Live # {} \/ PromotionLive}

Request ==
    \/ EngineLoad \/ EngineRestart \/ EngineUnload \/ EngineAbort
    \/ \E e \in Engines : EngineSwitchTo(e)
    \/ \E model \in {"", "other"} : SettingsModel(model)

JobStep(j) ==
    \/ UnloadRemoves(j) \/ UnloadEnds(j)
    \/ SwitchIsNoop(j) \/ LaunchPrepares(j) \/ BuildFails(j) \/ LaunchSelects(j)
    \/ LaunchReplaces(j) \/ LaunchRuns(j) \/ LaunchSucceeds(j) \/ LaunchFails(j)
    \/ LaunchCleansUp(j) \/ RollbackCommits(j) \/ RollbackRestores(j)

BootStep ==
    \/ BootStops \/ BootStarts
    \/ PromotionDownloads \/ PromotionSwitches \/ PromotionRuns \/ PromotionVerifies
    \/ PromotionRecords \/ PromotionRestores

Next ==
    \/ Request \/ EngineAnswers \/ Restart
    \/ \E j \in JobIds : JobStep(j)
    \/ BootStep

\* Goroutines run, every wait of theirs has a deadline, and a Go mutex is
\* handed to who has waited longest.
Spec == Init /\ [][Next]_vars /\ WF_vars(BootStep) /\ \A j \in JobIds : WF_vars(JobStep(j))

-----------------------------------------------------------------------------
Quiet == Live = {} /\ boot.pc = "done" /\ mutex = Free

\* What runs when all is quiet is what is on record: nothing when it is
\* unloaded, and else the selected engine with the selected model, or with the
\* bootstrap model while that stands in for it (rollbackInferenceRuntime,
\* runEngineUnload, provisionEngine, PromoteDefault).
RuntimeIsTheSelection ==
    Quiet /\ mixed = {} =>
        \A e \in Running :
            /\ ~store.unloaded /\ e = Selected(store)
            /\ \/ cont[e] = Resolve(store.model)
               \/ cont[e] = "bootstrap" /\ store.model = "" /\ store.promo.phase # "none"

\* After an abort that was the last request and found every launch registered,
\* nothing is loaded, however the cancelled launches and their rollbacks end
\* (engineAbort, cancelEngineJobs).
AbortHolds ==
    Quiet /\ asked > 0 /\ jobs[asked].kind = "abort" /\ jobs[asked].swept
        /\ jobs[asked].outcome = "ok" =>
        store.unloaded /\ Running = {}

\* Until a launch is asked for or the daemon restarts, a promotion that has come
\* to its end names the model that runs, if any does, whichever of its steps
\* failed (PromoteDefault, rollbackPromotion).
PromotionReportsWhatRuns ==
    Quiet /\ restarts = 0 /\ store.promo.phase \in {"ready", "error"}
        /\ (\A j \in JobIds : jobs[j].kind \notin Launches) =>
        \A e \in Running : cont[e] = store.promo.active

\* The record of a launch does not stay open: it is closed, fails, or is
\* replaced, over restarts of the daemon too (reconcileInferenceOperation).
LaunchRecordsClose ==
    (store.op.action \in Launches /\ store.op.phase # "error")
        ~> (store.op.action \notin Launches \/ store.op.phase = "error")
=============================================================================
