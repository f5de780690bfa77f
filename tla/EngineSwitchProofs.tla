-------------------------- MODULE EngineSwitchProofs --------------------------
(***************************************************************************)
(* Proofs about EngineSwitch: an abort holds, a promotion reports what     *)
(* runs, and what runs is what is selected.                                *)
(***************************************************************************)
EXTENDS EngineSwitch, TLAPS

-----------------------------------------------------------------------------
(* Types *)

Runtimes == [engine : Engines \cup {None}, model : {"", "target", "other"}, unloaded : BOOLEAN]

Jobs ==
    [kind : Launches \cup {"none", "unload", "abort"}, target : Engines \cup {None},
     model : {"", "target", "other"}, previous : Runtimes,
     pc : {"none", "begun", "queued", "selected", "replaced", "loading", "failing",
           "rolling-back", "restoring", "removed", "ended"},
     outcome : {"none", "ok", "error"}, cancelled : BOOLEAN, swept : BOOLEAN]

Stores ==
    [engine : Engines \cup {None}, model : {"", "target", "other"}, unloaded : BOOLEAN,
     op : [id : 0..MaxJobs, action : Launches \cup {"none", "unload", "abort"},
           phase : {"none", "open", "error", "rollback"}, previous : Runtimes],
     auto : BOOLEAN,
     promo : [phase : {"none", "bootstrap", "downloading", "switching", "verifying",
                       "rollback", "ready", "error", "canceled"},
              active : {"", "bootstrap", "target"}]]

\* Where only a launch can be.
LaunchPlaces ==
    {"begun", "selected", "replaced", "loading", "failing", "rolling-back", "restoring"}
Unloads == {"unload", "abort"}

Typed ==
    /\ store \in Stores
    /\ cont \in [Engines -> Models \cup {None}]
    /\ jobs \in [JobIds -> Jobs] /\ asked \in 0..MaxJobs
    /\ mutex \in 0..Booting /\ restarts \in Nat
    /\ boot.pc \in {"pulling", "stopped", "downloading", "downloaded", "switching",
                    "verifying", "committed", "restoring", "done"}
    /\ boot = [pc |-> boot.pc, read |-> boot.read]
    /\ boot.pc = "stopped" => boot.read \in Stores

Placed ==
    \A j \in JobIds :
        /\ jobs[j].pc = "none" <=> j > asked
        /\ jobs[j].kind = "none" <=> jobs[j].pc = "none"
        /\ jobs[j].pc = "begun" => ~jobs[j].cancelled
        /\ jobs[j].pc \in LaunchPlaces => jobs[j].kind \in Launches /\ jobs[j].target \in Engines
        /\ jobs[j].pc = "queued" => jobs[j].kind \in Unloads \/ jobs[j].target \in Engines
        /\ jobs[j].pc = "removed" => jobs[j].kind \in Unloads
        /\ jobs[j].outcome = "ok" => jobs[j].pc = "ended"

-----------------------------------------------------------------------------
(* Who holds EngineMu, and what stands still meanwhile *)

Cutting == {"switching", "verifying", "committed", "restoring"}

Locked ==
    /\ \A j \in JobIds :
        jobs[j].pc \in {"selected", "replaced", "rolling-back", "restoring", "removed"} => mutex = j
    /\ boot.pc \in Cutting \cup {"stopped"} => mutex = Booting

Steady ==
    /\ asked > 0 => store.op.id \in {0, asked}
    /\ \A j \in JobIds : jobs[j].pc = "removed" => Running = {}
    /\ \A j \in JobIds : jobs[j].pc = "restoring" => ~jobs[j].previous.unloaded
    /\ boot.pc = "stopped" => /\ boot.read.engine = store.engine
                              /\ boot.read.unloaded = store.unloaded
                              /\ ShouldBootstrap(boot.read) => store.promo.phase = "bootstrap"
    /\ boot.pc \in Cutting => /\ boot.read = Selected(store) /\ ~store.unloaded
                              /\ store.promo.phase # "none"

-----------------------------------------------------------------------------
(* An abort *)

Aborted == asked > 0 /\ jobs[asked].kind = "abort" /\ jobs[asked].swept

\* Every launch that was found is cancelled, and one that still gets to the
\* selection takes back what it does there.
Holding ==
    Aborted =>
        /\ \A j \in JobIds : jobs[j].kind \in Launches /\ jobs[j].pc # "ended" =>
                jobs[j].pc # "begun" /\ jobs[j].cancelled
        /\ jobs[asked].outcome = "ok" =>
            /\ \A e \in Running : \E j \in JobIds : jobs[j].pc = "failing" /\ jobs[j].target = e
            /\ \/ store.unloaded
               \/ \E j \in JobIds : /\ jobs[j].pc \in {"selected", "replaced", "failing"}
                                    /\ jobs[j].target = store.engine
            /\ \A j \in JobIds : jobs[j].pc \notin {"rolling-back", "restoring"}

-----------------------------------------------------------------------------
(* A promotion *)

Alone == restarts = 0 /\ \A j \in JobIds : jobs[j].kind \notin Launches

Serves(model) == \A e \in Running : cont[e] = model

Reporting ==
    Alone =>
        /\ Running \subseteq {Selected(store)}
        /\ boot.pc \in {"pulling", "stopped", "switching", "restoring"} => Running = {}
        /\ boot.pc \in {"pulling", "stopped"} =>
                store.promo.phase \in {"none", "downloading", "bootstrap"}
        /\ boot.pc = "downloading" => store.promo.phase = "bootstrap"
        /\ boot.pc \in {"downloading", "downloaded"} => Serves("bootstrap")
        /\ boot.pc \in {"verifying", "committed"} => Serves("target")
        /\ boot.pc = "done" /\ store.promo.phase \in {"ready", "error"} =>
                Serves(store.promo.active)

-----------------------------------------------------------------------------
(* The selection *)

Clearing == \E u \in JobIds : jobs[u].kind \in Unloads /\ jobs[u].pc = "queued"

Fits(e) ==
    \/ cont[e] = Resolve(store.model)
    \/ cont[e] = "bootstrap" /\ store.model = "" /\ store.promo.phase # "none"
Right == \A e \in Running : ~store.unloaded /\ e = Selected(store) /\ Fits(e)

IsLaunch(j) == jobs[j].kind \in Launches /\ jobs[j].pc \notin {"none", "ended"}

\* One launch at a time, none before the provisioner is done, and a model is
\* not changed under a promotion.
Single ==
    mixed = {} =>
        /\ \A j, k \in JobIds : IsLaunch(j) /\ IsLaunch(k) => j = k
        /\ \A j \in JobIds : IsLaunch(j) =>
            /\ boot.pc \notin {"pulling", "stopped"}
            /\ jobs[j].kind = "model" => boot.pc = "done"

\* What the launch under way and the provisioner have read is what is on record.
Current ==
    mixed = {} =>
        /\ \A j \in JobIds : IsLaunch(j) =>
            /\ jobs[j].pc \in {"selected", "replaced", "loading", "failing"} =>
                    store.engine = jobs[j].target
            /\ jobs[j].pc \in {"selected", "replaced"} => ~store.unloaded
            /\ jobs[j].pc \in {"queued", "selected", "replaced"} =>
                    Resolve(jobs[j].model) = Resolve(store.model)
        /\ boot.pc = "stopped" => boot.read.model = store.model
        /\ boot.pc \in Cutting \ {"committed"} => store.model = ""

\* What runs, unless it is about to be removed.
Booted == boot.pc = "pulling" => \A e \in Running : e = Selected(store) => Fits(e)

Promoted ==
    /\ boot.pc \in {"switching", "restoring"} => Running = {}
    /\ boot.pc = "verifying" => Serves("target")

Rested == boot.pc # "pulling" /\ (\A j \in JobIds : ~IsLaunch(j)) => Right

Launching(j) ==
    /\ jobs[j].pc \in {"begun", "queued"} /\ jobs[j].kind # "model" /\ ~jobs[j].cancelled => Right
    /\ jobs[j].pc = "queued" /\ jobs[j].cancelled =>
            Running = {} /\ (store.unloaded \/ \E u \in JobIds : jobs[u].pc = "removed")
    /\ jobs[j].pc = "selected" /\ jobs[j].cancelled => Running = {}
    /\ jobs[j].pc \in {"replaced", "rolling-back", "restoring"} => Running = {}
    /\ jobs[j].pc = "loading" => Right
    /\ jobs[j].pc = "failing" => Running \subseteq {jobs[j].target}

Selecting ==
    mixed = {} /\ ~Clearing =>
        Booted /\ Promoted /\ Rested /\ \A j \in JobIds : IsLaunch(j) => Launching(j)

Base == Typed /\ Placed /\ Locked /\ Steady
IInv == Base /\ Holding /\ Reporting /\ Single /\ Current /\ Selecting

-----------------------------------------------------------------------------
(* Operators *)

Record == Launches \cup {"none", "unload", "abort"}
Phases == {"none", "open", "error", "rollback"}

\* What a write to the operation record leaves alone.
SameSelection(s, t) ==
    /\ t \in Stores
    /\ t.engine = s.engine /\ t.model = s.model /\ t.unloaded = s.unloaded
    /\ t.promo = s.promo
    /\ t.op.id \in {0, s.op.id}

\* Moving the record of an operation leaves the selection alone.
LEMMA UpdateOpKeeps ==
    ASSUME NEW s \in Stores, NEW id \in 0..MaxJobs, NEW phase \in Phases
    PROVE  SameSelection(s, UpdateOp(s, id, phase))
<1>1. [s EXCEPT !.op.phase = phase] \in Stores
  BY DEF Stores, Phases
<1>2. SameSelection(s, s)
  BY DEF SameSelection
<1>3. SameSelection(s, [s EXCEPT !.op.phase = phase])
  BY <1>1 DEF SameSelection, Stores
<1> QED
  BY <1>2, <1>3 DEF UpdateOp

\* Clearing the record of an operation leaves the selection alone.
LEMMA ClearOpKeeps ==
    ASSUME NEW s \in Stores, NEW id \in 0..MaxJobs
    PROVE  SameSelection(s, ClearOp(s, id))
<1>1. NoRuntime \in Runtimes /\ 0 \in 0..MaxJobs
  BY EngineAssumption DEF NoRuntime, Runtimes
<1>2. [s EXCEPT !.op = NoOp] \in Stores
  BY <1>1 DEF Stores, NoOp
<1>3. SameSelection(s, [s EXCEPT !.op = NoOp])
  BY <1>2 DEF SameSelection, Stores, NoOp
<1>4. SameSelection(s, s)
  BY DEF SameSelection
<1> QED
  BY <1>3, <1>4 DEF ClearOp

\* Closing an interrupted operation leaves the selection alone.
LEMMA ReconciledKeeps ==
    ASSUME NEW s \in Stores, NEW started \in BOOLEAN
    PROVE  SameSelection(s, Reconciled(s, started))
<1>1. s.op.id \in 0..MaxJobs
  BY DEF Stores
<1>2. SameSelection(s, ClearOp(s, s.op.id)) /\ SameSelection(s, UpdateOp(s, s.op.id, "error"))
  BY <1>1, ClearOpKeeps, UpdateOpKeeps DEF Phases
<1>3. SameSelection(s, s)
  BY DEF SameSelection
<1> QED
  BY <1>2, <1>3 DEF Reconciled

\* The selected engine, and the one that is taken to run, are engines.
LEMMA SelectedIsAnEngine ==
    /\ \A s \in Stores \cup Runtimes : Selected(s) \in Engines
    /\ Active \in Engines
    /\ \A m \in {"", "target", "other"} : Resolve(m) \in Models \ {"bootstrap"}
<1>1. Running \subseteq Engines
  BY DEF Running
<1>2. Active \in Engines
  <2>1. CASE Running = {}
    BY <2>1, EngineAssumption DEF Active
  <2>2. CASE Running # {}
    BY <1>1, <2>2 DEF Active
  <2> QED
    BY <2>1, <2>2
<1> QED
  BY <1>2, EngineAssumption DEF Selected, Stores, Runtimes, Resolve, Models

-----------------------------------------------------------------------------
(* One job moves *)

\* A job that moves stays the launch, or the unload, that it was.
Moves(j, pc) ==
    /\ jobs' \in [JobIds -> Jobs]
    /\ \A k \in JobIds : k # j => jobs'[k] = jobs[k]
    /\ jobs'[j].pc = pc /\ jobs'[j].kind = jobs[j].kind /\ jobs'[j].swept = jobs[j].swept

Stays(j) ==
    /\ jobs'[j].target = jobs[j].target /\ jobs'[j].cancelled = jobs[j].cancelled
    /\ jobs'[j].model = jobs[j].model
    /\ jobs'[j].outcome # "ok"

\* A job that ends keeps its kind and what it swept.
LEMMA JobEnds ==
    ASSUME Typed, NEW j \in JobIds, NEW outcome \in {"ok", "error"}, jobs' = Ended(j, outcome)
    PROVE  Moves(j, "ended") /\ jobs'[j].outcome = outcome
<1>1. jobs[j] \in Jobs /\ jobs \in [JobIds -> Jobs]
  BY DEF Typed
<1> DEFINE r == [NoJob EXCEPT !.kind = jobs[j].kind, !.pc = "ended", !.outcome = outcome,
                              !.swept = jobs[j].swept]
<1>2. NoRuntime \in Runtimes
  BY EngineAssumption DEF NoRuntime, Runtimes
<1>3. r \in Jobs /\ r.pc = "ended" /\ r.kind = jobs[j].kind /\ r.swept = jobs[j].swept
      /\ r.outcome = outcome
  BY <1>1, <1>2 DEF Jobs, NoJob
<1>4. jobs' = [jobs EXCEPT ![j] = r]
  BY DEF Ended
<1> HIDE DEF r
<1> QED
  BY <1>1, <1>3, <1>4 DEF Moves

\* A job that takes a step.
LEMMA JobSteps ==
    ASSUME Typed, NEW j \in JobIds, NEW r \in Jobs, jobs' = [jobs EXCEPT ![j] = r],
           r.kind = jobs[j].kind, r.swept = jobs[j].swept
    PROVE  Moves(j, r.pc) /\ jobs'[j] = r
BY DEF Typed, Moves

\* A launch that becomes cancellable.
LEMMA LaunchPreparesKeeps ==
    ASSUME IInv, NEW j \in JobIds, LaunchPrepares(j)
    PROVE  IInv'
<1> USE IInv DEF IInv, Base
<1> DEFINE r == [jobs[j] EXCEPT !.pc = "queued", !.model = store.model]
<1>1. jobs[j] \in Jobs /\ store.model \in {"", "target", "other"}
  BY DEF Typed, Stores
<1>2. /\ r \in Jobs /\ r.kind = jobs[j].kind /\ r.swept = jobs[j].swept /\ r.pc = "queued"
      /\ r.target = jobs[j].target /\ r.cancelled = jobs[j].cancelled
      /\ r.outcome = jobs[j].outcome /\ r.model = store.model
  BY <1>1 DEF Jobs
<1>3. jobs' = [jobs EXCEPT ![j] = r]
  BY DEF LaunchPrepares
<1> HIDE DEF r
<1>4. /\ Moves(j, "queued") /\ jobs'[j] = r
      /\ jobs[j].pc = "begun" /\ jobs[j].kind \in Launches /\ jobs[j].target \in Engines
      /\ ~jobs[j].cancelled /\ jobs[j].outcome # "ok"
  <2>1. jobs[j].pc = "begun"
    BY DEF LaunchPrepares
  <2>2. /\ jobs[j].kind \in Launches /\ jobs[j].target \in Engines
        /\ ~jobs[j].cancelled /\ jobs[j].outcome # "ok"
    BY <2>1 DEF Placed, LaunchPlaces
  <2>3. Typed
    OBVIOUS
  <2> HIDE DEF IInv, Base
  <2>4. Moves(j, r.pc) /\ jobs'[j] = r
    BY <1>2, <1>3, <2>3, JobSteps
  <2> QED
    BY <1>2, <2>1, <2>2, <2>4
<1>5. UNCHANGED <<store, cont, asked, mutex, boot, restarts, mixed>>
  BY DEF LaunchPrepares
<1>6. Typed'
  BY <1>4, <1>5 DEF Typed, Moves
<1>7. Placed'
  BY <1>2, <1>4, <1>5 DEF Placed, Moves, LaunchPlaces, Unloads, Launches
<1>8. Locked' /\ Steady'
  BY <1>4, <1>5 DEF Locked, Steady, Moves, Running, Selected, ShouldBootstrap
<1>9. Holding'
  <2>1. ~Aborted
    BY <1>4 DEF Holding
  <2>2. asked > 0 => asked \in JobIds
    BY DEF Typed, JobIds
  <2>3. Aborted' => Aborted
    BY <1>4, <1>5, <2>2 DEF Aborted, Moves
  <2> QED
    BY <2>1, <2>3 DEF Holding
<1>10. Reporting'
  BY <1>4, <1>5 DEF Reporting, Alone, Moves, Running, Serves, Selected
<1>11. Single' /\ Current'
  BY <1>2, <1>4, <1>5 DEF Single, Current, IsLaunch, Moves
<1>12. Selecting'
  <2> SUFFICES ASSUME mixed' = {}, ~Clearing'
               PROVE  (Booted /\ Promoted /\ Rested /\ \A k \in JobIds : IsLaunch(k) => Launching(k))'
    BY DEF Selecting
  <2>1. ~Clearing
    BY <1>4 DEF Clearing, Moves, Launches, Unloads
  <2>2. Booted /\ Promoted /\ Rested /\ \A k \in JobIds : IsLaunch(k) => Launching(k)
    BY <1>5, <2>1 DEF Selecting
  <2>3. Booted' /\ Promoted'
    BY <1>5, <2>2 DEF Booted, Promoted, Running, Serves, Fits, Selected
  <2>4. Right' <=> Right
    BY <1>5 DEF Right, Running, Fits, Selected
  <2>5. IsLaunch(j) /\ IsLaunch(j)' /\ \A k \in JobIds : k # j => ~IsLaunch(k)'
    BY <1>4, <1>5 DEF IsLaunch, Moves, Single
  <2>6. Rested'
    BY <2>5 DEF Rested
  <2>7. Launching(j)'
    BY <1>2, <1>4, <2>2, <2>4, <2>5 DEF Launching, Moves
  <2> QED
    BY <2>3, <2>5, <2>6, <2>7
<1> QED
  BY <1>6, <1>7, <1>8, <1>9, <1>10, <1>11, <1>12

\* A launch that ends by itself: its engine already runs, answers, or cannot be built.
LEMMA LaunchEnds ==
    ASSUME IInv, NEW j \in JobIds, Moves(j, "ended"), jobs[j].kind \in Launches,
           jobs[j].pc \in {"begun", "queued", "loading"}, SameSelection(store, store'),
           UNCHANGED <<cont, asked, mutex, boot, restarts>>,
           mixed' = {} => mixed = {} /\ (~Clearing => Right)
    PROVE  IInv'
<1> USE IInv DEF IInv, Base
<1>1. asked > 0 => asked \in JobIds
  BY DEF Typed, JobIds
<1>2. /\ store' \in Stores /\ store'.engine = store.engine /\ store'.model = store.model
      /\ store'.unloaded = store.unloaded /\ store'.promo = store.promo
      /\ store'.op.id \in {0, store.op.id}
  BY DEF SameSelection
<1>3. Selected(store') = Selected(store)
  BY <1>2 DEF Selected
<1>4. Typed'
  BY <1>2 DEF Typed, Moves
<1>5. Placed'
  BY DEF Placed, Moves, LaunchPlaces, Unloads, Launches
<1>6. Locked' /\ Steady'
  BY <1>2, <1>3 DEF Locked, Steady, Moves, Running, ShouldBootstrap, Cutting
<1>7. Holding'
  <2>1. SUFFICES ASSUME Aborted' PROVE Holding'
    BY DEF Holding
  <2>2. Aborted
    BY <1>1, <2>1 DEF Aborted, Moves
  <2>3. jobs'[asked] = jobs[asked]
    BY <1>1, <2>2 DEF Aborted, Moves, Launches
  <2> QED
    BY <1>1, <1>2, <2>2, <2>3 DEF Holding, Moves, Running, Aborted
<1>8. Reporting'
  BY <1>2, <1>3 DEF Reporting, Alone, Moves, Running, Serves
<1>9. Single' /\ Current'
  BY <1>2 DEF Single, Current, IsLaunch, Moves
<1>10. Selecting'
  <2> SUFFICES ASSUME mixed' = {}, ~Clearing'
               PROVE  (Booted /\ Promoted /\ Rested /\ \A k \in JobIds : IsLaunch(k) => Launching(k))'
    BY DEF Selecting
  <2>1. ~Clearing
    BY DEF Clearing, Moves, Launches, Unloads
  <2>2. Booted /\ Promoted /\ Right
    BY <2>1 DEF Selecting
  <2>3. Booted' /\ Promoted' /\ Right'
    BY <1>2, <1>3, <2>2 DEF Booted, Promoted, Running, Serves, Fits, Right
  <2>4. \A k \in JobIds : ~IsLaunch(k)'
    BY DEF IsLaunch, Moves, Single
  <2> QED
    BY <2>3, <2>4 DEF Rested
<1> QED
  BY <1>4, <1>5, <1>6, <1>7, <1>8, <1>9, <1>10

\* An engine that already answers is left alone.
LEMMA SwitchIsNoopKeeps ==
    ASSUME IInv, NEW j \in JobIds, SwitchIsNoop(j)
    PROVE  IInv'
<1>1. /\ jobs[j].pc = "begun" /\ jobs[j].kind = "switch"
      /\ store' = ClearOp(store, j) /\ jobs' = Ended(j, "ok")
      /\ UNCHANGED <<cont, answering, asked, mutex, boot, restarts, mixed>>
  BY DEF SwitchIsNoop
<1>2. Moves(j, "ended")
  BY <1>1, JobEnds DEF IInv, Base
<1>3. SameSelection(store, store')
  BY <1>1, ClearOpKeeps DEF IInv, Base, Typed, JobIds
<1>4. mixed = {} /\ ~Clearing => Right
  BY <1>1 DEF IInv, Base, Selecting, Launching, IsLaunch, Launches, Placed
<1> QED
  BY <1>1, <1>2, <1>3, <1>4, LaunchEnds DEF Launches

\* A launch that cannot be built leaves everything as it is.
LEMMA BuildFailsKeeps ==
    ASSUME IInv, NEW j \in JobIds, BuildFails(j)
    PROVE  IInv'
<1>1. /\ jobs[j].pc = "queued" /\ jobs[j].kind \in Launches
      /\ store' = UpdateOp(store, j, "error") /\ jobs' = Ended(j, "error")
      /\ UNCHANGED <<cont, asked, mutex, boot, restarts>> /\ mixed' # {}
  BY DEF BuildFails
<1>2. Moves(j, "ended")
  BY <1>1, JobEnds DEF IInv, Base
<1>3. SameSelection(store, store')
  BY <1>1, UpdateOpKeeps DEF IInv, Base, Typed, JobIds, Phases
<1> QED
  BY <1>1, <1>2, <1>3, LaunchEnds

\* A launch that is answered has loaded what is selected.
LEMMA LaunchSucceedsKeeps ==
    ASSUME IInv, NEW j \in JobIds, LaunchSucceeds(j)
    PROVE  IInv'
<1>1. /\ jobs[j].pc = "loading"
      /\ store' = ClearOp(store, j) /\ jobs' = Ended(j, "ok")
      /\ UNCHANGED <<cont, answering, asked, mutex, boot, restarts, mixed>>
  BY DEF LaunchSucceeds
<1>2. jobs[j].kind \in Launches
  BY <1>1 DEF IInv, Base, Placed, LaunchPlaces
<1>3. Moves(j, "ended")
  BY <1>1, JobEnds DEF IInv, Base
<1>4. SameSelection(store, store')
  BY <1>1, ClearOpKeeps DEF IInv, Base, Typed, JobIds
<1>5. mixed = {} /\ ~Clearing => Right
  BY <1>1, <1>2 DEF IInv, Base, Selecting, Launching, IsLaunch
<1> QED
  BY <1>1, <1>2, <1>3, <1>4, <1>5, LaunchEnds

\* A launch that fails keeps the selection it made until it cleans up.
LEMMA LaunchFailing ==
    ASSUME IInv, NEW j \in JobIds, Moves(j, "failing"), Stays(j), jobs[j].kind \in Launches,
           \/ jobs[j].pc = "replaced" /\ mutex' = Free
           \/ jobs[j].pc = "loading" /\ UNCHANGED mutex,
           SameSelection(store, store'), UNCHANGED <<cont, asked, boot, restarts, mixed>>
    PROVE  IInv'
<1> USE IInv DEF IInv, Base
<1>1. asked > 0 => asked \in JobIds
  BY DEF Typed, JobIds
<1>2. /\ store' \in Stores /\ store'.engine = store.engine /\ store'.model = store.model
      /\ store'.unloaded = store.unloaded /\ store'.promo = store.promo
      /\ store'.op.id \in {0, store.op.id}
  BY DEF SameSelection
<1>3. Selected(store') = Selected(store)
  BY <1>2 DEF Selected
<1>4. Typed'
  <2>1. mutex' \in 0..Booting
    BY EngineAssumption DEF Typed, Free, Booting
  <2> QED
    BY <1>2, <2>1 DEF Typed, Moves
<1>5. Placed'
  BY DEF Placed, Moves, Stays, LaunchPlaces, Unloads, Launches
<1>6. Locked'
  <2>1. mutex' = mutex \/ (mutex' = Free /\ mutex = j)
    BY DEF Locked
  <2>2. j # Booting /\ \A k \in JobIds : k # j => jobs'[k] = jobs[k]
    BY EngineAssumption DEF JobIds, Booting, Moves
  <2> QED
    BY <2>1, <2>2 DEF Locked, Moves, Cutting
<1>7. Steady'
  BY <1>2, <1>3 DEF Steady, Moves, Running, ShouldBootstrap, Cutting
<1>8. Holding'
  <2>1. SUFFICES ASSUME Aborted' PROVE Holding'
    BY DEF Holding
  <2>2. Aborted
    BY <1>1, <2>1 DEF Aborted, Moves
  <2>3. asked # j /\ jobs'[asked] = jobs[asked]
    BY <1>1, <2>2 DEF Aborted, Moves, Launches
  <2>4. /\ \A k \in JobIds : jobs[k].pc = "failing" => jobs'[k].pc = "failing"
        /\ \A k \in JobIds : jobs'[k].target = jobs[k].target
        /\ \A k \in JobIds : jobs[k].pc \in {"selected", "replaced", "failing"} =>
                jobs'[k].pc \in {"selected", "replaced", "failing"}
    BY DEF Moves, Stays
  <2> QED
    BY <1>1, <1>2, <2>2, <2>3, <2>4 DEF Holding, Moves, Stays, Running, Aborted
<1>9. Reporting'
  BY DEF Reporting, Alone, Moves
<1>10. Single' /\ Current'
  BY <1>2 DEF Single, Current, IsLaunch, Moves, Stays
<1>11. Selecting'
  <2> SUFFICES ASSUME mixed' = {}, ~Clearing'
               PROVE  (Booted /\ Promoted /\ Rested /\ \A k \in JobIds : IsLaunch(k) => Launching(k))'
    BY DEF Selecting
  <2>1. ~Clearing
    BY DEF Clearing, Moves, Launches, Unloads
  <2>2. Booted /\ Promoted
    BY <2>1 DEF Selecting
  <2>3. Booted' /\ Promoted'
    BY <1>2, <1>3, <2>2 DEF Booted, Promoted, Running, Serves, Fits
  <2>4. \A k \in JobIds : IsLaunch(k)' <=> k = j
    BY DEF IsLaunch, Moves, Single
  <2>5. Launching(j)'
    <3>1. Running' = Running /\ jobs'[j].pc = "failing" /\ jobs'[j].target = jobs[j].target
      BY DEF Running, Moves, Stays
    <3>2. IsLaunch(j) /\ Launching(j)
      BY <2>1 DEF IsLaunch, Selecting
    <3>3. jobs[j].pc = "loading" => store.engine = jobs[j].target
      BY <3>2 DEF Current
    <3>4. Running \subseteq {jobs[j].target}
      <4>1. CASE jobs[j].pc = "replaced"
        BY <3>2, <4>1 DEF Launching
      <4>2. CASE jobs[j].pc = "loading"
        <5>1. Right /\ Selected(store) = jobs[j].target
          BY <3>2, <3>3, <4>2, EngineAssumption DEF Launching, Selected, Placed, LaunchPlaces
        <5> QED
          BY <5>1 DEF Right
      <4> QED
        BY <4>1, <4>2
    <3> QED
      BY <3>1, <3>4 DEF Launching
  <2> QED
    BY <2>3, <2>4, <2>5 DEF Rested
<1> QED
  BY <1>4, <1>5, <1>6, <1>7, <1>8, <1>9, <1>10, <1>11

\* A launch that is cancelled, or is not answered in time.
LEMMA LaunchFailsKeeps ==
    ASSUME IInv, NEW j \in JobIds, LaunchFails(j)
    PROVE  IInv'
<1> DEFINE r == [jobs[j] EXCEPT !.pc = "failing", !.outcome = "error"]
<1>1. /\ jobs[j].pc = "loading" /\ jobs' = [jobs EXCEPT ![j] = r]
      /\ store' = UpdateOp(store, j, "error")
      /\ UNCHANGED <<cont, asked, mutex, boot, restarts, mixed>>
  BY DEF LaunchFails
<1>2. jobs[j] \in Jobs /\ Typed
  BY DEF IInv, Base, Typed
<1>3. /\ r \in Jobs /\ r.kind = jobs[j].kind /\ r.swept = jobs[j].swept /\ r.pc = "failing"
      /\ r.target = jobs[j].target /\ r.cancelled = jobs[j].cancelled
      /\ r.outcome = "error" /\ r.model = jobs[j].model
  BY <1>2 DEF Jobs
<1> HIDE DEF r
<1>4. Moves(j, "failing") /\ Stays(j)
  BY <1>1, <1>2, <1>3, JobSteps DEF Stays
<1>5. jobs[j].kind \in Launches
  BY <1>1 DEF IInv, Base, Placed, LaunchPlaces
<1>6. SameSelection(store, store')
  BY <1>1, <1>2, UpdateOpKeeps DEF Typed, JobIds, Phases
<1> QED
  BY <1>1, <1>4, <1>5, <1>6, LaunchFailing

\* Containers that are removed, and one that is started.
LEMMA RemoveKeeps ==
    ASSUME Typed, NEW engines, Remove(engines)
    PROVE  /\ cont' \in [Engines -> Models \cup {None}]
           /\ Running' = Running \ engines
           /\ \A e \in Running' : cont'[e] = cont[e]
BY DEF Typed, Remove, Running

\* A container that starts is the only one that runs, with the model it was given.
LEMMA RunStarts ==
    ASSUME Typed, NEW engine \in Engines, NEW model \in Models, Run(engine, model)
    PROVE  /\ cont' \in [Engines -> Models \cup {None}]
           /\ Running = {} /\ Running' \subseteq {engine}
           /\ \A e \in Running' : cont'[e] = model
BY DEF Typed, Run, Running

\* A launch that is at the selection.
LEMMA LaunchSelectsKeeps ==
    ASSUME IInv, NEW j \in JobIds, LaunchSelects(j)
    PROVE  IInv'
<1> USE IInv DEF IInv, Base
<1> DEFINE r == [jobs[j] EXCEPT !.pc = "selected"]
<1>1. /\ jobs[j].pc = "queued" /\ jobs[j].kind \in Launches /\ mutex = Free /\ mutex' = j
      /\ store' = [store EXCEPT !.engine = jobs[j].target, !.unloaded = FALSE]
      /\ jobs' = [jobs EXCEPT ![j] = r]
      /\ UNCHANGED <<cont, asked, boot, restarts, mixed>>
  BY DEF LaunchSelects
<1>2. jobs[j] \in Jobs /\ store \in Stores /\ (asked > 0 => asked \in JobIds)
  BY DEF Typed, JobIds
<1>3. /\ r \in Jobs /\ r.kind = jobs[j].kind /\ r.swept = jobs[j].swept /\ r.pc = "selected"
      /\ r.target = jobs[j].target /\ r.cancelled = jobs[j].cancelled
      /\ r.outcome = jobs[j].outcome /\ r.model = jobs[j].model
  BY <1>2 DEF Jobs
<1> HIDE DEF r
<1>4. Moves(j, "selected") /\ Stays(j) /\ jobs[j].target \in Engines
  BY <1>1, <1>2, <1>3, JobSteps DEF Stays, Placed, Launches, Unloads
<1>5. /\ store' \in Stores /\ store'.engine = jobs[j].target /\ ~store'.unloaded
      /\ store'.model = store.model /\ store'.promo = store.promo /\ store'.op = store.op
  BY <1>1, <1>2, <1>4 DEF Stores
<1>6. boot.pc \notin Cutting \cup {"stopped"}
      /\ \A k \in JobIds : jobs[k].pc \notin {"selected", "replaced", "rolling-back", "restoring", "removed"}
  BY <1>1, EngineAssumption DEF Locked, JobIds, Free, Booting
<1>7. Typed'
  BY <1>1, <1>4, <1>5, EngineAssumption DEF Typed, Moves, JobIds, Booting, Cutting
<1>8. Placed'
  BY <1>1, <1>4 DEF Placed, Moves, Stays, LaunchPlaces, Unloads, Launches
<1>9. Locked' /\ Steady'
  BY <1>1, <1>4, <1>5, <1>6 DEF Locked, Steady, Moves
<1>10. Holding'
  <2>1. SUFFICES ASSUME Aborted' PROVE Holding'
    BY DEF Holding
  <2>2. Aborted
    BY <1>1, <1>2, <1>4, <2>1 DEF Aborted, Moves
  <2>3. asked # j /\ jobs'[asked] = jobs[asked]
    BY <1>1, <1>2, <1>4, <2>2 DEF Aborted, Moves, Launches
  <2>4. \A e \in Running : \A k \in JobIds :
            jobs[k].pc = "failing" /\ jobs[k].target = e => jobs'[k].pc = "failing" /\ jobs'[k].target = e
    BY <1>1, <1>4 DEF Moves
  <2> QED
    BY <1>1, <1>2, <1>4, <1>5, <2>2, <2>3, <2>4 DEF Holding, Moves, Stays, Running, Aborted
<1>11. Reporting'
  BY <1>1, <1>4 DEF Reporting, Alone, Moves
<1>12. Single' /\ Current'
  <2>1. \A k \in JobIds : (IsLaunch(k)' <=> IsLaunch(k)) /\ jobs'[k].kind = jobs[k].kind
    BY <1>1, <1>4 DEF IsLaunch, Moves
  <2>2. Single'
    BY <1>1, <2>1 DEF Single
  <2>3. SUFFICES ASSUME mixed' = {} PROVE Current'
    BY <2>2 DEF Current
  <2>4. \A k \in JobIds : IsLaunch(k)' => k = j
    BY <1>1, <2>1, <2>3 DEF Single, IsLaunch
  <2>5. IsLaunch(j) /\ Resolve(jobs[j].model) = Resolve(store.model)
    BY <1>1, <2>3 DEF Current, IsLaunch
  <2>6. jobs'[j].target = jobs[j].target /\ jobs'[j].model = jobs[j].model /\ jobs'[j].pc = "selected"
    BY <1>4 DEF Moves, Stays
  <2> QED
    BY <1>1, <1>5, <1>6, <2>4, <2>5, <2>6 DEF Current
<1>13. Selecting'
  <2> SUFFICES ASSUME mixed' = {}, ~Clearing'
               PROVE  (Booted /\ Promoted /\ Rested /\ \A k \in JobIds : IsLaunch(k) => Launching(k))'
    BY DEF Selecting
  <2>1. ~Clearing
    BY <1>1, <1>4 DEF Clearing, Moves, Launches, Unloads
  <2>2. IsLaunch(j) /\ \A k \in JobIds : IsLaunch(k)' <=> k = j
    BY <1>1, <1>4 DEF IsLaunch, Moves, Single
  <2>3. Launching(j)
    BY <1>1, <2>1, <2>2 DEF Selecting
  <2>4. Booted' /\ Promoted'
    BY <1>1, <1>6, <2>2 DEF Booted, Promoted, Single, Cutting
  <2>5. Launching(j)'
    BY <1>1, <1>4, <2>3 DEF Launching, Moves, Stays, Running
  <2> QED
    BY <2>2, <2>4, <2>5 DEF Rested
<1> QED
  BY <1>7, <1>8, <1>9, <1>10, <1>11, <1>12, <1>13

\* A launch that makes room.
LEMMA LaunchReplacesKeeps ==
    ASSUME IInv, NEW j \in JobIds, LaunchReplaces(j)
    PROVE  IInv'
<1> USE IInv DEF IInv, Base
<1> DEFINE r == [jobs[j] EXCEPT !.pc = "replaced"]
           gone == IF jobs[j].cancelled THEN {} ELSE Engines
<1>1. /\ jobs[j].pc = "selected" /\ Remove(gone)
      /\ jobs' = [jobs EXCEPT ![j] = r]
      /\ UNCHANGED <<store, asked, mutex, boot, restarts, mixed>>
  BY DEF LaunchReplaces
<1>2. jobs[j] \in Jobs /\ (asked > 0 => asked \in JobIds) /\ jobs[j].kind \in Launches
  BY <1>1 DEF Typed, JobIds, Placed, LaunchPlaces
<1>3. /\ r \in Jobs /\ r.kind = jobs[j].kind /\ r.swept = jobs[j].swept /\ r.pc = "replaced"
      /\ r.target = jobs[j].target /\ r.cancelled = jobs[j].cancelled
      /\ r.outcome = jobs[j].outcome /\ r.model = jobs[j].model
  BY <1>2 DEF Jobs
<1> HIDE DEF r
<1>4. Moves(j, "replaced") /\ Stays(j)
  BY <1>1, <1>2, <1>3, JobSteps DEF Stays, Placed
<1>5. /\ cont' \in [Engines -> Models \cup {None}] /\ Running' = Running \ gone
      /\ \A e \in Running' : cont'[e] = cont[e]
  BY <1>1, RemoveKeeps
<1>6. Running' \subseteq Running /\ (~jobs[j].cancelled => Running' = {})
  BY <1>5 DEF Running
<1> HIDE DEF gone
<1>7. mutex = j /\ boot.pc \notin Cutting \cup {"stopped"}
      /\ \A k \in JobIds : k # j => jobs[k].pc # "removed"
  BY <1>1, EngineAssumption DEF Locked, JobIds, Booting
<1>8. Typed'
  BY <1>1, <1>4, <1>5, <1>7 DEF Typed, Moves
<1>9. Placed'
  BY <1>1, <1>2, <1>4 DEF Placed, Moves, Stays, LaunchPlaces, Unloads, Launches
<1>10. Locked' /\ Steady'
  BY <1>1, <1>4, <1>7 DEF Locked, Steady, Moves
<1>11. Holding'
  <2>1. SUFFICES ASSUME Aborted' PROVE Holding'
    BY DEF Holding
  <2>2. Aborted
    BY <1>1, <1>2, <1>4, <2>1 DEF Aborted, Moves
  <2>3. asked # j /\ jobs'[asked] = jobs[asked]
    BY <1>2, <1>4, <2>2 DEF Aborted, Moves, Launches
  <2>4. /\ \A k \in JobIds : jobs[k].pc = "failing" => jobs'[k].pc = "failing"
        /\ \A k \in JobIds : jobs'[k].target = jobs[k].target
        /\ \A k \in JobIds : jobs[k].pc \in {"selected", "replaced", "failing"} =>
                jobs'[k].pc \in {"selected", "replaced", "failing"}
    BY <1>1, <1>4 DEF Moves, Stays
  <2> QED
    BY <1>1, <1>2, <1>4, <1>6, <2>2, <2>3, <2>4 DEF Holding, Moves, Stays, Aborted
<1>12. Reporting'
  BY <1>1, <1>2, <1>4 DEF Reporting, Alone, Moves
<1>13. Single' /\ Current'
  <2>1. \A k \in JobIds : (IsLaunch(k)' <=> IsLaunch(k)) /\ jobs'[k].kind = jobs[k].kind
    BY <1>1, <1>2, <1>4 DEF IsLaunch, Moves
  <2>2. Single'
    BY <1>1, <2>1 DEF Single
  <2>3. \A k \in JobIds :
            /\ jobs'[k].target = jobs[k].target /\ jobs'[k].model = jobs[k].model
            /\ k # j => jobs'[k].pc = jobs[k].pc
    BY <1>4 DEF Moves, Stays
  <2>4. jobs[j].pc = "selected" /\ jobs'[j].pc = "replaced"
    BY <1>1, <1>4 DEF Moves
  <2> QED
    BY <1>1, <1>7, <2>1, <2>2, <2>3, <2>4 DEF Current
<1>14. Selecting'
  <2> SUFFICES ASSUME mixed' = {}, ~Clearing'
               PROVE  (Booted /\ Promoted /\ Rested /\ \A k \in JobIds : IsLaunch(k) => Launching(k))'
    BY DEF Selecting
  <2>1. ~Clearing
    BY <1>2, <1>4 DEF Clearing, Moves, Launches, Unloads
  <2>2. IsLaunch(j) /\ \A k \in JobIds : IsLaunch(k)' <=> k = j
    BY <1>1, <1>2, <1>4 DEF IsLaunch, Moves, Single
  <2>3. Launching(j)
    BY <1>1, <2>1, <2>2 DEF Selecting
  <2>4. Booted' /\ Promoted'
    BY <1>1, <1>7, <2>2 DEF Booted, Promoted, Single, Cutting
  <2>5. Launching(j)'
    BY <1>1, <1>4, <1>6, <2>3 DEF Launching, Moves, Stays
  <2> QED
    BY <2>2, <2>4, <2>5 DEF Rested
<1> QED
  BY <1>8, <1>9, <1>10, <1>11, <1>12, <1>13, <1>14

\* A launch that starts its container, or cannot.
LEMMA LaunchRunsKeeps ==
    ASSUME IInv, NEW j \in JobIds, LaunchRuns(j)
    PROVE  IInv'
<1> USE IInv DEF IInv, Base
<1>1. /\ jobs[j].pc = "replaced" /\ mutex' = Free
      /\ UNCHANGED <<asked, boot, restarts, mixed>>
  BY DEF LaunchRuns
<1>2. /\ jobs[j] \in Jobs /\ (asked > 0 => asked \in JobIds) /\ jobs[j].kind \in Launches
      /\ jobs[j].target \in Engines /\ jobs[j].model \in {"", "target", "other"}
  <2>1. jobs[j] \in Jobs /\ (asked > 0 => asked \in JobIds)
    BY DEF Typed, JobIds
  <2>2. jobs[j].model \in {"", "target", "other"}
    BY <2>1 DEF Jobs
  <2> QED
    BY <1>1, <2>1, <2>2 DEF Placed, LaunchPlaces
<1>3. CASE /\ UNCHANGED <<cont, answering>>
           /\ jobs' = [jobs EXCEPT ![j].pc = "failing", ![j].outcome = "error"]
           /\ store' = UpdateOp(store, j, "error")
  <2> DEFINE r == [jobs[j] EXCEPT !.pc = "failing", !.outcome = "error"]
  <2>1. jobs' = [jobs EXCEPT ![j] = r]
    BY <1>3
  <2>2. /\ r \in Jobs /\ r.kind = jobs[j].kind /\ r.swept = jobs[j].swept /\ r.pc = "failing"
        /\ r.target = jobs[j].target /\ r.cancelled = jobs[j].cancelled
        /\ r.outcome = "error" /\ r.model = jobs[j].model
    BY <1>2 DEF Jobs
  <2> HIDE DEF r
  <2>3. Moves(j, "failing") /\ Stays(j)
    BY <2>1, <2>2, JobSteps DEF Stays
  <2>4. SameSelection(store, store')
    BY <1>3, UpdateOpKeeps DEF Typed, JobIds, Phases
  <2> QED
    BY <1>1, <1>2, <1>3, <2>3, <2>4, LaunchFailing
<1>4. CASE /\ ~jobs[j].cancelled /\ Run(jobs[j].target, Resolve(jobs[j].model))
           /\ jobs' = [jobs EXCEPT ![j].pc = "loading"]
           /\ UNCHANGED store
  <2> DEFINE r == [jobs[j] EXCEPT !.pc = "loading"]
  <2>1. jobs' = [jobs EXCEPT ![j] = r]
    BY <1>4
  <2>2. /\ r \in Jobs /\ r.kind = jobs[j].kind /\ r.swept = jobs[j].swept /\ r.pc = "loading"
        /\ r.target = jobs[j].target /\ r.cancelled = jobs[j].cancelled
        /\ r.outcome = jobs[j].outcome /\ r.model = jobs[j].model
    BY <1>2 DEF Jobs
  <2> HIDE DEF r
  <2>3. Moves(j, "loading") /\ Stays(j)
    BY <1>1, <2>1, <2>2, JobSteps DEF Stays, Placed
  <2>4. /\ cont' \in [Engines -> Models \cup {None}]
        /\ Running = {} /\ Running' \subseteq {jobs[j].target}
        /\ \A e \in Running' : cont'[e] = Resolve(jobs[j].model)
    BY <1>2, <1>4, RunStarts, SelectedIsAnEngine
  <2>5. mutex = j /\ boot.pc \notin Cutting \cup {"stopped"}
        /\ \A k \in JobIds : k # j =>
                jobs[k].pc \notin {"selected", "replaced", "rolling-back", "restoring", "removed"}
    BY <1>1, EngineAssumption DEF Locked, JobIds, Booting
  <2>6. Typed'
    <3>1. mutex' \in 0..Booting
      BY <1>1, <1>4, <2>5, EngineAssumption DEF Typed, Free, Booting
    <3>2. jobs' \in [JobIds -> Jobs]
      BY <2>3 DEF Moves
    <3>3. UNCHANGED <<store, asked, boot, restarts>>
      BY <1>1, <1>4
    <3> QED
      BY <2>4, <3>1, <3>2, <3>3 DEF Typed
  <2>7. Placed'
    <3>1. jobs[j].pc # "none" /\ jobs[j].kind # "none"
      BY <1>1 DEF Placed
    <3> QED
      BY <1>1, <1>2, <2>3, <3>1 DEF Placed, Moves, Stays, LaunchPlaces, Unloads
  <2>8. Locked' /\ Steady'
    BY <1>1, <1>4, <2>3, <2>5 DEF Locked, Steady, Moves
  <2>9. Holding'
    <3>1. ~Aborted
      BY <1>1, <1>2, <1>4 DEF Holding
    <3>2. ~Aborted'
      BY <1>1, <1>2, <2>3, <3>1 DEF Aborted, Moves
    <3> QED
      BY <3>2 DEF Holding
  <2>10. Reporting'
    BY <1>2, <2>3 DEF Reporting, Alone, Moves
  <2>11. Single' /\ Current'
    <3>1. \A k \in JobIds : (IsLaunch(k)' <=> IsLaunch(k)) /\ jobs'[k].kind = jobs[k].kind
      BY <1>1, <1>2, <2>3 DEF IsLaunch, Moves
    <3>2. Single'
      BY <1>1, <3>1 DEF Single
    <3>3. \A k \in JobIds :
              /\ jobs'[k].target = jobs[k].target /\ jobs'[k].model = jobs[k].model
              /\ k # j => jobs'[k].pc = jobs[k].pc
      BY <2>3 DEF Moves, Stays
    <3>4. jobs[j].pc = "replaced" /\ jobs'[j].pc = "loading"
      BY <1>1, <2>3 DEF Moves
    <3> QED
      BY <1>1, <1>4, <2>5, <3>1, <3>2, <3>3, <3>4 DEF Current
  <2>12. Selecting'
    <3> SUFFICES ASSUME mixed' = {}, ~Clearing'
                 PROVE  (Booted /\ Promoted /\ Rested /\ \A k \in JobIds : IsLaunch(k) => Launching(k))'
      BY DEF Selecting
    <3>1. IsLaunch(j) /\ \A k \in JobIds : IsLaunch(k)' <=> k = j
      BY <1>1, <1>2, <2>3 DEF IsLaunch, Moves, Single
    <3>2. Booted' /\ Promoted'
      BY <1>1, <2>5, <3>1 DEF Booted, Promoted, Single, Cutting
    <3>3. store.engine = jobs[j].target /\ ~store.unloaded /\ Resolve(jobs[j].model) = Resolve(store.model)
      BY <1>1, <3>1 DEF Current
    <3>4. Selected(store) = jobs[j].target
      BY <1>2, <3>3, EngineAssumption DEF Selected
    <3>5. Right'
      BY <1>4, <2>4, <3>3, <3>4 DEF Right, Fits, Resolve, Selected
    <3>6. Launching(j)'
      BY <2>3, <3>5 DEF Launching, Moves
    <3> QED
      BY <3>1, <3>2, <3>6 DEF Rested
  <2> QED
    BY <2>6, <2>7, <2>8, <2>9, <2>10, <2>11, <2>12
<1> QED
  BY <1>3, <1>4 DEF LaunchRuns

\* A launch that failed takes its container away, and the selection with it.
LEMMA LaunchCleansUpKeeps ==
    ASSUME IInv, NEW j \in JobIds, LaunchCleansUp(j)
    PROVE  IInv'
<1> USE IInv DEF IInv, Base
<1>1. /\ jobs[j].pc = "failing" /\ mutex = Free /\ Remove({jobs[j].target})
      /\ UNCHANGED <<asked, boot, restarts, mixed>>
  BY DEF LaunchCleansUp
<1>2. /\ jobs[j] \in Jobs /\ (asked > 0 => asked \in JobIds) /\ jobs[j].kind \in Launches
      /\ store \in Stores /\ asked \in Nat
  BY <1>1 DEF Typed, JobIds, Placed, LaunchPlaces
<1>3. /\ cont' \in [Engines -> Models \cup {None}] /\ Running' = Running \ {jobs[j].target}
      /\ \A e \in Running' : cont'[e] = cont[e]
  BY <1>1, RemoveKeeps
<1>4. boot.pc \notin Cutting \cup {"stopped"}
      /\ \A k \in JobIds : jobs[k].pc \notin {"selected", "replaced", "rolling-back", "restoring", "removed"}
  BY <1>1, EngineAssumption DEF Locked, JobIds, Free, Booting
<1>5. CASE store.op.id = j
  <2> DEFINE r == [jobs[j] EXCEPT !.pc = "rolling-back", !.previous = store.op.previous]
  <2>1. mutex' = j /\ store' = UpdateOp(store, j, "rollback") /\ jobs' = [jobs EXCEPT ![j] = r]
    BY <1>1, <1>5 DEF LaunchCleansUp
  <2>2. store.op.previous \in Runtimes
    BY <1>2 DEF Stores
  <2>3. /\ r \in Jobs /\ r.kind = jobs[j].kind /\ r.swept = jobs[j].swept /\ r.pc = "rolling-back"
        /\ r.target = jobs[j].target /\ r.cancelled = jobs[j].cancelled
        /\ r.outcome = jobs[j].outcome /\ r.model = jobs[j].model
    BY <1>2, <2>2 DEF Jobs
  <2> HIDE DEF r
  <2>4. Moves(j, "rolling-back") /\ Stays(j)
    BY <1>1, <2>1, <2>3, JobSteps DEF Stays, Placed
  <2>5. SameSelection(store, store')
    BY <2>1, UpdateOpKeeps DEF Typed, JobIds, Phases
  <2>6. /\ store' \in Stores /\ store'.engine = store.engine /\ store'.model = store.model
        /\ store'.unloaded = store.unloaded /\ store'.promo = store.promo
        /\ store'.op.id \in {0, store.op.id}
    BY <2>5 DEF SameSelection
  <2>7. Typed'
    BY <1>1, <1>3, <2>1, <2>4, <2>6, <1>4, EngineAssumption DEF Typed, Moves, JobIds, Booting
  <2>8. Placed'
    BY <1>1, <1>2, <2>4 DEF Placed, Moves, Stays, LaunchPlaces, Unloads, Launches
  <2>9. Locked' /\ Steady'
    BY <1>1, <1>4, <2>1, <2>4, <2>6 DEF Locked, Steady, Moves
  <2>10. Holding'
    <3>1. j = asked
      BY <1>1, <1>2, <1>5 DEF Steady, Placed, JobIds
    <3>2. ~Aborted'
      BY <1>1, <1>2, <2>4, <3>1 DEF Aborted, Moves, Launches
    <3> QED
      BY <3>2 DEF Holding
  <2>11. Reporting'
    BY <1>2, <2>4 DEF Reporting, Alone, Moves
  <2>12. Single' /\ Current'
    <3>1. \A k \in JobIds : (IsLaunch(k)' <=> IsLaunch(k)) /\ jobs'[k].kind = jobs[k].kind
      BY <1>1, <1>2, <2>4 DEF IsLaunch, Moves
    <3>2. Single'
      BY <1>1, <3>1 DEF Single
    <3>3. \A k \in JobIds :
              /\ jobs'[k].target = jobs[k].target /\ jobs'[k].model = jobs[k].model
              /\ k # j => jobs'[k].pc = jobs[k].pc
      BY <2>4 DEF Moves, Stays
    <3>4. jobs'[j].pc = "rolling-back"
      BY <2>4 DEF Moves
    <3> QED
      BY <1>1, <1>4, <2>6, <3>1, <3>2, <3>3, <3>4 DEF Current
  <2>13. Selecting'
    <3> SUFFICES ASSUME mixed' = {}, ~Clearing'
                 PROVE  (Booted /\ Promoted /\ Rested /\ \A k \in JobIds : IsLaunch(k) => Launching(k))'
      BY DEF Selecting
    <3>1. ~Clearing
      BY <1>2, <2>4 DEF Clearing, Moves, Launches, Unloads
    <3>2. IsLaunch(j) /\ \A k \in JobIds : IsLaunch(k)' <=> k = j
      BY <1>1, <1>2, <2>4 DEF IsLaunch, Moves, Single
    <3>3. Running' = {}
      BY <1>1, <1>3, <3>1, <3>2 DEF Selecting, Launching
    <3>4. Booted' /\ Promoted'
      BY <3>3 DEF Booted, Promoted, Serves
    <3>5. Launching(j)'
      BY <2>4, <3>3 DEF Launching, Moves
    <3> QED
      BY <3>2, <3>4, <3>5 DEF Rested
  <2> QED
    BY <2>7, <2>8, <2>9, <2>10, <2>11, <2>12, <2>13
<1>6. CASE store.op.id # j
  <2>1. mutex' = Free /\ store' = [store EXCEPT !.unloaded = TRUE] /\ jobs' = Ended(j, "error")
    BY <1>1, <1>6 DEF LaunchCleansUp
  <2>2. Moves(j, "ended")
    BY <2>1, JobEnds
  <2>3. /\ store' \in Stores /\ store'.engine = store.engine /\ store'.model = store.model
        /\ store'.unloaded = TRUE /\ store'.promo = store.promo /\ store'.op = store.op
    BY <1>2, <2>1 DEF Stores
  <2>4. Typed'
    BY <1>1, <1>3, <2>1, <2>2, <2>3, <1>4 DEF Typed, Moves
  <2>5. Placed'
    BY <1>1, <1>2, <2>2 DEF Placed, Moves, LaunchPlaces, Unloads, Launches
  <2>6. Locked' /\ Steady'
    BY <1>1, <1>4, <2>1, <2>2, <2>3 DEF Locked, Steady, Moves
  <2>7. Holding'
    <3>1. SUFFICES ASSUME Aborted' PROVE Holding'
      BY DEF Holding
    <3>2. Aborted
      BY <1>1, <1>2, <2>2, <3>1 DEF Aborted, Moves
    <3>3. asked # j /\ jobs'[asked] = jobs[asked]
      BY <1>1, <1>2, <2>2, <3>2 DEF Aborted, Moves, Launches
    <3>4. \A k \in JobIds : jobs[k].target # jobs[j].target => jobs'[k] = jobs[k]
      BY <2>2 DEF Moves
    <3>5. \A k \in JobIds : jobs'[k].pc \notin {"rolling-back", "restoring"}
      BY <1>4, <2>2 DEF Moves
    <3>6. \A k \in JobIds : jobs'[k].kind \in Launches /\ jobs'[k].pc # "ended" => jobs'[k] = jobs[k]
      BY <2>2 DEF Moves
    <3> QED
      BY <1>1, <1>2, <1>3, <2>3, <3>2, <3>3, <3>4, <3>5, <3>6 DEF Holding
  <2>8. Reporting'
    BY <1>2, <2>2 DEF Reporting, Alone, Moves
  <2>9. Single' /\ Current'
    BY <1>1, <1>4, <2>2, <2>3 DEF Single, Current, IsLaunch, Moves
  <2>10. Selecting'
    <3> SUFFICES ASSUME mixed' = {}, ~Clearing'
                 PROVE  (Booted /\ Promoted /\ Rested /\ \A k \in JobIds : IsLaunch(k) => Launching(k))'
      BY DEF Selecting
    <3>1. ~Clearing
      BY <1>2, <2>2 DEF Clearing, Moves, Launches, Unloads
    <3>2. IsLaunch(j) /\ \A k \in JobIds : ~IsLaunch(k)'
      BY <1>1, <1>2, <2>2 DEF IsLaunch, Moves, Single
    <3>3. Running' = {}
      BY <1>1, <1>3, <3>1, <3>2 DEF Selecting, Launching
    <3> QED
      BY <3>2, <3>3 DEF Booted, Promoted, Serves, Rested, Right
  <2> QED
    BY <2>4, <2>5, <2>6, <2>7, <2>8, <2>9, <2>10
<1> QED
  BY <1>5, <1>6

\* A rollback that commits the runtime of the record, as one that is unloaded.
LEMMA RollbackCommitsKeeps ==
    ASSUME IInv, NEW j \in JobIds, RollbackCommits(j)
    PROVE  IInv'
<1> USE IInv DEF IInv, Base
<1> DEFINE previous == jobs[j].previous
           safe == Commit(store, [previous EXCEPT !.unloaded = TRUE])
<1>1. jobs[j].pc = "rolling-back" /\ UNCHANGED <<cont, asked, boot, restarts, mixed>>
  BY DEF RollbackCommits
<1>2. /\ jobs[j] \in Jobs /\ (asked > 0 => asked \in JobIds) /\ jobs[j].kind \in Launches
      /\ store \in Stores
  BY <1>1 DEF Typed, JobIds, Placed, LaunchPlaces
<1>3. previous \in Runtimes
  BY <1>2 DEF Jobs
<1>4. /\ safe \in Stores /\ safe.engine = previous.engine /\ safe.model = previous.model
      /\ safe.unloaded = TRUE /\ safe.promo = store.promo /\ safe.op = store.op
  BY <1>2, <1>3 DEF Stores, Runtimes, Commit
<1>5. \E pc \in {"restoring", "ended"} :
          /\ Moves(j, pc)
          /\ pc = "restoring" => /\ Stays(j) /\ ~previous.unloaded /\ jobs'[j].previous = previous
                                 /\ mutex' = mutex /\ store' = safe
          /\ pc = "ended" => mutex' = Free /\ store' = UpdateOp(safe, j, "error")
  <2>1. CASE previous.unloaded
    <3>1. jobs' = Ended(j, "error") /\ mutex' = Free /\ store' = UpdateOp(safe, j, "error")
      BY <2>1 DEF RollbackCommits
    <3> QED
      BY <3>1, JobEnds
  <2>2. CASE ~previous.unloaded
    <3> DEFINE r == [jobs[j] EXCEPT !.pc = "restoring"]
    <3>1. jobs' = [jobs EXCEPT ![j] = r] /\ mutex' = mutex /\ store' = safe
      BY <2>2 DEF RollbackCommits
    <3>2. /\ r \in Jobs /\ r.kind = jobs[j].kind /\ r.swept = jobs[j].swept /\ r.pc = "restoring"
          /\ r.target = jobs[j].target /\ r.cancelled = jobs[j].cancelled
          /\ r.outcome = jobs[j].outcome /\ r.model = jobs[j].model /\ r.previous = previous
      BY <1>2 DEF Jobs
    <3> HIDE DEF r
    <3>3. Moves(j, "restoring") /\ Stays(j) /\ jobs'[j].previous = previous
      BY <1>1, <3>1, <3>2, JobSteps DEF Stays, Placed
    <3> QED
      BY <2>2, <3>1, <3>3
  <2> QED
    BY <2>1, <2>2
<1> HIDE DEF safe
<1>6. PICK pc \in {"restoring", "ended"} :
          /\ Moves(j, pc)
          /\ pc = "restoring" => /\ Stays(j) /\ ~previous.unloaded /\ jobs'[j].previous = previous
                                 /\ mutex' = mutex /\ store' = safe
          /\ pc = "ended" => mutex' = Free /\ store' = UpdateOp(safe, j, "error")
  BY <1>5
<1> HIDE DEF previous
<1>7. SameSelection(safe, store')
  <2>1. SameSelection(safe, safe)
    BY <1>4 DEF SameSelection
  <2>2. SameSelection(safe, UpdateOp(safe, j, "error"))
    BY <1>4, UpdateOpKeeps DEF Phases, JobIds
  <2> QED
    BY <1>6, <2>1, <2>2
<1>8. /\ store' \in Stores /\ store'.unloaded = TRUE /\ store'.promo = store.promo
      /\ store'.op.id \in {0, store.op.id}
  BY <1>4, <1>7 DEF SameSelection
<1>9. /\ mutex = j /\ mutex' \in {j, Free} /\ (pc = "restoring" => mutex' = j)
      /\ boot.pc \notin Cutting \cup {"stopped"}
      /\ \A k \in JobIds : k # j =>
              jobs[k].pc \notin {"selected", "replaced", "rolling-back", "restoring", "removed"}
  BY <1>1, <1>6, EngineAssumption DEF Locked, JobIds, Booting
<1>10. Typed'
  BY <1>1, <1>6, <1>8, <1>9, EngineAssumption DEF Typed, Moves, JobIds, Booting, Free
<1>11. Placed'
  <2>1. jobs[j].pc # "none" /\ jobs[j].kind # "none" /\ jobs[j].kind \in Launches
        /\ jobs[j].target \in Engines /\ jobs[j].outcome # "ok"
    BY <1>1 DEF Placed, LaunchPlaces
  <2>2. CASE pc = "restoring"
    BY <1>1, <1>6, <2>1, <2>2 DEF Placed, Moves, Stays, LaunchPlaces, Unloads
  <2>3. CASE pc = "ended"
    BY <1>1, <1>6, <2>1, <2>3 DEF Placed, Moves, LaunchPlaces, Unloads
  <2> QED
    BY <2>2, <2>3
<1>12. Locked' /\ Steady'
  <2>1. Locked'
    BY <1>1, <1>6, <1>9 DEF Locked, Moves
  <2>2. \A k \in JobIds : jobs'[k].pc # "removed"
    BY <1>6, <1>9 DEF Moves
  <2>3. \A k \in JobIds : jobs'[k].pc = "restoring" => ~jobs'[k].previous.unloaded
    BY <1>6, <1>9 DEF Moves
  <2> QED
    BY <1>1, <1>8, <1>9, <2>1, <2>2, <2>3 DEF Steady
<1>13. Holding'
  <2>1. SUFFICES ASSUME Aborted' PROVE Holding'
    BY DEF Holding
  <2>2. Aborted
    BY <1>1, <1>2, <1>6, <2>1 DEF Aborted, Moves
  <2>3. asked # j /\ jobs'[asked] = jobs[asked]
    BY <1>1, <1>2, <1>6, <2>2 DEF Aborted, Moves, Launches
  <2>4. jobs[asked].outcome # "ok"
    BY <1>1, <2>2 DEF Holding
  <2>5. \A k \in JobIds : jobs'[k].kind \in Launches /\ jobs'[k].pc # "ended" =>
            /\ jobs[k].kind \in Launches /\ jobs[k].pc # "ended" /\ jobs'[k].pc # "none"
            /\ jobs'[k].pc = "begun" => jobs[k].pc = "begun"
            /\ jobs'[k].cancelled = jobs[k].cancelled
    BY <1>1, <1>6, <1>11 DEF Moves, Stays, Placed, Launches
  <2> QED
    BY <1>1, <2>2, <2>3, <2>4, <2>5 DEF Holding
<1>14. Reporting'
  BY <1>2, <1>6 DEF Reporting, Alone, Moves
<1>15. Single' /\ Current'
  <2>1. \A k \in JobIds : jobs'[k].kind = jobs[k].kind /\ (IsLaunch(k)' => IsLaunch(k))
    BY <1>1, <1>2, <1>6 DEF IsLaunch, Moves
  <2>2. Single'
    BY <1>1, <2>1 DEF Single
  <2>3. SUFFICES ASSUME mixed' = {} PROVE Current'
    BY <2>2 DEF Current
  <2>4. IsLaunch(j) /\ \A k \in JobIds : IsLaunch(k)' => k = j
    BY <1>1, <1>2, <2>1, <2>3 DEF IsLaunch, Single
  <2>5. jobs'[j].pc \in {"restoring", "ended"}
    BY <1>6 DEF Moves
  <2> QED
    BY <1>1, <1>9, <2>4, <2>5 DEF Current
<1>16. Selecting'
  <2> SUFFICES ASSUME mixed' = {}, ~Clearing'
               PROVE  (Booted /\ Promoted /\ Rested /\ \A k \in JobIds : IsLaunch(k) => Launching(k))'
    BY DEF Selecting
  <2>1. ~Clearing
    BY <1>2, <1>6 DEF Clearing, Moves, Launches, Unloads
  <2>2. IsLaunch(j) /\ \A k \in JobIds : IsLaunch(k)' => k = j
    BY <1>1, <1>2, <1>6 DEF IsLaunch, Moves, Single
  <2>3. Running' = {}
    BY <1>1, <2>1, <2>2 DEF Selecting, Launching, Running
  <2>4. Booted' /\ Promoted' /\ Rested'
    BY <2>3 DEF Booted, Promoted, Rested, Right, Serves
  <2>5. jobs'[j].pc \in {"restoring", "ended"}
    BY <1>6 DEF Moves
  <2>6. Launching(j)'
    BY <2>3, <2>5 DEF Launching
  <2> QED
    BY <2>2, <2>4, <2>6
<1> QED
  BY <1>10, <1>11, <1>12, <1>13, <1>14, <1>15, <1>16

\* A rollback that runs the runtime of the record again, or cannot.
LEMMA RollbackRestoresKeeps ==
    ASSUME IInv, NEW j \in JobIds, RollbackRestores(j)
    PROVE  IInv'
<1> USE IInv DEF IInv, Base
<1> DEFINE previous == jobs[j].previous
           engine == Selected(previous)
           restored == Commit(store, previous)
           ran == /\ Running \subseteq {engine}
                  /\ cont' = [cont EXCEPT ![engine] = Resolve(previous.model)]
                  /\ store' = UpdateOp(restored, j, "error")
           removed == Remove({engine}) /\ store' = UpdateOp(store, j, "error")
<1>1. /\ jobs[j].pc = "restoring" /\ mutex' = Free /\ jobs' = Ended(j, "error")
      /\ UNCHANGED <<asked, boot, restarts, mixed>>
  BY DEF RollbackRestores
<1>2. ran \/ removed
  BY DEF RollbackRestores
<1>3. /\ jobs[j] \in Jobs /\ (asked > 0 => asked \in JobIds) /\ jobs[j].kind \in Launches
      /\ store \in Stores /\ cont \in [Engines -> Models \cup {None}]
  BY <1>1 DEF Typed, JobIds, Placed, LaunchPlaces
<1>4. previous \in Runtimes /\ ~previous.unloaded
  BY <1>1, <1>3 DEF Jobs, Steady
<1>5. engine \in Engines /\ Resolve(previous.model) \in Models
  BY <1>4, SelectedIsAnEngine DEF Runtimes
<1>6. Moves(j, "ended")
  BY <1>1, JobEnds
<1>7. /\ mutex = j /\ boot.pc \notin Cutting \cup {"stopped"}
      /\ \A k \in JobIds : k # j =>
              jobs[k].pc \notin {"selected", "replaced", "rolling-back", "restoring", "removed"}
  BY <1>1, EngineAssumption DEF Locked, JobIds, Booting
<1>8. /\ restored \in Stores /\ restored.engine = previous.engine /\ restored.model = previous.model
      /\ restored.unloaded = FALSE /\ restored.promo = store.promo /\ restored.op = store.op
  BY <1>3, <1>4 DEF Stores, Runtimes, Commit
<1> HIDE DEF restored
<1>9. /\ store' \in Stores /\ store'.promo = store.promo /\ store'.op.id \in {0, store.op.id}
      /\ ran => store'.engine = previous.engine /\ store'.model = previous.model /\ ~store'.unloaded
      /\ removed => store'.engine = store.engine /\ store'.model = store.model
                    /\ store'.unloaded = store.unloaded
  <2>1. SameSelection(restored, UpdateOp(restored, j, "error"))
        /\ SameSelection(store, UpdateOp(store, j, "error"))
    BY <1>3, <1>8, UpdateOpKeeps DEF Phases, JobIds
  <2> QED
    BY <1>2, <1>8, <2>1 DEF SameSelection
<1>10. ran => engine = Selected(store')
  BY <1>9 DEF Selected
<1> HIDE DEF engine, previous
<1>11. /\ cont' \in [Engines -> Models \cup {None}]
       /\ ran => Running' \subseteq {engine} /\ \A e \in Running' : cont'[e] = Resolve(previous.model)
       /\ removed => Running' \subseteq Running
  <2>1. ran => /\ cont' \in [Engines -> Models \cup {None}] /\ Running' \subseteq {engine}
               /\ \A e \in Running' : cont'[e] = Resolve(previous.model)
    <3>1. SUFFICES ASSUME Running \subseteq {engine},
                          cont' = [cont EXCEPT ![engine] = Resolve(previous.model)]
                   PROVE  /\ cont' \in [Engines -> Models \cup {None}] /\ Running' \subseteq {engine}
                          /\ \A e \in Running' : cont'[e] = Resolve(previous.model)
      OBVIOUS
    <3>2. \A e \in Engines : e # engine => cont'[e] = cont[e]
      BY <1>3, <3>1
    <3>3. cont'[engine] = Resolve(previous.model) /\ cont' \in [Engines -> Models \cup {None}]
      BY <1>3, <1>5, <3>1
    <3> QED
      BY <3>1, <3>2, <3>3 DEF Running
  <2>2. removed => cont' \in [Engines -> Models \cup {None}] /\ Running' \subseteq Running
    BY RemoveKeeps
  <2> QED
    BY <1>2, <2>1, <2>2
<1> HIDE DEF ran, removed
<1>12. Typed'
  BY <1>1, <1>6, <1>7, <1>9, <1>11, EngineAssumption DEF Typed, Moves, Booting, Free
<1>13. Placed'
  <2>1. jobs[j].pc # "none" /\ jobs[j].kind # "none"
    BY <1>1 DEF Placed
  <2> QED
    BY <1>1, <1>6, <2>1 DEF Placed, Moves, LaunchPlaces, Unloads
<1>14. Locked' /\ Steady'
  <2>1. \A k \in JobIds : jobs'[k].pc \notin {"selected", "replaced", "rolling-back", "restoring", "removed"}
    BY <1>6, <1>7 DEF Moves
  <2> QED
    BY <1>1, <1>7, <1>9, <2>1 DEF Locked, Steady
<1>15. Holding'
  <2>1. SUFFICES ASSUME Aborted' PROVE Holding'
    BY DEF Holding
  <2>2. Aborted
    BY <1>1, <1>3, <1>6, <2>1 DEF Aborted, Moves
  <2>3. asked # j /\ jobs'[asked] = jobs[asked]
    BY <1>1, <1>3, <1>6, <2>2 DEF Aborted, Moves, Launches
  <2>4. jobs[asked].outcome # "ok"
    BY <1>1, <2>2 DEF Holding
  <2>5. \A k \in JobIds : jobs'[k].kind \in Launches /\ jobs'[k].pc # "ended" => jobs'[k] = jobs[k]
    BY <1>6 DEF Moves
  <2> QED
    BY <1>1, <2>2, <2>3, <2>4, <2>5 DEF Holding
<1>16. Reporting'
  BY <1>3, <1>6 DEF Reporting, Alone, Moves
<1>17. Single' /\ Current'
  <2>1. \A k \in JobIds : jobs'[k].kind = jobs[k].kind /\ (IsLaunch(k)' => IsLaunch(k))
    BY <1>1, <1>3, <1>6 DEF IsLaunch, Moves
  <2>2. Single'
    BY <1>1, <2>1 DEF Single
  <2>3. SUFFICES ASSUME mixed' = {} PROVE Current'
    BY <2>2 DEF Current
  <2>4. \A k \in JobIds : ~IsLaunch(k)'
    BY <1>1, <1>3, <1>6, <2>1, <2>3 DEF IsLaunch, Single, Moves
  <2> QED
    BY <1>1, <1>7, <2>4 DEF Current
<1>18. Selecting'
  <2> SUFFICES ASSUME mixed' = {}, ~Clearing'
               PROVE  (Booted /\ Promoted /\ Rested /\ \A k \in JobIds : IsLaunch(k) => Launching(k))'
    BY DEF Selecting
  <2>1. ~Clearing
    BY <1>3, <1>6 DEF Clearing, Moves, Launches, Unloads
  <2>2. IsLaunch(j) /\ \A k \in JobIds : ~IsLaunch(k)'
    BY <1>1, <1>3, <1>6 DEF IsLaunch, Moves, Single
  <2>3. Running = {}
    BY <1>1, <2>1, <2>2 DEF Selecting, Launching
  <2>4. Right'
    <3>1. CASE ran
      BY <1>9, <1>10, <1>11, <3>1 DEF Right, Fits
    <3>2. CASE removed
      BY <1>11, <2>3, <3>2 DEF Right
    <3> QED
      BY <1>2, <3>1, <3>2
  <2>5. boot'.pc \notin Cutting \cup {"pulling"}
    BY <1>1, <1>7, <2>2 DEF Single
  <2> QED
    BY <2>2, <2>4, <2>5 DEF Booted, Promoted, Rested, Cutting
<1> QED
  BY <1>12, <1>13, <1>14, <1>15, <1>16, <1>17, <1>18

\* An unload that removes what runs, or cannot.
LEMMA UnloadRemovesKeeps ==
    ASSUME IInv, NEW j \in JobIds, UnloadRemoves(j)
    PROVE  IInv'
<1> USE IInv DEF IInv, Base
<1> DEFINE clears == /\ Remove(Running) /\ mutex' = j /\ UNCHANGED <<store, mixed>>
                     /\ jobs' = [jobs EXCEPT ![j].pc = "removed"]
           stays == /\ store' = UpdateOp(store, j, "error") /\ jobs' = Ended(j, "error")
                    /\ mixed' = mixed \cup {"stays"} /\ UNCHANGED <<cont, mutex>>
<1>1. /\ jobs[j].pc = "queued" /\ jobs[j].kind \in Unloads /\ mutex = Free
      /\ UNCHANGED <<asked, boot, restarts>>
  BY DEF UnloadRemoves, Unloads
<1>2. clears \/ stays
  BY DEF UnloadRemoves
<1>3. /\ jobs[j] \in Jobs /\ (asked > 0 => asked \in JobIds) /\ store \in Stores
      /\ jobs[j].kind \notin Launches \cup {"none"}
  BY <1>1 DEF Typed, JobIds, Unloads, Launches
<1>4. \E pc \in {"removed", "ended"} :
          /\ Moves(j, pc) /\ jobs'[j].outcome # "ok"
          /\ (pc = "removed" <=> clears) /\ (pc = "ended" <=> stays)
  <2>1. CASE clears
    <3> DEFINE r == [jobs[j] EXCEPT !.pc = "removed"]
    <3>1. jobs' = [jobs EXCEPT ![j] = r]
      BY <2>1
    <3>2. r \in Jobs /\ r.kind = jobs[j].kind /\ r.swept = jobs[j].swept /\ r.pc = "removed"
          /\ r.outcome = jobs[j].outcome
      BY <1>3 DEF Jobs
    <3> HIDE DEF r
    <3>3. Moves(j, "removed") /\ jobs'[j].outcome # "ok"
      BY <1>1, <3>1, <3>2, JobSteps DEF Placed
    <3>4. ~stays
      <4>1. SUFFICES ASSUME stays PROVE FALSE
        OBVIOUS
      <4>2. Moves(j, "ended")
        BY <4>1, JobEnds
      <4> QED
        BY <3>3, <4>2 DEF Moves
    <3> QED
      BY <2>1, <3>3, <3>4
  <2>2. CASE stays
    <3>1. Moves(j, "ended") /\ jobs'[j].outcome # "ok"
      BY <2>2, JobEnds
    <3>2. SUFFICES ASSUME clears PROVE FALSE
      BY <2>2, <3>1
    <3>3. jobs' = [jobs EXCEPT ![j].pc = "removed"] /\ jobs \in [JobIds -> Jobs]
      BY <3>2 DEF Typed
    <3>4. jobs'[j].pc = "removed"
      BY <1>3, <3>3 DEF Jobs
    <3> QED
      BY <3>1, <3>4 DEF Moves
  <2> QED
    BY <1>2, <2>1, <2>2
<1>5. PICK pc \in {"removed", "ended"} :
          /\ Moves(j, pc) /\ jobs'[j].outcome # "ok"
          /\ (pc = "removed" <=> clears) /\ (pc = "ended" <=> stays)
  BY <1>4
<1>6. /\ cont' \in [Engines -> Models \cup {None}]
      /\ pc = "removed" => Running' = {} /\ mutex' = j /\ mixed' = mixed
      /\ pc = "ended" => Running' = Running /\ cont' = cont /\ mutex' = mutex /\ mixed' # {}
  <2>1. CASE clears
    BY <1>5, <2>1, RemoveKeeps
  <2>2. CASE stays
    BY <1>5, <2>2 DEF Typed, Running
  <2> QED
    BY <1>2, <2>1, <2>2, <1>5
<1>7. SameSelection(store, store')
  <2>1. SameSelection(store, store) /\ SameSelection(store, UpdateOp(store, j, "error"))
    BY <1>3, UpdateOpKeeps DEF SameSelection, Phases, JobIds
  <2> QED
    BY <1>2, <2>1
<1> HIDE DEF clears, stays
<1>8. /\ store' \in Stores /\ store'.engine = store.engine /\ store'.model = store.model
      /\ store'.unloaded = store.unloaded /\ store'.promo = store.promo
      /\ store'.op.id \in {0, store.op.id}
  BY <1>7 DEF SameSelection
<1>9. Selected(store') = Selected(store)
  BY <1>8 DEF Selected
<1>10. boot.pc \notin Cutting \cup {"stopped"}
       /\ \A k \in JobIds : jobs[k].pc \notin {"selected", "replaced", "rolling-back", "restoring", "removed"}
  BY <1>1, EngineAssumption DEF Locked, JobIds, Free, Booting
<1>11. \A k \in JobIds : jobs'[k].kind = jobs[k].kind /\ (jobs[k].kind \in Launches => jobs'[k] = jobs[k])
  BY <1>3, <1>5 DEF Moves
<1>12. Typed'
  BY <1>1, <1>5, <1>6, <1>8, <1>10, EngineAssumption DEF Typed, Moves, JobIds, Booting, Free
<1>13. Placed'
  <2>1. jobs[j].pc # "none" /\ jobs[j].kind # "none"
    BY <1>1 DEF Placed
  <2> QED
    BY <1>1, <1>5, <2>1 DEF Placed, Moves, LaunchPlaces
<1>14. Locked' /\ Steady'
  <2>1. \A k \in JobIds : jobs'[k].pc \in {"selected", "replaced", "rolling-back", "restoring", "removed"} =>
            k = j /\ pc = "removed" /\ jobs'[k].pc = "removed"
    BY <1>5, <1>10 DEF Moves
  <2>2. Locked'
    BY <1>1, <1>6, <1>10, <2>1 DEF Locked
  <2> QED
    BY <1>1, <1>6, <1>8, <1>10, <2>1, <2>2 DEF Steady
<1>15. Holding'
  <2>1. SUFFICES ASSUME Aborted' PROVE Holding'
    BY DEF Holding
  <2>2. Aborted
    BY <1>1, <1>3, <1>5, <2>1 DEF Aborted, Moves
  <2>3. \A k \in JobIds : jobs'[k].kind \in Launches /\ jobs'[k].pc # "ended" =>
            jobs'[k].pc # "begun" /\ jobs'[k].cancelled
    BY <1>11, <2>2 DEF Holding
  <2>4. CASE jobs'[asked].outcome # "ok"
    BY <1>1, <2>3, <2>4 DEF Holding
  <2>5. CASE jobs'[asked].outcome = "ok"
    <3>1. asked # j /\ jobs'[asked] = jobs[asked]
      BY <1>3, <1>5, <2>2, <2>5 DEF Moves, Aborted
    <3>2. \A k \in JobIds : jobs[k].pc \in {"selected", "replaced", "failing"} => jobs'[k] = jobs[k]
      BY <1>1, <1>5 DEF Moves
    <3>3. \A k \in JobIds : jobs'[k].pc \notin {"rolling-back", "restoring"}
      BY <1>5, <1>10 DEF Moves
    <3>4. \A e \in Running' : \E k \in JobIds : jobs'[k].pc = "failing" /\ jobs'[k].target = e
      BY <1>6, <2>2, <2>5, <3>1, <3>2 DEF Holding
    <3> QED
      BY <1>1, <1>8, <2>2, <2>3, <2>5, <3>1, <3>2, <3>3, <3>4 DEF Holding
  <2> QED
    BY <2>4, <2>5
<1>16. Reporting'
  <2>1. Alone' => Alone
    BY <1>1, <1>11 DEF Alone
  <2>2. CASE pc = "removed"
    BY <1>1, <1>6, <1>8, <1>9, <2>1, <2>2 DEF Reporting, Serves
  <2>3. CASE pc = "ended"
    BY <1>1, <1>6, <1>8, <1>9, <2>1, <2>3 DEF Reporting, Serves
  <2> QED
    BY <2>2, <2>3
<1>17. Single' /\ Current'
  <2>1. mixed' = {} => mixed = {}
    BY <1>6
  <2>2. \A k \in JobIds : (IsLaunch(k)' <=> IsLaunch(k)) /\ (IsLaunch(k) => jobs'[k] = jobs[k])
    BY <1>3, <1>11 DEF IsLaunch
  <2>3. Single'
    BY <1>1, <2>1, <2>2 DEF Single
  <2> QED
    BY <1>1, <1>8, <2>1, <2>2, <2>3 DEF Current
<1>18. Selecting'
  <2> SUFFICES ASSUME mixed' = {}
               PROVE  (Booted /\ Promoted /\ Rested /\ \A k \in JobIds : IsLaunch(k) => Launching(k))'
    BY DEF Selecting
  <2>1. Running' = {} /\ jobs'[j].pc = "removed"
    BY <1>5, <1>6 DEF Moves
  <2> QED
    BY <2>1 DEF Booted, Promoted, Rested, Launching, Right, Serves
<1> QED
  BY <1>12, <1>13, <1>14, <1>15, <1>16, <1>17, <1>18

\* An unload that puts itself on record.
LEMMA UnloadEndsKeeps ==
    ASSUME IInv, NEW j \in JobIds, UnloadEnds(j)
    PROVE  IInv'
<1> USE IInv DEF IInv, Base
<1> DEFINE unloaded == [store EXCEPT !.unloaded = TRUE]
<1>1. /\ jobs[j].pc = "removed" /\ mutex' = Free /\ jobs' = Ended(j, "ok")
      /\ store' = ClearOp(unloaded, j) /\ UNCHANGED <<cont, asked, boot, restarts, mixed>>
  BY DEF UnloadEnds
<1>2. /\ jobs[j] \in Jobs /\ (asked > 0 => asked \in JobIds) /\ store \in Stores
      /\ jobs[j].kind \in Unloads /\ jobs[j].kind \notin Launches \cup {"none"}
  BY <1>1 DEF Typed, JobIds, Placed, Unloads, Launches
<1>3. Moves(j, "ended") /\ jobs'[j].outcome = "ok"
  BY <1>1, JobEnds
<1>4. /\ unloaded \in Stores /\ unloaded.engine = store.engine /\ unloaded.model = store.model
      /\ unloaded.unloaded = TRUE /\ unloaded.promo = store.promo /\ unloaded.op = store.op
  BY <1>2 DEF Stores
<1> HIDE DEF unloaded
<1>5. /\ store' \in Stores /\ store'.engine = store.engine /\ store'.model = store.model
      /\ store'.unloaded /\ store'.promo = store.promo /\ store'.op.id \in {0, store.op.id}
  BY <1>1, <1>4, ClearOpKeeps DEF SameSelection, JobIds
<1>6. Running = {} /\ Running' = {}
  BY <1>1 DEF Steady, Running
<1>7. /\ mutex = j /\ boot.pc \notin Cutting \cup {"stopped"}
      /\ \A k \in JobIds : k # j =>
              jobs[k].pc \notin {"selected", "replaced", "rolling-back", "restoring", "removed"}
  BY <1>1, EngineAssumption DEF Locked, JobIds, Booting
<1>8. \A k \in JobIds : jobs'[k].pc \notin {"selected", "replaced", "rolling-back", "restoring", "removed"}
  BY <1>3, <1>7 DEF Moves
<1>9. \A k \in JobIds : jobs'[k].kind = jobs[k].kind /\ (jobs[k].kind \in Launches => jobs'[k] = jobs[k])
  BY <1>2, <1>3 DEF Moves
<1>10. Typed'
  BY <1>1, <1>3, <1>5, <1>7, EngineAssumption DEF Typed, Moves, Booting, Free
<1>11. Placed'
  <2>1. jobs[j].pc # "none" /\ jobs[j].kind # "none"
    BY <1>1 DEF Placed
  <2> QED
    BY <1>1, <1>3, <2>1 DEF Placed, Moves, LaunchPlaces, Unloads
<1>12. Locked' /\ Steady'
  BY <1>1, <1>5, <1>7, <1>8 DEF Locked, Steady
<1>13. Holding'
  <2>1. SUFFICES ASSUME Aborted' PROVE Holding'
    BY DEF Holding
  <2>2. Aborted
    BY <1>1, <1>2, <1>3, <2>1 DEF Aborted, Moves
  <2>3. \A k \in JobIds : jobs'[k].kind \in Launches /\ jobs'[k].pc # "ended" =>
            jobs'[k].pc # "begun" /\ jobs'[k].cancelled
    BY <1>9, <2>2 DEF Holding
  <2> QED
    BY <1>5, <1>6, <1>8, <2>3 DEF Holding
<1>14. Reporting'
  <2>1. Alone' => Alone
    BY <1>1, <1>9 DEF Alone
  <2> QED
    BY <1>1, <1>5, <1>6, <2>1 DEF Reporting, Serves
<1>15. Single' /\ Current'
  <2>1. \A k \in JobIds : (IsLaunch(k)' <=> IsLaunch(k)) /\ (IsLaunch(k) => jobs'[k] = jobs[k])
    BY <1>2, <1>9 DEF IsLaunch
  <2>2. Single'
    BY <1>1, <2>1 DEF Single
  <2> QED
    BY <1>1, <1>5, <1>7, <1>8, <2>1, <2>2 DEF Current
<1>16. Selecting'
  BY <1>5, <1>6 DEF Selecting, Booted, Promoted, Rested, Launching, Right, Serves
<1> QED
  BY <1>10, <1>11, <1>12, <1>13, <1>14, <1>15, <1>16

-----------------------------------------------------------------------------
(* Requests *)

\* A request for a launch is alone, or it is on record that it is not.
LEMMA AskKeeps ==
    ASSUME IInv, NEW kind \in Launches, NEW target \in Engines, NEW previous \in Runtimes,
           NEW s \in Stores, Ask(kind, target, previous, s),
           s.engine = store.engine, s.unloaded = store.unloaded, s.promo = store.promo,
           kind # "model" => s.model = store.model
    PROVE  IInv'
<1> USE IInv DEF IInv, Base
<1> DEFINE a == asked + 1
           new == [NoJob EXCEPT !.kind = kind, !.target = target, !.pc = "begun"]
<1>1. /\ asked < MaxJobs /\ asked' = a /\ jobs' = [jobs EXCEPT ![a] = new]
      /\ store' = BeginOp(s, a, kind, previous)
      /\ UNCHANGED <<cont, mutex, boot, restarts>>
  BY DEF Ask
<1>2. asked \in Nat /\ a \in JobIds /\ a \in 0..MaxJobs /\ jobs \in [JobIds -> Jobs]
  BY <1>1, EngineAssumption DEF Typed, JobIds
<1>3. NoRuntime \in Runtimes
  BY EngineAssumption DEF NoRuntime, Runtimes
<1>4. /\ new \in Jobs /\ new.kind = kind /\ new.target = target /\ new.pc = "begun"
      /\ ~new.cancelled /\ new.outcome = "none"
  BY <1>3 DEF Jobs, NoJob, Launches
<1>5. /\ store' \in Stores /\ store'.engine = store.engine /\ store'.model = s.model
      /\ store'.unloaded = store.unloaded /\ store'.promo = store.promo /\ store'.op.id = a
  BY <1>1, <1>2 DEF Stores, BeginOp, Launches
<1> HIDE DEF new
<1>6. /\ jobs' \in [JobIds -> Jobs] /\ jobs'[a] = new
      /\ \A k \in JobIds : k # a => jobs'[k] = jobs[k]
  BY <1>1, <1>2, <1>4
<1>7. mixed' = {} => /\ mixed = {} /\ boot.pc \notin {"pulling", "stopped"}
                     /\ \A k \in JobIds : ~IsLaunch(k)
                     /\ kind = "model" => boot.pc = "done"
  <2>1. SUFFICES ASSUME mixed' = {}
                 PROVE  /\ mixed = {} /\ boot.pc \notin {"pulling", "stopped"}
                        /\ \A k \in JobIds : ~IsLaunch(k)
                        /\ kind = "model" => boot.pc = "done"
    OBVIOUS
  <2>2. /\ mixed = {} /\ LiveLaunches = {} /\ boot.pc \notin {"pulling", "stopped"}
        /\ ~(kind = "model" /\ PromotionLive)
    BY <2>1 DEF Ask
  <2> QED
    BY <2>2 DEF LiveLaunches, Live, IsLaunch, PromotionLive, Typed
<1>8. jobs[a].pc = "none" /\ a # 0
  BY <1>2 DEF Placed
<1>9. Typed'
  BY <1>1, <1>2, <1>5, <1>6 DEF Typed
<1>10. Placed'
  <2>1. \A k \in JobIds : k # a => (k > asked <=> k > a)
    BY <1>2 DEF JobIds
  <2>2. ~(a > a)
    BY <1>2
  <2> QED
    BY <1>1, <1>4, <1>6, <2>1, <2>2 DEF Placed, LaunchPlaces, Launches
<1>11. Locked'
  BY <1>1, <1>4, <1>6 DEF Locked
<1>12. Steady'
  BY <1>1, <1>4, <1>5, <1>6 DEF Steady, Running, Selected, ShouldBootstrap
<1>13. Holding' /\ Reporting'
  BY <1>1, <1>2, <1>4, <1>6 DEF Holding, Aborted, Reporting, Alone, Launches
<1>14. Single'
  <2>1. \A k \in JobIds : k # a => (IsLaunch(k)' <=> IsLaunch(k))
    BY <1>6 DEF IsLaunch
  <2> QED
    BY <1>1, <1>4, <1>6, <1>7, <2>1 DEF Single
<1>15. mixed' = {} => \A k \in JobIds : IsLaunch(k)' <=> k = a
  BY <1>4, <1>6, <1>7, <1>2 DEF IsLaunch
<1>16. Current'
  <2>1. mixed' = {} /\ boot.pc \in Cutting => kind # "model"
    BY <1>7 DEF Cutting
  <2> QED
    BY <1>1, <1>4, <1>5, <1>6, <1>7, <1>15, <2>1 DEF Current
<1>17. Selecting'
  <2> SUFFICES ASSUME mixed' = {}, ~Clearing'
               PROVE  (Booted /\ Promoted /\ Rested /\ \A k \in JobIds : IsLaunch(k) => Launching(k))'
    BY DEF Selecting
  <2>1. ~Clearing
    BY <1>6, <1>8 DEF Clearing
  <2>2. Promoted /\ Right
    BY <1>7, <2>1 DEF Selecting, Rested
  <2>3. Booted' /\ Promoted' /\ Rested'
    BY <1>1, <1>2, <1>7, <1>15, <2>2 DEF Booted, Promoted, Rested, Running, Serves
  <2>4. kind # "model" => Right'
    BY <1>1, <1>5, <2>2 DEF Right, Running, Fits, Selected
  <2>5. \A k \in JobIds : k = a => Launching(k)'
    BY <1>4, <1>6, <1>2, <2>4 DEF Launching
  <2> QED
    BY <1>15, <2>3, <2>5
<1> QED
  BY <1>9, <1>10, <1>11, <1>12, <1>13, <1>14, <1>16, <1>17

\* The requests for a launch.
LEMMA LaunchRequestsKeep ==
    ASSUME IInv,
           \/ EngineLoad \/ EngineRestart
           \/ \E e \in Engines : EngineSwitchTo(e)
           \/ \E model \in {"", "other"} : SettingsModel(model)
    PROVE  IInv'
<1>1. store \in Stores /\ Runtime(store) \in Runtimes
  BY DEF IInv, Base, Typed, Stores, Runtimes, Runtime
<1>2. Active \in Engines /\ Selected(store) \in Engines
  BY <1>1, SelectedIsAnEngine
<1>3. CASE EngineLoad
  BY <1>1, <1>2, <1>3, AskKeeps DEF EngineLoad, Launches
<1>4. CASE EngineRestart
  BY <1>1, <1>2, <1>4, AskKeeps DEF EngineRestart, Launches
<1>5. CASE \E e \in Engines : EngineSwitchTo(e)
  BY <1>1, <1>5, AskKeeps DEF EngineSwitchTo, Launches
<1>6. CASE \E model \in {"", "other"} : SettingsModel(model)
  <2>1. PICK model \in {"", "other"} : SettingsModel(model)
    BY <1>6
  <2> DEFINE s == [store EXCEPT !.model = model]
  <2>2. s \in Stores /\ s.engine = store.engine /\ s.unloaded = store.unloaded /\ s.promo = store.promo
    BY <1>1 DEF Stores
  <2>3. Ask("model", Active, Runtime(store), s)
    BY <2>1 DEF SettingsModel
  <2> HIDE DEF s
  <2> QED
    BY <1>1, <1>2, <2>2, <2>3, AskKeeps DEF Launches
<1> QED
  BY <1>3, <1>4, <1>5, <1>6

\* A request that queues a removal excuses what runs until it is carried out.
LEMMA ClearingRequest ==
    ASSUME IInv, NEW kind \in Unloads, asked < MaxJobs, asked' = asked + 1,
           store' = BeginOp(store, asked + 1, kind, NoRuntime),
           jobs' \in [JobIds -> Jobs],
           jobs'[asked + 1].kind = kind, jobs'[asked + 1].pc = "queued",
           jobs'[asked + 1].outcome = "none",
           \A k \in JobIds : k # asked + 1 =>
               /\ jobs'[k].kind = jobs[k].kind /\ jobs'[k].pc = jobs[k].pc
               /\ jobs'[k].target = jobs[k].target /\ jobs'[k].model = jobs[k].model
               /\ jobs'[k].previous = jobs[k].previous /\ jobs'[k].outcome = jobs[k].outcome
               /\ jobs[k].pc = "begun" => ~jobs'[k].cancelled,
           kind = "abort" /\ jobs'[asked + 1].swept =>
               \A k \in JobIds : jobs'[k].kind \in Launches /\ jobs'[k].pc # "ended" =>
                   jobs'[k].pc # "begun" /\ jobs'[k].cancelled,
           UNCHANGED <<cont, mutex, boot, restarts, mixed>>
    PROVE  IInv'
<1> USE IInv DEF IInv, Base
<1> DEFINE a == asked + 1
<1>1. asked \in Nat /\ a \in JobIds /\ a \in 0..MaxJobs /\ kind \notin Launches \cup {"none"}
  BY EngineAssumption DEF Typed, JobIds, Launches, Unloads
<1>2. NoRuntime \in Runtimes
  BY EngineAssumption DEF NoRuntime, Runtimes
<1>3. /\ store' \in Stores /\ store'.engine = store.engine /\ store'.model = store.model
      /\ store'.unloaded = store.unloaded /\ store'.promo = store.promo /\ store'.op.id = a
  BY <1>1, <1>2 DEF Stores, BeginOp, Typed, Unloads
<1>4. jobs[a].pc = "none" /\ jobs[a].kind = "none"
  BY <1>1 DEF Placed
<1>5. Typed'
  BY <1>1, <1>3 DEF Typed
<1>6. Placed'
  <2>1. \A k \in JobIds : k # a => (k > asked <=> k > a)
    BY <1>1 DEF JobIds
  <2>2. ~(a > a)
    BY <1>1
  <2> QED
    BY <1>1, <2>1, <2>2 DEF Placed, LaunchPlaces, Unloads
<1>7. Locked'
  BY <1>1 DEF Locked
<1>8. Steady'
  <2>1. \A k \in JobIds : jobs'[k].pc \in {"removed", "restoring"} =>
            jobs'[k].pc = jobs[k].pc /\ jobs'[k].previous = jobs[k].previous
    BY <1>1
  <2>2. Running' = Running /\ Selected(store') = Selected(store)
    BY <1>3 DEF Running, Selected
  <2>3. /\ asked' > 0 => store'.op.id \in {0, asked'}
        /\ \A k \in JobIds : jobs'[k].pc = "removed" => Running' = {}
        /\ \A k \in JobIds : jobs'[k].pc = "restoring" => ~jobs'[k].previous.unloaded
    BY <1>1, <1>3, <2>1, <2>2 DEF Steady
  <2>4. boot.pc = "stopped" => /\ boot.read.engine = store'.engine
                               /\ boot.read.unloaded = store'.unloaded
                               /\ ShouldBootstrap(boot.read) => store'.promo.phase = "bootstrap"
    BY <1>3 DEF Steady
  <2>5. boot.pc \in Cutting => /\ boot.read = Selected(store') /\ ~store'.unloaded
                               /\ store'.promo.phase # "none"
    BY <1>3, <2>2 DEF Steady
  <2> QED
    BY <2>3, <2>4, <2>5 DEF Steady
<1>9. Holding'
  BY <1>1 DEF Holding, Aborted
<1>10. Reporting'
  <2>1. Alone' => Alone
    BY <1>1, <1>4 DEF Alone, Launches
  <2>2. Selected(store') = Selected(store)
    BY <1>3 DEF Selected
  <2> QED
    BY <1>3, <2>1, <2>2 DEF Reporting, Running, Serves
<1>11. \A k \in JobIds : (IsLaunch(k)' <=> IsLaunch(k)) /\ (IsLaunch(k) => k # a)
  BY <1>1, <1>4 DEF IsLaunch
<1>12. Single'
  BY <1>11 DEF Single
<1>13. Current'
  <2>1. \A k \in JobIds : IsLaunch(k)' =>
            /\ IsLaunch(k) /\ jobs'[k].pc = jobs[k].pc /\ jobs'[k].target = jobs[k].target
            /\ jobs'[k].model = jobs[k].model
    BY <1>11
  <2>2. SUFFICES ASSUME mixed' = {} PROVE Current'
    BY DEF Current
  <2>3. SUFFICES ASSUME NEW k \in JobIds, IsLaunch(k)'
                 PROVE  /\ jobs'[k].pc \in {"selected", "replaced", "loading", "failing"} =>
                                store'.engine = jobs'[k].target
                        /\ jobs'[k].pc \in {"selected", "replaced"} => ~store'.unloaded
                        /\ jobs'[k].pc \in {"queued", "selected", "replaced"} =>
                                Resolve(jobs'[k].model) = Resolve(store'.model)
    BY <1>3, <2>2 DEF Current
  <2>4. /\ jobs[k].pc \in {"selected", "replaced", "loading", "failing"} => store.engine = jobs[k].target
        /\ jobs[k].pc \in {"selected", "replaced"} => ~store.unloaded
        /\ jobs[k].pc \in {"queued", "selected", "replaced"} =>
                Resolve(jobs[k].model) = Resolve(store.model)
    BY <2>1, <2>2, <2>3 DEF Current
  <2>5. /\ jobs'[k].pc = jobs[k].pc /\ jobs'[k].target = jobs[k].target
        /\ Resolve(jobs'[k].model) = Resolve(jobs[k].model)
        /\ Resolve(store'.model) = Resolve(store.model)
    BY <1>3, <2>1, <2>3
  <2> QED
    BY <1>3, <2>4, <2>5
<1>14. Selecting'
  BY <1>1 DEF Selecting, Clearing
<1> QED
  BY <1>5, <1>6, <1>7, <1>8, <1>9, <1>10, <1>12, <1>13, <1>14

\* The unload and the abort of the engine.
LEMMA ClearingRequestsKeep ==
    ASSUME IInv, EngineUnload \/ EngineAbort
    PROVE  IInv'
<1>1. Typed /\ Placed /\ asked \in Nat /\ NoRuntime \in Runtimes
  BY EngineAssumption DEF IInv, Base, Typed, NoRuntime, Runtimes
<1>2. CASE EngineUnload
  <2> DEFINE new == [NoJob EXCEPT !.kind = "unload", !.pc = "queued"]
  <2>1. /\ asked < MaxJobs /\ asked' = asked + 1 /\ jobs' = [jobs EXCEPT ![asked + 1] = new]
        /\ store' = BeginOp(store, asked + 1, "unload", NoRuntime)
        /\ UNCHANGED <<cont, mutex, boot, restarts, mixed>>
    BY <1>2 DEF EngineUnload
  <2>2. new \in Jobs /\ new.kind = "unload" /\ new.pc = "queued" /\ new.outcome = "none"
    BY <1>1 DEF Jobs, NoJob
  <2> HIDE DEF new
  <2>3. asked + 1 \in JobIds /\ jobs \in [JobIds -> Jobs]
    BY <1>1, <2>1, EngineAssumption DEF JobIds, Typed
  <2>4. jobs' \in [JobIds -> Jobs] /\ jobs'[asked + 1] = new
        /\ \A k \in JobIds : k # asked + 1 => jobs'[k] = jobs[k]
    BY <2>1, <2>2, <2>3
  <2> QED
    BY <1>1, <2>1, <2>2, <2>4, ClearingRequest DEF Unloads, Placed
<1>3. CASE EngineAbort
  <2> DEFINE new == [NoJob EXCEPT !.kind = "abort", !.pc = "queued",
                                  !.swept = (LiveLaunches = Registered)]
             cut(k) == [jobs[k] EXCEPT !.cancelled = (@ \/ k \in Registered)]
  <2>1. /\ asked < MaxJobs /\ asked' = asked + 1
        /\ jobs' = [k \in JobIds |-> IF k = asked + 1 THEN new ELSE cut(k)]
        /\ store' = BeginOp(store, asked + 1, "abort", NoRuntime)
        /\ UNCHANGED <<cont, mutex, boot, restarts, mixed>>
    BY <1>3 DEF EngineAbort
  <2>2. /\ new \in Jobs /\ new.kind = "abort" /\ new.pc = "queued" /\ new.outcome = "none"
        /\ new.swept = (LiveLaunches = Registered)
    BY <1>1 DEF Jobs, NoJob
  <2>3. asked + 1 \in JobIds /\ jobs \in [JobIds -> Jobs]
    BY <1>1, <2>1, EngineAssumption DEF JobIds, Typed
  <2>4. \A k \in JobIds :
            /\ cut(k) \in Jobs /\ cut(k).kind = jobs[k].kind /\ cut(k).pc = jobs[k].pc
            /\ cut(k).target = jobs[k].target /\ cut(k).model = jobs[k].model
            /\ cut(k).previous = jobs[k].previous /\ cut(k).outcome = jobs[k].outcome
            /\ cut(k).cancelled = (jobs[k].cancelled \/ k \in Registered)
    <3>1. SUFFICES ASSUME NEW k \in JobIds
                   PROVE  /\ cut(k) \in Jobs /\ cut(k).kind = jobs[k].kind /\ cut(k).pc = jobs[k].pc
                          /\ cut(k).target = jobs[k].target /\ cut(k).model = jobs[k].model
                          /\ cut(k).previous = jobs[k].previous /\ cut(k).outcome = jobs[k].outcome
                          /\ cut(k).cancelled = (jobs[k].cancelled \/ k \in Registered)
      OBVIOUS
    <3>2. jobs[k] \in Jobs
      BY <2>3
    <3> QED
      BY <3>2 DEF Jobs
  <2> HIDE DEF new, cut
  <2>5. /\ jobs' \in [JobIds -> Jobs] /\ jobs'[asked + 1] = new
        /\ \A k \in JobIds : k # asked + 1 => jobs'[k] = cut(k)
    BY <2>1, <2>2, <2>3, <2>4
  <2>6. \A k \in JobIds : jobs[k].pc = "begun" => ~cut(k).cancelled
    BY <1>1, <2>4 DEF Registered, Placed
  <2>7. new.swept => \A k \in JobIds : k # asked + 1 /\ jobs'[k].kind \in Launches /\ jobs'[k].pc # "ended" =>
                         jobs'[k].pc # "begun" /\ jobs'[k].cancelled
    <3>1. SUFFICES ASSUME LiveLaunches = Registered, NEW k \in JobIds, k # asked + 1,
                          jobs'[k].kind \in Launches, jobs'[k].pc # "ended"
                   PROVE  jobs'[k].pc # "begun" /\ jobs'[k].cancelled
      BY <2>2
    <3>2. jobs[k].kind \in Launches /\ jobs[k].pc # "ended" /\ jobs[k].pc # "none"
      BY <1>1, <2>4, <2>5, <3>1 DEF Placed, Launches
    <3>3. k \in Registered
      BY <3>1, <3>2 DEF LiveLaunches, Live
    <3> QED
      BY <2>4, <2>5, <3>1, <3>3 DEF Registered
  <2>8. \A k \in JobIds : k # asked + 1 =>
            /\ jobs'[k].kind = jobs[k].kind /\ jobs'[k].pc = jobs[k].pc
            /\ jobs'[k].target = jobs[k].target /\ jobs'[k].model = jobs[k].model
            /\ jobs'[k].previous = jobs[k].previous /\ jobs'[k].outcome = jobs[k].outcome
            /\ jobs[k].pc = "begun" => ~jobs'[k].cancelled
    BY <2>4, <2>5, <2>6
  <2>9. jobs'[asked + 1].kind = "abort" /\ jobs'[asked + 1].pc = "queued"
        /\ jobs'[asked + 1].outcome = "none" /\ jobs'[asked + 1].swept = new.swept
    BY <2>2, <2>5
  <2>10. jobs'[asked + 1].swept =>
             \A k \in JobIds : jobs'[k].kind \in Launches /\ jobs'[k].pc # "ended" =>
                 jobs'[k].pc # "begun" /\ jobs'[k].cancelled
    BY <2>7, <2>9 DEF Launches
  <2> QED
    BY <2>1, <2>5, <2>8, <2>9, <2>10, ClearingRequest DEF Unloads
<1> QED
  BY <1>2, <1>3

\* An engine that answers changes nothing that is on record.
LEMMA EngineAnswersKeeps ==
    ASSUME IInv, EngineAnswers
    PROVE  IInv'
<1>1. UNCHANGED <<store, cont, jobs, asked, mutex, boot, restarts, mixed>>
  BY DEF EngineAnswers
<1>2. Typed' /\ Placed' /\ Locked' /\ Steady'
  BY <1>1 DEF IInv, Base, Typed, Placed, Locked, Steady, Running
<1>3. Holding' /\ Reporting' /\ Single' /\ Current'
  <2>1. Holding'
    BY <1>1 DEF IInv, Holding, Aborted, Running
  <2>2. Reporting'
    <3>1. restarts' = restarts
      BY DEF EngineAnswers
    <3> QED
      BY <1>1, <3>1 DEF IInv, Reporting, Alone, Serves, Running
  <2>3. Single' /\ Current'
    BY <1>1 DEF IInv, Single, Current, IsLaunch
  <2> QED
    BY <2>1, <2>2, <2>3
<1>4. Selecting'
  BY <1>1 DEF IInv, Selecting, Clearing, Booted, Promoted, Rested, Launching, Serves, Right, Fits,
              Running, IsLaunch
<1> QED
  BY <1>2, <1>3, <1>4 DEF IInv, Base

-----------------------------------------------------------------------------
(* The provisioner and the promotion *)

\* What a step of the provisioner does to containers: it removes some, or it
\* runs what is selected, under the lock.
Removing == Running' \subseteq Running /\ (mixed = {} /\ ~Clearing => (Right => Right'))
Starting ==
    /\ mutex = Booting /\ ~store.unloaded /\ Running' \subseteq {Selected(store)}
    /\ mixed = {} /\ ~Clearing => Right'

\* What a step of the provisioner does to the lock.
Locking ==
    \/ mutex' = mutex /\ (boot'.pc \in Cutting \cup {"stopped"} => mutex = Booting)
    \/ mutex = Free /\ mutex' = Booting
    \/ mutex = Booting /\ mutex' = Free /\ boot'.pc \notin Cutting \cup {"stopped"}

BootPlaces ==
    {"stopped", "downloading", "downloaded", "switching", "verifying", "committed",
     "restoring", "done"}

\* What a step of the provisioner writes.
Writing ==
    /\ store' \in Stores /\ store'.engine = store.engine /\ store'.unloaded = store.unloaded
    /\ store'.op.id \in {0, store.op.id}
    /\ mixed = {} => Resolve(store'.model) = Resolve(store.model)
    /\ cont' \in [Engines -> Models \cup {None}]

\* What it has read and found.
Reading ==
    /\ boot.pc # "done" /\ boot'.pc \in BootPlaces
    /\ boot' = [pc |-> boot'.pc, read |-> boot'.read]
    /\ boot'.pc = "stopped" =>
            /\ boot.pc = "pulling" /\ boot'.read \in Stores
            /\ boot'.read.engine = store.engine /\ boot'.read.unloaded = store.unloaded
            /\ boot'.read.model = store'.model
            /\ ShouldBootstrap(boot'.read) => store'.promo.phase = "bootstrap"
    /\ boot'.pc \in Cutting =>
            boot'.read = Selected(store) /\ ~store.unloaded /\ store'.promo.phase # "none"
    /\ mixed = {} /\ boot'.pc \in Cutting \ {"committed"} => store'.model = ""

\* A step of the provisioner leaves the requests, and what they rest on, as they are.
LEMMA BootMoves ==
    ASSUME IInv, UNCHANGED <<jobs, asked, restarts, mixed>>,
           Writing, Reading, Locking, Removing \/ Starting,
           mixed = {} /\ ~Clearing => Promoted' /\ Rested', Reporting'
    PROVE  IInv'
<1> USE IInv DEF IInv, Base
<1>1. Booting # Free /\ Booting \notin JobIds /\ Free \notin JobIds /\ Booting \in Nat /\ Free = 0
  <2>1. MaxJobs \in Nat /\ MaxJobs + 1 \notin 1..MaxJobs /\ MaxJobs + 1 # 0 /\ 0 \notin 1..MaxJobs
    BY EngineAssumption
  <2> QED
    BY <2>1 DEF Booting, Free, JobIds
<1>2. mutex = Booting => \A k \in JobIds :
          jobs[k].pc \notin {"selected", "replaced", "rolling-back", "restoring", "removed"}
  BY <1>1 DEF Locked
<1>3. Selected(store') = Selected(store)
  BY DEF Selected, Writing
<1>4. Typed'
  <2>1. mutex' \in 0..Booting
    BY <1>1 DEF Typed, Locking
  <2> QED
    BY <2>1 DEF Typed, BootPlaces, Writing, Reading
<1>5. Placed'
  BY DEF Placed
<1>6. Locked'
  <2>1. CASE mutex' = mutex /\ (boot'.pc \in Cutting \cup {"stopped"} => mutex = Booting)
    BY <2>1 DEF Locked
  <2>2. CASE mutex = Free /\ mutex' = Booting
    BY <1>1, <2>2 DEF Locked
  <2>3. CASE mutex = Booting /\ mutex' = Free /\ boot'.pc \notin Cutting \cup {"stopped"}
    BY <1>2, <2>3 DEF Locked
  <2> QED
    BY <2>1, <2>2, <2>3 DEF Locking
<1>7. Steady'
  <2>1. \A k \in JobIds : jobs'[k].pc = "removed" => Running' = {}
    BY <1>2 DEF Steady, Removing, Starting
  <2> QED
    BY <1>3, <2>1 DEF Steady, Writing, Reading
<1>8. Holding'
  <2>1. SUFFICES ASSUME Aborted PROVE Holding'
    BY DEF Holding, Aborted
  <2>2. CASE jobs[asked].outcome # "ok"
    BY <2>1, <2>2 DEF Holding
  <2>3. CASE jobs[asked].outcome = "ok"
    <3>1. /\ \A e \in Running : \E j \in JobIds : jobs[j].pc = "failing" /\ jobs[j].target = e
          /\ \/ store.unloaded
             \/ \E j \in JobIds : /\ jobs[j].pc \in {"selected", "replaced", "failing"}
                                  /\ jobs[j].target = store.engine
      BY <2>1, <2>3 DEF Holding
    <3>2. \A e \in Running' : \E j \in JobIds : jobs[j].pc = "failing" /\ jobs[j].target = e
      <4>1. CASE Removing
        BY <3>1, <4>1 DEF Removing
      <4>2. CASE Starting
        <5>1. PICK j \in JobIds : /\ jobs[j].pc \in {"selected", "replaced", "failing"}
                                  /\ jobs[j].target = store.engine
          BY <3>1, <4>2 DEF Starting
        <5>2. jobs[j].pc = "failing" /\ jobs[j].target \in Engines
          BY <1>2, <4>2, <5>1 DEF Starting, Placed, LaunchPlaces
        <5>3. Selected(store) = jobs[j].target
          BY <5>1, <5>2, EngineAssumption DEF Selected
        <5> QED
          BY <4>2, <5>2, <5>3 DEF Starting
      <4> QED
        BY <4>1, <4>2
    <3> QED
      BY <2>1, <2>3, <3>1, <3>2 DEF Holding, Writing
  <2> QED
    BY <2>2, <2>3
<1>9. \A k \in JobIds : (IsLaunch(k)' <=> IsLaunch(k)) /\ jobs'[k] = jobs[k]
  BY DEF IsLaunch
<1>10. Single'
  <2>1. mixed = {} => \A k \in JobIds : IsLaunch(k) => jobs[k].kind # "model"
    BY DEF Single, Reading
  <2>2. mixed = {} => \A k \in JobIds : IsLaunch(k) => boot'.pc \notin {"pulling", "stopped"}
    BY DEF Single, BootPlaces, Reading
  <2> QED
    BY <1>9, <2>1, <2>2 DEF Single
<1>11. Current'
  <2>1. SUFFICES ASSUME mixed = {} PROVE Current'
    BY DEF Current
  <2>2. \A k \in JobIds : IsLaunch(k) =>
            /\ jobs[k].pc \in {"selected", "replaced", "loading", "failing"} =>
                    store'.engine = jobs[k].target
            /\ jobs[k].pc \in {"selected", "replaced"} => ~store'.unloaded
            /\ jobs[k].pc \in {"queued", "selected", "replaced"} =>
                    Resolve(jobs[k].model) = Resolve(store'.model)
    BY <2>1 DEF Current, Writing
  <2> QED
    BY <1>9, <2>1, <2>2 DEF Current, Reading
<1>12. Selecting'
  <2> SUFFICES ASSUME mixed' = {}, ~Clearing'
               PROVE  (Booted /\ Promoted /\ Rested /\ \A k \in JobIds : IsLaunch(k) => Launching(k))'
    BY DEF Selecting
  <2>1. mixed = {} /\ ~Clearing
    BY DEF Clearing
  <2>5. Booted' /\ Promoted' /\ Rested'
    BY <2>1 DEF Booted, BootPlaces, Reading
  <2> SUFFICES ASSUME NEW k \in JobIds, IsLaunch(k)
               PROVE  Launching(k)'
    BY <1>9, <2>5
  <2>2. Launching(k)
    BY <2>1 DEF Selecting
  <2>3. CASE Removing
    <3>1. Running' \subseteq Running /\ (Right => Right')
      BY <2>1, <2>3 DEF Removing
    <3> QED
      BY <1>9, <2>2, <3>1 DEF Launching, Writing
  <2>4. CASE Starting
    <3>1. Right' /\ ~store.unloaded /\ Running' \subseteq {Selected(store)}
      BY <2>1, <2>4 DEF Starting
    <3>2. \A u \in JobIds :
              jobs[u].pc \notin {"selected", "replaced", "rolling-back", "restoring", "removed"}
      BY <1>2, <2>4 DEF Starting
    <3>3. ~(jobs[k].pc = "queued" /\ jobs[k].cancelled)
      BY <2>2, <3>1, <3>2 DEF Launching
    <3>4. jobs[k].pc = "failing" => Selected(store) = jobs[k].target
      BY <2>1, EngineAssumption DEF Current, Selected, Placed, LaunchPlaces
    <3> QED
      BY <1>9, <3>1, <3>2, <3>3, <3>4, <2>2 DEF Launching
  <2> QED
    BY <2>3, <2>4
<1> QED
  BY <1>4, <1>5, <1>6, <1>7, <1>8, <1>10, <1>11, <1>12

\* Nothing but the selected engine runs when no other holder of the lock is at work.
LEMMA OnlyTheSelectedRuns ==
    ASSUME IInv, mixed = {}, ~Clearing, mutex \in {Free, Booting},
           boot.pc \notin {"pulling", "done"}
    PROVE  Running \subseteq {Selected(store)}
<1> USE IInv DEF IInv, Base
<1>1. CASE \A k \in JobIds : ~IsLaunch(k)
  BY <1>1 DEF Selecting, Rested, Right
<1>2. CASE \E k \in JobIds : IsLaunch(k)
  <2>1. PICK k \in JobIds : IsLaunch(k)
    BY <1>2
  <2>2. Launching(k) /\ jobs[k].kind # "model"
    BY <2>1 DEF Selecting, Single
  <2>3. jobs[k].pc \notin {"selected", "replaced", "rolling-back", "restoring"}
    BY EngineAssumption DEF Locked, JobIds, Free, Booting
  <2>4. jobs[k].pc \in {"begun", "queued", "loading", "failing"}
    <3>1. jobs[k] \in Jobs
      BY DEF Typed
    <3>2. jobs[k].pc \in {"none", "begun", "queued", "selected", "replaced", "loading", "failing",
                         "rolling-back", "restoring", "removed", "ended"}
      BY <3>1 DEF Jobs
    <3>3. jobs[k].pc # "removed"
      BY <2>1 DEF Placed, IsLaunch, Unloads, Launches
    <3> QED
      BY <2>1, <2>3, <3>2, <3>3 DEF IsLaunch
  <2>5. jobs[k].pc = "failing" => Selected(store) = jobs[k].target
    BY <2>1, EngineAssumption DEF Current, Selected, Placed, LaunchPlaces
  <2>6. CASE jobs[k].pc = "failing"
    BY <2>2, <2>5, <2>6 DEF Launching
  <2>7. CASE jobs[k].pc \in {"begun", "queued", "loading"}
    <3>1. ~jobs[k].cancelled => Right
      BY <2>2, <2>7 DEF Launching
    <3>2. jobs[k].cancelled => Running = {} \/ Right
      BY <2>2, <2>7 DEF Launching, Placed
    <3> QED
      BY <3>1, <3>2 DEF Right
  <2> QED
    BY <2>4, <2>6, <2>7
<1> QED
  BY <1>1, <1>2

\* The provisioner stops what is not selected.
LEMMA BootStopsKeeps ==
    ASSUME IInv, BootStops
    PROVE  IInv'
<1> USE IInv DEF IInv, Base
<1> DEFINE gone == IF store.unloaded THEN Engines ELSE Engines \ {Selected(store)}
           read == [store EXCEPT !.op = NoOp,
                                 !.promo = IF ShouldBootstrap(store) THEN @ ELSE NoPromotion]
<1>1. /\ boot.pc = "pulling" /\ mutex = Free /\ mutex' = Booting
      /\ boot' = [pc |-> "stopped", read |-> read] /\ Remove(gone)
      /\ store' = IF ShouldBootstrap(store) THEN Promote(store, "bootstrap", "bootstrap") ELSE store
      /\ UNCHANGED <<jobs, asked, restarts, mixed>>
  BY DEF BootStops
<1>2. /\ cont' \in [Engines -> Models \cup {None}] /\ Running' = Running \ gone
      /\ \A e \in Running' : cont'[e] = cont[e]
  BY <1>1, RemoveKeeps
<1>3. store \in Stores /\ NoRuntime \in Runtimes /\ 0 \in 0..MaxJobs
  BY EngineAssumption DEF Typed, NoRuntime, Runtimes
<1>4. /\ read \in Stores /\ read.engine = store.engine /\ read.unloaded = store.unloaded
      /\ read.model = store.model
      /\ ~ShouldBootstrap(store) => read.promo.phase = "none"
  BY <1>3 DEF Stores, NoOp, NoPromotion
<1>5. /\ store' \in Stores /\ store'.engine = store.engine /\ store'.unloaded = store.unloaded
      /\ store'.model = store.model /\ store'.op = store.op
      /\ ShouldBootstrap(store) => store'.promo.phase = "bootstrap"
      /\ ~ShouldBootstrap(store) => store' = store
  BY <1>1, <1>3 DEF Stores, Promote
<1>6. boot'.pc = "stopped" /\ boot'.read = read
  BY <1>1
<1> HIDE DEF read
<1>7. ShouldBootstrap(read) => store'.promo.phase = "bootstrap"
  BY <1>4, <1>5 DEF ShouldBootstrap
<1>8. store.promo.phase # "none" => store'.promo.phase # "none"
  BY <1>5
<1>9. Selected(store') = Selected(store)
  BY <1>5 DEF Selected
<1>10. /\ Running' \subseteq Running /\ (store.unloaded => Running' = {})
       /\ ~store.unloaded => Running' \subseteq {Selected(store)}
  BY <1>2 DEF Running
<1> HIDE DEF gone
<1>11. \A e \in Running' : Fits(e) => Fits(e)'
  BY <1>2, <1>5, <1>8 DEF Fits
<1>12. Right => Right'
  BY <1>5, <1>9, <1>10, <1>11 DEF Right
<1>13. mixed = {} /\ ~Clearing => Promoted' /\ Rested'
  <2>1. SUFFICES ASSUME mixed = {}, ~Clearing PROVE Right'
    BY <1>6 DEF Promoted, Rested
  <2>2. \A e \in Running : e = Selected(store) => Fits(e)
    BY <1>1, <2>1 DEF Selecting, Booted
  <2> QED
    BY <1>5, <1>9, <1>10, <1>11, <2>2 DEF Right
<1>14. Reporting'
  <2>1. SUFFICES ASSUME Alone
                 PROVE  /\ Running' = {}
                        /\ store'.promo.phase \in {"none", "downloading", "bootstrap"}
    BY <1>1, <1>6 DEF Reporting, Alone
  <2> QED
    BY <1>1, <1>5, <1>10, <2>1 DEF Reporting
<1>15. Locking /\ Removing
  BY <1>1, <1>10, <1>12 DEF Locking, Removing
<1>16. Writing
  BY <1>2, <1>5, <1>3 DEF Writing, Stores
<1>17. Reading
  BY <1>1, <1>4, <1>5, <1>6, <1>7 DEF Reading, BootPlaces, Cutting
<1> QED
  BY <1>1, <1>13, <1>14, <1>15, <1>16, <1>17, BootMoves

\* The provisioner starts what is selected, unless that runs or is unloaded.
LEMMA BootStartsKeeps ==
    ASSUME IInv, BootStarts
    PROVE  IInv'
<1> USE IInv DEF IInv, Base
<1> DEFINE read == boot.read
           engine == Selected(read)
           bootstrap == ShouldBootstrap(read)
           model == IF bootstrap THEN "bootstrap" ELSE Resolve(read.model)
           ran == ~read.unloaded /\ Run(engine, model)
<1>1. /\ boot.pc = "stopped" /\ mutex' = Free
      /\ boot' = [pc |-> IF bootstrap THEN "downloading" ELSE "done",
                  read |-> IF bootstrap THEN engine ELSE None]
      /\ UNCHANGED <<jobs, asked, restarts, mixed>>
  BY DEF BootStarts
<1>2. \/ ran /\ store' = Reconciled(store, TRUE)
      \/ UNCHANGED <<cont, answering>> /\ store' = Reconciled(store, cont[engine] # None)
  BY DEF BootStarts
<1>3. /\ mutex = Booting /\ read \in Stores /\ store \in Stores
      /\ read.engine = store.engine /\ read.unloaded = store.unloaded
      /\ bootstrap => store.promo.phase = "bootstrap"
  BY <1>1 DEF Locked, Steady, Typed
<1>4. engine = Selected(store) /\ engine \in Engines /\ model \in Models
  <2>1. Resolve(read.model) \in Models /\ Selected(read) \in Engines
    BY <1>3, SelectedIsAnEngine DEF Stores
  <2> QED
    BY <1>3, <2>1 DEF Selected, Models
<1>5. SameSelection(store, store')
  BY <1>2, <1>3, ReconciledKeeps
<1>6. /\ store' \in Stores /\ store'.engine = store.engine /\ store'.unloaded = store.unloaded
      /\ store'.model = store.model /\ store'.promo = store.promo
      /\ store'.op.id \in {0, store.op.id}
  BY <1>5 DEF SameSelection
<1>7. Selected(store') = Selected(store)
  BY <1>6 DEF Selected
<1>8. boot'.pc = IF bootstrap THEN "downloading" ELSE "done"
  BY <1>1
<1>9. \E started \in BOOLEAN :
          /\ cont' \in [Engines -> Models \cup {None}]
          /\ started => /\ ~store.unloaded /\ Running = {} /\ Running' \subseteq {Selected(store)}
                        /\ \A e \in Running' : cont'[e] = model
          /\ ~started => Running' = Running /\ cont' = cont
  <2>1. ASSUME ~read.unloaded, Run(engine, model)
        PROVE  /\ ~store.unloaded /\ Running = {} /\ Running' \subseteq {Selected(store)}
               /\ \A e \in Running' : cont'[e] = model
               /\ cont' \in [Engines -> Models \cup {None}]
    <3> HIDE DEF engine, model
    <3> QED
      BY <1>3, <1>4, <2>1, RunStarts
  <2>2. ASSUME UNCHANGED cont
        PROVE  cont' \in [Engines -> Models \cup {None}] /\ Running' = Running /\ cont' = cont
    BY <2>2 DEF Typed, Running
  <2> HIDE DEF engine, model, read
  <2> QED
    BY <1>2, <2>1, <2>2
<1>10. mixed = {} => read.model = store.model
  BY <1>1 DEF Current
<1>11. bootstrap => read.model = "" /\ store.promo.phase # "none"
  BY <1>3 DEF ShouldBootstrap
<1>12. mixed = {} => \/ model = Resolve(store.model)
                     \/ model = "bootstrap" /\ store.model = "" /\ store.promo.phase # "none"
  BY <1>10, <1>11
<1>13. bootstrap => model = "bootstrap"
  OBVIOUS
<1> HIDE DEF model, engine, read, bootstrap, ran
<1>14. PICK started \in BOOLEAN :
          /\ cont' \in [Engines -> Models \cup {None}]
          /\ started => /\ ~store.unloaded /\ Running = {} /\ Running' \subseteq {Selected(store)}
                        /\ \A e \in Running' : cont'[e] = model
          /\ ~started => Running' = Running /\ cont' = cont
  BY <1>9
<1>18. /\ mixed = {} /\ started => Right'
       /\ ~started /\ Right => Right'
  <2>1. ASSUME mixed = {}, started PROVE Right'
    BY <1>6, <1>7, <1>12, <1>14, <2>1 DEF Right, Fits
  <2>2. ASSUME ~started, Right PROVE Right'
    BY <1>6, <1>7, <1>14, <2>2 DEF Right, Fits
  <2> QED
    BY <2>1, <2>2
<1>15. mixed = {} /\ ~Clearing => Promoted' /\ Rested'
  <2>1. SUFFICES ASSUME mixed = {}, ~Clearing PROVE Rested'
    BY <1>8 DEF Promoted
  <2>2. \A k \in JobIds : ~IsLaunch(k)
    BY <1>1, <2>1 DEF Single
  <2>3. Right
    BY <1>1, <2>1, <2>2 DEF Selecting, Rested
  <2> QED
    BY <1>18, <2>1, <2>3 DEF Rested
<1>16. Reporting'
  <2>1. SUFFICES ASSUME Alone PROVE Reporting'
    BY <1>1 DEF Reporting, Alone
  <2>2. Running = {} /\ store.promo.phase \in {"none", "downloading", "bootstrap"}
    BY <1>1, <2>1 DEF Reporting
  <2>3. Running' \subseteq {Selected(store')} /\ (bootstrap => Serves("bootstrap")')
    BY <1>7, <1>13, <1>14, <2>2 DEF Serves
  <2> QED
    BY <1>3, <1>6, <1>8, <2>2, <2>3 DEF Reporting
<1>17. Locking
  BY <1>1, <1>3, <1>8 DEF Locking, Cutting
<1>19. Removing \/ Starting
  BY <1>3, <1>14, <1>18 DEF Removing, Starting
<1>20. Writing
  BY <1>6, <1>14 DEF Writing
<1>21. Reading
  BY <1>1, <1>8 DEF Reading, BootPlaces, Cutting
<1> QED
  BY <1>1, <1>15, <1>16, <1>17, <1>19, <1>20, <1>21, BootMoves

\* A store that differs from another in what it says of the promotion.
Names(s, t, phase, active) ==
    /\ t \in Stores /\ t.engine = s.engine /\ t.unloaded = s.unloaded
    /\ t.model = s.model /\ t.op = s.op
    /\ t.promo.phase = phase /\ t.promo.active = active

\* What is on record of the promotion says nothing of the selection.
LEMMA PromoteKeeps ==
    ASSUME NEW s \in Stores, NEW active \in {"", "bootstrap", "target"},
           NEW phase \in {"bootstrap", "downloading", "switching", "verifying", "rollback", "ready",
                         "error", "canceled"}
    PROVE  Names(s, Promote(s, phase, active), phase, active)
BY DEF Stores, Promote, Names

\* The download of the default model, and its end.
LEMMA PromotionDownloadsKeeps ==
    ASSUME IInv, PromotionDownloads
    PROVE  IInv'
<1> USE IInv DEF IInv, Base
<1>1. boot.pc = "downloading" /\ UNCHANGED <<cont, answering, jobs, asked, mutex, restarts, mixed>>
  BY DEF PromotionDownloads
<1>2. \/ boot'.pc = "done" /\ store' = store /\ ~ShouldBootstrap(store)
      \/ boot'.pc = "downloaded" /\ store' = Promote(store, "downloading", "bootstrap")
      \/ boot'.pc = "done" /\ store' = Promote(store, "error", "bootstrap")
  BY DEF PromotionDownloads, PromotionEnds
<1>3. /\ store \in Stores /\ store.op.id \in 0..MaxJobs
      /\ Names(store, Promote(store, "downloading", "bootstrap"), "downloading", "bootstrap")
      /\ Names(store, Promote(store, "error", "bootstrap"), "error", "bootstrap")
      /\ boot' = [pc |-> boot'.pc, read |-> boot'.read]
  <2>1. store \in Stores
    BY DEF Typed
  <2>2. boot' = [pc |-> boot'.pc, read |-> boot'.read]
    BY DEF PromotionDownloads, PromotionEnds
  <2> QED
    BY <2>1, <2>2, PromoteKeeps DEF Stores
<1>4. /\ store' \in Stores /\ store'.engine = store.engine /\ store'.unloaded = store.unloaded
      /\ store'.model = store.model /\ store'.op = store.op
      /\ store'.promo = store.promo \/ store'.promo.phase # "none"
  <2>1. CASE store' = store
    BY <1>3, <2>1
  <2>2. CASE \E phase \in {"downloading", "error"} : Names(store, store', phase, "bootstrap")
    BY <2>2 DEF Names
  <2> QED
    BY <1>2, <1>3, <2>1, <2>2
<1>5. store'.promo = store.promo \/ store'.promo.phase # "none"
  BY <1>4
<1>6. Selected(store') = Selected(store) /\ Running' = Running
  BY <1>1, <1>4 DEF Selected, Running
<1>7. Right => Right'
  BY <1>1, <1>4, <1>5, <1>6 DEF Right, Fits
<1>8. mixed = {} /\ ~Clearing => Promoted' /\ Rested'
  <2>1. SUFFICES ASSUME mixed = {}, ~Clearing PROVE Rested'
    BY <1>2 DEF Promoted
  <2>2. Rested' <=> ((\A k \in JobIds : ~IsLaunch(k)) => Right')
    BY <1>1, <1>2 DEF Rested, IsLaunch
  <2> QED
    BY <1>1, <1>7, <2>1, <2>2 DEF Selecting, Rested
<1>9. Reporting'
  <2>1. SUFFICES ASSUME Alone PROVE Reporting'
    BY <1>1 DEF Reporting, Alone
  <2>2. Running \subseteq {Selected(store)} /\ Serves("bootstrap") /\ store.promo.phase = "bootstrap"
    BY <1>1, <2>1 DEF Reporting
  <2>3. Running' \subseteq {Selected(store')} /\ Serves("bootstrap")'
    BY <1>1, <1>6, <2>2 DEF Serves
  <2>4. boot'.pc = "done" => store'.promo.phase = "bootstrap" \/ store'.promo.active = "bootstrap"
    BY <1>2, <1>3, <2>2 DEF Names
  <2> QED
    BY <1>2, <2>3, <2>4 DEF Reporting
<1>10. Writing /\ Reading
  <2>1. Writing
    BY <1>1, <1>3, <1>4 DEF Writing, Typed
  <2> QED
    BY <1>1, <1>2, <1>3, <2>1 DEF Reading, BootPlaces, Cutting
<1>11. Locking /\ Removing
  BY <1>1, <1>2, <1>6, <1>7 DEF Locking, Removing, Cutting
<1> QED
  BY <1>1, <1>8, <1>9, <1>10, <1>11, BootMoves

\* The promotion that takes the bootstrap model away, or finds it is not wanted.
LEMMA PromotionSwitchesKeeps ==
    ASSUME IInv, PromotionSwitches
    PROVE  IInv'
<1> USE IInv DEF IInv, Base
<1>1. boot.pc = "downloaded" /\ mutex = Free /\ UNCHANGED <<jobs, asked, restarts, mixed>>
  BY DEF PromotionSwitches
<1>2. \/ /\ boot'.pc = "done" /\ store' = Promote(store, "canceled", "bootstrap")
         /\ cont' = cont /\ mutex' = mutex
      \/ /\ store.model = "" /\ ~store.unloaded /\ Selected(store) = boot.read
         /\ boot'.pc = "switching" /\ boot'.read = boot.read /\ mutex' = Booting
         /\ store' = Promote(store, "switching", "bootstrap") /\ Remove({boot.read})
  <2>1. CASE store.model # "" \/ store.unloaded \/ Selected(store) # boot.read
    <3>1. /\ boot' = [pc |-> "done", read |-> None] /\ UNCHANGED <<cont, answering, mutex>>
          /\ store' = Promote(store, "canceled", "bootstrap")
      BY <2>1 DEF PromotionSwitches, PromotionEnds
    <3> QED
      BY <3>1
  <2>2. CASE ~(store.model # "" \/ store.unloaded \/ Selected(store) # boot.read)
    <3>1. /\ boot' = [boot EXCEPT !.pc = "switching"] /\ mutex' = Booting
          /\ store' = Promote(store, "switching", "bootstrap") /\ Remove({boot.read})
      BY <2>2 DEF PromotionSwitches, PromotionAt
    <3>2. boot' = [pc |-> "switching", read |-> boot.read]
      <4>1. boot = [pc |-> boot.pc, read |-> boot.read]
        BY DEF Typed
      <4> QED
        BY <3>1, <4>1
    <3>3. boot'.pc = "switching" /\ boot'.read = boot.read
      BY <3>2
    <3> QED
      BY <2>2, <3>1, <3>3
  <2> QED
    BY <2>1, <2>2
<1>3. /\ store \in Stores /\ store.op.id \in 0..MaxJobs
      /\ boot' = [pc |-> boot'.pc, read |-> boot'.read]
  <2>1. boot' = [pc |-> "done", read |-> None] \/ boot' = [boot EXCEPT !.pc = "switching"]
    BY DEF PromotionSwitches, PromotionAt, PromotionEnds
  <2>2. boot = [pc |-> boot.pc, read |-> boot.read] /\ store \in Stores
    BY DEF Typed
  <2>3. CASE boot' = [pc |-> "done", read |-> None]
    BY <2>2, <2>3 DEF Stores
  <2>4. CASE boot' = [boot EXCEPT !.pc = "switching"]
    <3>1. boot' = [pc |-> "switching", read |-> boot.read]
      BY <2>2, <2>4
    <3> QED
      BY <2>2, <3>1 DEF Stores
  <2> QED
    BY <2>1, <2>3, <2>4
<1>4. /\ store' \in Stores /\ store'.engine = store.engine /\ store'.unloaded = store.unloaded
      /\ store'.model = store.model /\ store'.op = store.op
      /\ store'.promo.phase = IF boot'.pc = "done" THEN "canceled" ELSE "switching"
  <2>1. Names(store, store', IF boot'.pc = "done" THEN "canceled" ELSE "switching", "bootstrap")
    BY <1>2, <1>3, PromoteKeeps
  <2> QED
    BY <2>1 DEF Names
<1>5. Selected(store') = Selected(store)
  BY <1>4 DEF Selected
<1>6. /\ cont' \in [Engines -> Models \cup {None}] /\ Running' \subseteq Running
      /\ \A e \in Running' : cont'[e] = cont[e]
      /\ boot'.pc = "switching" => Running' = Running \ {Selected(store)}
  BY <1>2, RemoveKeeps DEF Typed, Running
<1>7. Right => Right'
  BY <1>4, <1>5, <1>6 DEF Right, Fits
<1>8. mixed = {} /\ ~Clearing => Promoted' /\ Rested'
  <2>1. SUFFICES ASSUME mixed = {}, ~Clearing PROVE Promoted' /\ Rested'
    OBVIOUS
  <2>2. Rested' <=> ((\A k \in JobIds : ~IsLaunch(k)) => Right')
    BY <1>1, <1>2 DEF Rested, IsLaunch
  <2>3. Running \subseteq {Selected(store)}
    BY <1>1, <2>1, OnlyTheSelectedRuns
  <2> QED
    BY <1>1, <1>2, <1>6, <1>7, <2>1, <2>2, <2>3 DEF Selecting, Rested, Promoted
<1>9. Reporting'
  <2>1. SUFFICES ASSUME Alone PROVE Reporting'
    BY <1>1 DEF Reporting, Alone
  <2>2. Running \subseteq {Selected(store)} /\ Serves("bootstrap")
    BY <1>1, <2>1 DEF Reporting
  <2> QED
    BY <1>2, <1>4, <1>5, <1>6, <2>2 DEF Reporting, Serves
<1>10. Writing /\ Reading
  <2>1. Writing
    BY <1>3, <1>4, <1>6 DEF Writing
  <2> QED
    BY <1>1, <1>2, <1>3, <1>4, <2>1 DEF Reading, BootPlaces, Cutting
<1>11. Locking /\ Removing
  BY <1>1, <1>2, <1>6, <1>7 DEF Locking, Removing, Cutting
<1> QED
  BY <1>1, <1>8, <1>9, <1>10, <1>11, BootMoves

\* The promotion that runs the default model, or cannot.
LEMMA PromotionRunsKeeps ==
    ASSUME IInv, PromotionRuns
    PROVE  IInv'
<1> USE IInv DEF IInv, Base
<1>1. boot.pc = "switching" /\ UNCHANGED <<jobs, asked, mutex, restarts, mixed>>
  BY DEF PromotionRuns
<1>2. /\ mutex = Booting /\ boot.read = Selected(store) /\ ~store.unloaded
      /\ store \in Stores /\ store.op.id \in 0..MaxJobs /\ store.promo.phase # "none"
  BY <1>1 DEF Locked, Steady, Typed, Stores, Cutting
<1>3. boot.read \in Engines /\ "target" \in Models
  BY <1>2, SelectedIsAnEngine DEF Models
<1>4. \/ /\ Run(boot.read, "target") /\ boot' = [boot EXCEPT !.pc = "verifying"]
         /\ store' = Promote(store, "verifying", "target")
      \/ /\ boot' = [boot EXCEPT !.pc = "restoring"] /\ cont' = cont
         /\ store' = Promote(store, "rollback", "bootstrap")
  BY DEF PromotionRuns, PromotionAt
<1>5. \E started \in BOOLEAN :
          /\ cont' \in [Engines -> Models \cup {None}]
          /\ boot'.pc = (IF started THEN "verifying" ELSE "restoring") /\ boot'.read = boot.read
          /\ store' = (IF started THEN Promote(store, "verifying", "target")
                                  ELSE Promote(store, "rollback", "bootstrap"))
          /\ started => /\ Running = {} /\ Running' \subseteq {Selected(store)}
                        /\ \A e \in Running' : cont'[e] = "target"
          /\ ~started => Running' = Running /\ cont' = cont
  <2>1. CASE /\ Run(boot.read, "target") /\ boot' = [boot EXCEPT !.pc = "verifying"]
             /\ store' = Promote(store, "verifying", "target")
    <3>1. /\ cont' \in [Engines -> Models \cup {None}] /\ Running = {}
          /\ Running' \subseteq {boot.read} /\ \A e \in Running' : cont'[e] = "target"
      BY <1>3, <2>1, RunStarts
    <3>2. boot'.pc = "verifying" /\ boot'.read = boot.read
      BY <1>1, <2>1
    <3> QED
      BY <1>2, <2>1, <3>1, <3>2
  <2>2. CASE /\ boot' = [boot EXCEPT !.pc = "restoring"] /\ cont' = cont
             /\ store' = Promote(store, "rollback", "bootstrap")
    <3>1. Running' = Running /\ cont' \in [Engines -> Models \cup {None}]
      BY <2>2 DEF Running, Typed
    <3>2. boot'.pc = "restoring" /\ boot'.read = boot.read
      BY <1>1, <2>2
    <3> QED
      BY <2>2, <3>1, <3>2
  <2> QED
    BY <1>4, <2>1, <2>2
<1>6. PICK started \in BOOLEAN :
          /\ cont' \in [Engines -> Models \cup {None}]
          /\ boot'.pc = (IF started THEN "verifying" ELSE "restoring") /\ boot'.read = boot.read
          /\ store' = (IF started THEN Promote(store, "verifying", "target")
                                  ELSE Promote(store, "rollback", "bootstrap"))
          /\ started => /\ Running = {} /\ Running' \subseteq {Selected(store)}
                        /\ \A e \in Running' : cont'[e] = "target"
          /\ ~started => Running' = Running /\ cont' = cont
  BY <1>5
<1>7. /\ store' \in Stores /\ store'.engine = store.engine /\ store'.unloaded = store.unloaded
      /\ store'.model = store.model /\ store'.op = store.op /\ store'.promo.phase # "none"
  BY <1>2, <1>6 DEF Stores, Promote
<1>8. Selected(store') = Selected(store)
  BY <1>7 DEF Selected
<1>9. /\ mixed = {} /\ started => Right'
      /\ ~started /\ Right => Right'
  <2>1. ASSUME mixed = {}, started PROVE Right'
    <3>1. store.model = ""
      BY <1>1, <2>1 DEF Current, Cutting
    <3>2. Resolve(store'.model) = "target"
      BY <1>7, <3>1 DEF Resolve
    <3> QED
      BY <1>2, <1>6, <1>7, <1>8, <2>1, <3>2 DEF Right, Fits
  <2>2. ASSUME ~started, Right PROVE Right'
    BY <1>6, <1>7, <1>8, <2>2 DEF Right, Fits
  <2> QED
    BY <2>1, <2>2
<1>10. mixed = {} /\ ~Clearing => Promoted' /\ Rested'
  <2>1. SUFFICES ASSUME mixed = {}, ~Clearing PROVE Promoted' /\ Rested'
    OBVIOUS
  <2>2. Running = {}
    BY <1>1, <2>1 DEF Selecting, Promoted
  <2>3. Promoted'
    BY <1>6, <2>2 DEF Promoted, Serves
  <2>4. Right'
    BY <1>6, <1>9, <2>1, <2>2 DEF Right
  <2> QED
    BY <2>3, <2>4 DEF Rested
<1>11. Reporting'
  <2>1. SUFFICES ASSUME Alone PROVE Reporting'
    BY <1>1 DEF Reporting, Alone
  <2>2. Running = {}
    BY <1>1, <2>1 DEF Reporting
  <2> QED
    BY <1>6, <1>8, <2>2 DEF Reporting, Serves
<1>12. Writing /\ Reading
  <2>1. Writing
    BY <1>2, <1>6, <1>7 DEF Writing
  <2>2. mixed = {} => store.model = ""
    BY <1>1 DEF Current, Cutting
  <2>3. boot' = [pc |-> boot'.pc, read |-> boot'.read]
    BY DEF Typed, PromotionRuns, PromotionAt
  <2> QED
    BY <1>1, <1>2, <1>6, <1>7, <2>1, <2>2, <2>3 DEF Reading, BootPlaces, Cutting
<1>13. Locking
  BY <1>1, <1>2, <1>6 DEF Locking, Cutting
<1>14. Removing \/ Starting
  BY <1>2, <1>6, <1>9 DEF Removing, Starting
<1> QED
  BY <1>1, <1>10, <1>11, <1>12, <1>13, <1>14, BootMoves

\* The promotion that is verified, or taken away.
LEMMA PromotionVerifiesKeeps ==
    ASSUME IInv, PromotionVerifies
    PROVE  IInv'
<1> USE IInv DEF IInv, Base
<1>1. boot.pc = "verifying" /\ UNCHANGED <<jobs, asked, mutex, restarts, mixed>>
  BY DEF PromotionVerifies
<1>2. /\ mutex = Booting /\ boot.read = Selected(store) /\ ~store.unloaded
      /\ store \in Stores /\ store.op.id \in 0..MaxJobs /\ store.promo.phase # "none"
      /\ boot = [pc |-> boot.pc, read |-> boot.read]
  BY <1>1 DEF Locked, Steady, Typed, Stores, Cutting
<1>3. CASE /\ boot' = [boot EXCEPT !.pc = "committed"] /\ cont' = cont
           /\ store' = [store EXCEPT !.model = "target"]
  <2>1. boot' = [pc |-> "committed", read |-> boot.read]
    BY <1>2, <1>3
  <2>2. /\ store' \in Stores /\ store'.engine = store.engine /\ store'.unloaded = store.unloaded
        /\ store'.model = "target" /\ store'.op = store.op /\ store'.promo = store.promo
    BY <1>2, <1>3 DEF Stores
  <2>3. Selected(store') = Selected(store) /\ Running' = Running
    BY <1>3, <2>2 DEF Selected, Running
  <2>4. mixed = {} => store.model = "" /\ Resolve(store'.model) = Resolve(store.model)
    BY <1>1, <2>2 DEF Current, Cutting, Resolve
  <2>5. mixed = {} /\ ~Clearing => (Right => Right')
    BY <1>1, <1>3, <2>2, <2>3 DEF Selecting, Promoted, Serves, Right, Fits, Resolve
  <2>6. mixed = {} /\ ~Clearing => Promoted' /\ Rested'
    <3>1. Rested' <=> ((\A k \in JobIds : ~IsLaunch(k)) => Right')
      BY <1>1, <2>1 DEF Rested, IsLaunch
    <3> QED
      BY <1>1, <2>1, <2>5, <3>1 DEF Selecting, Rested, Promoted
  <2>7. Reporting'
    BY <1>1, <1>3, <2>1, <2>3 DEF Reporting, Alone, Serves
  <2>8. Removing /\ Locking
    BY <1>1, <1>2, <2>1, <2>3, <2>5 DEF Removing, Locking
  <2>9. Writing
    BY <1>2, <1>3, <2>2, <2>4 DEF Writing, Typed
  <2>10. Reading
    BY <1>1, <1>2, <2>1, <2>2 DEF Reading, BootPlaces, Cutting
  <2> QED
    BY <1>1, <2>6, <2>7, <2>8, <2>9, <2>10, BootMoves
<1>4. CASE /\ boot' = [boot EXCEPT !.pc = "restoring"] /\ Remove({boot.read})
           /\ store' = Promote(store, "rollback", "bootstrap")
  <2>1. boot' = [pc |-> "restoring", read |-> boot.read]
    BY <1>2, <1>4
  <2>2. /\ store' \in Stores /\ store'.engine = store.engine /\ store'.unloaded = store.unloaded
        /\ store'.model = store.model /\ store'.op = store.op /\ store'.promo.phase = "rollback"
    <3>1. Names(store, store', "rollback", "bootstrap")
      BY <1>2, <1>4, PromoteKeeps
    <3> QED
      BY <3>1 DEF Names
  <2>3. Selected(store') = Selected(store)
    BY <2>2 DEF Selected
  <2>4. /\ cont' \in [Engines -> Models \cup {None}] /\ Running' = Running \ {boot.read}
        /\ \A e \in Running' : cont'[e] = cont[e]
    BY <1>4, RemoveKeeps
  <2>5. Right => Right'
    BY <2>2, <2>3, <2>4 DEF Right, Fits
  <2>6. mixed = {} /\ ~Clearing => Promoted' /\ Rested'
    <3>1. SUFFICES ASSUME mixed = {}, ~Clearing PROVE Promoted' /\ Rested'
      OBVIOUS
    <3>2. Running \subseteq {Selected(store)}
      BY <1>1, <1>2, <3>1, OnlyTheSelectedRuns
    <3>3. Running' = {}
      BY <1>2, <2>4, <3>2
    <3> QED
      BY <2>1, <3>3 DEF Promoted, Rested, Right
  <2>7. Reporting'
    <3>1. SUFFICES ASSUME Alone PROVE Reporting'
      BY <1>1 DEF Reporting, Alone
    <3>2. Running' = {}
      BY <1>1, <1>2, <2>4, <3>1 DEF Reporting
    <3> QED
      BY <2>1, <3>2 DEF Reporting
  <2>8. Removing /\ Locking
    BY <1>1, <1>2, <2>1, <2>4, <2>5 DEF Removing, Locking
  <2>9. Writing
    BY <1>2, <2>2, <2>4 DEF Writing
  <2>10. Reading
    <3>1. mixed = {} => store.model = ""
      BY <1>1 DEF Current, Cutting
    <3> QED
      BY <1>1, <1>2, <2>1, <2>2, <3>1 DEF Reading, BootPlaces, Cutting
  <2> QED
    BY <1>1, <2>6, <2>7, <2>8, <2>9, <2>10, BootMoves
<1> QED
  BY <1>3, <1>4 DEF PromotionVerifies, PromotionAt

\* The promotion that is recorded.
LEMMA PromotionRecordsKeeps ==
    ASSUME IInv, PromotionRecords
    PROVE  IInv'
<1> USE IInv DEF IInv, Base
<1>1. /\ boot.pc = "committed" /\ boot' = [pc |-> "done", read |-> None] /\ mutex' = Free
      /\ store' = Promote(store, "ready", "target")
      /\ UNCHANGED <<cont, answering, jobs, asked, restarts, mixed>>
  BY DEF PromotionRecords, PromotionEnds
<1>2. mutex = Booting /\ store \in Stores /\ store.op.id \in 0..MaxJobs
  BY <1>1 DEF Locked, Typed, Stores, Cutting
<1>3. /\ store' \in Stores /\ store'.engine = store.engine /\ store'.unloaded = store.unloaded
      /\ store'.model = store.model /\ store'.op = store.op
      /\ store'.promo.phase = "ready" /\ store'.promo.active = "target"
  <2>1. Names(store, store', "ready", "target")
    BY <1>1, <1>2, PromoteKeeps
  <2> QED
    BY <2>1 DEF Names
<1>4. Selected(store') = Selected(store) /\ Running' = Running
  BY <1>1, <1>3 DEF Selected, Running
<1>5. Right => Right'
  BY <1>1, <1>3, <1>4 DEF Right, Fits
<1>6. mixed = {} /\ ~Clearing => Promoted' /\ Rested'
  <2>1. Rested' <=> ((\A k \in JobIds : ~IsLaunch(k)) => Right')
    BY <1>1 DEF Rested, IsLaunch
  <2> QED
    BY <1>1, <1>5, <2>1 DEF Selecting, Rested, Promoted
<1>7. Reporting'
  BY <1>1, <1>3, <1>4 DEF Reporting, Alone, Serves
<1>8. Removing /\ Locking
  BY <1>1, <1>2, <1>4, <1>5 DEF Removing, Locking, Cutting
<1>9. Writing
  BY <1>1, <1>2, <1>3 DEF Writing, Typed
<1>10. Reading
  BY <1>1 DEF Reading, BootPlaces, Cutting
<1> QED
  BY <1>1, <1>6, <1>7, <1>8, <1>9, <1>10, BootMoves

\* The promotion that runs the bootstrap model again, or cannot.
LEMMA PromotionRestoresKeeps ==
    ASSUME IInv, PromotionRestores
    PROVE  IInv'
<1> USE IInv DEF IInv, Base
<1>1. /\ boot.pc = "restoring" /\ boot' = [pc |-> "done", read |-> None] /\ mutex' = Free
      /\ UNCHANGED <<jobs, asked, restarts, mixed>>
  BY DEF PromotionRestores, PromotionEnds
<1>2. /\ mutex = Booting /\ boot.read = Selected(store) /\ ~store.unloaded
      /\ store \in Stores /\ store.op.id \in 0..MaxJobs
  BY <1>1 DEF Locked, Steady, Typed, Stores, Cutting
<1>3. boot.read \in Engines /\ "bootstrap" \in Models
  BY <1>2, SelectedIsAnEngine DEF Models
<1>4. \E started \in BOOLEAN :
          /\ cont' \in [Engines -> Models \cup {None}]
          /\ Names(store, store', "error", IF started THEN "bootstrap" ELSE "")
          /\ started => /\ Running = {} /\ Running' \subseteq {Selected(store)}
                        /\ \A e \in Running' : cont'[e] = "bootstrap"
          /\ ~started => Running' = Running /\ cont' = cont
  <2>1. CASE Run(boot.read, "bootstrap") /\ store' = Promote(store, "error", "bootstrap")
    <3>1. /\ cont' \in [Engines -> Models \cup {None}] /\ Running = {}
          /\ Running' \subseteq {boot.read} /\ \A e \in Running' : cont'[e] = "bootstrap"
      BY <1>3, <2>1, RunStarts
    <3>2. Names(store, store', "error", "bootstrap")
      BY <1>2, <2>1, PromoteKeeps
    <3> QED
      BY <1>2, <3>1, <3>2
  <2>2. CASE UNCHANGED <<cont, answering>> /\ store' = Promote(store, "error", "")
    <3>1. Running' = Running /\ cont' \in [Engines -> Models \cup {None}] /\ cont' = cont
      BY <2>2 DEF Running, Typed
    <3>2. Names(store, store', "error", "")
      BY <1>2, <2>2, PromoteKeeps
    <3> QED
      BY <3>1, <3>2
  <2> QED
    BY <2>1, <2>2 DEF PromotionRestores
<1>5. PICK started \in BOOLEAN :
          /\ cont' \in [Engines -> Models \cup {None}]
          /\ Names(store, store', "error", IF started THEN "bootstrap" ELSE "")
          /\ started => /\ Running = {} /\ Running' \subseteq {Selected(store)}
                        /\ \A e \in Running' : cont'[e] = "bootstrap"
          /\ ~started => Running' = Running /\ cont' = cont
  BY <1>4
<1>6. /\ store' \in Stores /\ store'.engine = store.engine /\ store'.unloaded = store.unloaded
      /\ store'.model = store.model /\ store'.op = store.op /\ store'.promo.phase = "error"
      /\ started => store'.promo.active = "bootstrap"
  BY <1>5 DEF Names
<1>7. Selected(store') = Selected(store)
  BY <1>6 DEF Selected
<1>8. /\ mixed = {} /\ started => Right'
      /\ ~started /\ Right => Right'
  <2>1. ASSUME mixed = {}, started PROVE Right'
    <3>1. store.model = ""
      BY <1>1, <2>1 DEF Current, Cutting
    <3> QED
      BY <1>2, <1>5, <1>6, <1>7, <2>1, <3>1 DEF Right, Fits
  <2>2. ASSUME ~started, Right PROVE Right'
    BY <1>5, <1>6, <1>7, <2>2 DEF Right, Fits
  <2> QED
    BY <2>1, <2>2
<1>9. mixed = {} /\ ~Clearing => Promoted' /\ Rested'
  <2>1. SUFFICES ASSUME mixed = {}, ~Clearing PROVE Rested'
    BY <1>1 DEF Promoted
  <2>2. Running = {}
    BY <1>1, <2>1 DEF Selecting, Promoted
  <2>3. Right'
    BY <1>5, <1>8, <2>1, <2>2 DEF Right
  <2> QED
    BY <2>3 DEF Rested
<1>10. Reporting'
  <2>1. SUFFICES ASSUME Alone PROVE Reporting'
    BY <1>1 DEF Reporting, Alone
  <2>2. Running = {}
    BY <1>1, <2>1 DEF Reporting
  <2>3. Running' \subseteq {Selected(store')} /\ Serves(store.promo.active)'
    BY <1>5, <1>6, <1>7, <2>2 DEF Serves
  <2> QED
    BY <1>1, <1>6, <2>3 DEF Reporting
<1>11. Locking
  BY <1>1, <1>2 DEF Locking, Cutting
<1>12. Removing \/ Starting
  BY <1>2, <1>5, <1>8 DEF Removing, Starting
<1>13. Writing
  BY <1>2, <1>5, <1>6 DEF Writing
<1>14. Reading
  BY <1>1 DEF Reading, BootPlaces, Cutting
<1> QED
  BY <1>1, <1>9, <1>10, <1>11, <1>12, <1>13, <1>14, BootMoves

-----------------------------------------------------------------------------
(* The daemon starts, and starts again *)

\* The first start of the daemon.
LEMMA InitInv == Init => IInv
<1> SUFFICES ASSUME Init PROVE IInv
  OBVIOUS
<1>1. PICK auto \in BOOLEAN, engine \in {None} \cup Engines, unloaded \in BOOLEAN,
           phase \in {"none", "downloading"} :
          store = [engine |-> engine, model |-> "", unloaded |-> unloaded, op |-> NoOp,
                   auto |-> auto, promo |-> [phase |-> phase, active |-> ""]]
  BY DEF Init
<1>2. /\ cont = [e \in Engines |-> None] /\ jobs = [j \in JobIds |-> NoJob] /\ asked = 0
      /\ mutex = Free /\ boot = [pc |-> "pulling", read |-> None]
      /\ restarts = 0 /\ mixed = {}
  BY DEF Init
<1>3. NoRuntime \in Runtimes /\ MaxJobs \in Nat
  BY EngineAssumption DEF NoRuntime, Runtimes
<1>4. NoJob \in Jobs /\ NoJob.kind = "none" /\ NoJob.pc = "none" /\ ~NoJob.swept
      /\ NoJob.outcome = "none" /\ ~NoJob.cancelled
  BY <1>3 DEF NoJob, Jobs
<1>5. NoOp.id = 0 /\ store \in Stores /\ store.promo.phase \in {"none", "downloading"}
  <2>1. NoOp \in [id : 0..MaxJobs, action : Launches \cup {"none", "unload", "abort"},
                  phase : {"none", "open", "error", "rollback"}, previous : Runtimes]
        /\ NoOp.id = 0
    BY <1>3 DEF NoOp
  <2> HIDE DEF NoOp
  <2> QED
    BY <1>1, <2>1 DEF Stores
<1>6. Running = {} /\ \A j \in JobIds : jobs[j] = NoJob
  BY <1>2 DEF Running
<1>7. Typed
  BY <1>2, <1>3, <1>4, <1>5 DEF Typed, Free, Booting
<1>8. Placed
  BY <1>2, <1>3, <1>4, <1>6 DEF Placed, LaunchPlaces, JobIds
<1>9. Locked /\ Steady
  BY <1>2, <1>4, <1>6 DEF Locked, Steady, Cutting
<1>10. Holding /\ Reporting
  BY <1>2, <1>5, <1>6 DEF Holding, Aborted, Reporting, Serves
<1>11. Single /\ Current /\ Selecting
  BY <1>2, <1>4, <1>6 DEF Single, Current, IsLaunch, Selecting, Booted, Promoted, Rested, Cutting
<1> QED
  BY <1>7, <1>8, <1>9, <1>10, <1>11 DEF IInv, Base

\* A restart finds what was selected when nothing was under way.
LEMMA RestartKeeps ==
    ASSUME IInv, Restart
    PROVE  IInv'
<1> USE IInv DEF IInv, Base
<1>1. /\ jobs' = [j \in JobIds |-> NoJob] /\ asked' = 0 /\ mutex' = Free
      /\ boot' = [pc |-> "pulling", read |-> None] /\ restarts' = restarts + 1
      /\ cont' = cont \/ Remove(Engines)
      /\ store' = RestartOffer(store, answering' # {})
  BY DEF Restart
<1>2. mixed' = {} => mixed = {} /\ Live = {} /\ ~PromotionLive
  BY DEF Restart
<1>3. NoRuntime \in Runtimes /\ MaxJobs \in Nat /\ restarts \in Nat /\ store \in Stores
  BY EngineAssumption DEF NoRuntime, Runtimes, Typed
<1>4. NoJob \in Jobs /\ NoJob.kind = "none" /\ NoJob.pc = "none" /\ ~NoJob.swept
      /\ NoJob.outcome = "none" /\ ~NoJob.cancelled
  BY <1>3 DEF NoJob, Jobs
<1>5. /\ store' \in Stores /\ store'.engine = store.engine /\ store'.model = store.model
      /\ store'.promo = store.promo
  BY <1>1, <1>3 DEF RestartOffer, Stores
<1>6. /\ cont' \in [Engines -> Models \cup {None}] /\ Running' \subseteq Running
      /\ \A e \in Running' : cont'[e] = cont[e]
  BY <1>1, RemoveKeeps DEF Typed, Running
<1>7. \A j \in JobIds : jobs'[j] = NoJob
  BY <1>1
<1>8. Typed'
  BY <1>1, <1>3, <1>4, <1>5, <1>6, EngineAssumption DEF Typed, Free, Booting
<1>9. Placed'
  BY <1>1, <1>3, <1>4, <1>7 DEF Placed, LaunchPlaces, JobIds
<1>10. Locked' /\ Steady'
  BY <1>1, <1>4, <1>7 DEF Locked, Steady, Cutting
<1>11. Holding' /\ Reporting'
  BY <1>1, <1>3 DEF Holding, Aborted, Reporting, Alone
<1>12. Single' /\ Current'
  BY <1>1, <1>4, <1>7 DEF Single, Current, IsLaunch, Cutting
<1>13. Selecting'
  <2> SUFFICES ASSUME mixed' = {}
               PROVE  (Booted /\ Promoted /\ Rested /\ \A k \in JobIds : IsLaunch(k) => Launching(k))'
    BY DEF Selecting
  <2>1. mixed = {} /\ ~Clearing /\ \A k \in JobIds : ~IsLaunch(k)
    BY <1>2 DEF Clearing, Live, IsLaunch
  <2>2. Booted \/ Right
    BY <2>1 DEF Selecting, Rested
  <2>3. \A e \in Running : e = Selected(store) => Fits(e)
    BY <2>1 DEF Selecting, Booted, Rested, Right
  <2>4. Booted'
    BY <1>5, <1>6, <2>3 DEF Booted, Fits, Selected
  <2> QED
    BY <1>1, <1>4, <1>7, <2>4 DEF Promoted, Rested, IsLaunch
<1> QED
  BY <1>8, <1>9, <1>10, <1>11, <1>12, <1>13

\* A step that changes nothing.
LEMMA StutterKeeps ==
    ASSUME IInv, UNCHANGED vars
    PROVE  IInv'
<1>1. UNCHANGED <<store, cont, jobs, asked, mutex, boot, restarts, mixed>>
  BY DEF vars
<1>2. Typed' /\ Placed' /\ Locked' /\ Steady'
  BY <1>1 DEF IInv, Base, Typed, Placed, Locked, Steady, Running
<1>3. Holding'
  BY <1>1 DEF IInv, Holding, Aborted, Running
<1>4. Reporting'
  BY <1>1 DEF IInv, Reporting, Alone, Serves, Running
<1>5. Single' /\ Current'
  BY <1>1 DEF IInv, Single, Current, IsLaunch
<1>6. Selecting'
  BY <1>1 DEF IInv, Selecting, Clearing, Booted, Promoted, Rested, Launching, Serves, Right, Fits,
              Running, IsLaunch
<1> QED
  BY <1>2, <1>3, <1>4, <1>5, <1>6 DEF IInv, Base

\* Every step keeps the invariant.
LEMMA Inductive == IInv /\ [Next]_vars => IInv'
<1> SUFFICES ASSUME IInv, [Next]_vars PROVE IInv'
  OBVIOUS
<1>1. CASE Request
  BY <1>1, LaunchRequestsKeep, ClearingRequestsKeep DEF Request
<1>2. CASE EngineAnswers
  BY <1>2, EngineAnswersKeeps
<1>3. CASE Restart
  BY <1>3, RestartKeeps
<1>4. CASE \E j \in JobIds : JobStep(j)
  BY <1>4, UnloadRemovesKeeps, UnloadEndsKeeps, SwitchIsNoopKeeps, LaunchPreparesKeeps,
     BuildFailsKeeps, LaunchSelectsKeeps, LaunchReplacesKeeps, LaunchRunsKeeps,
     LaunchSucceedsKeeps, LaunchFailsKeeps, LaunchCleansUpKeeps, RollbackCommitsKeeps,
     RollbackRestoresKeeps
     DEF JobStep
<1>5. CASE BootStep
  BY <1>5, BootStopsKeeps, BootStartsKeeps, PromotionDownloadsKeeps, PromotionSwitchesKeeps,
     PromotionRunsKeeps, PromotionVerifiesKeeps, PromotionRecordsKeeps, PromotionRestoresKeeps
     DEF BootStep
<1>6. CASE UNCHANGED vars
  BY <1>6, StutterKeeps
<1> QED
  BY <1>1, <1>2, <1>3, <1>4, <1>5, <1>6 DEF Next

\* The invariant holds of every state of the machine.
THEOREM Invariance == Spec => []IInv
BY InitInv, Inductive, PTL DEF Spec

-----------------------------------------------------------------------------
(* The properties *)

\* Nothing that quiet leaves can be under way.
LEMMA QuietRests ==
    ASSUME Quiet
    PROVE  /\ boot.pc = "done" /\ \A j \in JobIds : jobs[j].pc \in {"none", "ended"}
           /\ ~Clearing /\ \A j \in JobIds : ~IsLaunch(j)
BY DEF Quiet, Live, Clearing, IsLaunch

\* After an abort that was the last request and found every launch registered,
\* nothing is loaded, however the cancelled launches and their rollbacks end.
THEOREM AnAbortHolds == Spec => []AbortHolds
<1>1. IInv => AbortHolds
  <2> SUFFICES ASSUME IInv, Quiet, asked > 0, jobs[asked].kind = "abort", jobs[asked].swept,
                      jobs[asked].outcome = "ok"
               PROVE  store.unloaded /\ Running = {}
    BY DEF AbortHolds
  <2> QED
    BY QuietRests DEF IInv, Holding, Aborted
<1> QED
  BY <1>1, Invariance, PTL

\* Until a launch is asked for or the daemon restarts, a promotion that has come
\* to its end names the model that runs, if any does.
THEOREM PromotionsReportWhatRuns == Spec => []PromotionReportsWhatRuns
<1>1. IInv => PromotionReportsWhatRuns
  BY QuietRests DEF PromotionReportsWhatRuns, IInv, Reporting, Alone, Serves
<1> QED
  BY <1>1, Invariance, PTL

\* What runs when all is quiet is what is on record, unless two actors were at
\* the selection at once.
THEOREM WhatRunsIsSelected == Spec => []RuntimeIsTheSelection
<1>1. IInv => RuntimeIsTheSelection
  <2> SUFFICES ASSUME IInv, Quiet, mixed = {}
               PROVE  Right
    BY DEF RuntimeIsTheSelection, Right, Fits
  <2> QED
    BY QuietRests DEF IInv, Selecting, Rested
<1> QED
  BY <1>1, Invariance, PTL
=============================================================================
