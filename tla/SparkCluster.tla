--------------------------- MODULE SparkCluster ---------------------------
(***************************************************************************)
(* The DGX Spark cluster of one coordinator: internal/sparkcluster and the *)
(* handlers that drive it.  state.json is the coordinator's only durable   *)
(* record; the truth is what is installed on the peers (their netplan,     *)
(* restricted key and worker helper) and what runs there.  The model keeps *)
(* both, so that the record can be compared with the truth after every     *)
(* failed step, restart and interleaving of the handlers.                  *)
(*                                                                         *)
(* mutationMu admits one mutator; load() is also called without it, and    *)
(* writes the file when it finds an operation of an earlier process.       *)
(***************************************************************************)
EXTENDS Integers, Sequences, FiniteSets

CONSTANTS
    Sparks,      \* the machines that can be enrolled as workers
    Addresses,   \* the management addresses the operator may type
    At,          \* the machine that answers at an address
    MaxNodes,    \* maxNodes: the coordinator plus its workers
    MaxRequests, \* bound: mutations the operator asks for
    MaxLaunches, \* bound: distributed launches
    MaxRestarts, \* bound: restarts of the daemon
    NoOne

ASSUME ClusterAssumption ==
    /\ At \in [Addresses -> Sparks]
    /\ MaxNodes \in Nat \ {0}
    /\ MaxRequests \in Nat /\ MaxLaunches \in Nat /\ MaxRestarts \in Nat
    /\ NoOne \notin Sparks \cup Addresses

VARIABLES
    file,        \* state.json
    stale,       \* the copies an unlocked load has recovered and not yet written
    boot,        \* the running process: OwnerPID and OwnerBootID
    requests,
    task,        \* the holder of mutationMu and its locals
    fabric,      \* the address index in each Spark's Cloudless netplan, 0 for none
    coordinator, \* the coordinator's own netplan is installed
    worker,      \* cloudless-cluster-worker on each Spark
    selecting,   \* a selection that passed the handler's guards
    leaving,     \* runSparkClusterDisconnect before it takes mutationMu
    launch,      \* applyEngineVerified of a distributed model
    loaded,      \* ExecutionMode "cluster" and not EngineUnloaded
    launches,
    accidents,   \* history: "half disconnected", "overwritten", "late pull"
    forgotten    \* history: leftovers whose record another operation replaced

record == <<file, stale, boot>>
truth  == <<fabric, coordinator, worker>>
model  == <<launch, loaded, launches>>
history == <<accidents, forgotten>>
vars   == <<record, requests, task, truth, selecting, leaving, model, history>>

---------------------------------------------------------------------------
(* state.json *)

Active(op) == op.phase \notin {"none", "completed", "error"}

NoOperation ==
    [action |-> "none", phase |-> "none", host |-> NoOne, owner |-> 0,
     rollback |-> FALSE, cleaned |-> {}]

NewOperation(action, host) ==
    [NoOperation EXCEPT !.action = action, !.phase = "starting", !.host = host,
                        !.owner = boot]

NoCluster == [configured |-> FALSE, nodes |-> <<>>, chosen |-> {}, op |-> NoOperation]

FaultyRecovered(f) == [f EXCEPT !.op.phase = "error"]

\* An operation whose owner is another process is reported as interrupted.
Recovered(f) ==
    [f EXCEPT !.op.phase = "error", !.op.rollback = TRUE]

Interrupted(f) == Active(f.op) /\ f.op.owner # boot

Load(f) == IF Interrupted(f) THEN Recovered(f) ELSE f

Enrolled(f) == {f.nodes[i].spark : i \in 1..Len(f.nodes)}

\* Selections are stored as fingerprints; none stands for every worker.
Selected(f) == IF f.chosen = {} THEN Enrolled(f) ELSE Enrolled(f) \cap f.chosen

ComputeNodes(f) == IF f.configured THEN 1 + Cardinality(Selected(f)) ELSE 1

EnrollmentIndex(f) == 2 + Len(f.nodes)

CanEnroll(f, a) ==
    /\ Len(f.nodes) < MaxNodes - 1
    /\ \A i \in 1..Len(f.nodes) : f.nodes[i].host # a

\* Status: a Spark answers over its restricted key and its fabric address only
\* while Cloudless is installed on it with the address the record gives it.
CanBeHealthy(f, s) ==
    \E i \in 1..Len(f.nodes) : f.nodes[i].spark = s /\ f.nodes[i].index = fabric[s]

ComputeCanBeHealthy(f) ==
    /\ f.configured /\ coordinator /\ ComputeNodes(f) >= 2
    /\ \A s \in Selected(f) : CanBeHealthy(f, s)

\* What the record's operation says may be left on a Spark that is not enrolled.
Leftover(f) ==
    {s \in Sparks : /\ f.op.action = "connect" /\ At[f.op.host] = s
                    /\ s \notin Enrolled(f) /\ fabric[s] # 0}

Idle == [kind |-> "none"]
NoLaunch == [pc |-> "none"]

Init ==
    /\ file = NoCluster /\ stale = {} /\ boot = 1
    /\ requests = 0 /\ task = Idle
    /\ fabric = [s \in Sparks |-> 0] /\ coordinator = FALSE
    /\ worker = [s \in Sparks |-> "none"]
    /\ selecting = {} /\ leaving = "no"
    /\ launch = NoLaunch /\ loaded = FALSE /\ launches = 0
    /\ accidents = {} /\ forgotten = {}

---------------------------------------------------------------------------
(* Reads without the lock *)

\* Status, NodeCount, Snapshot and the other readers call load(), which reads
\* the file, and writes it back recovered; a mutation may come in between.
ReadState ==
    /\ Interrupted(file)
    /\ stale' = stale \cup {Recovered(file)}
    /\ UNCHANGED <<file, boot, requests, task, truth, selecting, leaving, model, history>>

WriteRecovered ==
    /\ \E f \in stale :
          /\ file' = f /\ stale' = stale \ {f}
          /\ accidents' = IF Recovered(file) = f THEN accidents ELSE accidents \cup {"overwritten"}
    /\ UNCHANGED <<boot, requests, task, truth, selecting, leaving, model, forgotten>>

---------------------------------------------------------------------------
(* CreateWithProgress *)

\* persistOperation: the operation is written into the record read anew.
Persist(op) == file' = [Load(file) EXCEPT !.op = op]

\* The deferred failure: the operation ends in error, with a rollback
\* obligation once the mutation of the peer has begun.
FailConnect(mutated) ==
    /\ Persist([task.op EXCEPT !.phase = "error", !.rollback = mutated])
    /\ task' = Idle
    /\ UNCHANGED <<stale, boot, requests, selecting, leaving, model, history>>

Connect(a) ==
    /\ task = Idle /\ requests < MaxRequests
    /\ CanEnroll(Load(file), a)
    /\ LET op == NewOperation("connect", a)
       IN  /\ Persist(op)
           /\ task' = [kind |-> "connect", pc |-> "preflight", host |-> a,
                       index |-> EnrollmentIndex(file), existing |-> Load(file), op |-> op]
    /\ requests' = requests + 1
    /\ forgotten' = forgotten \cup Leftover(file)
    /\ UNCHANGED <<stale, boot, truth, selecting, leaving, model, accidents>>

FaultyPreflightReady(f, a) == CanEnroll(f, a) /\ coordinator = f.configured

\* PreflightCheck: both machines must be free of an earlier configuration.
PreflightReady(f, a) ==
    /\ CanEnroll(f, a)
    /\ fabric[At[a]] = 0
    /\ coordinator = f.configured

ConnectPreflight ==
    /\ task.kind = "connect" /\ task.pc = "preflight"
    /\ \/ /\ PreflightReady(Load(file), task.host)
          /\ Persist([task.op EXCEPT !.phase = "peer-network"])
          /\ task' = [task EXCEPT !.pc = "peer", !.op.phase = "peer-network",
                                  !.index = EnrollmentIndex(file)]
          /\ UNCHANGED <<stale, boot, requests, selecting, leaving, model, history>>
       \/ FailConnect(FALSE)
    /\ UNCHANGED truth

\* rollbackRemote is tried once and its result is ignored.
UndoPeer == \E left \in {0, task.index} : fabric' = [fabric EXCEPT ![At[task.host]] = left]

ConnectPeer ==
    /\ task.kind = "connect" /\ task.pc = "peer"
    /\ \/ /\ fabric' = [fabric EXCEPT ![At[task.host]] = task.index]
          /\ task' = [task EXCEPT !.pc = IF task.existing.configured THEN "save" ELSE "local"]
          /\ UNCHANGED <<record, requests, selecting, leaving, model, history>>
       \/ UndoPeer /\ FailConnect(TRUE)
    /\ UNCHANGED <<coordinator, worker>>

ConnectCoordinator ==
    /\ task.kind = "connect" /\ task.pc = "local"
    /\ \/ /\ coordinator' = TRUE
          /\ Persist([task.op EXCEPT !.phase = "coordinator-network"])
          /\ task' = [task EXCEPT !.pc = "save", !.op.phase = "coordinator-network"]
          /\ UNCHANGED <<stale, boot, requests, fabric, selecting, leaving, model, history>>
       \/ UndoPeer /\ FailConnect(TRUE) /\ UNCHANGED coordinator
    /\ UNCHANGED worker

\* The record saved is the one read when the lock was taken, with the new node.
ConnectSave ==
    /\ task.kind = "connect" /\ task.pc = "save"
    /\ \/ /\ file' = [task.existing EXCEPT
                        !.configured = TRUE,
                        !.nodes = Append(@, [spark |-> At[task.host], host |-> task.host,
                                             index |-> task.index]),
                        !.op = [task.op EXCEPT !.phase = "verifying"]]
          /\ task' = [task EXCEPT !.pc = "verify", !.op.phase = "verifying"]
          /\ UNCHANGED <<stale, boot, requests, fabric, coordinator, selecting, leaving,
                         model, history>>
       \/ /\ UndoPeer /\ FailConnect(TRUE)
          /\ IF task.existing.configured THEN UNCHANGED coordinator
             ELSE coordinator' \in {FALSE, coordinator}
    /\ UNCHANGED worker

\* waitForHealthy returns the last status when the time is up: healthy or not,
\* the operation is then recorded as completed.
ConnectVerify ==
    /\ task.kind = "connect" /\ task.pc = "verify"
    /\ \/ /\ file' = [Load(file) EXCEPT !.op = [task.op EXCEPT !.phase = "completed"]]
          /\ task' = Idle
          /\ UNCHANGED <<stale, boot, requests, selecting, leaving, model, history>>
       \/ FailConnect(TRUE)
    /\ UNCHANGED truth

---------------------------------------------------------------------------
(* RebindManagementAddress and SetSelection *)

Rebind(a) ==
    /\ task = Idle /\ requests < MaxRequests
    /\ launch = NoLaunch /\ ~loaded
    /\ Load(file).configured
    /\ \E i \in 1..Len(file.nodes) :
          /\ \A j \in 1..Len(file.nodes) : j # i => file.nodes[j].host # a
          /\ At[a] = file.nodes[i].spark
          /\ file' = [Load(file) EXCEPT !.nodes[i].host = a]
    /\ requests' = requests + 1
    /\ UNCHANGED <<stale, boot, task, truth, selecting, leaving, model, history>>

\* sparkClusterSelection looks at the model's state, then waits for mutationMu
\* and for Status.
AskSelection(S) ==
    /\ selecting = {} /\ requests < MaxRequests
    /\ launch = NoLaunch /\ ~loaded
    /\ selecting' = S
    /\ requests' = requests + 1
    /\ UNCHANGED <<record, task, truth, leaving, model, history>>

SetSelection ==
    /\ selecting # {} /\ task = Idle
    /\ LET f == Load(file)
       IN  file' = IF /\ f.configured
                      /\ \A s \in selecting : CanBeHealthy(f, s)
                   THEN [f EXCEPT !.chosen = selecting] ELSE f
    /\ selecting' = {}
    /\ UNCHANGED <<stale, boot, requests, task, truth, leaving, model, history>>
---------------------------------------------------------------------------
(* Disconnecting *)

\* sparkClusterDisconnect: no model operation may be running when it is asked.
AskDisconnect ==
    /\ leaving = "no" /\ requests < MaxRequests
    /\ launch = NoLaunch
    /\ leaving' = "asked"
    /\ requests' = requests + 1
    /\ UNCHANGED <<record, task, truth, selecting, model, history>>

\* What "stop" does on the Sparks it reaches: the container is removed; a
\* helper that is still pulling the image goes on, and starts it later.
Stopped(S) == [s \in Sparks |-> IF s \in S /\ worker[s] = "running" THEN "none" ELSE worker[s]]

Reached(f) == {s \in Enrolled(f) : fabric[s] # 0}

\* runSparkClusterDisconnect unloads a loaded distributed model first, through
\* runEngineUnload; when the workers cannot be stopped the cluster is kept.
DisconnectUnload ==
    /\ leaving = "asked"
    /\ loaded => launch.pc \in {"none", "check", "coordinator", "serving"}
    /\ IF ~loaded
       THEN leaving' = "unloaded" /\ UNCHANGED <<worker, loaded>>
       ELSE \/ /\ worker' = Stopped(Reached(file)) /\ Reached(file) = Enrolled(file)
               /\ loaded' = FALSE /\ leaving' = "unloaded"
            \/ leaving' = "no" /\ UNCHANGED <<worker, loaded>>
    /\ UNCHANGED <<record, requests, task, fabric, coordinator, selecting, launch, launches,
                   history>>

\* DisconnectWithProgress proves every credential, then records its operation.
DisconnectBegin ==
    /\ leaving = "unloaded" /\ task = Idle
    /\ leaving' = "no"
    /\ LET f == Load(file)
           op == [NewOperation("disconnect", NoOne) EXCEPT !.phase = "stopping-workers"]
       IN  \/ /\ f.configured
              /\ file' = [f EXCEPT !.op = op]
              /\ task' = [kind |-> "disconnect", pc |-> "clean", existing |-> f, op |-> op,
                          pending |-> Enrolled(f), failed |-> {}]
              /\ forgotten' = forgotten \cup Leftover(file)
           \/ file' = f /\ UNCHANGED <<task, forgotten>>
    /\ UNCHANGED <<stale, boot, requests, truth, selecting, model, accidents>>

SilentDisconnectNode(s) ==
    /\ task.kind = "disconnect" /\ task.pc = "clean" /\ s \in task.pending
    /\ fabric[s] # 0
    /\ fabric' = [fabric EXCEPT ![s] = 0]
    /\ worker' = Stopped({s})
    /\ task' = [task EXCEPT !.pending = @ \ {s}, !.op.cleaned = @ \cup {s}]
    /\ UNCHANGED <<record, requests, coordinator, selecting, leaving, model, history>>

\* One goroutine per Spark; the results are recorded when all have ended.
DisconnectNode(s) ==
    /\ task.kind = "disconnect" /\ task.pc = "clean" /\ s \in task.pending
    /\ \/ /\ fabric' = [fabric EXCEPT ![s] = 0]
          /\ worker' = Stopped({s})
          /\ task' = [task EXCEPT !.pending = @ \ {s}, !.op.cleaned = @ \cup {s}]
          /\ accidents' = IF worker[s] = "pulling" THEN accidents \cup {"late pull"}
                          ELSE accidents
       \/ /\ task' = [task EXCEPT !.pending = @ \ {s}, !.failed = @ \cup {s}]
          /\ UNCHANGED <<fabric, worker, accidents>>
    /\ UNCHANGED <<record, requests, coordinator, selecting, leaving, model, forgotten>>

FailDisconnect ==
    /\ file' = [task.existing EXCEPT !.op = [task.op EXCEPT !.phase = "error", !.rollback = TRUE]]
    /\ task' = Idle
    /\ accidents' = IF task.op.cleaned = {} THEN accidents
                    ELSE accidents \cup {"half disconnected"}

FaultyDisconnectCoordinator ==
    /\ task.kind = "disconnect" /\ task.pc = "clean" /\ task.pending = {}
    /\ coordinator' = FALSE
    /\ file' = [task.existing EXCEPT !.op = task.op]
    /\ task' = [task EXCEPT !.pc = "clear"]
    /\ UNCHANGED accidents
    /\ UNCHANGED <<stale, boot, requests, fabric, worker, selecting, leaving, model, forgotten>>

DisconnectCoordinator ==
    /\ task.kind = "disconnect" /\ task.pc = "clean" /\ task.pending = {}
    /\ \/ /\ task.failed = {}
          /\ coordinator' = FALSE
          /\ file' = [task.existing EXCEPT !.op = task.op]
          /\ task' = [task EXCEPT !.pc = "clear"]
          /\ UNCHANGED accidents
       \/ FailDisconnect /\ UNCHANGED coordinator
    /\ UNCHANGED <<stale, boot, requests, fabric, worker, selecting, leaving, model, forgotten>>

DisconnectClear ==
    /\ task.kind = "disconnect" /\ task.pc = "clear"
    /\ \/ /\ file' = [NoCluster EXCEPT !.op = [task.op EXCEPT !.phase = "completed"]]
          /\ task' = Idle /\ UNCHANGED accidents
       \/ FailDisconnect
    /\ UNCHANGED <<stale, boot, requests, truth, selecting, leaving, model, forgotten>>

---------------------------------------------------------------------------
(* A distributed launch: the part of applyEngineVerified that uses the cluster *)

Launch ==
    /\ launch = NoLaunch /\ launches < MaxLaunches
    /\ launch' = [pc |-> "check"]
    /\ launches' = launches + 1
    /\ UNCHANGED <<record, requests, task, truth, selecting, leaving, loaded, history>>

\* clusterCompute: the number of nodes the profile is chosen for.
LaunchCheck ==
    /\ launch.pc = "check"
    /\ IF ComputeCanBeHealthy(file)
       THEN launch' = [pc |-> "coordinator", nodes |-> ComputeNodes(file)]
       ELSE launch' = NoLaunch
    /\ UNCHANGED <<record, requests, task, truth, selecting, leaving, loaded, launches, history>>

\* Under EngineMu the model is marked loaded, and CoordinatorSpec reads the
\* record again for the tensor-parallel size.
LaunchCoordinator ==
    /\ launch.pc = "coordinator"
    /\ launch' = [pc |-> "workers", nodes |-> launch.nodes,
                  size |-> IF ComputeNodes(file) < 2 THEN 2 ELSE ComputeNodes(file)]
    /\ loaded' = TRUE
    /\ UNCHANGED <<record, requests, task, truth, selecting, leaving, launches, history>>

\* StartWorker reads it a third time.  On each Spark the helper removes the old
\* worker and pulls the image; the container runs when the pull has ended.
StartWorker ==
    /\ launch.pc = "workers"
    /\ ComputeCanBeHealthy(file)
    /\ worker' = [s \in Sparks |-> IF s \in Selected(file) THEN "pulling" ELSE worker[s]]
    /\ launch' = [pc |-> "join", nodes |-> launch.nodes, size |-> launch.size,
                  on |-> Selected(file)]
    /\ UNCHANGED <<record, requests, task, fabric, coordinator, selecting, leaving, loaded,
                   launches, history>>

PullEnds(s) ==
    /\ worker[s] = "pulling"
    /\ worker' = [worker EXCEPT ![s] = "running"]
    /\ UNCHANGED <<record, requests, task, fabric, coordinator, selecting, leaving, model, history>>

\* The launch waits until Ray counts exactly the Sparks of the profile.
LaunchJoined ==
    /\ launch.pc = "join"
    /\ \A s \in launch.on : worker[s] = "running"
    /\ 1 + Cardinality({s \in launch.on : worker[s] = "running"}) = launch.nodes
    /\ launch' = [launch EXCEPT !.pc = "serving"]
    /\ UNCHANGED <<record, requests, task, truth, selecting, leaving, loaded, launches, history>>

\* Any failure, a timeout or an abort: the workers of the record are stopped,
\* as far as they can be reached, and the model is left unloaded.
LaunchFails ==
    /\ launch.pc \in {"workers", "join", "serving"}
    /\ \E S \in SUBSET Reached(file) : worker' = Stopped(S)
    /\ launch' = NoLaunch /\ loaded' = FALSE
    /\ UNCHANGED <<record, requests, task, fabric, coordinator, selecting, leaving, launches,
                   history>>

\* The job succeeds; what it has started stays, and is unloaded later.
LaunchSucceeds ==
    /\ launch.pc = "serving" /\ loaded
    /\ launch' = NoLaunch
    /\ UNCHANGED <<record, requests, task, truth, selecting, leaving, loaded, launches, history>>

EngineUnload ==
    /\ loaded /\ launch = NoLaunch
    /\ Reached(file) = Enrolled(file)
    /\ worker' = Stopped(Enrolled(file))
    /\ loaded' = FALSE
    /\ UNCHANGED <<record, requests, task, fabric, coordinator, selecting, leaving, launch,
                   launches, history>>

---------------------------------------------------------------------------
\* The daemon restarts: the locks, the jobs and the unwritten copies are gone.
Restart ==
    /\ boot <= MaxRestarts
    /\ boot' = boot + 1
    /\ stale' = {} /\ task' = Idle /\ selecting' = {} /\ leaving' = "no"
    /\ launch' = NoLaunch
    /\ accidents' = IF task.kind = "disconnect" /\ task.op.cleaned # {}
                    THEN accidents \cup {"half disconnected"} ELSE accidents
    /\ UNCHANGED <<file, requests, truth, loaded, launches, forgotten>>

Next ==
    \/ ReadState \/ WriteRecovered
    \/ \E a \in Addresses : Connect(a) \/ Rebind(a)
    \/ ConnectPreflight \/ ConnectPeer \/ ConnectCoordinator \/ ConnectSave \/ ConnectVerify
    \/ \E S \in (SUBSET Sparks) \ {{}} : AskSelection(S)
    \/ SetSelection
    \/ AskDisconnect \/ DisconnectUnload \/ DisconnectBegin
    \/ \E s \in Sparks : DisconnectNode(s) \/ PullEnds(s)
    \/ DisconnectCoordinator \/ DisconnectClear
    \/ Launch \/ LaunchCheck \/ LaunchCoordinator \/ StartWorker
    \/ LaunchJoined \/ LaunchFails \/ LaunchSucceeds \/ EngineUnload
    \/ Restart

Spec == Init /\ [][Next]_vars

\* A handler's steps end: the commands it runs have time limits.
Handlers ==
    \/ ConnectPreflight \/ ConnectPeer \/ ConnectCoordinator \/ ConnectSave \/ ConnectVerify
    \/ SetSelection \/ DisconnectUnload \/ DisconnectBegin
    \/ \E s \in Sparks : DisconnectNode(s)
    \/ DisconnectCoordinator \/ DisconnectClear

Launching == LaunchCheck \/ LaunchCoordinator \/ LaunchFails

Fairness ==
    /\ WF_vars(Handlers) /\ WF_vars(Launching) /\ WF_vars(SetSelection)
    /\ WF_vars(DisconnectUnload) /\ WF_vars(DisconnectBegin)

---------------------------------------------------------------------------
Phases == {"none", "starting", "stopping-workers", "peer-network", "coordinator-network",
           "verifying", "completed", "error"}

TypeOK ==
    /\ file.configured \in BOOLEAN
    /\ file.op.phase \in Phases
    /\ Len(file.nodes) < MaxNodes
    /\ fabric \in [Sparks -> 0..MaxNodes] /\ coordinator \in BOOLEAN
    /\ worker \in [Sparks -> {"none", "pulling", "running"}]
    /\ file.op.owner <= boot

\* No Spark is enrolled twice, whatever addresses the operator typed for it:
\* enrollmentIndex compares addresses, and only the preflight's look at the
\* Spark itself tells two addresses of one machine.  After a disconnect that
\* cleaned some Sparks and then failed, the look shows a clean machine.
EachSparkOnce ==
    accidents \subseteq {"late pull"} =>
        \A i, j \in 1..Len(file.nodes) : i # j => file.nodes[i].spark # file.nodes[j].spark

\* A Spark with a Cloudless network that is not enrolled is one an operation
\* still works on, or one the record names with its rollback obligation, or one
\* whose obligation a later operation's record replaced.
LeftoversAreRecorded ==
    "overwritten" \notin accidents =>
    \A s \in Sparks :
        fabric[s] # 0 /\ s \notin Enrolled(file) =>
            \/ s \in forgotten
            \/ /\ file.op.action = "connect" /\ At[file.op.host] = s
               /\ Active(file.op) \/ file.op.rollback

\* The roadmap's promise without the last exception: the obligation an
\* unfinished operation leaves is explicit until it is met.
ObligationsAreKept ==
    \A s \in Sparks :
        fabric[s] # 0 /\ s \notin Enrolled(file) =>
            /\ file.op.action = "connect" /\ At[file.op.host] = s
            /\ Active(file.op) \/ file.op.rollback

\* A disconnect is reported completed only when every Spark it was to clean is
\* clean, no worker runs there (but one whose image was being pulled when it was
\* stopped), and the coordinator's network is removed.
DisconnectIsVerified ==
    [][ task.kind = "disconnect" /\ file'.op.phase = "completed" /\ task' = Idle =>
            /\ ~coordinator
            /\ \A s \in Enrolled(task.existing) :
                  fabric[s] = 0 /\ (worker[s] = "running" => "late pull" \in accidents) ]_vars

\* The profile, the tensor-parallel size and the workers of one launch are all
\* those of one selection.
LaunchUsesOneSelection ==
    launch.pc = "join" => launch.size = launch.nodes /\ 1 + Cardinality(launch.on) = launch.nodes

\* No worker is left on a Spark that is independent again.
NoStrandedWorker ==
    \A s \in Sparks : worker[s] = "running" => s \in Enrolled(file)

\* Every mutation that was accepted ends, and gives the lock back.
MutationsEnd == <>[](task = Idle /\ selecting = {} /\ leaving = "no")

=============================================================================
