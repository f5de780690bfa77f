------------------------- MODULE SparkClusterProofs -------------------------
(***************************************************************************)
(* Proofs about the cluster's record and its Sparks, for any number of     *)
(* Sparks, addresses, requests, launches and restarts.                     *)
(*                                                                         *)
(* The argument: whatever a launch, an unload or a waiting handler does    *)
(* leaves the record and the networks alone and starts workers only on     *)
(* Sparks that have a network (Quiet).  The other steps are looked at one  *)
(* by one, with what the mutation under way has reached.                   *)
(***************************************************************************)
EXTENDS SparkCluster, TLAPS

-----------------------------------------------------------------------------
(* The shapes of the record and of the mutation under way *)

Node == [spark : Sparks, host : Addresses, index : Nat \ {0}]

Operation ==
    [action : {"none", "connect", "disconnect"}, phase : Phases,
     host : Addresses \cup {NoOne}, owner : Nat, rollback : BOOLEAN, cleaned : SUBSET Sparks]

Record ==
    [configured : BOOLEAN, nodes : Seq(Node), chosen : SUBSET Sparks, op : Operation]

ConnectTask ==
    [kind : {"connect"}, pc : {"preflight", "peer", "local", "save", "verify"},
     host : Addresses, index : Nat \ {0}, existing : Record, op : Operation]

DisconnectTask ==
    [kind : {"disconnect"}, pc : {"clean", "clear"}, existing : Record, op : Operation,
     pending : SUBSET Sparks, failed : SUBSET Sparks]

Shapes ==
    /\ file \in Record
    /\ stale \subseteq Record
    /\ \A f \in stale : f.op.phase = "error"
    /\ boot \in Nat
    /\ task \in {Idle} \cup ConnectTask \cup DisconnectTask
    /\ task # Idle => task.op.action = task.kind
    /\ task.kind = "connect" => task.op.host = task.host
    /\ fabric \in [Sparks -> Nat]
    /\ coordinator \in BOOLEAN
    /\ worker \in [Sparks -> {"none", "pulling", "running"}]
    /\ selecting \subseteq Sparks

-----------------------------------------------------------------------------
(* Facts about the record *)

\* Who is enrolled depends on the nodes alone.
LEMMA SameNodes ==
    ASSUME NEW f, NEW g, f.nodes = g.nodes
    PROVE  Enrolled(f) = Enrolled(g)
BY DEF Enrolled

\* An interrupted operation is put down as failed, with its obligation.
LEMMA RecoveredKeeps ==
    ASSUME NEW f \in Record
    PROVE  /\ Recovered(f) \in Record /\ Recovered(f).nodes = f.nodes
           /\ Enrolled(Recovered(f)) = Enrolled(f)
           /\ Recovered(f).op.action = f.op.action /\ Recovered(f).op.host = f.op.host
           /\ Recovered(f).op.rollback /\ Recovered(f).op.phase = "error"
<1>1. Recovered(f) \in Record /\ Recovered(f).nodes = f.nodes
  BY DEF Recovered, Record, Operation, Phases
<1>2. /\ Recovered(f).op.action = f.op.action /\ Recovered(f).op.host = f.op.host
      /\ Recovered(f).op.rollback /\ Recovered(f).op.phase = "error"
  BY DEF Recovered, Record, Operation
<1> QED
  BY <1>1, <1>2, SameNodes

\* A record that is read keeps everything but the marks of an interruption.
LEMMA LoadKeeps ==
    ASSUME NEW f \in Record
    PROVE  /\ Load(f) \in Record
           /\ Load(f).nodes = f.nodes
           /\ Enrolled(Load(f)) = Enrolled(f)
           /\ Load(f).op.action = f.op.action /\ Load(f).op.host = f.op.host
           /\ Active(f.op) \/ f.op.rollback => Active(Load(f).op) \/ Load(f).op.rollback
<1>1. Load(f) \in {f, Recovered(f)}
  BY DEF Load
<1> QED
  BY <1>1, RecoveredKeeps

\* A new operation is well formed.
LEMMA NewOperationShape ==
    ASSUME boot \in Nat, NEW action \in {"none", "connect", "disconnect"},
           NEW host \in Addresses \cup {NoOne}
    PROVE  /\ NewOperation(action, host) \in Operation
           /\ NewOperation(action, host).action = action
           /\ NewOperation(action, host).host = host
           /\ NewOperation(action, host).cleaned = {}
           /\ NewOperation(action, host).phase = "starting"
BY DEF NewOperation, NoOperation, Operation, Phases

\* Appending a node enrolls its Spark.
LEMMA AppendEnrolls ==
    ASSUME NEW f \in Record, NEW g \in Record, NEW n \in Node, g.nodes = Append(f.nodes, n)
    PROVE  Enrolled(g) = Enrolled(f) \cup {n.spark}
<1>1. f.nodes \in Seq(Node)
  BY DEF Record
<1>2. /\ Len(g.nodes) = Len(f.nodes) + 1 /\ Len(f.nodes) \in Nat
      /\ g.nodes[Len(f.nodes) + 1] = n
      /\ \A i \in 1..Len(f.nodes) : g.nodes[i] = f.nodes[i]
  BY <1>1
<1>3. 1..(Len(f.nodes) + 1) = (1..Len(f.nodes)) \cup {Len(f.nodes) + 1}
  BY <1>2
<1>4. QED
  BY <1>2, <1>3 DEF Enrolled

\* A change of one node's address keeps who is enrolled.
LEMMA RebindKeeps ==
    ASSUME NEW f \in Record, NEW i \in 1..Len(f.nodes), NEW a \in Addresses
    PROVE  /\ [f EXCEPT !.nodes[i].host = a] \in Record
           /\ Len([f EXCEPT !.nodes[i].host = a].nodes) = Len(f.nodes)
           /\ \A j \in 1..Len(f.nodes) :
                 [f EXCEPT !.nodes[i].host = a].nodes[j].spark = f.nodes[j].spark
           /\ [f EXCEPT !.nodes[i].host = a].op = f.op
           /\ Enrolled([f EXCEPT !.nodes[i].host = a]) = Enrolled(f)
<1> DEFINE g == [f EXCEPT !.nodes[i].host = a]
<1>1. f.nodes \in Seq(Node) /\ f.nodes[i] \in Node
  BY DEF Record
<1>2. [f.nodes[i] EXCEPT !.host = a] \in Node /\ [f.nodes[i] EXCEPT !.host = a].spark = f.nodes[i].spark
  BY <1>1 DEF Node
<1>3. g.nodes = [f.nodes EXCEPT ![i] = [f.nodes[i] EXCEPT !.host = a]] /\ g.op = f.op
  BY DEF Record
<1>4. g.nodes \in Seq(Node) /\ Len(g.nodes) = Len(f.nodes)
  BY <1>1, <1>2, <1>3
<1>5. g \in Record
  BY <1>4 DEF Record
<1>6. \A j \in 1..Len(f.nodes) : g.nodes[j].spark = f.nodes[j].spark
  BY <1>1, <1>2, <1>3
<1>7. QED
  BY <1>3, <1>4, <1>5, <1>6 DEF Enrolled

-----------------------------------------------------------------------------
(* Steps that leave the record and the networks alone *)

\* A launch, an unload, a request that waits: at most they start workers, on
\* Sparks that have a network.
Quiet ==
    /\ UNCHANGED <<file, stale, boot, task, fabric, coordinator, accidents, forgotten>>
    /\ worker' \in [Sparks -> {"none", "pulling", "running"}]
    /\ \A s \in Sparks : worker'[s] # "none" => worker[s] # "none" \/ fabric[s] # 0
    /\ selecting' \subseteq Sparks

QuietActions ==
    \/ \E S \in (SUBSET Sparks) \ {{}} : AskSelection(S)
    \/ AskDisconnect \/ DisconnectUnload \/ (\E s \in Sparks : PullEnds(s))
    \/ Launch \/ LaunchCheck \/ LaunchCoordinator \/ StartWorker
    \/ LaunchJoined \/ LaunchFails \/ LaunchSucceeds \/ EngineUnload

\* Stopping workers starts none.
LEMMA StoppedShape ==
    ASSUME Shapes, NEW S
    PROVE  /\ Stopped(S) \in [Sparks -> {"none", "pulling", "running"}]
           /\ \A s \in Sparks : Stopped(S)[s] # "none" => worker[s] # "none"
           /\ \A s \in Sparks : Stopped(S)[s] # "none" /\ s \in S => worker[s] = "pulling"
BY DEF Stopped, Shapes

\* A step of a launch, of an unload or of a waiting handler is quiet.
LEMMA QuietStep ==
    ASSUME Shapes, QuietActions
    PROVE  Quiet
<1> USE DEF record, truth, model, history
<1>1. ASSUME NEW S \in (SUBSET Sparks) \ {{}}, AskSelection(S)
      PROVE  Quiet
  BY <1>1 DEF AskSelection, Quiet, Shapes
<1>2. CASE AskDisconnect
  BY <1>2 DEF AskDisconnect, Quiet, Shapes
<1>3. CASE DisconnectUnload
  BY <1>3, StoppedShape DEF DisconnectUnload, Quiet, Shapes
<1>4. ASSUME NEW s \in Sparks, PullEnds(s)
      PROVE  Quiet
  BY <1>4 DEF PullEnds, Quiet, Shapes
<1>5. CASE Launch \/ LaunchCheck \/ LaunchCoordinator \/ LaunchJoined \/ LaunchSucceeds
  BY <1>5 DEF Launch, LaunchCheck, LaunchCoordinator, LaunchJoined, LaunchSucceeds, Quiet, Shapes
<1>6. CASE StartWorker
  <2>1. \A s \in Selected(file) : fabric[s] # 0
    <3> TAKE s \in Selected(file)
    <3>1. PICK i \in 1..Len(file.nodes) : file.nodes[i].index = fabric[s]
      BY <1>6 DEF StartWorker, ComputeCanBeHealthy, CanBeHealthy
    <3>2. file.nodes[i] \in Node
      BY <3>1 DEF Shapes, Record
    <3> QED
      BY <3>1, <3>2 DEF Node
  <2>2. \A s \in Sparks : worker'[s] # "none" => worker[s] # "none" \/ fabric[s] # 0
    BY <1>6, <2>1 DEF StartWorker
  <2> QED
    BY <1>6, <2>2 DEF StartWorker, Quiet, Shapes
<1>7. CASE LaunchFails
  BY <1>7, StoppedShape DEF LaunchFails, Quiet, Shapes
<1>8. CASE EngineUnload
  BY <1>8, StoppedShape DEF EngineUnload, Quiet, Shapes
<1> QED
  BY <1>1, <1>2, <1>3, <1>4, <1>5, <1>6, <1>7, <1>8 DEF QuietActions

-----------------------------------------------------------------------------
(* The shapes are kept *)

\* The cluster begins unconfigured, with nothing under way.
LEMMA InitShapes == Init => Shapes
<1> SUFFICES ASSUME Init PROVE Shapes
  OBVIOUS
<1>1. NoOperation \in Operation
  BY DEF NoOperation, Operation, Phases
<1>2. NoCluster \in Record
  BY <1>1 DEF NoCluster, Record
<1> QED
  BY <1>2 DEF Init, Shapes, Idle

\* An operation is written into the record that is read anew.
LEMMA PersistShape ==
    ASSUME Shapes, NEW op \in Operation, Persist(op)
    PROVE  file' \in Record /\ file'.nodes = file.nodes /\ file'.op = op
           /\ Enrolled(file') = Enrolled(file)
<1>1. Load(file) \in Record /\ Load(file).nodes = file.nodes
  BY LoadKeeps DEF Shapes
<1>2. file' \in Record /\ file'.nodes = file.nodes /\ file'.op = op
  BY <1>1 DEF Persist, Record
<1> QED
  BY <1>2, SameNodes

\* A connect that fails writes its error and what is left to undo.
LEMMA FailConnectShape ==
    ASSUME Shapes, task \in ConnectTask, NEW mutated \in BOOLEAN, FailConnect(mutated)
    PROVE  /\ file' \in Record /\ file'.nodes = file.nodes
           /\ Enrolled(file') = Enrolled(file)
           /\ file'.op.action = "connect" /\ file'.op.host = task.host
           /\ file'.op.rollback = mutated
<1> DEFINE op == [task.op EXCEPT !.phase = "error", !.rollback = mutated]
<1>1. task.op \in Operation /\ task.kind = "connect" /\ task # Idle
  BY DEF ConnectTask, Idle
<1>2. /\ op \in Operation /\ op.rollback = mutated
      /\ op.action = task.op.action /\ op.host = task.op.host
  BY <1>1 DEF Operation, Phases
<1>3. Persist(op)
  BY DEF FailConnect
<1>4. task.op.action = "connect" /\ task.op.host = task.host
  BY <1>1 DEF Shapes
<1> HIDE DEF op
<1> QED
  BY <1>2, <1>3, <1>4, PersistShape

\* The mutation under way is of one kind.
LEMMA TaskKinds ==
    ASSUME Shapes
    PROVE  /\ task.kind = "connect" => task \in ConnectTask /\ task # Idle
           /\ task.kind = "disconnect" => task \in DisconnectTask /\ task # Idle
           /\ task.kind \in {"none", "connect", "disconnect"}
           /\ task = Idle <=> task.kind = "none"
BY DEF Shapes, ConnectTask, DisconnectTask, Idle

\* What a failed disconnect writes is the record it began with.
LEMMA FailDisconnectShape ==
    ASSUME Shapes, task \in DisconnectTask, FailDisconnect
    PROVE  /\ file' \in Record /\ file'.nodes = task.existing.nodes
           /\ file'.op.phase = "error"
           /\ Enrolled(file') = Enrolled(task.existing)
           /\ task' = Idle
<1>1. task.op \in Operation /\ task.existing \in Record
  BY DEF DisconnectTask
<1>2. [task.op EXCEPT !.phase = "error", !.rollback = TRUE] \in Operation
  BY <1>1 DEF Operation, Phases
<1>3. /\ file' \in Record /\ file'.nodes = task.existing.nodes
      /\ file'.op = [task.op EXCEPT !.phase = "error", !.rollback = TRUE]
  BY <1>1, <1>2 DEF FailDisconnect, Record
<1>4. file'.op.phase = "error"
  BY <1>1, <1>3 DEF Operation
<1> QED
  BY <1>3, <1>4, SameNodes DEF FailDisconnect

\* A connect that begins, gets on, writes the new node.
LEMMA ConnectShape ==
    ASSUME Shapes, NEW a \in Addresses, Connect(a)
    PROVE  /\ file' \in Record /\ file'.nodes = file.nodes
           /\ Enrolled(file') = Enrolled(file)
           /\ task' \in ConnectTask /\ task'.host = a /\ task'.pc = "preflight"
           /\ task'.existing.nodes = file.nodes
           /\ task'.op.action = "connect" /\ task'.op.host = a
           /\ file'.op = task'.op /\ Active(file'.op)
<1> DEFINE op == NewOperation("connect", a)
<1>1. /\ op \in Operation /\ op.action = "connect" /\ op.host = a /\ op.phase = "starting"
  BY NewOperationShape DEF Shapes
<1>2. /\ Persist(op)
      /\ task' = [kind |-> "connect", pc |-> "preflight", host |-> a,
                  index |-> EnrollmentIndex(file), existing |-> Load(file), op |-> op]
  BY DEF Connect
<1> HIDE DEF op
<1>3. Load(file) \in Record /\ Load(file).nodes = file.nodes
  BY LoadKeeps DEF Shapes
<1>4. EnrollmentIndex(file) \in Nat \ {0}
  BY DEF EnrollmentIndex, Shapes, Record
<1>5. task' \in ConnectTask
  BY <1>1, <1>2, <1>3, <1>4 DEF ConnectTask
<1>6. Active(op)
  BY <1>1 DEF Active
<1> QED
  BY <1>1, <1>2, <1>3, <1>5, <1>6, PersistShape

\* A connect past its preflight goes on to the peer.
LEMMA ConnectPreflightShape ==
    ASSUME Shapes, ConnectPreflight, task' # Idle
    PROVE  /\ PreflightReady(Load(file), task.host)
           /\ file' \in Record /\ file'.nodes = file.nodes
           /\ Enrolled(file') = Enrolled(file)
           /\ task' \in ConnectTask /\ task'.host = task.host /\ task'.pc = "peer"
           /\ task'.existing = task.existing
           /\ task'.op.action = "connect" /\ task'.op.host = task.host
           /\ file'.op = task'.op /\ Active(file'.op)
<1> DEFINE op == [task.op EXCEPT !.phase = "peer-network"]
<1>1. task \in ConnectTask /\ task.op \in Operation
  BY TaskKinds DEF ConnectPreflight, ConnectTask
<1>2. task.op.action = "connect" /\ task.op.host = task.host
  BY TaskKinds DEF ConnectPreflight, Shapes
<1>3. op \in Operation /\ op.action = "connect" /\ op.host = task.host /\ op.phase = "peer-network"
  BY <1>1, <1>2 DEF Operation, Phases
<1>4. /\ PreflightReady(Load(file), task.host)
      /\ Persist(op)
      /\ task' = [task EXCEPT !.pc = "peer", !.op.phase = "peer-network",
                              !.index = EnrollmentIndex(file)]
  BY DEF ConnectPreflight, FailConnect
<1>5. task' = [task EXCEPT !.pc = "peer", !.op = op, !.index = EnrollmentIndex(file)]
  BY <1>4
<1> HIDE DEF op
<1>6. EnrollmentIndex(file) \in Nat \ {0}
  BY DEF EnrollmentIndex, Shapes, Record
<1>7. /\ task' \in ConnectTask /\ task'.host = task.host /\ task'.pc = "peer"
      /\ task'.existing = task.existing /\ task'.op = op
  BY <1>1, <1>3, <1>5, <1>6 DEF ConnectTask
<1>8. Active(op)
  BY <1>3 DEF Active
<1> QED
  BY <1>3, <1>4, <1>7, <1>8, PersistShape

\* The coordinator's own network is installed, or the connect is undone.
LEMMA ConnectCoordinatorShape ==
    ASSUME Shapes, ConnectCoordinator, task' # Idle
    PROVE  /\ file' \in Record /\ file'.nodes = file.nodes
           /\ Enrolled(file') = Enrolled(file)
           /\ task' \in ConnectTask /\ task'.host = task.host /\ task'.pc = "save"
           /\ task'.existing = task.existing /\ task'.index = task.index
           /\ task'.op.action = "connect" /\ task'.op.host = task.host
           /\ file'.op = task'.op /\ Active(file'.op)
           /\ UNCHANGED fabric
<1> DEFINE op == [task.op EXCEPT !.phase = "coordinator-network"]
<1>1. task \in ConnectTask /\ task.op \in Operation
  BY TaskKinds DEF ConnectCoordinator, ConnectTask
<1>2. task.op.action = "connect" /\ task.op.host = task.host
  BY TaskKinds DEF ConnectCoordinator, Shapes
<1>3. /\ op \in Operation /\ op.action = "connect" /\ op.host = task.host
      /\ op.phase = "coordinator-network"
  BY <1>1, <1>2 DEF Operation, Phases
<1>4. /\ Persist(op) /\ UNCHANGED fabric
      /\ task' = [task EXCEPT !.pc = "save", !.op.phase = "coordinator-network"]
  BY DEF ConnectCoordinator, FailConnect
<1>5. task' = [task EXCEPT !.pc = "save", !.op = op]
  BY <1>4
<1> HIDE DEF op
<1>6. /\ task' \in ConnectTask /\ task'.host = task.host /\ task'.pc = "save"
      /\ task'.existing = task.existing /\ task'.op = op /\ task'.index = task.index
  BY <1>1, <1>3, <1>5 DEF ConnectTask
<1>7. Active(op)
  BY <1>3 DEF Active
<1> QED
  BY <1>3, <1>4, <1>6, <1>7, PersistShape

\* The new node is saved, or the connect is undone.
LEMMA ConnectSaveShape ==
    ASSUME Shapes, ConnectSave, task' # Idle
    PROVE  /\ file' \in Record
           /\ \E n \in Node : /\ n.spark = At[task.host]
                              /\ file'.nodes = Append(task.existing.nodes, n)
           /\ Enrolled(file') = Enrolled(task.existing) \cup {At[task.host]}
           /\ task' \in ConnectTask /\ task'.host = task.host /\ task'.pc = "verify"
           /\ task'.op.action = "connect" /\ task'.op.host = task.host
           /\ file'.op = task'.op /\ Active(file'.op)
           /\ UNCHANGED fabric
<1> DEFINE op == [task.op EXCEPT !.phase = "verifying"]
           n == [spark |-> At[task.host], host |-> task.host, index |-> task.index]
<1>1. task \in ConnectTask /\ task.op \in Operation /\ task.existing \in Record
  BY TaskKinds DEF ConnectSave, ConnectTask
<1>2. task.op.action = "connect" /\ task.op.host = task.host
  BY TaskKinds DEF ConnectSave, Shapes
<1>3. op \in Operation /\ op.action = "connect" /\ op.host = task.host /\ op.phase = "verifying"
  BY <1>1, <1>2 DEF Operation, Phases
<1>4. /\ UNCHANGED fabric
      /\ file' = [task.existing EXCEPT !.configured = TRUE, !.nodes = Append(@, n), !.op = op]
      /\ task' = [task EXCEPT !.pc = "verify", !.op.phase = "verifying"]
  BY DEF ConnectSave, FailConnect
<1>5. task' = [task EXCEPT !.pc = "verify", !.op = op]
  BY <1>4
<1>6. n \in Node /\ n.spark = At[task.host]
  BY <1>1, ClusterAssumption DEF ConnectTask, Node
<1> HIDE DEF op, n
<1>7. /\ task' \in ConnectTask /\ task'.host = task.host /\ task'.pc = "verify" /\ task'.op = op
  BY <1>1, <1>3, <1>5 DEF ConnectTask
<1>8. Append(task.existing.nodes, n) \in Seq(Node)
  BY <1>1, <1>6 DEF Record
<1>9. file' \in Record /\ file'.nodes = Append(task.existing.nodes, n) /\ file'.op = op
  BY <1>1, <1>3, <1>4, <1>8 DEF Record
<1>10. Enrolled(file') = Enrolled(task.existing) \cup {At[task.host]}
  BY <1>1, <1>6, <1>9, AppendEnrolls
<1>11. Active(op)
  BY <1>3 DEF Active
<1> QED
  BY <1>3, <1>4, <1>6, <1>7, <1>9, <1>10, <1>11

\* A connect whose node is saved ends with its record.
LEMMA ConnectVerifyShape ==
    ASSUME Shapes, ConnectVerify
    PROVE  /\ file' \in Record /\ file'.nodes = file.nodes
           /\ Enrolled(file') = Enrolled(file)
           /\ task' = Idle
<1>1. task \in ConnectTask /\ task.op \in Operation
  BY TaskKinds DEF ConnectVerify, ConnectTask
<1>2. CASE file' = [Load(file) EXCEPT !.op = [task.op EXCEPT !.phase = "completed"]]
  <2>1. [task.op EXCEPT !.phase = "completed"] \in Operation
    BY <1>1 DEF Operation, Phases
  <2>2. Persist([task.op EXCEPT !.phase = "completed"])
    BY <1>2 DEF Persist
  <2> QED
    BY <2>1, <2>2, PersistShape DEF ConnectVerify, FailConnect
<1>3. CASE FailConnect(TRUE)
  BY <1>1, <1>3, FailConnectShape DEF FailConnect
<1> QED
  BY <1>2, <1>3 DEF ConnectVerify

\* A rebind writes a record with one address changed.
LEMMA RebindShape ==
    ASSUME Shapes, NEW a \in Addresses, Rebind(a)
    PROVE  /\ file' \in Record /\ file'.op = Load(file).op
           /\ Len(file'.nodes) = Len(file.nodes)
           /\ \A j \in 1..Len(file.nodes) : file'.nodes[j].spark = file.nodes[j].spark
           /\ Enrolled(file') = Enrolled(file)
           /\ UNCHANGED <<stale, boot, task, fabric, coordinator, worker, accidents, forgotten,
                          selecting>>
<1>1. /\ Load(file) \in Record /\ Load(file).nodes = file.nodes
      /\ Enrolled(Load(file)) = Enrolled(file)
  BY LoadKeeps DEF Shapes
<1>2. PICK i \in 1..Len(file.nodes) : file' = [Load(file) EXCEPT !.nodes[i].host = a]
  BY DEF Rebind
<1> DEFINE f == Load(file)
<1> HIDE DEF f
<1>3. f \in Record /\ i \in 1..Len(f.nodes) /\ file' = [f EXCEPT !.nodes[i].host = a]
  BY <1>1, <1>2 DEF f
<1>4. /\ file' \in Record /\ file'.op = f.op /\ Len(file'.nodes) = Len(f.nodes)
      /\ \A j \in 1..Len(f.nodes) : file'.nodes[j].spark = f.nodes[j].spark
      /\ Enrolled(file') = Enrolled(f)
  BY <1>3, RebindKeeps
<1> QED
  BY <1>1, <1>4 DEF f, Rebind, truth, history

\* A selection writes a record with other chosen Sparks.
LEMMA SetSelectionShape ==
    ASSUME Shapes, SetSelection
    PROVE  /\ file' \in Record /\ file'.nodes = file.nodes /\ file'.op = Load(file).op
           /\ Enrolled(file') = Enrolled(file)
           /\ UNCHANGED <<stale, boot, task, fabric, coordinator, worker, accidents, forgotten>>
           /\ selecting' = {}
<1>1. Load(file) \in Record /\ Load(file).nodes = file.nodes
  BY LoadKeeps DEF Shapes
<1>2. file' = Load(file) \/ file' = [Load(file) EXCEPT !.chosen = selecting]
  BY DEF SetSelection
<1>3. file' \in Record /\ file'.nodes = file.nodes /\ file'.op = Load(file).op
  BY <1>1, <1>2 DEF Record, Shapes
<1> QED
  BY <1>3, SameNodes DEF SetSelection, truth, history

\* A disconnect begins with what the record and its obligation name.
LEMMA DisconnectBeginShape ==
    ASSUME Shapes, DisconnectBegin
    PROVE  /\ file' \in Record /\ file'.nodes = file.nodes
           /\ Enrolled(file') = Enrolled(file)
           /\ UNCHANGED <<stale, boot, fabric, coordinator, worker, accidents, selecting>>
           /\ \/ file'.op = Load(file).op /\ UNCHANGED <<task, forgotten>>
              \/ /\ task' \in DisconnectTask /\ task'.pc = "clean"
                 /\ task'.existing.nodes = file.nodes
                 /\ task'.pending = Enrolled(file) /\ task'.failed = {}
                 /\ task'.op.cleaned = {} /\ task'.op.action = "disconnect"
                 /\ file'.op = task'.op /\ file'.op.phase = "stopping-workers"
                 /\ forgotten' = forgotten \cup Leftover(file)
<1>1. /\ Load(file) \in Record /\ Load(file).nodes = file.nodes
      /\ Enrolled(Load(file)) = Enrolled(file)
  BY LoadKeeps DEF Shapes
<1>2. Enrolled(file) \subseteq Sparks
  <2>1. file.nodes \in Seq(Node)
    BY DEF Shapes, Record
  <2>2. \A i \in 1..Len(file.nodes) : file.nodes[i].spark \in Sparks
    <3> TAKE i \in 1..Len(file.nodes)
    <3>1. file.nodes[i] \in Node
      BY <2>1
    <3> QED
      BY <3>1 DEF Node
  <2> QED
    BY <2>2 DEF Enrolled
<1> DEFINE op == [NewOperation("disconnect", NoOne) EXCEPT !.phase = "stopping-workers"]
<1>3. /\ op \in Operation /\ op.action = "disconnect" /\ op.cleaned = {}
      /\ op.phase = "stopping-workers"
  BY NewOperationShape DEF Operation, Phases, Shapes
<1>4. UNCHANGED <<stale, boot, fabric, coordinator, worker, accidents, selecting>>
  BY DEF DisconnectBegin, truth
<1>5. CASE file' = Load(file) /\ UNCHANGED <<task, forgotten>>
  BY <1>1, <1>4, <1>5
<1>6. CASE /\ file' = [Load(file) EXCEPT !.op = op]
           /\ task' = [kind |-> "disconnect", pc |-> "clean", existing |-> Load(file), op |-> op,
                       pending |-> Enrolled(Load(file)), failed |-> {}]
           /\ forgotten' = forgotten \cup Leftover(file)
  <2> HIDE DEF op
  <2>1. file' \in Record /\ file'.nodes = file.nodes /\ file'.op = op
    BY <1>1, <1>3, <1>6 DEF Record
  <2>2. task' \in DisconnectTask
    BY <1>1, <1>2, <1>3, <1>6 DEF DisconnectTask
  <2> QED
    BY <1>1, <1>3, <1>4, <1>6, <2>1, <2>2, SameNodes
<1> QED
  BY <1>5, <1>6 DEF DisconnectBegin

\* One Spark is cleaned, or is put down as failed.
LEMMA DisconnectNodeShape ==
    ASSUME Shapes, NEW s \in Sparks, DisconnectNode(s)
    PROVE  /\ task' \in DisconnectTask /\ task'.pc = "clean" /\ task'.existing = task.existing
           /\ task'.op.action = "disconnect" /\ task'.op.phase = task.op.phase
           /\ task'.pending = task.pending \ {s}
           /\ UNCHANGED <<file, stale, boot, coordinator, selecting, forgotten>>
           /\ \/ /\ fabric' = [fabric EXCEPT ![s] = 0] /\ worker' = Stopped({s})
                 /\ task'.failed = task.failed /\ task'.op.cleaned = task.op.cleaned \cup {s}
                 /\ accidents' = IF worker[s] = "pulling" THEN accidents \cup {"late pull"}
                                 ELSE accidents
              \/ /\ UNCHANGED <<fabric, worker, accidents>>
                 /\ task'.failed = task.failed \cup {s} /\ task'.op.cleaned = task.op.cleaned
<1> DEFINE op == [task.op EXCEPT !.cleaned = @ \cup {s}]
<1>1. /\ task \in DisconnectTask /\ task.op \in Operation /\ task.op.action = "disconnect"
      /\ task.pc = "clean"
  BY TaskKinds DEF DisconnectNode, DisconnectTask, Shapes
<1>2. /\ op \in Operation /\ op.action = "disconnect" /\ op.phase = task.op.phase
      /\ op.cleaned = task.op.cleaned \cup {s}
  BY <1>1 DEF Operation
<1>3. UNCHANGED <<file, stale, boot, coordinator, selecting, forgotten>>
  BY DEF DisconnectNode, record
<1>4. CASE /\ fabric' = [fabric EXCEPT ![s] = 0] /\ worker' = Stopped({s})
           /\ task' = [task EXCEPT !.pending = @ \ {s}, !.op.cleaned = @ \cup {s}]
           /\ accidents' = IF worker[s] = "pulling" THEN accidents \cup {"late pull"}
                           ELSE accidents
  <2>1. task' = [task EXCEPT !.pending = @ \ {s}, !.op = op]
    BY <1>4
  <2> HIDE DEF op
  <2>2. /\ task' \in DisconnectTask /\ task'.pc = "clean" /\ task'.existing = task.existing
        /\ task'.op = op /\ task'.pending = task.pending \ {s} /\ task'.failed = task.failed
    BY <1>1, <1>2, <2>1 DEF DisconnectTask
  <2> QED
    BY <1>2, <1>3, <1>4, <2>2
<1>5. CASE /\ task' = [task EXCEPT !.pending = @ \ {s}, !.failed = @ \cup {s}]
           /\ UNCHANGED <<fabric, worker, accidents>>
  <2>1. /\ task' \in DisconnectTask /\ task'.pc = "clean" /\ task'.existing = task.existing
        /\ task'.op = task.op /\ task'.pending = task.pending \ {s}
        /\ task'.failed = task.failed \cup {s}
    BY <1>1, <1>5 DEF DisconnectTask
  <2> QED
    BY <1>1, <1>3, <1>5, <2>1
<1> QED
  BY <1>4, <1>5 DEF DisconnectNode

\* A disconnect past its Sparks clears the coordinator, or fails.
LEMMA DisconnectCoordinatorShape ==
    ASSUME Shapes, DisconnectCoordinator, task' # Idle
    PROVE  /\ task.pending = {} /\ task.failed = {}
           /\ file' \in Record /\ file'.nodes = task.existing.nodes /\ file'.op = task.op
           /\ Enrolled(file') = Enrolled(task.existing)
           /\ task' \in DisconnectTask /\ task'.pc = "clear" /\ task'.existing = task.existing
           /\ task'.op = task.op /\ task'.pending = {} /\ task'.failed = {}
           /\ coordinator' = FALSE
           /\ UNCHANGED <<stale, boot, fabric, worker, selecting, accidents, forgotten>>
<1>1. task \in DisconnectTask /\ task.existing \in Record /\ task.op \in Operation
  BY TaskKinds DEF DisconnectCoordinator, DisconnectTask
<1>2. /\ task.pending = {} /\ task.failed = {} /\ coordinator' = FALSE
      /\ file' = [task.existing EXCEPT !.op = task.op]
      /\ task' = [task EXCEPT !.pc = "clear"]
      /\ UNCHANGED <<stale, boot, fabric, worker, selecting, accidents, forgotten>>
  BY DEF DisconnectCoordinator, FailDisconnect
<1>3. file' \in Record /\ file'.nodes = task.existing.nodes /\ file'.op = task.op
  BY <1>1, <1>2 DEF Record
<1>4. /\ task' \in DisconnectTask /\ task'.pc = "clear" /\ task'.existing = task.existing
      /\ task'.op = task.op /\ task'.pending = {} /\ task'.failed = {}
  BY <1>1, <1>2 DEF DisconnectTask
<1> QED
  BY <1>2, <1>3, <1>4, SameNodes

\* A disconnect that has cleared the record, or failed to.
LEMMA DisconnectClearShape ==
    ASSUME Shapes, DisconnectClear
    PROVE  /\ task' = Idle /\ file' \in Record
           /\ UNCHANGED <<stale, boot, fabric, coordinator, worker, selecting, forgotten>>
           /\ \/ file'.nodes = <<>> /\ Enrolled(file') = {} /\ UNCHANGED accidents
              \/ FailDisconnect
<1>1. task \in DisconnectTask /\ task.op \in Operation
  BY TaskKinds DEF DisconnectClear, DisconnectTask
<1>2. UNCHANGED <<stale, boot, fabric, coordinator, worker, selecting, forgotten>>
  BY DEF DisconnectClear, truth
<1>3. CASE FailDisconnect
  BY <1>1, <1>2, <1>3, FailDisconnectShape
<1>4. CASE /\ file' = [NoCluster EXCEPT !.op = [task.op EXCEPT !.phase = "completed"]]
           /\ task' = Idle /\ UNCHANGED accidents
  <2>1. [task.op EXCEPT !.phase = "completed"] \in Operation
    BY <1>1 DEF Operation, Phases
  <2>2. file' \in Record /\ file'.nodes = <<>>
    <3>1. NoCluster \in Record /\ NoCluster.nodes = <<>>
      BY DEF NoCluster, NoOperation, Record, Operation, Phases
    <3> HIDE DEF NoCluster
    <3> QED
      BY <1>4, <2>1, <3>1 DEF Record
  <2>3. Enrolled(file') = {}
    BY <2>2 DEF Enrolled
  <2> QED
    BY <1>2, <1>4, <2>2, <2>3
<1> QED
  BY <1>3, <1>4 DEF DisconnectClear

\* A reader writes back the record it recovered.
LEMMA WriteRecoveredShape ==
    ASSUME Shapes, WriteRecovered
    PROVE  /\ file' \in Record /\ file'.op.phase = "error" /\ stale' \subseteq stale
           /\ accidents \subseteq accidents'
           /\ "overwritten" \notin accidents' => /\ accidents' = accidents
                                                /\ file' = Recovered(file)
           /\ UNCHANGED <<boot, task, fabric, coordinator, worker, selecting, forgotten>>
BY DEF WriteRecovered, Shapes, truth

\* A connect that fails leaves what it may have installed under its obligation.
LEMMA ConnectFails ==
    ASSUME Shapes, ConnectPreflight \/ ConnectPeer \/ ConnectCoordinator \/ ConnectSave,
           task' = Idle
    PROVE  /\ task \in ConnectTask
           /\ file' \in Record /\ file'.nodes = file.nodes /\ Enrolled(file') = Enrolled(file)
           /\ file'.op.action = "connect" /\ file'.op.host = task.host
           /\ UNCHANGED <<stale, boot, worker, selecting, accidents, forgotten>>
           /\ coordinator' \in BOOLEAN
           /\ \/ task.pc = "preflight" /\ UNCHANGED fabric
              \/ /\ task.pc \in {"peer", "local", "save"} /\ UndoPeer
                 /\ file'.op.rollback
<1>1. task \in ConnectTask
  BY TaskKinds DEF ConnectPreflight, ConnectPeer, ConnectCoordinator, ConnectSave
<1>2. /\ [task EXCEPT !.pc = "peer", !.op.phase = "peer-network",
                     !.index = EnrollmentIndex(file)] # Idle
      /\ [task EXCEPT !.pc = IF task.existing.configured THEN "save" ELSE "local"] # Idle
      /\ [task EXCEPT !.pc = "save", !.op.phase = "coordinator-network"] # Idle
      /\ [task EXCEPT !.pc = "verify", !.op.phase = "verifying"] # Idle
  BY <1>1 DEF ConnectTask, Idle
<1>3. CASE ConnectPreflight
  <2>1. FailConnect(FALSE) /\ UNCHANGED truth /\ task.pc = "preflight"
    BY <1>2, <1>3 DEF ConnectPreflight
  <2> QED
    BY <1>1, <2>1, FailConnectShape DEF FailConnect, truth, history, Shapes
<1>4. CASE ConnectPeer \/ ConnectCoordinator \/ ConnectSave
  <2>1. /\ FailConnect(TRUE) /\ UndoPeer /\ coordinator' \in {FALSE, coordinator}
        /\ UNCHANGED worker /\ task.pc \in {"peer", "local", "save"}
    BY <1>2, <1>4 DEF ConnectPeer, ConnectCoordinator, ConnectSave
  <2> QED
    BY <1>1, <2>1, FailConnectShape DEF FailConnect, history, Shapes
<1> QED
  BY <1>3, <1>4

\* Undoing a connect touches the network of one Spark.
LEMMA UndoPeerShape ==
    ASSUME Shapes, task \in ConnectTask, UndoPeer
    PROVE  /\ At[task.host] \in Sparks
           /\ fabric' \in [Sparks -> Nat]
           /\ \A s \in Sparks \ {At[task.host]} : fabric'[s] = fabric[s]
BY ClusterAssumption DEF UndoPeer, ConnectTask, Shapes

\* The peer's network is installed.
LEMMA ConnectPeerShape ==
    ASSUME Shapes, ConnectPeer, task' # Idle
    PROVE  /\ task \in ConnectTask /\ task.pc = "peer"
           /\ UNCHANGED <<file, stale, boot, coordinator, worker, selecting, accidents, forgotten>>
           /\ fabric' = [fabric EXCEPT ![At[task.host]] = task.index]
           /\ fabric' \in [Sparks -> Nat] /\ At[task.host] \in Sparks /\ task.index # 0
           /\ task' \in ConnectTask /\ task'.pc \in {"local", "save"}
           /\ task'.host = task.host /\ task'.index = task.index
           /\ task'.existing = task.existing /\ task'.op = task.op
<1>1. task \in ConnectTask
  BY TaskKinds DEF ConnectPeer
<1>2. /\ fabric' = [fabric EXCEPT ![At[task.host]] = task.index]
      /\ task' = [task EXCEPT !.pc = IF task.existing.configured THEN "save" ELSE "local"]
      /\ UNCHANGED <<file, stale, boot, coordinator, worker, selecting, accidents, forgotten>>
  BY DEF ConnectPeer, FailConnect, record, history
<1>3. /\ task' \in ConnectTask /\ task'.pc \in {"local", "save"}
      /\ task'.host = task.host /\ task'.index = task.index
      /\ task'.existing = task.existing /\ task'.op = task.op
  BY <1>1, <1>2 DEF ConnectTask
<1>4. At[task.host] \in Sparks /\ task.index \in Nat \ {0} /\ fabric' \in [Sparks -> Nat]
  BY <1>1, <1>2, ClusterAssumption DEF ConnectTask, Shapes
<1> QED
  BY <1>1, <1>2, <1>3, <1>4 DEF ConnectPeer

\* What the remaining steps of a mutation leave alone.
LEMMA MutationFrame ==
    ASSUME Shapes
    PROVE  /\ ConnectPreflight => UNCHANGED <<stale, boot, fabric, coordinator, worker, selecting,
                                             accidents, forgotten>>
           /\ ConnectCoordinator /\ task' # Idle =>
                 coordinator' = TRUE /\ UNCHANGED <<stale, boot, worker, selecting, accidents, forgotten>>
           /\ ConnectSave /\ task' # Idle =>
                 UNCHANGED <<stale, boot, coordinator, worker, selecting, accidents, forgotten>>
           /\ ConnectVerify => UNCHANGED <<stale, boot, fabric, coordinator, worker, selecting,
                                          accidents, forgotten>>
           /\ \A a \in Addresses : Connect(a) =>
                 /\ UNCHANGED <<stale, boot, fabric, coordinator, worker, selecting, accidents>>
                 /\ forgotten' = forgotten \cup Leftover(file) /\ task = Idle
BY DEF ConnectPreflight, ConnectCoordinator, ConnectSave, ConnectVerify, Connect, FailConnect,
       truth, history

\* Every step keeps the shapes.
LEMMA ShapesStep == Shapes /\ [Next]_vars => Shapes'
<1> SUFFICES ASSUME Shapes, [Next]_vars PROVE Shapes'
  OBVIOUS
<1>1. CASE QuietActions
  BY <1>1, QuietStep DEF Quiet, Shapes
<1>2. CASE ReadState
  BY <1>2, RecoveredKeeps DEF ReadState, Shapes, truth
<1>3. CASE WriteRecovered
  BY <1>3, WriteRecoveredShape DEF Shapes
<1>4. ASSUME NEW a \in Addresses, Connect(a)
      PROVE  Shapes'
  <2>1. task'.kind = "connect"
    BY <1>4, ConnectShape DEF ConnectTask
  <2> QED
    BY <1>4, <2>1, ConnectShape, MutationFrame DEF Shapes
<1>5. ASSUME NEW a \in Addresses, Rebind(a)
      PROVE  Shapes'
  BY <1>5, RebindShape DEF Shapes
<1>6. CASE (ConnectPreflight \/ ConnectPeer \/ ConnectCoordinator \/ ConnectSave) /\ task' = Idle
  <2>1. fabric' \in [Sparks -> Nat]
    BY <1>6, ConnectFails, UndoPeerShape DEF Shapes
  <2> QED
    BY <1>6, <2>1, ConnectFails DEF Shapes, Idle
<1>7. CASE ConnectPreflight /\ task' # Idle
  <2>1. task'.kind = "connect"
    BY <1>7, ConnectPreflightShape DEF ConnectTask
  <2> QED
    BY <1>7, <2>1, ConnectPreflightShape, MutationFrame DEF Shapes
<1>8. CASE ConnectPeer /\ task' # Idle
  <2>1. task'.kind = "connect" /\ task.kind = "connect"
    BY <1>8, ConnectPeerShape DEF ConnectTask
  <2>2. task.op.action = "connect" /\ task.op.host = task.host
    BY <2>1, TaskKinds DEF Shapes
  <2> QED
    BY <1>8, <2>1, <2>2, ConnectPeerShape DEF Shapes
<1>9. CASE ConnectCoordinator /\ task' # Idle
  <2>1. task'.kind = "connect"
    BY <1>9, ConnectCoordinatorShape DEF ConnectTask
  <2> QED
    BY <1>9, <2>1, ConnectCoordinatorShape, MutationFrame DEF Shapes
<1>10. CASE ConnectSave /\ task' # Idle
  <2>1. task'.kind = "connect"
    BY <1>10, ConnectSaveShape DEF ConnectTask
  <2> QED
    <3>1. file' \in Record /\ task' \in ConnectTask /\ UNCHANGED fabric
      BY <1>10, ConnectSaveShape
    <3>2. UNCHANGED <<stale, boot, coordinator, worker, selecting>>
      BY <1>10, MutationFrame
    <3>3. task'.op.action = "connect" /\ task'.op.host = task'.host
      BY <1>10, ConnectSaveShape
    <3> QED
      BY <2>1, <3>1, <3>2, <3>3 DEF Shapes
<1>11. CASE ConnectVerify
  <2>1. file' \in Record /\ task' = Idle
    BY <1>11, ConnectVerifyShape
  <2>2. UNCHANGED <<stale, boot, fabric, coordinator, worker, selecting>>
    BY <1>11, MutationFrame
  <2> QED
    BY <2>1, <2>2 DEF Shapes, Idle
<1>12. CASE SetSelection
  BY <1>12, SetSelectionShape DEF Shapes
<1>13. CASE DisconnectBegin
  <2>1. CASE UNCHANGED task
    BY <1>13, <2>1, DisconnectBeginShape DEF Shapes
  <2>2. CASE task' \in DisconnectTask /\ task'.op.action = "disconnect"
    <3>1. task'.kind = "disconnect"
      BY <2>2 DEF DisconnectTask
    <3> QED
      BY <1>13, <2>2, <3>1, DisconnectBeginShape DEF Shapes
  <2> QED
    BY <1>13, <2>1, <2>2, DisconnectBeginShape
<1>14. ASSUME NEW s \in Sparks, DisconnectNode(s)
       PROVE  Shapes'
  <2>1. task'.kind = "disconnect"
    BY <1>14, DisconnectNodeShape DEF DisconnectTask
  <2>2. Stopped({s}) \in [Sparks -> {"none", "pulling", "running"}]
    BY DEF Stopped, Shapes
  <2>3. fabric' \in [Sparks -> Nat] /\ worker' \in [Sparks -> {"none", "pulling", "running"}]
    <3>1. CASE fabric' = [fabric EXCEPT ![s] = 0] /\ worker' = Stopped({s})
      BY <2>2, <3>1 DEF Shapes
    <3>2. CASE UNCHANGED <<fabric, worker>>
      BY <3>2 DEF Shapes
    <3> QED
      BY <1>14, <3>1, <3>2, DisconnectNodeShape
  <2>4. task' \in DisconnectTask /\ task'.op.action = "disconnect"
    BY <1>14, DisconnectNodeShape
  <2>5. UNCHANGED <<file, stale, boot, coordinator, selecting>>
    BY <1>14, DisconnectNodeShape
  <2> QED
    BY <2>1, <2>3, <2>4, <2>5 DEF Shapes
<1>15. CASE DisconnectCoordinator
  <2>1. CASE task' = Idle
    <3>1. task \in DisconnectTask /\ task.op \in Operation
      BY <1>15, TaskKinds DEF DisconnectCoordinator, DisconnectTask
    <3>2. [task EXCEPT !.pc = "clear"] # Idle
      BY <3>1 DEF DisconnectTask, Idle
    <3>3. /\ FailDisconnect
          /\ UNCHANGED <<stale, boot, fabric, coordinator, worker, selecting>>
      BY <1>15, <2>1, <3>2 DEF DisconnectCoordinator
    <3> QED
      BY <2>1, <3>1, <3>3, FailDisconnectShape DEF Shapes, Idle
  <2>2. CASE task' # Idle
    <3>1. task'.kind = "disconnect" /\ task.op.action = "disconnect"
      BY <1>15, <2>2, DisconnectCoordinatorShape, TaskKinds
         DEF DisconnectTask, DisconnectCoordinator, Shapes
    <3> QED
      BY <1>15, <2>2, <3>1, DisconnectCoordinatorShape DEF Shapes
  <2> QED
    BY <2>1, <2>2
<1>16. CASE DisconnectClear
  BY <1>16, DisconnectClearShape DEF Shapes, Idle
<1>17. CASE Restart
  <2>1. /\ UNCHANGED <<file, fabric, coordinator, worker>> /\ task' = Idle /\ stale' = {}
        /\ selecting' = {} /\ boot' = boot + 1
    BY <1>17 DEF Restart, truth
  <2> QED
    BY <2>1 DEF Shapes, Idle
<1>18. CASE UNCHANGED vars
  BY <1>18 DEF vars, record, truth, history, Shapes
<1> QED
  BY <1>1, <1>2, <1>3, <1>4, <1>5, <1>6, <1>7, <1>8, <1>9, <1>10, <1>11, <1>12, <1>13, <1>14,
     <1>15, <1>16, <1>17, <1>18 DEF Next, QuietActions

-----------------------------------------------------------------------------
(* What a disconnect has cleaned stays clean until it is over *)

\* An enrolled Spark waits for its goroutine, or that failed, or the Spark is
\* clean; a worker there was still pulling its image when it was stopped.
Cleaning ==
    task.kind = "disconnect" =>
        /\ task.op.phase = "stopping-workers" /\ file.op.phase # "completed"
        /\ \A s \in Enrolled(task.existing) :
              \/ s \in task.pending \cup task.failed
              \/ fabric[s] = 0 /\ (worker[s] # "none" => "late pull" \in accidents)
        /\ task.pc = "clear" => task.pending = {} /\ task.failed = {} /\ ~coordinator

\* Only Sparks are enrolled, and nodes are theirs.
LEMMA EnrolledAreSparks ==
    ASSUME NEW f \in Record
    PROVE  Enrolled(f) \subseteq Sparks
<1>1. \A i \in 1..Len(f.nodes) : f.nodes[i].spark \in Sparks
  <2> TAKE i \in 1..Len(f.nodes)
  <2>1. f.nodes[i] \in Node
    BY DEF Record
  <2> QED
    BY <2>1 DEF Node
<1> QED
  BY <1>1 DEF Enrolled

\* The only steps that end a mutation or begin another one.
LEMMA TaskMoves ==
    ASSUME Shapes, [Next]_vars
    PROVE  \/ UNCHANGED task /\ (QuietActions \/ ReadState \/ WriteRecovered \/ UNCHANGED vars)
           \/ UNCHANGED task /\ task = Idle
           \/ task'.kind \in {"none", "connect"} /\ (task = Idle \/ task \in ConnectTask \/ Restart)
           \/ DisconnectBegin /\ task' \in DisconnectTask
           \/ \E s \in Sparks : DisconnectNode(s)
           \/ DisconnectCoordinator \/ DisconnectClear
<1>1. CASE QuietActions
  BY <1>1, QuietStep DEF Quiet
<1>2. CASE ReadState \/ WriteRecovered \/ UNCHANGED vars
  BY <1>2 DEF ReadState, WriteRecovered, vars
<1>3. ASSUME NEW a \in Addresses, Connect(a)
      PROVE  task'.kind = "connect" /\ task = Idle
  BY <1>3, ConnectShape, MutationFrame DEF ConnectTask
<1>4. CASE (\E a \in Addresses : Rebind(a)) \/ SetSelection
  BY <1>4 DEF Rebind, SetSelection
<1>5. CASE ConnectPreflight \/ ConnectPeer \/ ConnectCoordinator \/ ConnectSave
  <2>1. task \in ConnectTask
    BY <1>5, TaskKinds DEF ConnectPreflight, ConnectPeer, ConnectCoordinator, ConnectSave
  <2>2. task' = Idle \/ task' \in ConnectTask
    BY <1>5, ConnectPreflightShape, ConnectPeerShape, ConnectCoordinatorShape, ConnectSaveShape
  <2> QED
    BY <2>1, <2>2 DEF ConnectTask, Idle
<1>6. CASE ConnectVerify
  <2>1. task' = Idle
    BY <1>6, ConnectVerifyShape
  <2>2. task \in ConnectTask
    BY <1>6, TaskKinds DEF ConnectVerify
  <2> QED
    BY <2>1, <2>2 DEF Idle
<1>7. CASE DisconnectBegin
  BY <1>7, DisconnectBeginShape DEF DisconnectBegin
<1>8. CASE Restart
  BY <1>8 DEF Restart, Idle
<1> QED
  BY <1>1, <1>2, <1>3, <1>4, <1>5, <1>6, <1>7, <1>8 DEF Next, QuietActions

\* Every step keeps what a disconnect has cleaned.
LEMMA CleaningStep == Shapes /\ Cleaning /\ [Next]_vars => Cleaning'
<1> SUFFICES ASSUME Shapes, Cleaning, [Next]_vars PROVE Cleaning'
  OBVIOUS
<1>1. CASE QuietActions
  <2>1. /\ UNCHANGED <<file, task, fabric, coordinator, accidents>>
        /\ \A s \in Sparks : worker'[s] # "none" => worker[s] # "none" \/ fabric[s] # 0
    BY <1>1, QuietStep DEF Quiet
  <2> SUFFICES ASSUME task.kind = "disconnect", NEW s \in Enrolled(task.existing),
                      fabric[s] = 0, worker[s] # "none" => "late pull" \in accidents,
                      worker'[s] # "none"
               PROVE  "late pull" \in accidents
    BY <2>1 DEF Cleaning, Enrolled
  <2>2. task.existing \in Record
    BY TaskKinds DEF DisconnectTask
  <2>3. s \in Sparks
    BY <2>2, EnrolledAreSparks
  <2> QED
    BY <2>1, <2>3
<1>2. CASE ReadState \/ UNCHANGED vars
  BY <1>2 DEF ReadState, truth, history, record, vars, Cleaning, Enrolled
<1>3. CASE WriteRecovered
  BY <1>3, WriteRecoveredShape DEF Cleaning, Enrolled
<1>4. CASE task'.kind # "disconnect"
  BY <1>4 DEF Cleaning
<1>5. CASE UNCHANGED task /\ task = Idle
  BY <1>5 DEF Cleaning, Idle
<1>6. CASE DisconnectBegin /\ task' \in DisconnectTask
  <2>1. CASE UNCHANGED task
    BY <1>6, <2>1, <1>5 DEF DisconnectBegin, Cleaning, Idle
  <2>2. CASE ~UNCHANGED task
    <3>1. /\ task'.pc = "clean" /\ task'.existing.nodes = file.nodes
          /\ task'.pending = Enrolled(file)
          /\ file'.op = task'.op /\ file'.op.phase = "stopping-workers"
      BY <1>6, <2>2, DisconnectBeginShape
    <3>2. Enrolled(task'.existing) = Enrolled(file)
      BY <3>1, SameNodes
    <3> QED
      BY <3>1, <3>2 DEF Cleaning
  <2> QED
    BY <2>1, <2>2
<1>7. ASSUME NEW s \in Sparks, DisconnectNode(s)
      PROVE  Cleaning'
  <2>1. /\ task'.pc = "clean" /\ task'.existing = task.existing
        /\ task'.op.phase = task.op.phase /\ task'.pending = task.pending \ {s}
        /\ UNCHANGED file
    BY <1>7, DisconnectNodeShape
  <2>2. task.kind = "disconnect" /\ task.existing \in Record
    BY <1>7, TaskKinds DEF DisconnectNode, DisconnectTask
  <2>3. Enrolled(task.existing) \subseteq Sparks
    BY <2>2, EnrolledAreSparks
  <2>4. CASE /\ fabric' = [fabric EXCEPT ![s] = 0] /\ worker' = Stopped({s})
             /\ task'.failed = task.failed
             /\ accidents' = IF worker[s] = "pulling" THEN accidents \cup {"late pull"}
                             ELSE accidents
    <3>1. \A x \in Sparks : worker'[x] # "none" => worker[x] # "none"
      BY <2>4, StoppedShape
    <3>2. worker'[s] # "none" => "late pull" \in accidents'
      BY <2>4 DEF Stopped, Shapes
    <3>3. fabric'[s] = 0 /\ \A x \in Sparks : fabric[x] = 0 => fabric'[x] = 0
      BY <2>4 DEF Shapes
    <3> SUFFICES ASSUME NEW x \in Enrolled(task.existing)
                 PROVE  \/ x \in task'.pending \cup task'.failed
                        \/ fabric'[x] = 0 /\ (worker'[x] # "none" => "late pull" \in accidents')
      BY <2>1, <2>2 DEF Cleaning
    <3> QED
      BY <2>1, <2>2, <2>3, <2>4, <3>1, <3>2, <3>3 DEF Cleaning
  <2>5. CASE UNCHANGED <<fabric, worker, accidents>> /\ task'.failed = task.failed \cup {s}
    BY <2>1, <2>2, <2>5 DEF Cleaning
  <2> QED
    BY <1>7, <2>4, <2>5, DisconnectNodeShape
<1>8. CASE DisconnectCoordinator /\ task' # Idle
  <2>1. /\ task.pending = {} /\ task.failed = {} /\ file'.op = task.op
        /\ task'.existing = task.existing /\ task'.op = task.op
        /\ task'.pending = {} /\ task'.failed = {} /\ coordinator' = FALSE
        /\ UNCHANGED <<fabric, worker, accidents>>
    BY <1>8, DisconnectCoordinatorShape
  <2>2. task.kind = "disconnect"
    BY <1>8 DEF DisconnectCoordinator
  <2> QED
    BY <2>1, <2>2 DEF Cleaning
<1>9. CASE DisconnectClear
  BY <1>9, <1>4, DisconnectClearShape DEF Idle
<1> QED
  BY <1>1, <1>2, <1>3, <1>4, <1>5, <1>6, <1>7, <1>8, <1>9, TaskMoves DEF Idle

\* A disconnect is reported completed only when every Spark it was to clean is
\* clean and the coordinator's network is removed, whatever a launch or a
\* reader of the record does beside it (DisconnectWithProgress, StartWorker).
THEOREM CompletedDisconnectIsClean == Spec => DisconnectIsVerified
<1> DEFINE Verified ==
      task.kind = "disconnect" /\ file'.op.phase = "completed" /\ task' = Idle =>
            /\ ~coordinator
            /\ \A s \in Enrolled(task.existing) :
                  fabric[s] = 0 /\ (worker[s] = "running" => "late pull" \in accidents)
<1>1. Init => Shapes /\ Cleaning
  BY InitShapes DEF Init, Cleaning, Idle
<1>2. Shapes /\ Cleaning /\ [Next]_vars => Verified
  <2> SUFFICES ASSUME Shapes, Cleaning, [Next]_vars,
                      task.kind = "disconnect", file'.op.phase = "completed", task' = Idle
               PROVE  /\ ~coordinator
                      /\ \A s \in Enrolled(task.existing) :
                            fabric[s] = 0 /\ (worker[s] = "running" => "late pull" \in accidents)
    OBVIOUS
  <2>1. task # Idle /\ task \in DisconnectTask /\ task \notin ConnectTask
    BY TaskKinds DEF ConnectTask
  <2>2. ~Restart
    BY DEF Restart, Cleaning
  <2>3. ~(\E s \in Sparks : DisconnectNode(s))
    BY DisconnectNodeShape DEF DisconnectTask, Idle
  <2>4. ~DisconnectCoordinator
    <3> SUFFICES ASSUME DisconnectCoordinator PROVE FALSE
      OBVIOUS
    <3>1. [task EXCEPT !.pc = "clear"] # Idle
      BY <2>1 DEF DisconnectTask, Idle
    <3>2. FailDisconnect
      BY <3>1 DEF DisconnectCoordinator
    <3> QED
      BY <2>1, <3>2, FailDisconnectShape
  <2>5. DisconnectClear
    BY <2>1, <2>2, <2>3, <2>4, TaskMoves DEF DisconnectTask, Idle
  <2> QED
    BY <2>5 DEF DisconnectClear, Cleaning
<1>3. Shapes /\ Cleaning /\ [Next]_vars => (Shapes /\ Cleaning)'
  BY ShapesStep, CleaningStep
<1> QED
  BY <1>1, <1>2, <1>3, PTL DEF Spec, DisconnectIsVerified

-----------------------------------------------------------------------------
(* What an unfinished mutation leaves behind is on record *)

LooseSparks == {s \in Sparks : fabric[s] # 0 /\ s \notin Enrolled(file)}

Owed ==
    {s \in Sparks : /\ file.op.action = "connect" /\ At[file.op.host] = s
                    /\ Active(file.op) \/ file.op.rollback}

\* Who is loose is owed or forgotten.  A connect owes its Spark from the
\* beginning, and makes it loose only until it is saved; a mutation has the
\* nodes of the record it began with.
Tracked ==
    "overwritten" \notin accidents =>
        /\ LooseSparks \subseteq forgotten \cup Owed
        /\ task.kind = "connect" =>
              /\ task.pc # "verify" => file.nodes = task.existing.nodes
              /\ At[task.host] \in Owed
              /\ LooseSparks \subseteq forgotten \cup {At[task.host]}
              /\ task.pc \notin {"local", "save"} => LooseSparks \subseteq forgotten
        /\ task.kind = "disconnect" =>
              file.nodes = task.existing.nodes /\ LooseSparks \subseteq forgotten

\* With the same nodes and networks the same Sparks are loose.
LEMMA SameLoose ==
    ASSUME Enrolled(file') = Enrolled(file), UNCHANGED fabric
    PROVE  LooseSparks' = LooseSparks
BY DEF LooseSparks

\* Reading the record forgives nothing.
LEMMA OwedOnceRead ==
    ASSUME Shapes, file'.op = Load(file).op
    PROVE  Owed \subseteq Owed'
<1>1. file \in Record
  BY DEF Shapes
<1> QED
  BY <1>1, LoadKeeps DEF Owed, Active

\* The host of a connect is owed while its operation is on record.
LEMMA OwesItsHost ==
    ASSUME NEW a \in Addresses, file'.op.action = "connect", file'.op.host = a,
           Active(file'.op) \/ file'.op.rollback
    PROVE  At[a] \in Owed'
BY ClusterAssumption DEF Owed, Active

\* No history is unwritten.
LEMMA AccidentsStay == Shapes /\ [Next]_vars => accidents \subseteq accidents'
<1> SUFFICES ASSUME Shapes, [Next]_vars PROVE accidents \subseteq accidents'
  OBVIOUS
<1>1. CASE QuietActions
  BY <1>1, QuietStep DEF Quiet
<1>2. CASE ReadState \/ UNCHANGED vars
  BY <1>2 DEF ReadState, vars, history
<1>3. CASE WriteRecovered
  BY <1>3, WriteRecoveredShape
<1>4. CASE \E a \in Addresses : Connect(a) \/ Rebind(a)
  BY <1>4 DEF Connect, Rebind, history
<1>5. CASE ConnectPreflight \/ ConnectPeer \/ ConnectCoordinator \/ ConnectSave \/ ConnectVerify
  BY <1>5 DEF ConnectPreflight, ConnectPeer, ConnectCoordinator, ConnectSave, ConnectVerify,
              FailConnect, history
<1>6. CASE SetSelection \/ DisconnectBegin
  BY <1>6 DEF SetSelection, DisconnectBegin, history
<1>7. CASE \E s \in Sparks : DisconnectNode(s)
  BY <1>7 DEF DisconnectNode
<1>8. CASE DisconnectCoordinator \/ DisconnectClear
  BY <1>8 DEF DisconnectCoordinator, DisconnectClear, FailDisconnect
<1>9. CASE Restart
  BY <1>9 DEF Restart
<1> QED
  BY <1>1, <1>2, <1>3, <1>4, <1>5, <1>6, <1>7, <1>8, <1>9 DEF Next, QuietActions

\* A disconnect that fails puts the record back it began with, and notes it
\* when some Sparks are clean already.
LEMMA DisconnectFails ==
    ASSUME Shapes, (DisconnectCoordinator /\ task' = Idle) \/ (DisconnectClear /\ FailDisconnect)
    PROVE  /\ task \in DisconnectTask /\ task' = Idle
           /\ file' \in Record /\ file'.nodes = task.existing.nodes
           /\ Enrolled(file') = Enrolled(task.existing)
           /\ accidents' = IF task.op.cleaned = {} THEN accidents
                           ELSE accidents \cup {"half disconnected"}
           /\ UNCHANGED <<fabric, forgotten>>
<1>1. task \in DisconnectTask
  BY TaskKinds DEF DisconnectCoordinator, DisconnectClear
<1>2. [task EXCEPT !.pc = "clear"] # Idle
  BY <1>1 DEF DisconnectTask, Idle
<1>3. FailDisconnect /\ UNCHANGED <<fabric, forgotten>>
  BY <1>2 DEF DisconnectCoordinator, DisconnectClear, truth
<1> QED
  BY <1>1, <1>3, FailDisconnectShape DEF FailDisconnect

\* Every step keeps track of what is left behind.
LEMMA TrackedStep == Shapes /\ Cleaning /\ Tracked /\ [Next]_vars => Tracked'
<1> SUFFICES ASSUME Shapes, Cleaning, Tracked, [Next]_vars, "overwritten" \notin accidents'
             PROVE  Tracked'
  BY DEF Tracked
<1> DEFINE h == At[task.host]
<1>0. "overwritten" \notin accidents
  BY AccidentsStay
<1>1. CASE QuietActions
  BY <1>1, QuietStep DEF Quiet, Tracked, LooseSparks, Owed, Enrolled
<1>2. CASE ReadState \/ UNCHANGED vars
  BY <1>2 DEF ReadState, truth, history, record, vars, Tracked, LooseSparks, Owed, Enrolled
<1>3. CASE WriteRecovered
  <2>1. file' = Recovered(file) /\ UNCHANGED <<task, fabric, forgotten>> /\ file \in Record
    BY <1>3, WriteRecoveredShape DEF Shapes
  <2>2. Enrolled(file') = Enrolled(file) /\ file'.nodes = file.nodes /\ Owed \subseteq Owed'
    BY <2>1, RecoveredKeeps DEF Owed
  <2> QED
    BY <1>0, <2>1, <2>2, SameLoose DEF Tracked
<1>4. ASSUME NEW a \in Addresses, Connect(a)
      PROVE  Tracked'
  <2>1. LooseSparks' = LooseSparks /\ forgotten' = forgotten \cup Leftover(file)
    BY <1>4, ConnectShape, MutationFrame, SameLoose
  <2>2. LooseSparks' \subseteq forgotten'
    BY <1>0, <2>1 DEF Tracked, LooseSparks, Owed, Leftover
  <2>3. /\ task'.kind = "connect" /\ task'.host = a
        /\ file'.nodes = file.nodes /\ task'.existing.nodes = file.nodes
    BY <1>4, ConnectShape DEF ConnectTask
  <2>4. At[a] \in Owed'
    BY <1>4, ConnectShape, OwesItsHost
  <2> QED
    BY <2>2, <2>3, <2>4 DEF Tracked
<1>5. CASE (\E a \in Addresses : Rebind(a)) \/ SetSelection
  <2>1. task = Idle /\ UNCHANGED <<task, fabric, forgotten>> /\ Enrolled(file') = Enrolled(file)
        /\ file'.op = Load(file).op
    BY <1>5, RebindShape, SetSelectionShape DEF Rebind, SetSelection
  <2> QED
    BY <1>0, <2>1, OwedOnceRead, SameLoose DEF Tracked, Idle
<1>6. CASE (ConnectPreflight \/ ConnectPeer \/ ConnectCoordinator \/ ConnectSave) /\ task' = Idle
  <2>1. /\ task \in ConnectTask /\ Enrolled(file') = Enrolled(file)
        /\ file'.op.action = "connect" /\ file'.op.host = task.host /\ UNCHANGED forgotten
    BY <1>6, ConnectFails
  <2>2. task.kind = "connect" /\ task.host \in Addresses
    BY <2>1 DEF ConnectTask
  <2>3. CASE task.pc = "preflight" /\ UNCHANGED fabric
    <3>1. LooseSparks' \subseteq forgotten'
      BY <1>0, <2>1, <2>2, <2>3, SameLoose DEF Tracked
    <3> QED
      BY <1>6, <3>1 DEF Tracked, Idle
  <2>4. CASE UndoPeer /\ file'.op.rollback
    <3>1. LooseSparks' \subseteq LooseSparks \cup {h}
      BY <2>1, <2>4, UndoPeerShape DEF LooseSparks
    <3>2. h \in Owed'
      BY <2>1, <2>2, <2>4, OwesItsHost
    <3> QED
      BY <1>0, <1>6, <2>1, <2>2, <3>1, <3>2 DEF Tracked, Idle
  <2> QED
    BY <1>6, <2>3, <2>4, ConnectFails
<1>7. CASE ConnectPreflight /\ task' # Idle
  <2>1. /\ task.kind = "connect" /\ task.pc = "preflight"
        /\ task'.kind = "connect" /\ task'.pc = "peer" /\ task'.host = task.host
        /\ task.host \in Addresses /\ task'.existing = task.existing
        /\ file'.nodes = file.nodes /\ UNCHANGED forgotten
    BY <1>7, ConnectPreflightShape, TaskKinds, MutationFrame DEF ConnectPreflight, ConnectTask
  <2>2. LooseSparks' = LooseSparks
    BY <1>7, ConnectPreflightShape, MutationFrame, SameLoose
  <2>3. h \in Owed'
    BY <1>7, <2>1, ConnectPreflightShape, OwesItsHost
  <2> QED
    BY <1>0, <2>1, <2>2, <2>3 DEF Tracked
<1>8. CASE ConnectPeer /\ task' # Idle
  <2>1. /\ task.kind = "connect" /\ task.pc = "peer" /\ task'.kind = "connect"
        /\ task'.pc \in {"local", "save"} /\ task'.host = task.host
        /\ task'.existing = task.existing /\ UNCHANGED <<file, forgotten>>
    BY <1>8, ConnectPeerShape DEF ConnectTask
  <2>2. LooseSparks' \subseteq LooseSparks \cup {h}
    BY <1>8, ConnectPeerShape DEF LooseSparks, Shapes, Enrolled
  <2>3. Owed' = Owed
    BY <2>1 DEF Owed
  <2> QED
    BY <1>0, <2>1, <2>2, <2>3 DEF Tracked
<1>9. CASE ConnectCoordinator /\ task' # Idle
  <2>1. /\ task.kind = "connect" /\ task.pc = "local"
        /\ task'.kind = "connect" /\ task'.pc = "save" /\ task'.host = task.host
        /\ task.host \in Addresses /\ task'.existing = task.existing
        /\ file'.nodes = file.nodes /\ UNCHANGED forgotten
    BY <1>9, ConnectCoordinatorShape, TaskKinds, MutationFrame DEF ConnectCoordinator, ConnectTask
  <2>2. LooseSparks' = LooseSparks
    BY <1>9, ConnectCoordinatorShape, SameLoose
  <2>3. h \in Owed'
    BY <1>9, <2>1, ConnectCoordinatorShape, OwesItsHost
  <2> QED
    BY <1>0, <2>1, <2>2, <2>3 DEF Tracked
<1>10. CASE ConnectSave /\ task' # Idle
  <2>1. /\ task.kind = "connect" /\ task.pc = "save" /\ task.host \in Addresses
        /\ task'.kind = "connect" /\ task'.pc = "verify" /\ task'.host = task.host
        /\ UNCHANGED <<fabric, forgotten>>
    BY <1>10, ConnectSaveShape, TaskKinds, MutationFrame DEF ConnectSave, ConnectTask
  <2>2. Enrolled(file') = Enrolled(task.existing) \cup {h}
    BY <1>10, ConnectSaveShape
  <2>3. Enrolled(task.existing) = Enrolled(file)
    BY <1>0, <2>1, SameNodes DEF Tracked
  <2>4. LooseSparks' = LooseSparks \ {h}
    BY <2>1, <2>2, <2>3 DEF LooseSparks
  <2>5. h \in Owed'
    BY <1>10, <2>1, ConnectSaveShape, OwesItsHost
  <2> QED
    BY <1>0, <2>1, <2>4, <2>5 DEF Tracked
<1>11. CASE ConnectVerify
  <2>1. task.kind = "connect" /\ task.pc = "verify" /\ task' = Idle /\ UNCHANGED forgotten
    BY <1>11, ConnectVerifyShape, MutationFrame DEF ConnectVerify
  <2>2. LooseSparks' = LooseSparks
    BY <1>11, ConnectVerifyShape, MutationFrame, SameLoose
  <2> QED
    BY <1>0, <2>1, <2>2 DEF Tracked, Idle
<1>12. CASE DisconnectBegin
  <2>1. LooseSparks' = LooseSparks /\ file'.nodes = file.nodes /\ task = Idle
    BY <1>12, DisconnectBeginShape, SameLoose DEF DisconnectBegin
  <2>2. CASE file'.op = Load(file).op /\ UNCHANGED <<task, forgotten>>
    BY <1>0, <2>1, <2>2, OwedOnceRead DEF Tracked, Idle
  <2>3. CASE /\ task' \in DisconnectTask /\ task'.existing.nodes = file.nodes
             /\ forgotten' = forgotten \cup Leftover(file)
    <3>1. LooseSparks' \subseteq forgotten'
      BY <1>0, <2>1, <2>3 DEF Tracked, LooseSparks, Owed, Leftover
    <3>2. task'.kind = "disconnect"
      BY <2>3 DEF DisconnectTask
    <3> QED
      BY <2>1, <2>3, <3>1, <3>2 DEF Tracked
  <2> QED
    BY <1>12, <2>2, <2>3, DisconnectBeginShape
<1>13. ASSUME NEW s \in Sparks, DisconnectNode(s)
       PROVE  Tracked'
  <2>1. /\ task.kind = "disconnect" /\ task'.kind = "disconnect"
        /\ task'.existing = task.existing /\ UNCHANGED <<file, forgotten>>
    BY <1>13, DisconnectNodeShape DEF DisconnectNode, DisconnectTask
  <2>2. fabric' = [fabric EXCEPT ![s] = 0] \/ UNCHANGED fabric
    BY <1>13, DisconnectNodeShape
  <2>3. LooseSparks' \subseteq LooseSparks
    BY <2>1, <2>2 DEF LooseSparks, Shapes, Enrolled
  <2> QED
    BY <1>0, <2>1, <2>3 DEF Tracked
<1>14. CASE (DisconnectCoordinator /\ task' = Idle) \/ (DisconnectClear /\ FailDisconnect)
  <2>1. /\ task.kind = "disconnect" /\ task' = Idle
        /\ Enrolled(file') = Enrolled(task.existing) /\ UNCHANGED <<fabric, forgotten>>
    BY <1>14, DisconnectFails DEF DisconnectTask
  <2>2. LooseSparks' = LooseSparks
    BY <1>0, <2>1, SameNodes, SameLoose DEF Tracked
  <2> QED
    BY <1>0, <2>1, <2>2 DEF Tracked, Idle
<1>15. CASE DisconnectCoordinator /\ task' # Idle
  <2>1. /\ task.kind = "disconnect" /\ task'.kind = "disconnect"
        /\ task'.existing = task.existing /\ file'.nodes = task.existing.nodes
        /\ UNCHANGED <<fabric, forgotten>> /\ Enrolled(file') = Enrolled(task.existing)
    BY <1>15, DisconnectCoordinatorShape DEF DisconnectCoordinator, DisconnectTask
  <2>2. LooseSparks' = LooseSparks
    BY <1>0, <2>1, SameNodes, SameLoose DEF Tracked
  <2> QED
    BY <1>0, <2>1, <2>2 DEF Tracked
<1>16. CASE DisconnectClear /\ ~FailDisconnect
  <2>1. /\ task.kind = "disconnect" /\ task.pc = "clear" /\ task' = Idle
        /\ UNCHANGED <<fabric, forgotten>> /\ Enrolled(file') = {}
    BY <1>16, DisconnectClearShape DEF DisconnectClear
  <2>2. \A s \in Enrolled(file) : fabric[s] = 0
    BY <1>0, <2>1, SameNodes DEF Cleaning, Tracked
  <2>3. LooseSparks' \subseteq LooseSparks
    BY <2>1, <2>2 DEF LooseSparks
  <2> QED
    BY <1>0, <2>1, <2>3 DEF Tracked, Idle
<1>17. CASE Restart
  <2>1. UNCHANGED <<file, fabric, forgotten>> /\ task' = Idle
    BY <1>17 DEF Restart, truth
  <2>2. LooseSparks' = LooseSparks /\ Owed' = Owed
    BY <2>1, SameLoose DEF Owed
  <2> QED
    BY <1>0, <2>1, <2>2 DEF Tracked, Idle
<1>18. CASE ConnectPreflight \/ ConnectPeer \/ ConnectCoordinator \/ ConnectSave
  BY <1>18, <1>6, <1>7, <1>8, <1>9, <1>10
<1>19. CASE DisconnectCoordinator \/ DisconnectClear
  BY <1>19, <1>14, <1>15, <1>16
<1> QED
  BY <1>1, <1>2, <1>3, <1>4, <1>5, <1>11, <1>12, <1>13, <1>17, <1>18, <1>19
     DEF Next, QuietActions

\* A Spark with a Cloudless network is enrolled, or a mutation works on it, or
\* the record names it with its obligation, or a later operation's record has
\* replaced that: unless a reader without the lock overwrote a newer record
\* (CreateWithProgress, DisconnectWithProgress, load).
THEOREM LeftoversAreOnRecord == Spec => []LeftoversAreRecorded
<1>1. Init => Shapes /\ Cleaning /\ Tracked
  BY InitShapes DEF Init, Cleaning, Tracked, LooseSparks, Idle
<1>2. Shapes /\ Cleaning /\ Tracked /\ [Next]_vars => (Shapes /\ Cleaning /\ Tracked)'
  BY ShapesStep, CleaningStep, TrackedStep
<1>3. Tracked => LeftoversAreRecorded
  BY DEF Tracked, LeftoversAreRecorded, LooseSparks, Owed
<1> QED
  BY <1>1, <1>2, <1>3, PTL DEF Spec

-----------------------------------------------------------------------------
(* No Spark is enrolled twice *)

Distinct(f) ==
    \A i, j \in 1..Len(f.nodes) : i # j => f.nodes[i].spark # f.nodes[j].spark

Installed == \A s \in Enrolled(file) : fabric[s] # 0

\* Unless a disconnect has begun to clean them, every enrolled Spark has its
\* network, so that the preflight of a connect sees that it is enrolled; until
\* it is saved, the Spark of a connect is not enrolled.
Once ==
    accidents \subseteq {"late pull"} =>
        /\ Distinct(file)
        /\ (task.kind = "disconnect" => task.op.cleaned = {}) => Installed
        /\ task.kind = "connect" =>
              /\ task.pc \in {"peer", "local", "save"} => At[task.host] \notin Enrolled(file)
              /\ task.pc \in {"local", "save"} => fabric[At[task.host]] # 0

\* A record without nodes enrolls nobody twice.
LEMMA NothingIsDistinct ==
    ASSUME NEW f, f.nodes = <<>>
    PROVE  Distinct(f)
BY DEF Distinct

\* A Spark that is new makes a record no less distinct.
LEMMA AppendDistinct ==
    ASSUME NEW f \in Record, NEW g \in Record, NEW n \in Node,
           g.nodes = Append(f.nodes, n), Distinct(f), n.spark \notin Enrolled(f)
    PROVE  Distinct(g)
<1>1. f.nodes \in Seq(Node)
  BY DEF Record
<1>2. /\ Len(g.nodes) = Len(f.nodes) + 1 /\ Len(f.nodes) \in Nat
      /\ g.nodes[Len(f.nodes) + 1] = n
      /\ \A i \in 1..Len(f.nodes) : g.nodes[i] = f.nodes[i]
  BY <1>1
<1>3. \A i \in 1..Len(g.nodes) : i \in 1..Len(f.nodes) \/ i = Len(f.nodes) + 1
  BY <1>2
<1>4. \A i \in 1..Len(f.nodes) : f.nodes[i].spark # n.spark
  BY DEF Enrolled
<1> QED
  BY <1>2, <1>3, <1>4 DEF Distinct

\* With the same nodes and networks nothing is different.
LEMMA SameInstalled ==
    ASSUME file'.nodes = file.nodes, Enrolled(file') = Enrolled(file), UNCHANGED fabric
    PROVE  Distinct(file') = Distinct(file) /\ Installed' = Installed
BY DEF Distinct, Installed

\* Every step enrolls a Spark at most once.
LEMMA OnceStep == Shapes /\ Tracked /\ Once /\ [Next]_vars => Once'
<1> SUFFICES ASSUME Shapes, Tracked, Once, [Next]_vars, accidents' \subseteq {"late pull"}
             PROVE  Once'
  BY DEF Once
<1> DEFINE h == At[task.host]
<1>0. accidents \subseteq {"late pull"} /\ "overwritten" \notin accidents
  BY AccidentsStay
<1>1. CASE QuietActions
  BY <1>1, QuietStep DEF Quiet, Once, Distinct, Installed, Enrolled
<1>2. CASE ReadState \/ UNCHANGED vars
  BY <1>2 DEF ReadState, truth, history, record, vars, Once, Distinct,
                Installed, Enrolled
<1>3. CASE WriteRecovered
  <2>1. file' = Recovered(file) /\ UNCHANGED <<task, fabric>> /\ file \in Record
    BY <1>3, WriteRecoveredShape DEF Shapes
  <2>2. Enrolled(file') = Enrolled(file) /\ file'.nodes = file.nodes
    BY <2>1, RecoveredKeeps
  <2> QED
    BY <1>0, <2>1, <2>2, SameInstalled DEF Once
<1>4. ASSUME NEW a \in Addresses, Connect(a)
      PROVE  Once'
  <2>1. /\ task = Idle /\ task'.kind = "connect" /\ task'.pc = "preflight"
        /\ file'.nodes = file.nodes /\ Enrolled(file') = Enrolled(file) /\ UNCHANGED fabric
    BY <1>4, ConnectShape, MutationFrame DEF ConnectTask
  <2> QED
    BY <1>0, <2>1, SameInstalled DEF Once, Idle
<1>5. CASE \E a \in Addresses : Rebind(a)
  <2>1. /\ task = Idle /\ UNCHANGED <<task, fabric>> /\ Enrolled(file') = Enrolled(file)
        /\ Len(file'.nodes) = Len(file.nodes)
        /\ \A j \in 1..Len(file.nodes) : file'.nodes[j].spark = file.nodes[j].spark
    BY <1>5, RebindShape DEF Rebind
  <2>2. Distinct(file) => Distinct(file')
    BY <2>1 DEF Distinct
  <2> QED
    BY <1>0, <2>1, <2>2 DEF Once, Installed, Idle
<1>6. CASE SetSelection
  <2>1. /\ task = Idle /\ UNCHANGED <<task, fabric>>
        /\ file'.nodes = file.nodes /\ Enrolled(file') = Enrolled(file)
    BY <1>6, SetSelectionShape DEF SetSelection
  <2> QED
    BY <1>0, <2>1, SameInstalled DEF Once, Idle
<1>7. CASE (ConnectPreflight \/ ConnectPeer \/ ConnectCoordinator \/ ConnectSave) /\ task' = Idle
  <2>1. /\ task \in ConnectTask /\ Enrolled(file') = Enrolled(file)
        /\ file'.nodes = file.nodes
    BY <1>7, ConnectFails
  <2>2. task.kind = "connect"
    BY <2>1 DEF ConnectTask
  <2>3. CASE UNCHANGED fabric
    BY <1>0, <1>7, <2>1, <2>2, <2>3, SameInstalled DEF Once, Idle
  <2>4. CASE task.pc \in {"peer", "local", "save"} /\ UndoPeer
    <3>1. Enrolled(file) \subseteq Sparks
      BY EnrolledAreSparks DEF Shapes
    <3>2. \A s \in Enrolled(file) : fabric'[s] = fabric[s]
      BY <1>0, <2>1, <2>2, <2>4, <3>1, UndoPeerShape DEF Once
    <3>3. (Installed => Installed') /\ (Distinct(file) => Distinct(file'))
      BY <2>1, <3>2 DEF Installed, Distinct
    <3> QED
      BY <1>0, <1>7, <2>1, <2>2, <3>3 DEF Once, Idle
  <2> QED
    BY <1>7, <2>3, <2>4, ConnectFails
<1>8. CASE ConnectPreflight /\ task' # Idle
  <2>1. /\ task.kind = "connect" /\ task'.kind = "connect" /\ task'.pc = "peer"
        /\ task'.host = task.host /\ file'.nodes = file.nodes
        /\ Enrolled(file') = Enrolled(file) /\ UNCHANGED fabric
    BY <1>8, ConnectPreflightShape, MutationFrame DEF ConnectPreflight, ConnectTask
  <2>2. fabric[h] = 0
    BY <1>8, ConnectPreflightShape DEF PreflightReady
  <2>3. Installed => h \notin Enrolled(file)
    BY <2>2 DEF Installed
  <2> QED
    BY <1>0, <2>1, <2>3, SameInstalled DEF Once
<1>9. CASE ConnectPeer /\ task' # Idle
  <2>1. /\ task.kind = "connect" /\ task.pc = "peer" /\ task'.kind = "connect"
        /\ task'.host = task.host /\ UNCHANGED file /\ h \in Sparks /\ task.index # 0
        /\ fabric' = [fabric EXCEPT ![h] = task.index]
    BY <1>9, ConnectPeerShape DEF ConnectTask
  <2>2. \A s \in Sparks : fabric[s] # 0 \/ s = h => fabric'[s] # 0
    BY <2>1 DEF Shapes
  <2>3. Enrolled(file) \subseteq Sparks
    BY EnrolledAreSparks DEF Shapes
  <2> QED
    BY <1>0, <2>1, <2>2, <2>3 DEF Once, Distinct, Installed, Enrolled
<1>10. CASE ConnectCoordinator /\ task' # Idle
  <2>1. /\ task.kind = "connect" /\ task.pc = "local" /\ task'.kind = "connect"
        /\ task'.host = task.host /\ file'.nodes = file.nodes
        /\ Enrolled(file') = Enrolled(file) /\ UNCHANGED fabric
    BY <1>10, ConnectCoordinatorShape DEF ConnectCoordinator, ConnectTask
  <2> QED
    BY <1>0, <2>1, SameInstalled DEF Once
<1>11. CASE ConnectSave /\ task' # Idle
  <2>1. /\ task.kind = "connect" /\ task.pc = "save" /\ task'.kind = "connect"
        /\ task'.pc = "verify" /\ UNCHANGED fabric
        /\ file' \in Record /\ file \in Record /\ task.existing \in Record
        /\ Enrolled(file') = Enrolled(task.existing) \cup {h}
    BY <1>11, ConnectSaveShape, TaskKinds DEF ConnectSave, ConnectTask, Shapes
  <2>2. PICK n \in Node : n.spark = h /\ file'.nodes = Append(task.existing.nodes, n)
    BY <1>11, ConnectSaveShape
  <2>3. file.nodes = task.existing.nodes /\ Enrolled(task.existing) = Enrolled(file)
    BY <1>0, <2>1, SameNodes DEF Tracked
  <2>4. Distinct(file')
    BY <1>0, <2>1, <2>2, <2>3, AppendDistinct DEF Once
  <2> QED
    BY <1>0, <2>1, <2>3, <2>4 DEF Once, Installed
<1>12. CASE ConnectVerify
  <2>1. /\ task.kind = "connect" /\ task' = Idle /\ file'.nodes = file.nodes
        /\ Enrolled(file') = Enrolled(file) /\ UNCHANGED fabric
    BY <1>12, ConnectVerifyShape, MutationFrame DEF ConnectVerify
  <2> QED
    BY <1>0, <2>1, SameInstalled DEF Once, Idle
<1>13. CASE DisconnectBegin
  <2>1. /\ task = Idle /\ file'.nodes = file.nodes /\ Enrolled(file') = Enrolled(file)
        /\ UNCHANGED fabric /\ (UNCHANGED task \/ task'.kind = "disconnect")
    BY <1>13, DisconnectBeginShape DEF DisconnectBegin, DisconnectTask
  <2> QED
    BY <1>0, <2>1, SameInstalled DEF Once, Idle
<1>14. ASSUME NEW s \in Sparks, DisconnectNode(s)
       PROVE  Once'
  <2>1. task.kind = "disconnect" /\ task'.kind = "disconnect" /\ UNCHANGED file
    BY <1>14, DisconnectNodeShape DEF DisconnectNode, DisconnectTask
  <2>2. \/ s \in task'.op.cleaned
        \/ UNCHANGED fabric /\ task'.op.cleaned = task.op.cleaned
    BY <1>14, DisconnectNodeShape
  <2> QED
    BY <1>0, <2>1, <2>2 DEF Once, Distinct, Installed, Enrolled
<1>15. CASE (DisconnectCoordinator /\ task' = Idle) \/ (DisconnectClear /\ FailDisconnect)
  <2>1. /\ task.kind = "disconnect" /\ task' = Idle /\ file'.nodes = task.existing.nodes
        /\ Enrolled(file') = Enrolled(task.existing) /\ UNCHANGED fabric
        /\ accidents' = IF task.op.cleaned = {} THEN accidents
                        ELSE accidents \cup {"half disconnected"}
    BY <1>15, DisconnectFails DEF DisconnectTask
  <2>2. file'.nodes = file.nodes /\ Enrolled(file') = Enrolled(file)
    BY <1>0, <2>1, SameNodes DEF Tracked
  <2> QED
    BY <1>0, <2>1, <2>2, SameInstalled DEF Once, Idle
<1>16. CASE DisconnectCoordinator /\ task' # Idle
  <2>1. /\ task.kind = "disconnect" /\ task'.kind = "disconnect" /\ task'.op = task.op
        /\ file'.nodes = task.existing.nodes
        /\ Enrolled(file') = Enrolled(task.existing) /\ UNCHANGED fabric
    BY <1>16, DisconnectCoordinatorShape DEF DisconnectCoordinator, DisconnectTask
  <2>2. file'.nodes = file.nodes /\ Enrolled(file') = Enrolled(file)
    BY <1>0, <2>1, SameNodes DEF Tracked
  <2> QED
    BY <1>0, <2>1, <2>2, SameInstalled DEF Once
<1>17. CASE DisconnectClear /\ ~FailDisconnect
  <2>1. task' = Idle /\ file'.nodes = <<>> /\ Enrolled(file') = {}
    BY <1>17, DisconnectClearShape
  <2>2. Distinct(file')
    BY <2>1, NothingIsDistinct
  <2>3. Installed'
    BY <2>1 DEF Installed
  <2> QED
    BY <2>1, <2>2, <2>3 DEF Once, Idle
<1>18. CASE Restart
  <2>1. /\ UNCHANGED <<file, fabric>> /\ task' = Idle
        /\ task.kind = "disconnect" => task.op.cleaned = {}
    BY <1>18 DEF Restart, truth
  <2> QED
    BY <1>0, <2>1 DEF Once, Distinct, Installed, Enrolled, Idle
<1>19. CASE ConnectPreflight \/ ConnectPeer \/ ConnectCoordinator \/ ConnectSave
  BY <1>19, <1>7, <1>8, <1>9, <1>10, <1>11
<1>20. CASE DisconnectCoordinator \/ DisconnectClear
  BY <1>20, <1>15, <1>16, <1>17
<1> QED
  BY <1>1, <1>2, <1>3, <1>4, <1>5, <1>6, <1>12, <1>13, <1>14, <1>18, <1>19, <1>20
     DEF Next, QuietActions

\* No Spark is enrolled under two addresses, as long as no disconnect that had
\* cleaned some Sparks has failed and no reader without the lock has overwritten
\* a newer record (canEnroll, PreflightCheck, CreateWithProgress).
THEOREM SparksAreEnrolledOnce == Spec => []EachSparkOnce
<1>1. Init => Shapes /\ Cleaning /\ Tracked /\ Once
  BY InitShapes DEF Init, Cleaning, Tracked, Once, LooseSparks, Distinct, Installed, Idle, NoCluster,
                      Enrolled
<1>2. Shapes /\ Cleaning /\ Tracked /\ Once /\ [Next]_vars
        => (Shapes /\ Cleaning /\ Tracked /\ Once)'
  BY ShapesStep, CleaningStep, TrackedStep, OnceStep
<1>3. Once => EachSparkOnce
  BY DEF Once, EachSparkOnce, Distinct
<1> QED
  BY <1>1, <1>2, <1>3, PTL DEF Spec

=============================================================================
