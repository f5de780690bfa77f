------------------------ MODULE RecipeLifecycleProofs ------------------------
(***************************************************************************)
(* Proofs about RecipeLifecycle: the types of its state, that two recipes  *)
(* never have their runtimes up together, that what is up is on record,    *)
(* that what is selected is what answers, and that the journal and the     *)
(* selection agree.                                                        *)
(***************************************************************************)
EXTENDS RecipeLifecycle, SequenceTheorems, FiniteSetTheorems, TLAPS

-----------------------------------------------------------------------------
(* What one operation knows of itself *)

\* Labels only a stop can be at, only a run, and those that start nothing.
StopLabels ==
    {"halt", "unproxy", "unload", "reconcile-active", "close", "closing", "report"}
RunLabels ==
    {"prepare", "prepared", "switching", "switch", "starting", "start", "verifying",
     "verify", "proxy", "claim", "promote", "commit", "activate"}
ClaimedLabels == {"prepare", "prepared", "switching", "switch", "starting", "start"}
QuietLabels == {"done", "succeed", "retry", "count", "answer"}
RetryLabels == {"retry", "count", "answer"}
BootLabels == {"resume", "restart", "reconnect", "reactivate"}

\* The operation holds what a runtime needs, or may still come to.
Live(op) ==
    \/ "backend" \in op.claims
    \/ op.kind = "run" /\ op.interrupted \notin Settled

Launching(op, at) == at \in RunLabels \/ (at = "lock" /\ op.kind = "run")
Stopping(op, at) == at \in StopLabels \/ (at = "lock" /\ op.kind = "stop")

\* Containers that a restart has brought back without a claim.
Unclaimed(op, at) ==
    /\ crashes > 0 /\ op.kind = "run"
    /\ at \in {"done", "queued", "reconcile"} \cup BootLabels
    /\ op.phase \in {"active", "recovering"} /\ op.interrupted \notin Settled

Phased(op, at) ==
    /\ op.phase # "recovering" => op.interrupted = op.phase
    /\ op.phase = "active" => op.kind = "run"
    /\ op.phase \in Settled \cup {"active"} => at \in {"done", "succeed"}
    /\ at \in RetryLabels \cup BootLabels \cup {"queued"} => op.phase = "recovering"

Placed(op, at) ==
    /\ at \in StopLabels => op.kind = "stop"
    /\ at \in RunLabels \cup BootLabels => op.kind = "run"
    /\ Launching(op, at) \/ at \in BootLabels => op.interrupted \notin Settled
    /\ at \in RetryLabels => op.interrupted \in Settled
    /\ at \in BootLabels \cup {"queued", "reconcile"} => crashes > 0

Covered(i, op, at) ==
    /\ at \in ClaimedLabels => "backend" \in op.claims
    /\ i \in backend => "backend" \in op.claims \/ Unclaimed(op, at)
    /\ crashes = 0 /\ ~Fails("journal") /\ proxy = i => "proxy" \in op.claims \/ at = "claim"

Sound(i) ==
    /\ Phased(ops[i], work[i].at)
    /\ Placed(ops[i], work[i].at)
    /\ Covered(i, ops[i], work[i].at)

-----------------------------------------------------------------------------
(* What operations know of each other *)

\* Beside a stop nothing starts.
StopIsAlone ==
    \A i \in Ids : Stopping(ops[i], work[i].at) =>
        \A j \in Ids \ {i} : work[j].at \in QuietLabels

OneLive == \A i, j \in Ids : Live(ops[i]) /\ Live(ops[j]) => i = j

\* What a stop has not taken down has a claim.
Bare(i) ==
    /\ i \in backend /\ ops[i].kind = "run" /\ ops[i].phase = "active"
    /\ "backend" \notin ops[i].claims

Emptied ==
    \A i \in Ids : work[i].at \in {"unproxy", "unload", "reconcile-active", "close"} =>
        \A j \in Ids : Bare(j) => ops[j].recipe # ops[i].recipe

\* No restart so far, or containers can be removed.
Tame == crashes = 0 \/ ~Sticks

Accounts ==
    /\ \A i \in Ids : Sound(i)
    /\ StopIsAlone /\ OneLive /\ Emptied

IInv == TypeOK /\ (Tame => Accounts)

-----------------------------------------------------------------------------
(* Lemmas about single entries *)

Marks == {None, "inventory", "other"}
Entered == Phases \ {"checking"}

\* What a step writes to the journal and to the list of tasks.
WritesOps(i) ==
    /\ ops' \in Seq(Operations) /\ Len(ops') = Len(ops)
    /\ \A j \in Ids \ {i} : ops'[j] = ops[j]
WritesWork(i) ==
    /\ work' \in Seq(Tasks) /\ Len(work') = Len(work)
    /\ \A j \in Ids \ {i} : work'[j] = work[j]

\* The entries of the two sequences have their types.
LEMMA Entries ==
  ASSUME TypeOK, NEW i \in Ids
  PROVE  ops[i] \in Operations /\ work[i] \in Tasks
<1>1. ops \in Seq(Operations) /\ i \in 1..Len(ops)
  BY DEF TypeOK, Ids
<1>2. work \in Seq(Tasks) /\ i \in 1..Len(work)
  BY DEF TypeOK, Ids
<1> QED  BY <1>1, <1>2, ElementOfSeq

\* Replacing one entry of the journal.
LEMMA OpWritten ==
  ASSUME TypeOK, NEW i \in Ids, NEW op \in Operations, ops' = [ops EXCEPT ![i] = op]
  PROVE  WritesOps(i) /\ ops'[i] = op
<1>1. ops \in Seq(Operations) /\ i \in 1..Len(ops)
  BY DEF TypeOK, Ids
<1> QED  BY <1>1, ExceptSeq DEF WritesOps, Ids

\* Replacing one entry of the list of tasks.
LEMMA TaskWritten ==
  ASSUME TypeOK, NEW i \in Ids, NEW task \in Tasks, work' = [work EXCEPT ![i] = task]
  PROVE  WritesWork(i) /\ work'[i] = task
<1>1. work \in Seq(Tasks) /\ i \in 1..Len(work) /\ Len(work) = Len(ops)
  BY DEF TypeOK, Ids
<1> QED  BY <1>1, ExceptSeq DEF WritesWork, Ids

\* Steps that leave the journal alone.
LEMMA OpsKept ==
  ASSUME TypeOK, UNCHANGED ops, NEW i
  PROVE  WritesOps(i) /\ ops'[i] = ops[i] /\ Ids' = Ids
BY DEF WritesOps, TypeOK, Ids

\* The same for the tasks.
LEMMA WorkKept ==
  ASSUME TypeOK, UNCHANGED work, NEW i
  PROVE  WritesWork(i) /\ work'[i] = work[i]
BY DEF WritesWork, TypeOK

\* Go
LEMMA Went ==
  ASSUME TypeOK, NEW i \in Ids, NEW label \in Labels, Go(i, label)
  PROVE  WritesWork(i) /\ work'[i].at = label
<1> DEFINE task == [work[i] EXCEPT !.at = label]
<1>1. task \in Tasks /\ task.at = label
  BY Entries DEF Tasks
<1>2. work' = [work EXCEPT ![i] = task]
  BY DEF Go
<1> HIDE DEF task
<1> QED  BY <1>1, <1>2, TaskWritten

\* GoNoting
LEMMA Noted ==
  ASSUME TypeOK, NEW i \in Ids, NEW label \in Labels, NEW dirty \in BOOLEAN,
         GoNoting(i, label, dirty)
  PROVE  WritesWork(i) /\ work'[i].at = label
<1> DEFINE task == [work[i] EXCEPT !.at = label, !.dirty = work[i].dirty \/ dirty]
<1>1. task \in Tasks /\ task.at = label
  BY Entries DEF Tasks
<1>2. work' = [work EXCEPT ![i] = task]
  <2>1. work' = [work EXCEPT ![i].at = label, ![i].dirty = @ \/ dirty]
    BY DEF GoNoting
  <2>2. i \in DOMAIN work
    BY DEF TypeOK, Ids
  <2> QED  BY <2>1, <2>2
<1> HIDE DEF task
<1> QED  BY <1>1, <1>2, TaskWritten

\* A task that is over.
LEMMA Rested ==
  ASSUME TypeOK, NEW i \in Ids, work' = [work EXCEPT ![i] = Resting]
  PROVE  WritesWork(i) /\ work'[i].at = "done"
<1>1. Resting \in Tasks /\ Resting.at = "done"
  BY DEF Resting, Tasks, Labels
<1> QED  BY <1>1, TaskWritten

\* Writing the claims of an operation.
LEMMA Claimed ==
  ASSUME TypeOK, NEW i \in Ids, NEW claims \in SUBSET Ephemeral,
         ops' = [ops EXCEPT ![i].claims = claims]
  PROVE  WritesOps(i) /\ ops'[i] = [ops[i] EXCEPT !.claims = claims]
<1> DEFINE op == [ops[i] EXCEPT !.claims = claims]
<1>1. op \in Operations
  BY Entries DEF Operations
<1>2. ops' = [ops EXCEPT ![i] = op]
  OBVIOUS
<1> HIDE DEF op
<1>3. WritesOps(i) /\ ops'[i] = op
  BY <1>1, <1>2, OpWritten
<1> QED  BY <1>3 DEF op

\* What a transition leaves alone and what it writes.
LEMMA MovedFields ==
  ASSUME NEW op \in Operations, NEW phase \in Entered, NEW cause \in Marks
  PROVE  /\ Moved(op, phase, cause) \in Operations
         /\ Moved(op, phase, cause).kind = op.kind
         /\ Moved(op, phase, cause).recipe = op.recipe
         /\ Moved(op, phase, cause).claims = op.claims
         /\ Moved(op, phase, cause).phase = phase
         /\ Moved(op, phase, cause).interrupted =
              IF phase = "recovering" THEN op.interrupted ELSE phase
<1>1. phase # "recovering" => phase \in Phases \ {"checking", "recovering"}
  BY DEF Entered
<1> QED  BY <1>1 DEF Operations, Moved, Entered, Marks

\* The labels of the checkpoints are labels.
LEMMA CheckpointLabels ==
  {"prepared", "switching", "starting", "verifying", "activate"} \subseteq Labels
BY DEF Labels, Checkpoints

\* Recording
LEMMA Recorded ==
  ASSUME TypeOK, NEW i \in Ids, NEW phase \in Entered, NEW cause \in Marks,
         Recording(i, phase, cause)
  PROVE  WritesOps(i) /\ ops'[i] = Moved(ops[i], phase, cause)
<1>1. Moved(ops[i], phase, cause) \in Operations
  BY Entries, MovedFields
<1>2. ops' = [ops EXCEPT ![i] = Moved(ops[i], phase, cause)]
  BY DEF Recording
<1> QED  BY <1>1, <1>2, OpWritten

-----------------------------------------------------------------------------
(* A step that works on one operation *)

EmptyingLabels == {"unproxy", "unload", "reconcile-active", "close"}

Touches(i) ==
    /\ WritesOps(i) /\ WritesWork(i)
    /\ backend' \subseteq backend \cup {i} /\ proxy' \in {proxy, None, Managed, i}
    /\ crashes' = crashes

\* It stays sound and disturbs no other operation.
Settles(i) ==
    /\ ops'[i].kind = ops[i].kind /\ ops'[i].recipe = ops[i].recipe
    /\ Live(ops'[i]) => Live(ops[i])
    /\ Stopping(ops'[i], work'[i].at) => Stopping(ops[i], work[i].at)
    /\ work[i].at \in QuietLabels => work'[i].at \in QuietLabels
    /\ work'[i].at \in EmptyingLabels => work[i].at \in EmptyingLabels
    /\ work[i].at \in QuietLabels /\ Bare(i)' => Bare(i)
    /\ Sound(i)'

Good(i) == TypeOK' /\ Ids' = Ids /\ Touches(i) /\ (Tame /\ Sound(i) => Settles(i))

\* The types of the variables a step may write beside the two sequences.
Kept ==
    /\ holder' \in Ids \cup {None} /\ inference' \in Selections /\ managed' \in BOOLEAN
    /\ backend' \subseteq Ids /\ proxy' \in Ids \cup {Managed, None}
    /\ boot' \in {"off", "read", "apply"} /\ UNCHANGED setting

\* Types, from what the writes to the sequences keep.
LEMMA Framed ==
  ASSUME TypeOK, NEW i, NEW j, WritesOps(j), WritesWork(i), Kept
  PROVE  TypeOK' /\ Ids' = Ids
<1>1. Len(ops') = Len(ops) /\ Ids' = Ids
  BY DEF WritesOps, Ids
<1> QED  BY <1>1 DEF WritesOps, WritesWork, Kept, TypeOK, Ids, setting

\* Steps that stay good for one operation keep the invariant.
LEMMA LocalStep ==
  ASSUME TypeOK, Accounts, NEW i \in Ids, Ids' = Ids, Touches(i), Settles(i)
  PROVE  Accounts'
<1>1. \A j \in Ids \ {i} : ops'[j] = ops[j] /\ work'[j] = work[j]
  BY DEF Touches, WritesOps, WritesWork
<1>2. \A j \in Ids \ {i} : /\ j \in backend' => j \in backend
                           /\ proxy' = j => proxy = j
  BY OwnersAssumption DEF Touches, Ids, TypeOK
<1>3. \A j \in Ids : Sound(j)'
  <2> SUFFICES ASSUME NEW j \in Ids \ {i} PROVE Sound(j)'
    BY DEF Settles
  <2>1. Sound(j) /\ crashes' = crashes
    BY DEF Accounts, Touches
  <2> QED  BY <1>1, <1>2, <2>1 DEF Sound, Phased, Placed, Covered, Unclaimed, Fails
<1>4. StopIsAlone'
  <2> SUFFICES ASSUME NEW a \in Ids, Stopping(ops'[a], work'[a].at), NEW b \in Ids \ {a}
               PROVE  work'[b].at \in QuietLabels
    BY DEF StopIsAlone
  <2>1. Stopping(ops[a], work[a].at)
    BY <1>1 DEF Settles
  <2>2. work[b].at \in QuietLabels
    BY <2>1 DEF Accounts, StopIsAlone
  <2> QED  BY <1>1, <2>2 DEF Settles
<1>5. OneLive'
  BY <1>1 DEF Settles, Accounts, OneLive
<1>6. Emptied'
  <2> SUFFICES ASSUME NEW a \in Ids, work'[a].at \in EmptyingLabels, NEW b \in Ids, Bare(b)'
               PROVE  ops'[b].recipe # ops'[a].recipe
    BY DEF Emptied, EmptyingLabels
  <2>1. work[a].at \in EmptyingLabels
    BY <1>1 DEF Settles
  <2>2. a # b
    <3>1. Placed(ops[a], work[a].at)'
      BY <1>3 DEF Sound
    <3> QED  BY <3>1 DEF Placed, Bare, EmptyingLabels, StopLabels
  <2>3. Stopping(ops[a], work[a].at)
    BY <2>1 DEF Stopping, EmptyingLabels, StopLabels
  <2>4. work[b].at \in QuietLabels
    BY <2>2, <2>3 DEF Accounts, StopIsAlone
  <2>5. Bare(b)
    BY <1>1, <1>2, <2>4 DEF Settles, Bare
  <2>6. ops[b].recipe # ops[a].recipe
    BY <2>1, <2>5 DEF Accounts, Emptied, EmptyingLabels
  <2> QED  BY <1>1, <2>6 DEF Settles
<1> QED  BY <1>3, <1>4, <1>5, <1>6 DEF Accounts

-----------------------------------------------------------------------------
(* runLocalRecipe *)

\* RunLock claims the backend before anything is started.
LEMMA RunLockGood ==
  ASSUME TypeOK, NEW i \in Ids, RunLock(i)
  PROVE  Good(i)
<1>1. At(i, "lock") /\ ops[i].kind = "run" /\ holder' = i
      /\ UNCHANGED <<boot, inference, managed, backend, proxy, clustered, crashes>>
  BY DEF RunLock, runtime, setting
<1>2. CASE ops' = [ops EXCEPT ![i].claims = @ \cup {"backend"}] /\ Go(i, "prepare")
  <2>1. ops[i].claims \cup {"backend"} \in SUBSET Ephemeral
    BY Entries, ClaimsAssumption DEF Operations
  <2>2. WritesOps(i) /\ ops'[i] = [ops[i] EXCEPT !.claims = ops[i].claims \cup {"backend"}]
    BY <1>2, <2>1, Claimed
  <2>3. WritesWork(i) /\ work'[i].at = "prepare"
    BY <1>2, Went DEF Labels
  <2>4. TypeOK' /\ Ids' = Ids
    BY <1>1, <2>2, <2>3, Framed DEF Kept, TypeOK, setting
  <2>5. Touches(i)
    BY <1>1, <2>2, <2>3 DEF Touches
  <2>6. ASSUME Sound(i) PROVE Settles(i)
    BY <1>1, <2>2, <2>3, <2>6, Entries DEF Settles, Sound, Phased, Placed, Covered,
       Live, Launching, Stopping, Unclaimed, At, Operations, QuietLabels, EmptyingLabels,
       StopLabels, RunLabels, ClaimedLabels, RetryLabels, BootLabels
  <2> QED  BY <2>4, <2>5, <2>6 DEF Good
<1>3. CASE UNCHANGED ops /\ Go(i, "finish")
  <2>2. WritesOps(i) /\ ops'[i] = ops[i]
    BY <1>3, OpsKept
  <2>3. WritesWork(i) /\ work'[i].at = "finish"
    BY <1>3, Went DEF Labels
  <2>4. TypeOK' /\ Ids' = Ids
    BY <1>1, <2>2, <2>3, Framed DEF Kept, TypeOK, setting
  <2>5. Touches(i)
    BY <1>1, <2>2, <2>3 DEF Touches
  <2>6. ASSUME Sound(i) PROVE Settles(i)
    BY <1>1, <2>2, <2>3, <2>6, Entries DEF Settles, Sound, Phased, Placed, Covered,
       Live, Launching, Stopping, Unclaimed, At, Operations, QuietLabels, EmptyingLabels,
       StopLabels, RunLabels, ClaimedLabels, RetryLabels, BootLabels
  <2> QED  BY <2>4, <2>5, <2>6 DEF Good
<1> QED  BY <1>2, <1>3 DEF RunLock

\* What makes a step good, put together.
LEMMA MakeGood ==
  ASSUME TypeOK, NEW i \in Ids, WritesOps(i), WritesWork(i), Kept,
         backend' \subseteq backend \cup {i}, proxy' \in {proxy, None, Managed, i},
         Tame /\ Sound(i) => Settles(i)
  PROVE  Good(i)
<1>1. TypeOK' /\ Ids' = Ids
  BY Framed
<1> QED  BY <1>1 DEF Good, Touches, Kept, setting

\* A goroutine may go from one label to the other without writing anything down.
Onward(from, to) ==
    /\ {from, to} \cap (QuietLabels \cup BootLabels \cup {"queued", "reconcile", "claim", "lock"})
         = {}
    /\ \A labels \in {RunLabels, StopLabels, ClaimedLabels, EmptyingLabels} :
          to \in labels => from \in labels

\* Steps that write nothing to the journal and start nothing.
LEMMA WalkGood ==
  ASSUME TypeOK, NEW i \in Ids, UNCHANGED ops, WritesWork(i), Kept,
         Onward(work[i].at, work'[i].at), backend' \subseteq backend,
         proxy' \in {proxy, None, Managed}
  PROVE  Good(i)
<1>1. WritesOps(i) /\ ops'[i] = ops[i]
  BY OpsKept
<1>2. crashes' = crashes /\ (i \in backend' => i \in backend) /\ (proxy' = i => proxy = i)
  BY OwnersAssumption DEF Kept, setting, Ids, TypeOK
<1>3. work[i].at \notin QuietLabels \cup BootLabels \cup {"queued", "reconcile", "claim", "lock"}
      /\ work'[i].at \notin QuietLabels \cup BootLabels \cup {"queued", "reconcile", "claim", "lock"}
      /\ (work'[i].at \in RunLabels => work[i].at \in RunLabels)
      /\ (work'[i].at \in StopLabels => work[i].at \in StopLabels)
      /\ (work'[i].at \in ClaimedLabels => work[i].at \in ClaimedLabels)
      /\ (work'[i].at \in EmptyingLabels => work[i].at \in EmptyingLabels)
  BY DEF Onward
<1>4. ASSUME Sound(i) PROVE Sound(i)'
  BY <1>1, <1>2, <1>3, <1>4 DEF Sound, Phased, Placed, Covered, Launching, Unclaimed,
     QuietLabels, RetryLabels, BootLabels, Fails
<1>5. ASSUME Sound(i) PROVE Settles(i)
  BY <1>1, <1>2, <1>3, <1>4, <1>5 DEF Settles, Live, Stopping
<1> QED  BY <1>1, <1>5, MakeGood

\* RunPrepare
LEMMA RunPrepareGood ==
  ASSUME TypeOK, NEW i \in Ids, RunPrepare(i)
  PROVE  Good(i)
<1>1. work[i].at = "prepare" /\ (Go(i, "prepared") \/ Go(i, "finish"))
      /\ UNCHANGED <<ops, holder, boot, inference, managed, backend, proxy, setting>>
  BY DEF RunPrepare, At, journal, runtime
<1>2. {"prepared", "finish"} \subseteq Labels
  BY CheckpointLabels DEF Labels
<1>3. WritesWork(i) /\ work'[i].at \in {"prepared", "finish"}
  BY <1>1, <1>2, Went
<1>4. Onward(work[i].at, work'[i].at)
  BY <1>1, <1>3 DEF Onward, QuietLabels, BootLabels, RunLabels, StopLabels, ClaimedLabels,
     EmptyingLabels
<1>5. Kept
  BY <1>1 DEF Kept, TypeOK, Ids
<1> QED  BY <1>1, <1>3, <1>4, <1>5, WalkGood

\* RunCheckpoint: the phases of a run are written before what they announce.
LEMMA RunCheckpointGood ==
  ASSUME TypeOK, NEW i \in Ids, RunCheckpoint(i)
  PROVE  Good(i)
<1>1. PICK c \in Checkpoints : At(i, c.at) /\ Enter(i, c.phase, c.then, c.otherwise)
  BY DEF RunCheckpoint
<1>2. UNCHANGED <<holder, boot, inference, managed, backend, proxy, setting>> /\ Kept
  BY DEF RunCheckpoint, runtime, Kept, TypeOK, WritesOps, Ids
<1>3. /\ c.at \in {"prepared", "switching", "starting", "verifying", "activate"}
      /\ c.phase \in {"prepared", "switching", "starting", "verifying", "active"}
      /\ c.then \in {"switching", "switch", "start", "verify", "succeed"}
      /\ c.otherwise \in {"finish", "rollback"}
      /\ c.then \in ClaimedLabels => c.at \in ClaimedLabels
      /\ c.phase = "active" <=> c.then = "succeed"
  BY DEF Checkpoints, ClaimedLabels
<1>4. c.phase \in Entered /\ None \in Marks /\ c.then \in Labels /\ c.otherwise \in Labels
  BY <1>3, CheckpointLabels DEF Labels, Entered, Phases, Marks
<1>5. CASE Recording(i, c.phase, None) /\ Go(i, c.then)
  <2>1. WritesOps(i) /\ ops'[i] = Moved(ops[i], c.phase, None)
    BY <1>4, <1>5, Recorded
  <2>2. WritesWork(i) /\ work'[i].at = c.then
    BY <1>4, <1>5, Went
  <2>3. /\ ops'[i].kind = ops[i].kind /\ ops'[i].recipe = ops[i].recipe
        /\ ops'[i].claims = ops[i].claims /\ ops'[i].phase = c.phase
        /\ ops'[i].interrupted = c.phase
    BY <1>3, <1>4, <2>1, Entries, MovedFields
  <2>4. ASSUME Sound(i) PROVE Settles(i)
    BY <1>1, <1>2, <1>3, <2>2, <2>3, <2>4 DEF Settles, Sound, Phased, Placed, Covered,
       Live, Launching, Stopping, Unclaimed, At, QuietLabels, EmptyingLabels, Settled,
       StopLabels, RunLabels, ClaimedLabels, RetryLabels, BootLabels, setting
  <2> QED  BY <1>2, <2>1, <2>2, <2>4, MakeGood
<1>6. CASE UNCHANGED ops /\ Go(i, c.otherwise)
  <2>1. WritesWork(i) /\ work'[i].at = c.otherwise
    BY <1>4, <1>6, Went
  <2>2. Onward(work[i].at, work'[i].at)
    BY <1>1, <1>3, <2>1 DEF At, Onward, QuietLabels, BootLabels, RunLabels, StopLabels,
       ClaimedLabels, EmptyingLabels
  <2> QED  BY <1>2, <1>6, <2>1, <2>2, WalkGood
<1> QED  BY <1>1, <1>5, <1>6 DEF Enter, Unrecorded

\* RunSwitch
LEMMA RunSwitchGood ==
  ASSUME TypeOK, NEW i \in Ids, RunSwitch(i)
  PROVE  Good(i)
<1>1. work[i].at = "switch" /\ (Go(i, "starting") \/ Go(i, "rollback"))
      /\ managed' \in {managed, FALSE} /\ proxy' \in {proxy, None}
      /\ UNCHANGED <<ops, holder, boot, inference, backend, setting>>
  BY DEF RunSwitch, At, journal
<1>2. {"starting", "rollback"} \subseteq Labels
  BY CheckpointLabels DEF Labels
<1>3. WritesWork(i) /\ work'[i].at \in {"starting", "rollback"}
  BY <1>1, <1>2, Went
<1>4. Onward(work[i].at, work'[i].at)
  BY <1>1, <1>3 DEF Onward, QuietLabels, BootLabels, RunLabels, StopLabels, ClaimedLabels,
     EmptyingLabels
<1>5. Kept
  BY <1>1 DEF Kept, TypeOK, Ids
<1> QED  BY <1>1, <1>3, <1>4, <1>5, WalkGood

\* RunStart: what is started has been claimed.
LEMMA RunStartGood ==
  ASSUME TypeOK, NEW i \in Ids, RunStart(i)
  PROVE  Good(i)
<1>1. work[i].at = "start" /\ (Go(i, "verifying") \/ Go(i, "rollback"))
      /\ backend' \subseteq backend \cup {i}
      /\ UNCHANGED <<ops, holder, boot, inference, managed, proxy, setting>>
  BY DEF RunStart, At, journal
<1>2. {"verifying", "rollback"} \subseteq Labels
  BY CheckpointLabels DEF Labels
<1>3. WritesWork(i) /\ work'[i].at \in {"verifying", "rollback"}
  BY <1>1, <1>2, Went
<1>4. WritesOps(i) /\ ops'[i] = ops[i]
  BY <1>1, OpsKept
<1>5. Kept
  BY <1>1 DEF Kept, TypeOK, Ids
<1>6. ASSUME Sound(i) PROVE Settles(i)
  BY <1>1, <1>3, <1>4, <1>6 DEF Settles, Sound, Phased, Placed, Covered,
     Live, Launching, Stopping, Unclaimed, At, QuietLabels, EmptyingLabels,
     StopLabels, RunLabels, ClaimedLabels, RetryLabels, BootLabels, setting
<1> QED  BY <1>1, <1>3, <1>4, <1>5, <1>6, MakeGood

\* RunVerify, RunPromote and RunCommit
LEMMA RunLookGood ==
  ASSUME TypeOK, NEW i \in Ids, RunVerify(i) \/ RunPromote(i) \/ RunCommit(i)
  PROVE  Good(i)
<1>1. work[i].at \in {"verify", "promote", "commit"}
      /\ (Go(i, "proxy") \/ Go(i, "commit") \/ Go(i, "activate") \/ Go(i, "rollback"))
      /\ inference' \in {inference, [recipe |-> ops[i].recipe, unloaded |-> FALSE]}
      /\ UNCHANGED <<ops, holder, boot, managed, backend, proxy, setting>>
  BY DEF RunVerify, RunPromote, RunCommit, At, journal, runtime
<1>2. {"proxy", "commit", "activate", "rollback"} \subseteq Labels
  BY CheckpointLabels DEF Labels
<1>3. WritesWork(i) /\ work'[i].at \in {"proxy", "commit", "activate", "rollback"}
  BY <1>1, <1>2, Went
<1>4. Onward(work[i].at, work'[i].at)
  BY <1>1, <1>3 DEF Onward, QuietLabels, BootLabels, RunLabels, StopLabels, ClaimedLabels,
     EmptyingLabels
<1>5. inference' \in Selections
  <2>1. inference \in Selections /\ ops[i].recipe \in Recipes
    BY Entries DEF TypeOK, Operations
  <2>2. [recipe |-> ops[i].recipe, unloaded |-> FALSE] \in Selections
    BY <2>1 DEF Selections
  <2> QED  BY <1>1, <2>1, <2>2
<1>6. Kept
  BY <1>1, <1>5 DEF Kept, TypeOK, Ids
<1> QED  BY <1>1, <1>3, <1>4, <1>6, WalkGood

\* RunProxy: the claim on the proxy is the next thing to do.
LEMMA RunProxyGood ==
  ASSUME TypeOK, NEW i \in Ids, RunProxy(i)
  PROVE  Good(i)
<1>1. work[i].at = "proxy"
      /\ UNCHANGED <<ops, holder, boot, inference, managed, backend, setting>>
  BY DEF RunProxy, At, journal
<1>2. CASE proxy' = i /\ Go(i, "claim")
  <2>1. WritesWork(i) /\ work'[i].at = "claim"
    BY <1>2, Went DEF Labels
  <2>2. WritesOps(i) /\ ops'[i] = ops[i]
    BY <1>1, OpsKept
  <2>3. Kept
    BY <1>1, <1>2 DEF Kept, TypeOK, Ids
  <2>4. ASSUME Sound(i) PROVE Settles(i)
    BY <1>1, <2>1, <2>2, <2>4 DEF Settles, Sound, Phased, Placed, Covered,
       Live, Launching, Stopping, Unclaimed, At, QuietLabels, EmptyingLabels,
       StopLabels, RunLabels, ClaimedLabels, RetryLabels, BootLabels, setting
  <2> QED  BY <1>1, <1>2, <2>1, <2>2, <2>3, <2>4, MakeGood
<1>3. CASE UNCHANGED proxy /\ Go(i, "rollback")
  <2>1. WritesWork(i) /\ work'[i].at = "rollback"
    BY <1>3, Went DEF Labels
  <2>2. Onward(work[i].at, work'[i].at)
    BY <1>1, <2>1 DEF Onward, QuietLabels, BootLabels, RunLabels, StopLabels,
       ClaimedLabels, EmptyingLabels
  <2>3. Kept
    BY <1>1, <1>3 DEF Kept, TypeOK, Ids
  <2> QED  BY <1>1, <1>3, <2>1, <2>2, <2>3, WalkGood
<1> QED  BY <1>2, <1>3 DEF RunProxy

\* RunClaim: without a failure of the journal the proxy is on record.
LEMMA RunClaimGood ==
  ASSUME TypeOK, NEW i \in Ids, RunClaim(i)
  PROVE  Good(i)
<1>1. work[i].at = "claim" /\ proxy' \in {proxy, None}
      /\ UNCHANGED <<holder, boot, inference, managed, backend, setting>>
  BY DEF RunClaim, At
<1>2. PICK saved \in SUBSET Ephemeral :
         /\ ops' = [ops EXCEPT ![i].claims = @ \cup saved]
         /\ "proxy" \in saved \/ Fails("journal")
         /\ Go(i, "promote") \/ Go(i, "rollback")
  <2>1. {{}, {"proxy"}, {"proxy", "port"}} \subseteq SUBSET Ephemeral
    BY ClaimsAssumption
  <2> QED  BY <2>1 DEF RunClaim
<1>3. ops[i].claims \cup saved \in SUBSET Ephemeral
  BY Entries DEF Operations
<1>4. WritesOps(i) /\ ops'[i] = [ops[i] EXCEPT !.claims = ops[i].claims \cup saved]
  BY <1>2, <1>3, Claimed
<1>5. WritesWork(i) /\ work'[i].at \in {"promote", "rollback"}
  <2>1. {"promote", "rollback"} \subseteq Labels
    BY DEF Labels
  <2> QED  BY <1>2, <2>1, Went
<1>6. /\ ops'[i].kind = ops[i].kind /\ ops'[i].recipe = ops[i].recipe
      /\ ops'[i].claims = ops[i].claims \cup saved
      /\ ops'[i].phase = ops[i].phase /\ ops'[i].interrupted = ops[i].interrupted
  BY <1>4, Entries DEF Operations
<1>7. Kept
  BY <1>1 DEF Kept, TypeOK, Ids
<1>8. ASSUME Sound(i) PROVE Settles(i)
  BY <1>1, <1>2, <1>5, <1>6, <1>8 DEF Settles, Sound, Phased, Placed, Covered,
     Live, Launching, Stopping, Unclaimed, At, QuietLabels, EmptyingLabels, Bare,
     StopLabels, RunLabels, ClaimedLabels, RetryLabels, BootLabels, setting
<1> QED  BY <1>1, <1>4, <1>5, <1>7, <1>8, MakeGood

\* RunSucceed
LEMMA RunSucceedGood ==
  ASSUME TypeOK, NEW i \in Ids, RunSucceed(i)
  PROVE  Good(i)
<1>1. work[i].at = "succeed" /\ holder' = None /\ work' = [work EXCEPT ![i] = Resting]
      /\ UNCHANGED <<ops, boot, inference, managed, backend, proxy, setting>>
  BY DEF RunSucceed, At, journal, runtime
<1>2. WritesWork(i) /\ work'[i].at = "done"
  BY <1>1, Rested
<1>3. WritesOps(i) /\ ops'[i] = ops[i]
  BY <1>1, OpsKept
<1>4. Kept
  BY <1>1 DEF Kept, TypeOK, Ids
<1>5. ASSUME Sound(i) PROVE Settles(i)
  BY <1>1, <1>2, <1>3, <1>5 DEF Settles, Sound, Phased, Placed, Covered, Bare,
     Live, Launching, Stopping, Unclaimed, At, QuietLabels, EmptyingLabels,
     StopLabels, RunLabels, ClaimedLabels, RetryLabels, BootLabels, setting
<1> QED  BY <1>1, <1>2, <1>3, <1>4, <1>5, MakeGood

-----------------------------------------------------------------------------
(* Rolling back and finishing *)

\* A selection that is marked unloaded is a selection.
LEMMA SafeSelection ==
  ASSUME NEW selection \in Selections
  PROVE  Safe(selection) \in Selections
BY DEF Safe, Selections

\* RollbackUnlock, RollbackClean, Restore, Relaunch, AwaitRelaunch and Withdraw
LEMMA RollbackGood ==
  ASSUME TypeOK, NEW i \in Ids, RollbackStep(i)
  PROVE  Good(i)
<1> DEFINE next == {"undo", "restore", "conclude", "finish", "relaunch", "await", "withdraw"}
<1>1. ops[i].previous \in Selections /\ Safe(ops[i].previous) \in Selections
      /\ AfterRestore(i) \in {"conclude", "finish"}
      /\ [inference EXCEPT !.unloaded = FALSE] \in Selections /\ inference \in Selections
  BY Entries, SafeSelection DEF Operations, AfterRestore, TypeOK, Selections
<1>2. work[i].at \in {"rollback", "undo", "restore", "relaunch", "await", "withdraw"}
      /\ UNCHANGED <<ops, boot, setting>>
  BY DEF RollbackStep, RollbackUnlock, RollbackClean, Restore, Relaunch, AwaitRelaunch,
     Withdraw, At, journal
<1>3. \E to \in next, dirty \in BOOLEAN : Go(i, to) \/ GoNoting(i, to, dirty)
  BY <1>1 DEF RollbackStep, RollbackUnlock, RollbackClean, Restore, Relaunch, AwaitRelaunch,
     Withdraw
<1>4. next \subseteq Labels
  BY DEF Labels
<1>5. WritesWork(i) /\ work'[i].at \in next
  BY <1>3, <1>4, Went, Noted
<1>6. Onward(work[i].at, work'[i].at)
  BY <1>2, <1>5 DEF Onward, QuietLabels, BootLabels, RunLabels, StopLabels, ClaimedLabels,
     EmptyingLabels
<1>7. inference' \in Selections
  BY <1>1 DEF RollbackStep, RollbackUnlock, RollbackClean, Restore, Relaunch,
     AwaitRelaunch, Withdraw
<1>8. /\ backend' \subseteq backend /\ proxy' \in {proxy, None, Managed}
      /\ holder' \in {holder, None} /\ managed' \in BOOLEAN
  BY DEF RollbackStep, RollbackUnlock, RollbackClean, Restore, Relaunch, AwaitRelaunch,
     Withdraw, WithoutRuntime, runtime, TypeOK
<1>9. Kept
  BY <1>2, <1>7, <1>8 DEF Kept, TypeOK, Ids
<1> QED  BY <1>2, <1>5, <1>6, <1>8, <1>9, WalkGood

\* What a cleanup may leave up; where containers can be removed, nothing of its own.
LEMMA Cleaned ==
  ASSUME TypeOK, NEW i, NEW failed, CleanUp(i, failed)
  PROVE  /\ backend' \subseteq backend /\ proxy' \in {proxy, None} /\ UNCHANGED managed
         /\ ~Sticks => i \notin backend'
BY DEF CleanUp, WithoutRuntime

\* What an inventory leaves claimed.
LEMMA RemainingClaims ==
  ASSUME TypeOK, NEW i \in Ids, NEW b, NEW p, NEW remaining \in Remaining(i, b, p)
  PROVE  /\ remaining \in SUBSET Ephemeral /\ remaining \subseteq ops[i].claims
         /\ i \in b /\ "backend" \in ops[i].claims => "backend" \in remaining
         /\ p = i /\ "proxy" \in ops[i].claims => "proxy" \in remaining
<1>1. ops[i].claims \subseteq Ephemeral
  BY Entries DEF Operations
<1> DEFINE present == Present(i, managed, b, p)
<1>2. remaining \subseteq ops[i].claims /\ present \subseteq remaining
  BY DEF Remaining, Present
<1>3. i \in b /\ "backend" \in ops[i].claims => "backend" \in present
  BY DEF Present
<1>4. p = i /\ "proxy" \in ops[i].claims => "proxy" \in present
  BY DEF Present
<1> QED  BY <1>1, <1>2, <1>3, <1>4

\* What Finish writes to the list of tasks.
LEMMA FinishWork ==
  ASSUME TypeOK, NEW i \in Ids, Finish(i)
  PROVE  WritesWork(i) /\ work'[i].at = "inventory"
<1>1. \E abort, dirty \in BOOLEAN :
         work' = [work EXCEPT ![i] = [work[i] EXCEPT !.at = "inventory", !.abort = abort,
                                                     !.dirty = dirty]]
  <2>1. work[i].abort \in BOOLEAN /\ work[i] \in Tasks
    BY Entries DEF Tasks
  <2>2. i \in DOMAIN work
    BY DEF TypeOK, Ids
  <2>3. CASE Aborted(i)
    <3>1. PICK failed \in BOOLEAN :
            work' = [work EXCEPT ![i].at = "inventory", ![i].abort = TRUE, ![i].dirty = failed]
      BY <2>3 DEF Finish
    <3>2. work' = [work EXCEPT ![i] = [work[i] EXCEPT !.at = "inventory", !.abort = TRUE,
                                                      !.dirty = failed]]
      BY <2>2, <3>1
    <3> QED  BY <3>2
  <2>4. CASE ~Aborted(i)
    <3>1. work' = [work EXCEPT ![i].at = "inventory", ![i].dirty = FALSE]
      BY <2>4 DEF Finish
    <3>2. [work[i] EXCEPT !.at = "inventory", !.dirty = FALSE]
            = [work[i] EXCEPT !.at = "inventory", !.abort = work[i].abort, !.dirty = FALSE]
      BY <2>1 DEF Tasks
    <3>3. work' = [work EXCEPT ![i] = [work[i] EXCEPT !.at = "inventory", !.dirty = FALSE]]
      BY <2>2, <3>1
    <3> QED  BY <2>1, <3>2, <3>3
  <2> QED  BY <2>3, <2>4
<1>2. PICK abort \in BOOLEAN, dirty \in BOOLEAN :
       work' = [work EXCEPT ![i] = [work[i] EXCEPT !.at = "inventory", !.abort = abort,
                                                   !.dirty = dirty]]
  BY <1>1
<1> DEFINE task == [work[i] EXCEPT !.at = "inventory", !.abort = abort, !.dirty = dirty]
<1>3. task \in Tasks /\ task.at = "inventory"
  BY Entries DEF Tasks, Labels
<1>4. work' = [work EXCEPT ![i] = task]
  BY <1>2
<1> HIDE DEF task
<1> QED  BY <1>3, <1>4, TaskWritten

\* Finish
LEMMA FinishGood ==
  ASSUME TypeOK, NEW i \in Ids, Finish(i)
  PROVE  Good(i)
<1>1. work[i].at = "finish" /\ UNCHANGED <<ops, holder, boot, inference, setting>>
  BY DEF Finish, At, journal
<1>2. backend' \subseteq backend /\ proxy' \in {proxy, None} /\ UNCHANGED managed
  BY Cleaned DEF Finish, runtime
<1>4. WritesWork(i) /\ work'[i].at = "inventory"
  BY FinishWork
<1>5. Onward(work[i].at, work'[i].at)
  BY <1>1, <1>4 DEF Onward, QuietLabels, BootLabels, RunLabels, StopLabels, ClaimedLabels,
     EmptyingLabels
<1>6. Kept
  BY <1>1, <1>2 DEF Kept, TypeOK, Ids
<1> QED  BY <1>1, <1>2, <1>4, <1>5, <1>6, WalkGood

\* FinishInventory and RetryCount: an inventory keeps the claim on what is up.
LEMMA InventoryGood ==
  ASSUME TypeOK, NEW i \in Ids, FinishInventory(i) \/ RetryCount(i)
  PROVE  Good(i)
<1>1. work[i].at \in {"inventory", "count"}
      /\ UNCHANGED <<holder, boot, inference, managed, backend, proxy, setting>>
  BY DEF FinishInventory, RetryCount, At, runtime
<1>2. PICK remaining \in Remaining(i, backend, proxy) :
         /\ ops' = [ops EXCEPT ![i].claims = remaining]
         /\ \/ work[i].at = "inventory" /\ GoNoting(i, "settle", remaining # {})
            \/ work[i].at = "count" /\ GoNoting(i, "answer", remaining # {})
  BY DEF FinishInventory, RetryCount, TakeInventory, At
<1>3. WritesOps(i) /\ ops'[i] = [ops[i] EXCEPT !.claims = remaining]
  BY <1>2, RemainingClaims, Claimed
<1>4. /\ ops'[i].kind = ops[i].kind /\ ops'[i].recipe = ops[i].recipe
      /\ ops'[i].claims = remaining
      /\ ops'[i].phase = ops[i].phase /\ ops'[i].interrupted = ops[i].interrupted
  BY <1>3, Entries DEF Operations
<1>5. /\ WritesWork(i)
      /\ \/ work[i].at = "inventory" /\ work'[i].at = "settle"
         \/ work[i].at = "count" /\ work'[i].at = "answer"
  <2>1. {"settle", "answer"} \subseteq Labels /\ (remaining # {}) \in BOOLEAN
    BY DEF Labels
  <2> QED  BY <1>2, <2>1, Noted
<1>6. Kept
  BY <1>1 DEF Kept, TypeOK, Ids
<1>7. /\ remaining \subseteq ops[i].claims
      /\ i \in backend /\ "backend" \in ops[i].claims => "backend" \in remaining
      /\ proxy = i /\ "proxy" \in ops[i].claims => "proxy" \in remaining
  BY <1>2, RemainingClaims
<1>8. ASSUME Sound(i) PROVE Settles(i)
  BY <1>1, <1>4, <1>5, <1>7, <1>8 DEF Settles, Sound, Phased, Placed, Covered,
     Live, Launching, Stopping, Unclaimed, At, QuietLabels, EmptyingLabels, Bare, Settled,
     StopLabels, RunLabels, ClaimedLabels, RetryLabels, BootLabels, setting
<1> QED  BY <1>1, <1>3, <1>5, <1>6, <1>8, MakeGood

\* The last transition of an operation.
LEMMA ConcludeGood ==
  ASSUME TypeOK, NEW i \in Ids, NEW phase \in Entered \ {"recovering"}, NEW cause \in Marks,
         Sound(i) => phase \in Settled, Conclude(i, phase, cause),
         work[i].at \in {"settle", "report", "conclude", "answer"},
         UNCHANGED <<boot, inference, managed, backend, proxy, setting>>
  PROVE  Good(i)
<1>1. WritesWork(i) /\ work'[i].at = "done"
  BY Rested DEF Conclude
<1>2. Kept
  BY DEF Conclude, Kept, TypeOK, Ids
<1>3. CASE Recording(i, phase, cause)
  <2>1. phase \in Entered /\ phase # "recovering"
    OBVIOUS
  <2>2. WritesOps(i) /\ ops'[i] = Moved(ops[i], phase, cause)
    BY <1>3, <2>1, Recorded
  <2>3. /\ ops'[i].kind = ops[i].kind /\ ops'[i].recipe = ops[i].recipe
        /\ ops'[i].claims = ops[i].claims /\ ops'[i].phase = phase
        /\ ops'[i].interrupted = phase
    BY <2>1, <2>2, Entries, MovedFields
  <2>4. ASSUME Sound(i) PROVE Settles(i)
    BY <1>1, <2>3, <2>4 DEF Settles, Sound, Phased, Placed, Covered, Bare,
       Live, Launching, Stopping, Unclaimed, QuietLabels, EmptyingLabels, Settled,
       StopLabels, RunLabels, ClaimedLabels, RetryLabels, BootLabels, setting
  <2> QED  BY <1>1, <1>2, <2>2, <2>4, MakeGood
<1>4. CASE UNCHANGED ops
  <2>1. WritesOps(i) /\ ops'[i] = ops[i]
    BY <1>4, OpsKept
  <2>2. ASSUME Sound(i) PROVE Settles(i)
    BY <1>1, <2>1, <2>2 DEF Settles, Sound, Phased, Placed, Covered, Bare,
       Live, Launching, Stopping, Unclaimed, QuietLabels, EmptyingLabels, Settled,
       StopLabels, RunLabels, ClaimedLabels, RetryLabels, BootLabels, setting
  <2> QED  BY <1>1, <1>2, <2>1, <2>2, MakeGood
<1> QED  BY <1>3, <1>4 DEF Conclude, Unrecorded

\* Settle, StopReport, RecoverConclude and RetryConclude end an operation.
LEMMA EndGood ==
  ASSUME TypeOK, NEW i \in Ids,
         Settle(i) \/ StopReport(i) \/ RecoverConclude(i) \/ RetryConclude(i)
  PROVE  Good(i)
<1>1. work[i].at \in {"settle", "report", "conclude", "answer"}
      /\ UNCHANGED <<boot, inference, managed, backend, proxy, setting>>
  BY DEF Settle, StopReport, RecoverConclude, RetryConclude, At, runtime
<1>2. CausesOf(i, ops[i].claims) \subseteq Marks /\ {None, "inventory", "other"} \subseteq Marks
  BY DEF CausesOf, Marks
<1>3. Settled \subseteq Entered \ {"recovering"} /\ {"stopped", "failed", "aborted"} = Settled
  BY DEF Settled, Entered, Phases
<1>4. /\ ops[i].interrupted \in Entered \ {"recovering"}
      /\ Sound(i) /\ work[i].at = "answer" => ops[i].interrupted \in Settled
  BY Entries DEF Sound, Placed, RetryLabels, Operations, Entered
<1>5. \E phase \in Entered \ {"recovering"}, cause \in Marks :
         Conclude(i, phase, cause) /\ (Sound(i) => phase \in Settled)
  <2>1. CASE Settle(i)
    BY <1>2, <1>3, <2>1 DEF Settle
  <2>2. CASE StopReport(i)
    BY <1>2, <1>3, <2>2 DEF StopReport
  <2>3. CASE RecoverConclude(i)
    BY <1>2, <1>3, <2>3 DEF RecoverConclude
  <2>4. CASE RetryConclude(i)
    BY <1>2, <1>3, <1>4, <2>4 DEF RetryConclude, At
  <2> QED  BY <2>1, <2>2, <2>3, <2>4
<1> QED  BY <1>1, <1>5, ConcludeGood

-----------------------------------------------------------------------------
(* stopLocalRecipe: a stop also writes to the run it ends *)

\* StopLock
LEMMA StopLockGood ==
  ASSUME TypeOK, NEW i \in Ids, StopLock(i)
  PROVE  Good(i)
<1>1. work[i].at = "lock" /\ ops[i].kind = "stop" /\ holder' = i /\ Go(i, "halt")
      /\ UNCHANGED <<ops, boot, inference, managed, backend, proxy, setting>>
  BY DEF StopLock, At, journal, runtime
<1>2. WritesWork(i) /\ work'[i].at = "halt"
  BY <1>1, Went DEF Labels
<1>3. WritesOps(i) /\ ops'[i] = ops[i]
  BY <1>1, OpsKept
<1>4. Kept
  BY <1>1 DEF Kept, TypeOK, Ids
<1>5. ASSUME Sound(i) PROVE Settles(i)
  BY <1>1, <1>2, <1>3, <1>5 DEF Settles, Sound, Phased, Placed, Covered, Bare,
     Live, Launching, Stopping, Unclaimed, QuietLabels, EmptyingLabels,
     StopLabels, RunLabels, ClaimedLabels, RetryLabels, BootLabels, setting
<1> QED  BY <1>1, <1>2, <1>3, <1>4, <1>5, MakeGood

\* StopUnproxy and StopCommit
LEMMA StopWalkGood ==
  ASSUME TypeOK, NEW i \in Ids, StopUnproxy(i) \/ StopCommit(i)
  PROVE  Good(i)
<1>1. /\ \/ work[i].at = "unproxy" /\ Go(i, "unload")
         \/ work[i].at = "unload" /\ (Go(i, "reconcile-active") \/ Go(i, "settle"))
      /\ UNCHANGED <<ops, holder, boot, managed, backend, setting>>
      /\ proxy' \in {proxy, None} /\ inference' \in {inference, Unloaded}
  BY DEF StopUnproxy, StopCommit, At, journal, runtime
<1>2. {"unload", "reconcile-active", "settle"} \subseteq Labels
  BY DEF Labels
<1>3. /\ WritesWork(i)
      /\ \/ work[i].at = "unproxy" /\ work'[i].at = "unload"
         \/ work[i].at = "unload" /\ work'[i].at \in {"reconcile-active", "settle"}
  BY <1>1, <1>2, Went
<1>4. Onward(work[i].at, work'[i].at)
  BY <1>3 DEF Onward, QuietLabels, BootLabels, RunLabels, StopLabels, ClaimedLabels,
     EmptyingLabels
<1>5. Unloaded \in Selections
  BY DEF Unloaded, Selections
<1>6. Kept
  BY <1>1, <1>5 DEF Kept, TypeOK, Ids
<1> QED  BY <1>1, <1>3, <1>4, <1>6, WalkGood

\* What a stop may do to the run it ends.
Retires(j) ==
    /\ ops'[j].kind = ops[j].kind /\ ops'[j].recipe = ops[j].recipe
    /\ Live(ops'[j]) => Live(ops[j])
    /\ Sound(j)'

\* Steps of a stop that write to another operation, or to none.
LEMMA StopKeeps ==
  ASSUME TypeOK, Accounts, NEW i \in Ids, NEW j, j # i, work[i].at \in StopLabels,
         WritesOps(j), WritesWork(i), Ids' = Ids, j \in Ids => Retires(j),
         work'[i].at \in StopLabels \cup {"settle"},
         backend' \subseteq backend, proxy' \in {proxy, None}, crashes' = crashes,
         work'[i].at \in EmptyingLabels =>
            \A k \in Ids : Bare(k)' => ops[k].recipe # ops[i].recipe
  PROVE  Accounts'
<1>1. /\ \A k \in Ids \ {j} : ops'[k] = ops[k]
      /\ \A k \in Ids \ {i} : work'[k] = work[k]
  BY DEF WritesOps, WritesWork
<1>2. \A k \in Ids : (k \in backend' => k \in backend) /\ (proxy' = k => proxy = k)
  BY OwnersAssumption DEF Ids, TypeOK
<1>3. \A k \in Ids \ {i} : work[k].at \in QuietLabels
  BY DEF Accounts, StopIsAlone, Stopping
<1>4. \A k \in Ids : ops'[k].kind = ops[k].kind /\ ops'[k].recipe = ops[k].recipe
  BY <1>1 DEF Retires
<1>5. \A k \in Ids : Sound(k)'
  <2> SUFFICES ASSUME NEW k \in Ids \ {j} PROVE Sound(k)'
    BY DEF Retires
  <2>1. Sound(k) /\ ops'[k] = ops[k]
    BY <1>1 DEF Accounts
  <2>2. CASE k # i
    BY <1>1, <1>2, <2>1, <2>2 DEF Sound, Phased, Placed, Covered, Unclaimed, Fails
  <2>3. CASE k = i
    BY <1>2, <2>1, <2>3 DEF Sound, Phased, Placed, Covered, Unclaimed, Fails, Launching,
       StopLabels, RunLabels, ClaimedLabels, RetryLabels, BootLabels
  <2> QED  BY <2>2, <2>3
<1>6. StopIsAlone'
  <2> SUFFICES ASSUME NEW a \in Ids, Stopping(ops'[a], work'[a].at), NEW b \in Ids \ {a}
               PROVE  work'[b].at \in QuietLabels
    BY DEF StopIsAlone
  <2>1. a = i
    BY <1>1, <1>3 DEF Stopping, StopLabels, QuietLabels
  <2> QED  BY <1>1, <1>3, <2>1
<1>7. OneLive'
  BY <1>1 DEF Retires, Accounts, OneLive
<1>8. Emptied'
  <2> SUFFICES ASSUME NEW a \in Ids, work'[a].at \in EmptyingLabels, NEW b \in Ids, Bare(b)'
               PROVE  ops'[b].recipe # ops'[a].recipe
    BY DEF Emptied, EmptyingLabels
  <2>1. a = i
    BY <1>1, <1>3 DEF EmptyingLabels, QuietLabels
  <2> QED  BY <1>4, <2>1
<1> QED  BY <1>5, <1>6, <1>7, <1>8 DEF Accounts

\* An active run is live, so there is one.
LEMMA OneActiveRun ==
  ASSUME TypeOK, Accounts, NEW i \in Ids, NEW j \in Ids,
         ops[i].phase = "active", ops[j].phase = "active"
  PROVE  i = j
<1>1. \A k \in {i, j} : ops[k].kind = "run" /\ ops[k].interrupted = "active"
  BY DEF Accounts, Sound, Phased
<1>2. Live(ops[i]) /\ Live(ops[j])
  BY <1>1 DEF Live, Settled
<1> QED  BY <1>2 DEF Accounts, OneLive

\* Losing claims on what is down leaves an active run sound.
LEMMA ClaimsRetired ==
  ASSUME TypeOK, NEW j \in Ids, Sound(j), ops[j].phase = "active",
         NEW remaining \in Remaining(j, backend', proxy'),
         ops' = [ops EXCEPT ![j].claims = remaining], work'[j] = work[j],
         j \in backend' => j \in backend, proxy' = j => proxy = j, crashes' = crashes
  PROVE  WritesOps(j) /\ Retires(j) /\ ops'[j].claims = remaining
<1>1. /\ remaining \in SUBSET Ephemeral /\ remaining \subseteq ops[j].claims
      /\ j \in backend' /\ "backend" \in ops[j].claims => "backend" \in remaining
      /\ proxy' = j /\ "proxy" \in ops[j].claims => "proxy" \in remaining
  BY RemainingClaims
<1>2. WritesOps(j) /\ ops'[j] = [ops[j] EXCEPT !.claims = remaining]
  BY <1>1, Claimed
<1>3. /\ ops'[j].kind = ops[j].kind /\ ops'[j].recipe = ops[j].recipe
      /\ ops'[j].claims = remaining
      /\ ops'[j].phase = ops[j].phase /\ ops'[j].interrupted = ops[j].interrupted
  BY <1>2, Entries DEF Operations
<1>4. work[j].at \in {"done", "succeed"} /\ work'[j].at = work[j].at
  BY DEF Sound, Phased
<1>5. Sound(j)'
  BY <1>1, <1>3, <1>4 DEF Sound, Phased, Placed, Covered, Unclaimed, Launching, Fails,
     StopLabels, RunLabels, ClaimedLabels, RetryLabels, BootLabels
<1> QED  BY <1>1, <1>2, <1>3, <1>5 DEF Retires, Live

\* StopHalt: when the stop moves on, what runs for the recipe is down or claimed.
LEMMA StopHaltKeeps ==
  ASSUME TypeOK, NEW i \in Ids, StopHalt(i)
  PROVE  TypeOK' /\ Ids' = Ids /\ (Tame /\ Accounts => Accounts')
<1> DEFINE target == ActiveRuns(ops[i].recipe)
<1>1. work[i].at = "halt" /\ UNCHANGED <<holder, boot, inference, managed, clustered, crashes>>
  BY DEF StopHalt, At, setting
<1>2. \A k \in target : k \in Ids /\ ops[k].kind = "run" /\ ops[k].phase = "active"
                        /\ ops[k].recipe = ops[i].recipe
  BY DEF ActiveRuns
<1>3. \A k \in Ids : Bare(k)' /\ ops'[k] = ops[k] /\ ops[k].recipe = ops[i].recipe
                        => k \in target
  BY DEF Bare, ActiveRuns
<1>4. "unproxy" \in Labels /\ "settle" \in Labels
  BY DEF Labels
<1>5. \A j \in Ids : Accounts /\ j \in target => j # i
  BY <1>1, <1>2 DEF Accounts, Sound, Placed, StopLabels
<1>6. Ids \subseteq Nat
  BY DEF Ids
<1>7. ASSUME UNCHANGED ops, backend' \subseteq backend, proxy' = proxy,
             NEW to \in {"unproxy", "settle"}, Go(i, to),
             to = "unproxy" => \A k \in target : k \notin backend'
      PROVE  TypeOK' /\ Ids' = Ids /\ (Accounts => Accounts')
  <2>1. WritesWork(i) /\ work'[i].at = to
    BY <1>4, <1>7, Went
  <2>2. WritesOps(0) /\ Ids' = Ids /\ ops' = ops /\ 0 \notin Ids /\ 0 # i
    BY <1>7, OpsKept DEF Ids
  <2>3. Kept
    BY <1>1, <1>7 DEF Kept, TypeOK, Ids, setting
  <2>4. TypeOK'
    BY <2>1, <2>2, <2>3, Framed
  <2>5. to = "unproxy" => \A k \in Ids : Bare(k)' => ops[k].recipe # ops[i].recipe
    BY <1>3, <1>7, <2>2 DEF Bare
  <2>6. work[i].at \in StopLabels /\ to \in StopLabels \cup {"settle"}
        /\ (to \in EmptyingLabels => to = "unproxy")
    BY <1>1 DEF StopLabels, EmptyingLabels
  <2>7. ASSUME Accounts PROVE Accounts'
    BY <1>1, <1>7, <2>1, <2>2, <2>5, <2>6, <2>7, StopKeeps
  <2> QED  BY <2>2, <2>4, <2>7
<1>8. CASE backend' \in WithoutRuntime(i, target) /\ Go(i, "unproxy") /\ UNCHANGED <<ops, proxy>>
  <2>1. backend' \subseteq backend /\ \A k \in target : k \notin backend'
    BY <1>2, <1>8 DEF WithoutRuntime
  <2> QED  BY <1>7, <1>8, <2>1
<1>9. CASE target = {} /\ UNCHANGED <<ops, proxy>>
           /\ \/ UNCHANGED backend /\ Go(i, "settle")
              \/ backend' = backend \ Orphans(i) /\ Go(i, "unproxy")
  BY <1>7, <1>9
<1>10. CASE \E j \in target, failed \in BOOLEAN :
                /\ CleanUp(j, failed)
                /\ \E remaining \in Remaining(j, backend', proxy') :
                      /\ ops' = [ops EXCEPT ![j].claims = remaining]
                      /\ Go(i, IF remaining = {} THEN "unproxy" ELSE "settle")
  <2>1. PICK j \in target, failed \in BOOLEAN :
                /\ CleanUp(j, failed)
                /\ \E remaining \in Remaining(j, backend', proxy') :
                      /\ ops' = [ops EXCEPT ![j].claims = remaining]
                      /\ Go(i, IF remaining = {} THEN "unproxy" ELSE "settle")
    BY <1>10
  <2>2. PICK remaining \in Remaining(j, backend', proxy') :
                /\ ops' = [ops EXCEPT ![j].claims = remaining]
                /\ Go(i, IF remaining = {} THEN "unproxy" ELSE "settle")
    BY <2>1
  <2>3. j \in Ids /\ ops[j].phase = "active" /\ ops[j].recipe = ops[i].recipe
    BY <1>2
  <2>4. /\ backend' \subseteq backend /\ proxy' \in {proxy, None} /\ UNCHANGED managed
        /\ ~Sticks => j \notin backend'
    BY <2>1, Cleaned
  <2>5. proxy' = j => proxy = j
    BY <2>3, <2>4, OwnersAssumption, <1>6
  <2>6. /\ WritesWork(i) /\ work'[i].at \in {"unproxy", "settle"}
        /\ work'[i].at = "unproxy" => remaining = {}
    BY <1>4, <2>2, Went
  <2>7. /\ remaining \in SUBSET Ephemeral
        /\ j \in backend' /\ "backend" \in ops[j].claims => remaining # {}
    BY <2>2, <2>3, RemainingClaims
  <2>8. WritesOps(j)
    BY <2>2, <2>3, <2>7, Claimed
  <2>9. Kept
    BY <1>1, <2>4 DEF Kept, TypeOK, Ids, setting
  <2>10. TypeOK' /\ Ids' = Ids
    BY <2>6, <2>8, <2>9, Framed
  <2>11. ASSUME Tame, Accounts PROVE Accounts'
    <3>1. Sound(j) /\ j # i
      BY <1>5, <2>3, <2>11 DEF Accounts
    <3>2. work'[j] = work[j]
      BY <2>3, <2>6, <3>1 DEF WritesWork
    <3>3. Retires(j) /\ ops'[j].claims = remaining
      BY <1>1, <2>2, <2>3, <2>4, <2>5, <3>1, <3>2, ClaimsRetired
    <3>4. \A k \in Ids : k \in target => k = j
      BY <1>2, <2>3, <2>11, OneActiveRun
    <3>5. \A k \in Ids \ {j} : Bare(k)' => ops[k].recipe # ops[i].recipe
      BY <1>3, <2>8, <3>4 DEF WritesOps
    <3>6. work'[i].at = "unproxy" => j \notin backend'
      <4>1. SUFFICES ASSUME j \in backend', "backend" \notin ops[j].claims PROVE FALSE
        BY <2>6, <2>7
      <4>2. crashes > 0
        BY <2>4, <3>1, <4>1 DEF Sound, Covered, Unclaimed
      <4> QED  BY <2>4, <2>11, <4>1, <4>2 DEF Tame
    <3>7. work'[i].at \in EmptyingLabels =>
            \A k \in Ids : Bare(k)' => ops[k].recipe # ops[i].recipe
      BY <2>6, <3>5, <3>6 DEF Bare, EmptyingLabels
    <3>8. work[i].at \in StopLabels /\ work'[i].at \in StopLabels \cup {"settle"}
      BY <1>1, <2>6 DEF StopLabels
    <3> QED  BY <1>1, <2>4, <2>6, <2>8, <2>10, <2>11, <3>1, <3>3, <3>7, <3>8, StopKeeps
  <2> QED  BY <2>10, <2>11
<1> QED  BY <1>8, <1>9, <1>10 DEF StopHalt, journal

\* StopReconcile
LEMMA StopReconcileKeeps ==
  ASSUME TypeOK, NEW i \in Ids, StopReconcile(i)
  PROVE  TypeOK' /\ Ids' = Ids /\ (Tame /\ Accounts => Accounts')
<1> DEFINE target == ActiveRuns(ops[i].recipe)
<1>1. work[i].at = "reconcile-active"
      /\ UNCHANGED <<holder, boot, inference, managed, backend, proxy, clustered, crashes>>
  BY DEF StopReconcile, At, runtime, setting
<1>2. Kept
  BY <1>1 DEF Kept, TypeOK, Ids, setting
<1>3. work[i].at \in StopLabels /\ {"report", "close"} \subseteq StopLabels \cap Labels
      /\ "report" \notin EmptyingLabels
  BY <1>1 DEF StopLabels, Labels, EmptyingLabels
<1>4. CASE Go(i, "report") /\ UNCHANGED ops
  <2>1. WritesWork(i) /\ work'[i].at = "report"
    BY <1>3, <1>4, Went
  <2>2. Onward(work[i].at, work'[i].at)
    BY <1>1, <2>1 DEF Onward, QuietLabels, BootLabels, RunLabels, StopLabels,
       ClaimedLabels, EmptyingLabels
  <2>3. Good(i)
    BY <1>1, <1>2, <1>4, <2>1, <2>2, WalkGood
  <2> QED  BY <2>3, LocalStep DEF Good, Accounts
<1>5. CASE \E j \in target : \E remaining \in Remaining(j, backend, proxy) :
               /\ ops' = [ops EXCEPT ![j].claims = remaining]
               /\ GoNoting(i, "close", remaining # {})
  <2>0. PICK j \in target : \E remaining \in Remaining(j, backend, proxy) :
               /\ ops' = [ops EXCEPT ![j].claims = remaining]
               /\ GoNoting(i, "close", remaining # {})
    BY <1>5
  <2>1. PICK remaining \in Remaining(j, backend, proxy) :
               /\ ops' = [ops EXCEPT ![j].claims = remaining]
               /\ GoNoting(i, "close", remaining # {})
    BY <2>0
  <2>2. j \in Ids /\ ops[j].kind = "run" /\ ops[j].phase = "active"
        /\ ops[j].recipe = ops[i].recipe
    BY DEF ActiveRuns
  <2>3. WritesWork(i) /\ work'[i].at = "close"
    BY <1>3, <2>1, Noted
  <2>4. WritesOps(j)
    <3>1. remaining \in SUBSET Ephemeral
      BY <2>1, <2>2, RemainingClaims
    <3> QED  BY <2>1, <2>2, <3>1, Claimed
  <2>5. TypeOK' /\ Ids' = Ids
    BY <1>2, <2>3, <2>4, Framed
  <2>6. ASSUME Accounts PROVE Accounts'
    <3>1. Sound(j) /\ j # i
      BY <1>3, <2>2, <2>6 DEF Accounts, Sound, Placed
    <3>2. work'[j] = work[j]
      BY <2>2, <2>3, <3>1 DEF WritesWork
    <3>3. remaining \in Remaining(j, backend', proxy')
      BY <1>1, <2>1
    <3>4. Retires(j) /\ ops'[j].claims = remaining
      BY <1>1, <2>1, <2>2, <3>1, <3>2, <3>3, ClaimsRetired
    <3>5. \A k \in Ids : Bare(k) => ops[k].recipe # ops[i].recipe
      BY <1>1, <2>6 DEF Accounts, Emptied
    <3>6. \A k \in Ids \ {j} : Bare(k)' => Bare(k)
      BY <1>1, <2>4 DEF Bare, WritesOps
    <3>7. ~Bare(j)'
      <4>1. j \in backend => "backend" \in ops[j].claims
        BY <2>2, <3>5 DEF Bare
      <4>2. j \in backend => "backend" \in remaining
        BY <2>1, <2>2, <4>1, RemainingClaims
      <4> QED  BY <1>1, <3>4, <4>2 DEF Bare
    <3>8. \A k \in Ids : Bare(k)' => ops[k].recipe # ops[i].recipe
      BY <3>5, <3>6, <3>7
    <3> QED  BY <1>1, <1>3, <2>3, <2>4, <2>5, <2>6, <3>1, <3>4, <3>8, StopKeeps
  <2> QED  BY <2>5, <2>6
<1> QED  BY <1>4, <1>5 DEF StopReconcile, journal

\* StopClose and StopClosed: the run a stop ends has been taken down or keeps a claim.
LEMMA StopCloseKeeps ==
  ASSUME TypeOK, NEW i \in Ids, StopClose(i) \/ StopClosed(i)
  PROVE  TypeOK' /\ Ids' = Ids /\ (Tame /\ Accounts => Accounts')
<1>1. work[i].at \in {"close", "closing"}
      /\ UNCHANGED <<holder, boot, inference, managed, backend, proxy, clustered, crashes>>
  BY DEF StopClose, StopClosed, At, runtime, setting
<1>2. Kept
  BY <1>1 DEF Kept, TypeOK, Ids, setting
<1>3. work[i].at \in StopLabels /\ {"report", "closing"} \subseteq StopLabels \cap Labels
      /\ "report" \notin EmptyingLabels /\ "closing" \notin EmptyingLabels
      /\ "settle" \in Labels
  BY <1>1 DEF StopLabels, Labels, EmptyingLabels
<1>4. CASE UNCHANGED ops /\ Go(i, "settle")
  <2>1. WritesWork(i) /\ work'[i].at = "settle"
    BY <1>3, <1>4, Went
  <2>2. Onward(work[i].at, work'[i].at)
    BY <1>1, <2>1 DEF Onward, QuietLabels, BootLabels, RunLabels, StopLabels,
       ClaimedLabels, EmptyingLabels
  <2>3. Good(i)
    BY <1>1, <1>2, <1>4, <2>1, <2>2, WalkGood
  <2> QED  BY <2>3, LocalStep DEF Good, Accounts
<1>5. ASSUME NEW j \in Ids, ops[j].kind = "run", ops[j].recipe = ops[i].recipe,
             NEW phase \in {"stopping", "failed", "stopped"}, NEW cause \in Marks,
             Recording(j, phase, cause), NEW to \in {"closing", "report"}, Go(i, to),
             \/ work[i].at = "close" /\ ops[j].phase = "active" /\ phase = "stopping"
             \/ work[i].at = "closing" /\ ops[j].phase = "stopping" /\ phase # "stopping"
      PROVE  TypeOK' /\ Ids' = Ids /\ (Accounts => Accounts')
  <2>1. WritesWork(i) /\ work'[i].at = to
    BY <1>3, <1>5, Went
  <2>2. phase \in Entered /\ phase # "recovering"
    BY DEF Entered, Phases
  <2>3. WritesOps(j) /\ ops'[j] = Moved(ops[j], phase, cause)
    BY <1>5, <2>2, Recorded
  <2>4. /\ ops'[j].kind = ops[j].kind /\ ops'[j].recipe = ops[j].recipe
        /\ ops'[j].claims = ops[j].claims /\ ops'[j].phase = phase
        /\ ops'[j].interrupted = phase
    BY <1>5, <2>2, <2>3, Entries, MovedFields
  <2>5. TypeOK' /\ Ids' = Ids
    BY <1>2, <2>1, <2>3, Framed
  <2>6. ASSUME Accounts PROVE Accounts'
    <3>1. Sound(j) /\ j # i
      BY <1>3, <1>5, <2>6 DEF Accounts, Sound, Placed
    <3>2. work'[j] = work[j] /\ work[j].at \in QuietLabels
      BY <1>3, <2>1, <2>6, <3>1 DEF WritesWork, Accounts, StopIsAlone, Stopping
    <3>3. work[j].at \in {"done", "succeed"}
      BY <1>5, <3>1, <3>2 DEF Sound, Phased, QuietLabels, RetryLabels
    <3>4. j \in backend => "backend" \in ops[j].claims
      <4>1. CASE work[i].at = "close"
        BY <1>5, <2>6, <4>1 DEF Accounts, Emptied, Bare
      <4>2. CASE ops[j].phase = "stopping"
        BY <3>1, <4>2 DEF Sound, Covered, Unclaimed
      <4> QED  BY <1>5, <4>1, <4>2
    <3>5. Live(ops[j]) /\ (Live(ops'[j]) => Live(ops[j]))
      BY <1>5, <2>4, <3>1 DEF Live, Sound, Phased, Settled
    <3>6. Sound(j)'
      BY <1>1, <1>5, <2>4, <3>1, <3>2, <3>3, <3>4 DEF Sound, Phased, Placed, Covered, Settled,
         Unclaimed, Launching, Fails, StopLabels, RunLabels, ClaimedLabels, RetryLabels,
         BootLabels
    <3>7. Retires(j)
      BY <2>4, <3>5, <3>6 DEF Retires
    <3> QED  BY <1>1, <1>3, <2>1, <2>3, <2>5, <2>6, <3>1, <3>7, StopKeeps
  <2> QED  BY <2>5, <2>6
<1>6. None \in Marks /\ "inventory" \in Marks
  BY DEF Marks
<1>7. CASE StopClose(i)
  BY <1>4, <1>5, <1>6, <1>7 DEF StopClose, Unrecorded, ActiveRuns, At
<1>8. CASE StopClosed(i)
  <2>1. PICK j \in Ids :
          LET ending == IF work[i].dirty THEN "failed" ELSE "stopped" IN
          /\ ops[j].kind = "run" /\ ops[j].phase = "stopping" /\ ops[j].recipe = ops[i].recipe
          /\ \/ Recording(j, ending, IF work[i].dirty THEN "inventory" ELSE None) /\ Go(i, "report")
             \/ Unrecorded(j, ending) /\ Go(i, "settle")
    BY <1>8 DEF StopClosed
  <2>2. work[i].at = "closing"
    BY <1>8 DEF StopClosed, At
  <2> QED  BY <1>4, <1>5, <1>6, <2>1, <2>2 DEF Unrecorded
<1> QED  BY <1>7, <1>8

-----------------------------------------------------------------------------
(* Recovery and retried cleanups *)

\* A recovered run is active again.
LEMMA ReactivateGood ==
  ASSUME TypeOK, NEW i \in Ids, work[i].at \in {"queued", "reactivate"},
         Sound(i) => ops[i].kind = "run" /\ ops[i].interrupted \notin Settled,
         Enter(i, "active", "done", "done"),
         UNCHANGED <<holder, boot, inference, managed, backend, proxy, setting>>
  PROVE  Good(i)
<1>1. WritesWork(i) /\ work'[i].at = "done"
  <2>1. Go(i, "done") /\ "done" \in Labels
    BY DEF Enter, Labels
  <2> QED  BY <2>1, Went
<1>2. Kept
  BY DEF Kept, TypeOK, Ids
<1>3. CASE UNCHANGED ops
  <2>1. WritesOps(i) /\ ops'[i] = ops[i]
    BY <1>3, OpsKept
  <2>2. ASSUME Sound(i) PROVE Settles(i)
    BY <1>1, <2>1, <2>2 DEF Settles, Sound, Phased, Placed, Covered, Bare, Settled,
       Live, Launching, Stopping, Unclaimed, QuietLabels, EmptyingLabels,
       StopLabels, RunLabels, ClaimedLabels, RetryLabels, BootLabels, setting
  <2> QED  BY <1>1, <1>2, <2>1, <2>2, MakeGood
<1>4. CASE Recording(i, "active", None)
  <2>1. "active" \in Entered /\ None \in Marks
    BY DEF Entered, Phases, Marks
  <2>2. WritesOps(i) /\ ops'[i] = Moved(ops[i], "active", None)
    BY <1>4, <2>1, Recorded
  <2>3. /\ ops'[i].kind = ops[i].kind /\ ops'[i].recipe = ops[i].recipe
        /\ ops'[i].claims = ops[i].claims /\ ops'[i].phase = "active"
        /\ ops'[i].interrupted = "active"
    BY <2>1, <2>2, Entries, MovedFields
  <2>4. ASSUME Sound(i) PROVE Settles(i)
    BY <1>1, <2>3, <2>4 DEF Settles, Sound, Phased, Placed, Covered, Bare, Settled,
       Live, Launching, Stopping, Unclaimed, QuietLabels, EmptyingLabels,
       StopLabels, RunLabels, ClaimedLabels, RetryLabels, BootLabels, setting
  <2> QED  BY <1>1, <1>2, <2>2, <2>4, MakeGood
<1> QED  BY <1>3, <1>4 DEF Enter, Unrecorded

\* Recover decides where to go on.
LEMMA RecoverGood ==
  ASSUME TypeOK, NEW i \in Ids, Recover(i)
  PROVE  Good(i)
<1>1. work[i].at = "queued"
      /\ UNCHANGED <<holder, boot, inference, managed, backend, proxy, setting>>
  BY DEF Recover, Turn, At, runtime
<1>2. Kept
  BY <1>1 DEF Kept, TypeOK, Ids
<1>3. {"done", "resume", "restart", "reconcile"} \subseteq Labels
  BY DEF Labels
<1>4. ASSUME UNCHANGED ops, NEW to \in {"done", "reconcile"}, Go(i, to)
      PROVE  Good(i)
  <2>1. WritesOps(i) /\ ops'[i] = ops[i] /\ WritesWork(i) /\ work'[i].at = to
    BY <1>3, <1>4, OpsKept, Went
  <2>2. ASSUME Sound(i) PROVE Settles(i)
    BY <1>1, <1>4, <2>1, <2>2 DEF Settles, Sound, Phased, Placed, Covered, Bare, Settled,
       Live, Launching, Stopping, Unclaimed, QuietLabels, EmptyingLabels,
       StopLabels, RunLabels, ClaimedLabels, RetryLabels, BootLabels, setting
  <2> QED  BY <1>1, <1>2, <2>1, <2>2, MakeGood
<1>5. ASSUME UNCHANGED ops, Resumable(i) \/ Owner(i), NEW to \in {"resume", "restart"}, Go(i, to)
      PROVE  Good(i)
  <2>1. WritesOps(i) /\ ops'[i] = ops[i] /\ WritesWork(i) /\ work'[i].at = to
    BY <1>3, <1>5, OpsKept, Went
  <2>2. ops[i].kind = "run" /\ ops[i].interrupted \notin Settled
    BY <1>5 DEF Resumable, Owner, Settled
  <2>3. ASSUME Sound(i) PROVE Settles(i)
    BY <1>1, <1>5, <2>1, <2>2, <2>3 DEF Settles, Sound, Phased, Placed, Covered, Bare, Settled,
       Live, Launching, Stopping, Unclaimed, QuietLabels, EmptyingLabels,
       StopLabels, RunLabels, ClaimedLabels, RetryLabels, BootLabels, setting
  <2> QED  BY <1>1, <1>2, <2>1, <2>3, MakeGood
<1>6. ASSUME Owner(i), Enter(i, "active", "done", "done") PROVE Good(i)
  <2>1. ops[i].kind = "run" /\ ops[i].interrupted \notin Settled
    BY <1>6 DEF Owner, Settled
  <2> QED  BY <1>1, <1>6, <2>1, ReactivateGood
<1> QED  BY <1>4, <1>5, <1>6 DEF Recover, journal

\* RecoverResume: what a resumed run had started is down.
LEMMA RecoverResumeGood ==
  ASSUME TypeOK, NEW i \in Ids, RecoverResume(i)
  PROVE  Good(i)
<1>1. work[i].at = "resume" /\ UNCHANGED <<holder, boot, inference, managed, proxy, setting>>
      /\ backend' \subseteq backend /\ (~Sticks => i \notin backend')
  BY DEF RecoverResume, At
<1>2. PICK remaining \in Remaining(i, backend', proxy) :
         LET op == [ops[i] EXCEPT !.claims = remaining \ {"port"}] IN
          \/ /\ op.claims = {}
             /\ ops' = [ops EXCEPT ![i] = Moved(op, "preparing", None)] /\ Go(i, "lock")
          \/ /\ op.claims # {} \/ Fails("journal")
             /\ ops' = [ops EXCEPT ![i] = Moved(op, "failed", "other")] /\ Go(i, "done")
  BY DEF RecoverResume
<1>3. remaining \in SUBSET Ephemeral /\ remaining \subseteq ops[i].claims
      /\ (i \in backend' /\ "backend" \in ops[i].claims => "backend" \in remaining)
  BY RemainingClaims
<1> DEFINE op == [ops[i] EXCEPT !.claims = remaining \ {"port"}]
<1>4. op \in Operations /\ op.kind = ops[i].kind /\ op.recipe = ops[i].recipe
      /\ op.claims = remaining \ {"port"}
  BY <1>3, Entries DEF Operations
<1>5. \/ op.claims = {} /\ ops' = [ops EXCEPT ![i] = Moved(op, "preparing", None)] /\ Go(i, "lock")
      \/ ops' = [ops EXCEPT ![i] = Moved(op, "failed", "other")] /\ Go(i, "done")
  BY <1>2
<1> HIDE DEF op
<1>6. Kept
  BY <1>1 DEF Kept, TypeOK, Ids
<1>7. ASSUME NEW phase \in {"preparing", "failed"}, NEW cause \in Marks, NEW to \in {"lock", "done"},
             ops' = [ops EXCEPT ![i] = Moved(op, phase, cause)], Go(i, to),
             phase = "preparing" <=> to = "lock", phase = "preparing" => op.claims = {}
      PROVE  Good(i)
  <2>1. phase \in Entered /\ phase # "recovering" /\ to \in Labels
    BY DEF Entered, Phases, Labels
  <2>2. Moved(op, phase, cause) \in Operations
    BY <1>4, <2>1, MovedFields
  <2>3. WritesOps(i) /\ ops'[i] = Moved(op, phase, cause)
    BY <1>7, <2>2, OpWritten
  <2>4. /\ ops'[i].kind = ops[i].kind /\ ops'[i].recipe = ops[i].recipe
        /\ ops'[i].claims = op.claims /\ ops'[i].phase = phase /\ ops'[i].interrupted = phase
    BY <1>4, <2>1, <2>3, MovedFields
  <2>5. WritesWork(i) /\ work'[i].at = to
    BY <1>7, <2>1, Went
  <2>6. ASSUME Tame, Sound(i) PROVE Settles(i)
    <3>1. i \notin backend' /\ crashes > 0 /\ crashes' = crashes
      BY <1>1, <2>6 DEF Tame, Sound, Placed, BootLabels, setting
    <3>2. ops[i].kind = "run" /\ ops[i].interrupted \notin Settled
      BY <1>1, <2>6 DEF Sound, Placed, BootLabels
    <3> QED  BY <1>1, <1>7, <2>4, <2>5, <3>1, <3>2 DEF Settles, Sound, Phased, Placed, Covered,
         Bare, Settled, Live, Launching, Stopping, Unclaimed, QuietLabels, EmptyingLabels,
         StopLabels, RunLabels, ClaimedLabels, RetryLabels, BootLabels
  <2> QED  BY <1>1, <1>6, <2>3, <2>5, <2>6, MakeGood
<1>8. None \in Marks /\ "other" \in Marks
  BY DEF Marks
<1> QED  BY <1>5, <1>7, <1>8

\* RecoverRestart: containers come back without a claim, and only after a restart.
LEMMA RecoverRestartGood ==
  ASSUME TypeOK, NEW i \in Ids, RecoverRestart(i)
  PROVE  Good(i)
<1>1. work[i].at = "restart" /\ UNCHANGED <<ops, boot, inference, managed, proxy, setting>>
      /\ backend' \subseteq backend \cup {i} /\ holder' \in {holder, i}
      /\ (Go(i, "reconnect") \/ Go(i, "reconcile"))
  BY DEF RecoverRestart, At, journal
<1>2. {"reconnect", "reconcile"} \subseteq Labels
  BY DEF Labels
<1>3. WritesWork(i) /\ work'[i].at \in {"reconnect", "reconcile"}
  BY <1>1, <1>2, Went
<1>4. WritesOps(i) /\ ops'[i] = ops[i]
  BY <1>1, OpsKept
<1>5. Kept
  BY <1>1 DEF Kept, TypeOK, Ids
<1>6. ASSUME Sound(i) PROVE Settles(i)
  BY <1>1, <1>3, <1>4, <1>6 DEF Settles, Sound, Phased, Placed, Covered, Bare, Settled,
     Live, Launching, Stopping, Unclaimed, QuietLabels, EmptyingLabels,
     StopLabels, RunLabels, ClaimedLabels, RetryLabels, BootLabels, setting
<1> QED  BY <1>1, <1>3, <1>4, <1>5, <1>6, MakeGood

\* RecoverReconnect
LEMMA RecoverReconnectGood ==
  ASSUME TypeOK, NEW i \in Ids, RecoverReconnect(i)
  PROVE  Good(i)
<1>1. work[i].at = "reconnect" /\ holder' = None
      /\ UNCHANGED <<boot, inference, managed, backend, setting>> /\ proxy' \in {proxy, None, i}
  BY DEF RecoverReconnect, At
<1>2. PICK saved \in {{}, {"proxy"}} :
         /\ ops' = [ops EXCEPT ![i].claims = @ \cup saved]
         /\ Go(i, "reactivate") \/ Go(i, "reconcile")
  BY DEF RecoverReconnect
<1>3. {"reactivate", "reconcile"} \subseteq Labels
  BY DEF Labels
<1>4. WritesWork(i) /\ work'[i].at \in {"reactivate", "reconcile"}
  BY <1>2, <1>3, Went
<1>5. ops[i].claims \cup saved \in SUBSET Ephemeral
  BY Entries, ClaimsAssumption DEF Operations
<1>6. WritesOps(i) /\ ops'[i] = [ops[i] EXCEPT !.claims = ops[i].claims \cup saved]
  BY <1>2, <1>5, Claimed
<1>7. /\ ops'[i].kind = ops[i].kind /\ ops'[i].recipe = ops[i].recipe
      /\ ops'[i].claims = ops[i].claims \cup saved
      /\ ops'[i].phase = ops[i].phase /\ ops'[i].interrupted = ops[i].interrupted
  BY <1>6, Entries DEF Operations
<1>8. Kept
  BY <1>1 DEF Kept, TypeOK, Ids
<1>9. ASSUME Sound(i) PROVE Settles(i)
  BY <1>1, <1>4, <1>7, <1>9 DEF Settles, Sound, Phased, Placed, Covered, Bare, Settled,
     Live, Launching, Stopping, Unclaimed, QuietLabels, EmptyingLabels,
     StopLabels, RunLabels, ClaimedLabels, RetryLabels, BootLabels, setting
<1> QED  BY <1>1, <1>4, <1>6, <1>8, <1>9, MakeGood

\* RecoverReactivate
LEMMA RecoverReactivateGood ==
  ASSUME TypeOK, NEW i \in Ids, RecoverReactivate(i)
  PROVE  Good(i)
<1>1. work[i].at = "reactivate" /\ Enter(i, "active", "done", "done")
      /\ UNCHANGED <<holder, boot, inference, managed, backend, proxy, setting>>
  BY DEF RecoverReactivate, At, runtime
<1>2. Sound(i) => ops[i].kind = "run" /\ ops[i].interrupted \notin Settled
  BY <1>1 DEF Sound, Placed, BootLabels
<1> QED  BY <1>1, <1>2, ReactivateGood

\* RecoverClean and RetryClean
LEMMA CleanGood ==
  ASSUME TypeOK, NEW i \in Ids, RecoverClean(i) \/ RetryClean(i)
  PROVE  Good(i)
<1>1. UNCHANGED <<ops, holder, boot, inference, setting>>
      /\ \E failed \in BOOLEAN :
           /\ CleanUp(i, failed)
           /\ \/ work[i].at = "reconcile" /\ Go(i, "account")
              \/ work[i].at = "retry" /\ GoNoting(i, "count", failed)
  BY DEF RecoverClean, RetryClean, At, journal
<1>2. backend' \subseteq backend /\ proxy' \in {proxy, None} /\ UNCHANGED managed
      /\ (~Sticks => i \notin backend')
  BY <1>1, Cleaned
<1>3. /\ WritesWork(i)
      /\ \/ work[i].at = "reconcile" /\ work'[i].at = "account"
         \/ work[i].at = "retry" /\ work'[i].at = "count"
  <2>1. {"account", "count"} \subseteq Labels
    BY DEF Labels
  <2> QED  BY <1>1, <2>1, Went, Noted
<1>4. WritesOps(i) /\ ops'[i] = ops[i]
  BY <1>1, OpsKept
<1>5. Kept
  BY <1>1, <1>2 DEF Kept, TypeOK, Ids
<1>6. ASSUME Tame, Sound(i) PROVE Settles(i)
  BY <1>1, <1>2, <1>3, <1>4, <1>6, OwnersAssumption DEF Settles, Sound, Phased, Placed, Covered,
     Bare, Settled, Live, Launching, Stopping, Unclaimed, QuietLabels, EmptyingLabels, Tame, Ids,
     StopLabels, RunLabels, ClaimedLabels, RetryLabels, BootLabels, setting, TypeOK
<1> QED  BY <1>1, <1>2, <1>3, <1>4, <1>5, <1>6, MakeGood

\* RecoverAccount
LEMMA RecoverAccountGood ==
  ASSUME TypeOK, NEW i \in Ids, RecoverAccount(i)
  PROVE  Good(i)
<1>1. work[i].at = "account"
      /\ UNCHANGED <<holder, boot, managed, backend, proxy, setting>>
      /\ inference' \in {inference, Unloaded}
  BY DEF RecoverAccount, At, runtime
<1>2. PICK remaining \in Remaining(i, backend, proxy) :
         /\ ops' = [ops EXCEPT ![i].claims = remaining]
         /\ Go(i, "restore") \/ GoNoting(i, "conclude", remaining # {})
  BY DEF RecoverAccount
<1>3. /\ remaining \in SUBSET Ephemeral /\ remaining \subseteq ops[i].claims
      /\ i \in backend /\ "backend" \in ops[i].claims => "backend" \in remaining
      /\ proxy = i /\ "proxy" \in ops[i].claims => "proxy" \in remaining
  BY RemainingClaims
<1>4. WritesOps(i) /\ ops'[i] = [ops[i] EXCEPT !.claims = remaining]
  BY <1>2, <1>3, Claimed
<1>5. /\ ops'[i].kind = ops[i].kind /\ ops'[i].recipe = ops[i].recipe
      /\ ops'[i].claims = remaining
      /\ ops'[i].phase = ops[i].phase /\ ops'[i].interrupted = ops[i].interrupted
  BY <1>3, <1>4, Entries DEF Operations
<1>6. WritesWork(i) /\ work'[i].at \in {"restore", "conclude"}
  <2>1. {"restore", "conclude"} \subseteq Labels /\ (remaining # {}) \in BOOLEAN
    BY DEF Labels
  <2> QED  BY <1>2, <2>1, Went, Noted
<1>7. Kept
  <2>1. Unloaded \in Selections
    BY DEF Unloaded, Selections
  <2> QED  BY <1>1, <2>1 DEF Kept, TypeOK, Ids
<1>8. ASSUME Sound(i) PROVE Settles(i)
  BY <1>1, <1>3, <1>5, <1>6, <1>8 DEF Settles, Sound, Phased, Placed, Covered, Bare, Settled,
     Live, Launching, Stopping, Unclaimed, QuietLabels, EmptyingLabels,
     StopLabels, RunLabels, ClaimedLabels, RetryLabels, BootLabels, setting
<1> QED  BY <1>1, <1>4, <1>6, <1>7, <1>8, MakeGood

-----------------------------------------------------------------------------
(* Requests *)

\* Abort is for runs that are neither over nor recovered.
LEMMA AbortGood ==
  ASSUME TypeOK, NEW i \in Ids, Abort(i)
  PROVE  Good(i)
<1>1. ops[i].kind = "run" /\ work[i].at # "done" /\ Recording(i, "stopping", None)
      /\ ops[i].phase \notin Settled \cup {"recovering", "stopping"}
      /\ UNCHANGED <<work, holder, boot, inference, managed, backend, proxy, setting>>
  BY DEF Abort, tasks, runtime
<1>2. "stopping" \in Entered /\ None \in Marks
  BY DEF Entered, Phases, Marks
<1>3. WritesOps(i) /\ ops'[i] = Moved(ops[i], "stopping", None)
  BY <1>1, <1>2, Recorded
<1>4. /\ ops'[i].kind = ops[i].kind /\ ops'[i].recipe = ops[i].recipe
      /\ ops'[i].claims = ops[i].claims /\ ops'[i].phase = "stopping"
      /\ ops'[i].interrupted = "stopping"
  BY <1>2, <1>3, Entries, MovedFields
<1>5. WritesWork(i) /\ work'[i] = work[i]
  BY <1>1, WorkKept
<1>6. Kept
  BY <1>1 DEF Kept, TypeOK, Ids
<1>7. ASSUME Sound(i) PROVE Settles(i)
  BY <1>1, <1>4, <1>5, <1>7 DEF Settles, Sound, Phased, Placed, Covered, Bare, Settled,
     Live, Launching, Stopping, Unclaimed, QuietLabels, EmptyingLabels,
     StopLabels, RunLabels, ClaimedLabels, RetryLabels, BootLabels, setting
<1> QED  BY <1>1, <1>3, <1>5, <1>6, <1>7, MakeGood

\* Retry
LEMMA RetryGood ==
  ASSUME TypeOK, NEW i \in Ids, Retry(i)
  PROVE  Good(i)
<1>1. work[i].at = "done" /\ Recording(i, "recovering", None) /\ ops[i].phase \in Settled
      /\ UNCHANGED <<holder, boot, inference, managed, backend, proxy, setting>>
  BY DEF Retry, runtime
<1>2. "recovering" \in Entered /\ None \in Marks
  BY DEF Entered, Phases, Marks
<1>3. WritesOps(i) /\ ops'[i] = Moved(ops[i], "recovering", None)
  BY <1>1, <1>2, Recorded
<1>4. /\ ops'[i].kind = ops[i].kind /\ ops'[i].recipe = ops[i].recipe
      /\ ops'[i].claims = ops[i].claims /\ ops'[i].phase = "recovering"
      /\ ops'[i].interrupted = ops[i].interrupted
  BY <1>2, <1>3, Entries, MovedFields
<1>5. WritesWork(i) /\ work'[i].at = "retry"
  <2> DEFINE task == [Resting EXCEPT !.at = "retry", !.stale = ops[i].error = "inventory"]
  <2>1. task \in Tasks /\ task.at = "retry"
    BY DEF Resting, Tasks, Labels
  <2>2. work' = [work EXCEPT ![i] = task]
    BY DEF Retry
  <2> HIDE DEF task
  <2> QED  BY <2>1, <2>2, TaskWritten
<1>6. Kept
  BY <1>1 DEF Kept, TypeOK, Ids
<1>7. ASSUME Sound(i) PROVE Settles(i)
  BY <1>1, <1>4, <1>5, <1>7 DEF Settles, Sound, Phased, Placed, Covered, Bare, Settled,
     Live, Launching, Stopping, Unclaimed, QuietLabels, EmptyingLabels,
     StopLabels, RunLabels, ClaimedLabels, RetryLabels, BootLabels, setting
<1> QED  BY <1>1, <1>3, <1>5, <1>6, <1>7, MakeGood

\* A new operation meets only what is over or an active run.
LEMMA BeginKeeps ==
  ASSUME TypeOK, NEW op \in Operations, Len(ops) < MaxOps,
         ops' = Append(ops, op), work' = Append(work, [Resting EXCEPT !.at = "lock"]),
         UNCHANGED <<holder, boot, inference, runtime, setting>>,
         op.claims = {}, op.phase \in {"preparing", "stopping"}, op.interrupted = op.phase,
         \A i \in Ids : ops[i].phase \in Settled \cup {"active"},
         Accounts /\ Live(op) => \A i \in Ids : ~Live(ops[i])
  PROVE  TypeOK' /\ (Accounts => Accounts')
<1> DEFINE task == [Resting EXCEPT !.at = "lock"]
<1>1. ops \in Seq(Operations) /\ work \in Seq(Tasks) /\ Len(work) = Len(ops) /\ Len(ops) \in Nat
  BY LenProperties DEF TypeOK
<1>0. PICK n \in Nat : n = Len(ops) + 1
  BY <1>1
<1>2. task \in Tasks /\ task.at = "lock"
  BY DEF Resting, Tasks, Labels
<1>3. /\ ops' \in Seq(Operations) /\ Len(ops') = n
      /\ \A i \in 1..Len(ops) : ops'[i] = ops[i]
      /\ ops'[n] = op
  BY <1>1, <1>0, AppendProperties
<1>4. /\ work' \in Seq(Tasks) /\ Len(work') = n
      /\ \A i \in 1..Len(ops) : work'[i] = work[i]
      /\ work'[n] = task
  <2> HIDE DEF task
  <2>1. work' = Append(work, task)
    BY DEF task
  <2> QED  BY <1>1, <1>2, <1>0, <2>1, AppendProperties
<1>5. Ids' = Ids \cup {n} /\ n \notin Ids /\ n \in Nat
  BY <1>1, <1>0, <1>3 DEF Ids
<1>6. UNCHANGED <<holder, boot, inference, managed, backend, proxy, clustered, crashes>>
  BY DEF runtime, setting
<1>7. n <= MaxOps
  BY <1>1, <1>0, SettingsAssumption
<1>8. TypeOK'
  BY <1>3, <1>4, <1>5, <1>6, <1>7 DEF TypeOK
<1>9. n \notin backend /\ proxy # n
  BY <1>5, OwnersAssumption DEF TypeOK
<1>10. \A i \in Ids : ops'[i] = ops[i] /\ work'[i] = work[i]
  BY <1>3, <1>4 DEF Ids
<1>11. ASSUME Accounts PROVE Accounts'
  <2>1. \A i \in Ids : work[i].at \in {"done", "succeed"}
    BY <1>11 DEF Accounts, Sound, Phased
  <2>2. ASSUME NEW i \in Ids PROVE Sound(i)'
    <3>1. Sound(i) /\ ops'[i] = ops[i] /\ work'[i] = work[i]
      BY <1>10, <1>11 DEF Accounts
    <3> QED  BY <1>6, <3>1 DEF Sound, Phased, Placed, Covered, Unclaimed, Fails
  <2>3. Sound(n)'
    BY <1>2, <1>3, <1>4, <1>6, <1>9 DEF Sound, Phased, Placed, Covered, Launching, Settled,
       StopLabels, RunLabels, ClaimedLabels, RetryLabels, BootLabels
  <2>4. StopIsAlone'
    <3> SUFFICES ASSUME NEW a \in Ids', Stopping(ops'[a], work'[a].at), NEW b \in Ids' \ {a}
                 PROVE  work'[b].at \in QuietLabels
      BY DEF StopIsAlone
    <3>1. a = n
      BY <1>5, <1>10, <2>1 DEF Stopping, StopLabels
    <3> QED  BY <1>5, <1>10, <2>1, <3>1 DEF QuietLabels
  <2>5. OneLive'
    <3> SUFFICES ASSUME NEW a \in Ids', NEW b \in Ids', Live(ops'[a]), Live(ops'[b])
                 PROVE  a = b
      BY DEF OneLive
    <3>1. CASE a \in Ids /\ b \in Ids
      BY <1>10, <1>11, <3>1 DEF Accounts, OneLive
    <3>2. CASE Live(op)
      <4>1. \A i \in Ids : ~Live(ops'[i])
        BY <1>10, <1>11, <3>2
      <4> QED  BY <1>5, <4>1
    <3>3. CASE ~Live(op)
      <4>1. a # n /\ b # n
        BY <1>3, <3>3
      <4> QED  BY <1>5, <3>1, <4>1
    <3> QED  BY <3>2, <3>3
  <2>6. Emptied'
    <3>1. \A i \in Ids : work'[i].at \in {"done", "succeed"}
      BY <1>10, <2>1
    <3>2. work'[n].at = "lock"
      BY <1>2, <1>4
    <3>3. \A i \in Ids' : work'[i].at \in {"done", "succeed", "lock"}
      BY <1>5, <3>1, <3>2
    <3> QED  BY <3>3 DEF Emptied
  <2> QED  BY <1>5, <2>2, <2>3, <2>4, <2>5, <2>6 DEF Accounts
<1> QED  BY <1>8, <1>11

\* Run and Stop
LEMMA AdmissionKeeps ==
  ASSUME TypeOK, NEW recipe \in Recipes, Run(recipe) \/ Stop(recipe)
  PROVE  TypeOK' /\ (Accounts => Accounts')
<1>1. Len(ops) < MaxOps /\ inference \in Selections
  BY DEF Run, Stop, TypeOK
<1>2. \A i \in Ids : ops[i] \in Operations /\ ops[i].kind \in {"run", "stop"}
  BY Entries DEF Operations
<1>3. CASE Run(recipe)
  <2> DEFINE op == [kind |-> "run", recipe |-> recipe, phase |-> "preparing",
                    interrupted |-> "preparing", error |-> None,
                    claims |-> {}, previous |-> inference]
  <2>1. op \in Operations /\ op.claims = {} /\ op.phase = "preparing"
        /\ op.interrupted = "preparing"
    BY <1>1 DEF Operations, Phases
  <2>2. /\ ops' = Append(ops, op) /\ work' = Append(work, [Resting EXCEPT !.at = "lock"])
        /\ UNCHANGED <<holder, boot, inference, runtime, setting>>
        /\ \A i \in Ids : ~BlocksAdmission(ops[i], "run")
    BY <1>3 DEF Run
  <2> HIDE DEF op
  <2>3. \A i \in Ids : ops[i].phase \in Settled /\ "backend" \notin ops[i].claims
    BY <1>2, <2>2, ClaimsAssumption DEF BlocksAdmission, Unfinished, Owns, CheckedOut
  <2>4. Accounts => \A i \in Ids : ~Live(ops[i])
    BY <2>3 DEF Live, Accounts, Sound, Phased, Settled
  <2> QED  BY <1>1, <2>1, <2>2, <2>3, <2>4, BeginKeeps
<1>4. CASE Stop(recipe)
  <2> DEFINE op == [kind |-> "stop", recipe |-> recipe, phase |-> "stopping",
                    interrupted |-> "stopping", error |-> None,
                    claims |-> {}, previous |-> inference]
  <2>1. op \in Operations /\ op.claims = {} /\ op.phase = "stopping"
        /\ op.interrupted = "stopping" /\ op.kind = "stop"
    BY <1>1 DEF Operations, Phases
  <2>2. /\ ops' = Append(ops, op) /\ work' = Append(work, [Resting EXCEPT !.at = "lock"])
        /\ UNCHANGED <<holder, boot, inference, runtime, setting>>
        /\ \A i \in Ids : ~BlocksAdmission(ops[i], "stop")
    BY <1>4 DEF Stop
  <2> HIDE DEF op
  <2>3. \A i \in Ids : ops[i].phase \in Settled \cup {"active"}
    BY <1>2, <2>2 DEF BlocksAdmission, Unfinished, CheckedOut
  <2>4. ~Live(op)
    BY <2>1 DEF Live
  <2> QED  BY <1>1, <2>1, <2>2, <2>3, <2>4, BeginKeeps
<1> QED  BY <1>3, <1>4

-----------------------------------------------------------------------------
(* The provisioner and restarts *)

\* BootRead and BootApply leave the operations and their containers alone.
LEMMA BootKeeps ==
  ASSUME TypeOK, BootRead \/ BootApply
  PROVE  TypeOK' /\ Ids' = Ids /\ (Accounts => Accounts')
<1>1. UNCHANGED <<ops, work, holder, inference, backend, clustered, crashes>>
      /\ boot' \in {"off", "apply"}
  BY DEF BootRead, BootApply, journal, setting, runtime
<1>2. managed' \in BOOLEAN /\ proxy' \in {proxy, None, Managed}
  BY DEF BootRead, BootApply, runtime, TypeOK
<1>3. TypeOK' /\ Ids' = Ids
  BY <1>1, <1>2 DEF TypeOK, Ids
<1>4. ASSUME Accounts PROVE Accounts'
  <2>1. \A i \in Ids : proxy' = i => proxy = i
    BY <1>2, OwnersAssumption DEF Ids, TypeOK
  <2>2. \A i \in Ids : Sound(i)'
    BY <1>1, <1>4, <2>1 DEF Accounts, Sound, Phased, Placed, Covered, Unclaimed, Fails
  <2>3. StopIsAlone' /\ OneLive' /\ Emptied'
    BY <1>1, <1>3, <1>4 DEF Accounts, StopIsAlone, OneLive, Emptied, Bare
  <2> QED  BY <1>3, <2>2, <2>3 DEF Accounts
<1> QED  BY <1>3, <1>4

\* A function on 1..n is a sequence of length n.
LEMMA Sequenced ==
  ASSUME NEW S, NEW n \in Nat, NEW s \in [1..n -> S]
  PROVE  s \in Seq(S) /\ Len(s) = n
<1>1. s \in Seq(S)
  BY SeqDef
<1>2. DOMAIN s = 1..n /\ DOMAIN s = 1..Len(s) /\ Len(s) \in Nat
  BY <1>1, LenProperties
<1> QED  BY <1>1, <1>2

\* A restart finds every operation over or at its place in the queue.
LEMMA RestartFinds ==
  ASSUME TypeOK, NEW host, NEW automatic, Restart(host, automatic)
  PROVE  /\ ops' \in Seq(Operations) /\ work' \in Seq(Tasks)
         /\ Len(ops') = Len(ops) /\ Len(work') = Len(ops) /\ Ids' = Ids
         /\ \A i \in Ids :
               /\ ops'[i].kind = ops[i].kind /\ ops'[i].recipe = ops[i].recipe
               /\ ops'[i].claims = ops[i].claims /\ ops'[i].interrupted = ops[i].interrupted
               /\ ops'[i].previous = ops[i].previous
               /\ \/ /\ NeedsRecovery(ops[i])
                     /\ ops'[i].phase = "recovering" /\ work'[i].at = "queued"
                  \/ /\ ~NeedsRecovery(ops[i]) /\ ops'[i] = ops[i]
                     /\ ops[i].phase \in Settled /\ work'[i].at = "done"
<1> DEFINE op(i) == IF NeedsRecovery(ops[i]) /\ ops[i].phase # "recovering"
                    THEN Moved(ops[i], "recovering", "other") ELSE ops[i]
           task(i) == IF NeedsRecovery(ops[i])
                      THEN [Resting EXCEPT !.at = "queued", !.boot = TRUE] ELSE Resting
<1>1. \A i \in Ids : ops[i] \in Operations /\ op(i) \in Operations
  BY Entries, MovedFields DEF Entered, Phases, Marks
<1>2. \A i \in Ids : task(i) \in Tasks
  BY DEF Resting, Tasks, Labels
<1>3. Len(ops) \in Nat
  BY LenProperties DEF TypeOK
<1>4. ops' \in Seq(Operations) /\ Len(ops') = Len(ops)
  <2>1. ops' \in [1..Len(ops) -> Operations]
    BY <1>1 DEF Restart, Ids
  <2> QED  BY <1>3, <2>1, Sequenced
<1>5. work' \in Seq(Tasks) /\ Len(work') = Len(ops)
  <2>1. work' \in [1..Len(ops) -> Tasks]
    BY <1>2 DEF Restart, Ids
  <2> QED  BY <1>3, <2>1, Sequenced
<1>6. Ids' = Ids /\ \A i \in Ids : ops'[i] = op(i) /\ work'[i] = task(i)
  BY <1>4 DEF Restart, Ids
<1>7. ASSUME NEW i \in Ids
      PROVE  /\ ops'[i].kind = ops[i].kind /\ ops'[i].recipe = ops[i].recipe
             /\ ops'[i].claims = ops[i].claims /\ ops'[i].interrupted = ops[i].interrupted
             /\ ops'[i].previous = ops[i].previous
             /\ \/ /\ NeedsRecovery(ops[i])
                   /\ ops'[i].phase = "recovering" /\ work'[i].at = "queued"
                \/ /\ ~NeedsRecovery(ops[i]) /\ ops'[i] = ops[i]
                   /\ ops[i].phase \in Settled /\ work'[i].at = "done"
  <2>1. CASE NeedsRecovery(ops[i]) /\ ops[i].phase # "recovering"
    <3>1. "recovering" \in Entered /\ "other" \in Marks
      BY DEF Entered, Phases, Marks
    <3>2. ops'[i] = Moved(ops[i], "recovering", "other")
      BY <1>6, <2>1
    <3>3. work'[i].at = "queued"
      BY <1>6, <2>1 DEF Resting
    <3>4. Moved(ops[i], "recovering", "other").previous = ops[i].previous
      BY <1>1 DEF Moved, Operations
    <3> QED  BY <1>1, <2>1, <3>1, <3>2, <3>3, <3>4, MovedFields
  <2>2. CASE NeedsRecovery(ops[i]) /\ ops[i].phase = "recovering"
    BY <1>6, <2>2 DEF Resting
  <2>3. CASE ~NeedsRecovery(ops[i])
    <3>1. ops'[i] = ops[i] /\ work'[i].at = "done"
      BY <1>6, <2>3 DEF Resting
    <3>2. ops[i].kind \in {"run", "stop"}
      BY <1>1 DEF Operations
    <3>3. ops[i].phase \in Settled
      BY <2>3, <3>2 DEF NeedsRecovery, Unfinished, CheckedOut
    <3> QED  BY <2>3, <3>1, <3>3
  <2> QED  BY <2>1, <2>2, <2>3
<1> HIDE DEF op, task
<1> QED  BY <1>4, <1>5, <1>6, <1>7

\* What a restart finds is sound, and live before.
LEMMA RestartKeeps ==
  ASSUME TypeOK, NEW host \in BOOLEAN, NEW automatic \in BOOLEAN, Restart(host, automatic)
  PROVE  TypeOK' /\ (Tame' /\ Accounts => Accounts')
<1>1. /\ backend' \subseteq backend /\ proxy' \in {proxy, None} /\ managed' \in BOOLEAN
      /\ holder' = None /\ boot' = "read" /\ clustered' = clustered
      /\ crashes' = crashes + 1 /\ crashes < MaxCrashes
      /\ inference' \in {inference, Safe(inference)}
  BY DEF Restart, runtime, TypeOK
<1>2. crashes \in Nat /\ MaxCrashes \in Nat /\ inference \in Selections
  BY SettingsAssumption DEF TypeOK
<1>3. crashes' \in 0..MaxCrashes /\ crashes' > 0
  BY <1>1, <1>2
<1>4. TypeOK'
  BY <1>1, <1>2, <1>3, RestartFinds, SafeSelection DEF TypeOK
<1>5. ASSUME Accounts PROVE Accounts'
  <2>1. ASSUME NEW i \in Ids
        PROVE  /\ ops'[i].kind = ops[i].kind /\ ops'[i].claims = ops[i].claims
               /\ ops'[i].interrupted = ops[i].interrupted
               /\ \/ ops'[i].phase = "recovering" /\ work'[i].at = "queued"
                  \/ /\ ops'[i] = ops[i] /\ ops[i].phase \in Settled /\ work'[i].at = "done"
                     /\ "backend" \notin ops[i].claims
    <3>1. ~NeedsRecovery(ops[i]) => "backend" \notin ops[i].claims
      BY ClaimsAssumption DEF NeedsRecovery, Owns
    <3> QED  BY <3>1, RestartFinds
  <2>2. ASSUME NEW i \in Ids PROVE Sound(i)'
    <3>1. Sound(i)
      BY <1>5 DEF Accounts
    <3>2. Phased(ops[i], work[i].at)'
      BY <2>1, <3>1 DEF Sound, Phased, Settled, RetryLabels, BootLabels
    <3>3. Placed(ops[i], work[i].at)'
      BY <1>3, <2>1 DEF Placed, Launching, StopLabels, RunLabels, RetryLabels, BootLabels
    <3>4. Covered(i, ops[i], work[i].at)'
      BY <1>1, <1>3, <2>1, <3>1 DEF Sound, Covered, Unclaimed, ClaimedLabels, Settled
    <3> QED  BY <3>2, <3>3, <3>4 DEF Sound
  <2>3. Ids' = Ids
    BY RestartFinds
  <2>4. StopIsAlone' /\ Emptied'
    BY <2>1, <2>3 DEF StopIsAlone, Emptied, Stopping, StopLabels
  <2>5. OneLive'
    BY <1>5, <2>1, <2>3 DEF Accounts, OneLive, Live
  <2> QED  BY <2>2, <2>3, <2>4, <2>5 DEF Accounts
<1> QED  BY <1>4, <1>5

-----------------------------------------------------------------------------
(* The invariant, and what follows from it *)

\* Nothing has begun.
LEMMA InitIInv == Init => IInv
<1> SUFFICES ASSUME Init PROVE IInv
  OBVIOUS
<1>1. Len(ops) = 0 /\ Len(work) = 0 /\ ops \in Seq(Operations) /\ work \in Seq(Tasks)
  BY EmptySeq DEF Init
<1>2. Ids = {}
  BY <1>1 DEF Ids
<1>3. inference \in Selections
  <2>1. {Unloaded, [recipe |-> None, unloaded |-> FALSE]} \subseteq Selections
    BY DEF Unloaded, Selections
  <2> QED  BY <2>1 DEF Init
<1>4. TypeOK
  <2>1. 0 <= MaxOps /\ crashes \in 0..MaxCrashes /\ clustered \in BOOLEAN
    BY SettingsAssumption DEF Init
  <2> QED  BY <1>1, <1>2, <1>3, <2>1 DEF Init, TypeOK
<1>5. Accounts
  BY <1>2 DEF Accounts, StopIsAlone, OneLive, Emptied
<1> QED  BY <1>4, <1>5 DEF IInv

\* Steps that work on the operation they are of, and on no other.
LEMMA StepGood ==
  ASSUME TypeOK, NEW i \in Ids, Step(i)
  PROVE  Good(i) \/ StopHalt(i) \/ StopReconcile(i) \/ StopClose(i) \/ StopClosed(i)
<1>1. CASE RunStep(i)
  BY <1>1, RunLockGood, RunPrepareGood, RunCheckpointGood, RunSwitchGood, RunStartGood,
     RunLookGood, RunProxyGood, RunClaimGood, RunSucceedGood DEF RunStep
<1>2. CASE RollbackStep(i)
  BY <1>2, RollbackGood
<1>3. CASE FinishStep(i)
  BY <1>3, FinishGood, InventoryGood, EndGood DEF FinishStep
<1>4. CASE StopStep(i)
  BY <1>4, StopLockGood, StopWalkGood, EndGood DEF StopStep
<1>5. CASE RecoveryStep(i)
  BY <1>5, RecoverGood, RecoverResumeGood, RecoverRestartGood, RecoverReconnectGood,
     RecoverReactivateGood, CleanGood, RecoverAccountGood, EndGood DEF RecoveryStep
<1>6. CASE RetryStep(i)
  BY <1>6, CleanGood, InventoryGood, EndGood DEF RetryStep
<1> QED  BY <1>1, <1>2, <1>3, <1>4, <1>5, <1>6 DEF Step

\* Every step of a goroutine is good for its operation or a step of a stop.
LEMMA StepKeeps ==
  ASSUME TypeOK, NEW i \in Ids, Step(i)
  PROVE  TypeOK' /\ crashes' = crashes /\ (Tame /\ Accounts => Accounts')
<1>1. CASE Good(i)
  BY <1>1, LocalStep DEF Good, Touches, Accounts
<1>2. CASE StopHalt(i)
  <2>1. crashes' = crashes
    BY <1>2 DEF StopHalt, setting
  <2> QED  BY <1>2, <2>1, StopHaltKeeps
<1>3. CASE StopReconcile(i)
  <2>1. crashes' = crashes
    BY <1>3 DEF StopReconcile, setting
  <2> QED  BY <1>3, <2>1, StopReconcileKeeps
<1>4. CASE StopClose(i) \/ StopClosed(i)
  <2>1. crashes' = crashes
    BY <1>4 DEF StopClose, StopClosed, setting
  <2> QED  BY <1>4, <2>1, StopCloseKeeps
<1> QED  BY <1>1, <1>2, <1>3, <1>4, StepGood

\* IInv is inductive.
LEMMA NextIInv == IInv /\ [Next]_vars => IInv'
<1> SUFFICES ASSUME IInv, [Next]_vars PROVE IInv'
  OBVIOUS
<1>1. TypeOK /\ (Tame => Accounts) /\ crashes \in Nat
  BY SettingsAssumption DEF IInv, TypeOK
<1>2. ASSUME TypeOK', crashes' = crashes, Tame /\ Accounts => Accounts' PROVE IInv'
  BY <1>1, <1>2 DEF IInv, Tame, Sticks, Fails
<1>3. CASE \E recipe \in Recipes : Run(recipe) \/ Stop(recipe)
  <2>1. crashes' = crashes
    BY <1>3 DEF Run, Stop, setting
  <2> QED  BY <1>1, <1>2, <1>3, <2>1, AdmissionKeeps
<1>4. CASE \E i \in Ids : Abort(i) \/ Retry(i)
  <2>1. PICK i \in Ids : Good(i)
    BY <1>1, <1>4, AbortGood, RetryGood
  <2> QED  BY <1>1, <1>2, <2>1, LocalStep DEF Good, Touches, Accounts
<1>5. CASE \E i \in Ids : Step(i)
  BY <1>1, <1>2, <1>5, StepKeeps
<1>6. CASE BootRead \/ BootApply
  <2>1. crashes' = crashes
    BY <1>6 DEF BootRead, BootApply, setting
  <2> QED  BY <1>1, <1>2, <1>6, <2>1, BootKeeps
<1>7. CASE \E host \in BOOLEAN, automatic \in AutoRestarts : Restart(host, automatic)
  <2>1. PICK host \in BOOLEAN, automatic \in BOOLEAN : Restart(host, automatic)
    BY <1>7, SettingsAssumption
  <2>2. TypeOK' /\ (Tame' /\ Accounts => Accounts')
    BY <1>1, <2>1, RestartKeeps
  <2>3. crashes' = crashes + 1
    BY <2>1 DEF Restart
  <2>4. Tame' => Tame
    BY <1>1, <2>3 DEF Tame, Sticks, Fails
  <2> QED  BY <1>1, <2>2, <2>4 DEF IInv
<1>8. CASE UNCHANGED vars
  BY <1>8 DEF vars, journal, tasks, runtime, setting, IInv, TypeOK, Ids, Tame, Sticks, Fails,
     Accounts, StopIsAlone, OneLive, Emptied, Bare, Sound, Phased, Placed, Covered, Unclaimed
<1> QED  BY <1>3, <1>4, <1>5, <1>6, <1>7, <1>8 DEF Next, Request

\* The invariant holds in every state.
LEMMA Invariance == Spec => []IInv
<1> QED  BY InitIInv, NextIInv, PTL DEF Spec

\* The state of the lifecycle has its types.
THEOREM LifecycleTypes == Spec => []TypeOK
<1>1. IInv => TypeOK
  BY DEF IInv
<1> QED  BY <1>1, Invariance, PTL

\* Two recipes never have their runtimes up together, whatever fails, as long as
\* the daemon lives; and over any restarts where containers can be removed.  With
\* both a restart and containers that stay it does not hold: recovery starts
\* containers again that have no claim (restartActiveRecipeAfterBoot).
THEOREM OneRuntimeAtATime == Spec => [](Tame => OneBackend)
<1>1. ASSUME IInv, Tame PROVE OneBackend
  <2>1. TypeOK /\ Accounts
    BY <1>1 DEF IInv
  <2>2. \A i \in backend : i \in Ids /\ Live(ops[i])
    BY <2>1 DEF TypeOK, Accounts, Sound, Covered, Unclaimed, Live
  <2>3. \A i, j \in backend : i = j
    BY <2>1, <2>2 DEF Accounts, OneLive
  <2>4. CASE backend = {}
    <3>1. Cardinality({}) = 0
      BY FS_EmptySet
    <3> QED  BY <2>4, <3>1 DEF OneBackend
  <2>5. CASE backend # {}
    <3>1. PICK i \in backend : backend = {i}
      BY <2>3, <2>5
    <3>2. Cardinality({i}) = 1
      BY FS_Singleton
    <3>3. Cardinality(backend) = 1
      BY <3>1, <3>2
    <3> QED  BY <3>3 DEF OneBackend
  <2> QED  BY <2>4, <2>5
<1> QED  BY <1>1, Invariance, PTL

\* While the daemon lives what is up is on record, if the journal can be saved.
THEOREM WhatIsUpIsOnRecord ==
  ASSUME ~Fails("journal")
  PROVE  Spec => []NothingIsOffTheRecord
<1>1. IInv => NothingIsOffTheRecord
  <2> SUFFICES ASSUME IInv, crashes = 0
               PROVE  /\ \A i \in backend : "backend" \in ops[i].claims
                      /\ proxy \in Ids /\ ops[proxy].phase \in Settled
                           => "proxy" \in ops[proxy].claims
    BY DEF NothingIsOffTheRecord
  <2>1. TypeOK /\ \A i \in Ids : Sound(i)
    BY DEF IInv, Tame, Accounts
  <2>2. \A i \in backend : "backend" \in ops[i].claims
    BY <2>1 DEF TypeOK, Sound, Covered, Unclaimed
  <2>3. ASSUME proxy \in Ids, ops[proxy].phase \in Settled PROVE "proxy" \in ops[proxy].claims
    <3>1. Sound(proxy)
      BY <2>1, <2>3
    <3> QED  BY <2>3, <3>1 DEF Sound, Phased, Covered
  <2> QED  BY <2>2, <2>3
<1> QED  BY <1>1, Invariance, PTL

-----------------------------------------------------------------------------
(* Who accounts for the selection *)

\* Only what the recipe itself does goes wrong: its preparation, a hook, its health.
\* Of the calls, Run, Stop of a recipe that runs, and Abort while there is time.
Mild ==
    /\ Faults \subseteq {"prepare", "hook", "health"}
    /\ Requests \subseteq {"run", "stop", "abort"}

\* No restart so far, or no stop.
Calm == crashes = 0 \/ \A i \in Ids : ops[i].kind = "run"

\* A run that is not over or owns something: there is one at a time.
Busy(op) == op.kind = "run" /\ (Owns(op) \/ Unfinished(op))
OneBusy == \A i, j \in Ids : Busy(ops[i]) /\ Busy(ops[j]) => i = j

\* A run was begun with no recipe selected and loaded.
Prior(op) == op.kind = "run" => op.previous.recipe = None \/ op.previous.unloaded

\* Nothing is selected that somebody has to account for.
ManagedUp == managed /\ (clustered => proxy = Managed)
Answered == inference.unloaded \/ (inference.recipe = None /\ (crashes = 0 => ManagedUp))

\* A run accounts for the selection when it has made it its own and not yet
\* taken it back, or has taken down the managed engine that is selected.
UndoLabels == {"rollback", "undo", "restore"}
RaisedLabels ==
    {"starting", "start", "verifying", "verify", "proxy", "claim", "promote", "commit",
     "activate", "relaunch", "withdraw"} \cup UndoLabels
WaitingLabels == {"queued", "restart", "reconnect", "reactivate", "reconcile", "account"}

HoldsRecipe(op, at) ==
    /\ inference.recipe = op.recipe
    /\ \/ /\ op.interrupted \in {"verifying", "stopping"}
          /\ at \in UndoLabels \cup {"activate", "queued", "reconcile", "account"}
       \/ op.interrupted = "active" /\ at \in WaitingLabels
       \/ op.phase = "active" /\ at \in {"done", "succeed"}
HoldsManaged(at) == crashes = 0 /\ inference.recipe = None /\ at \in RaisedLabels
Holds(i) == ops[i].kind = "run" /\ (HoldsRecipe(ops[i], work[i].at) \/ HoldsManaged(work[i].at))
Accounted == Answered \/ \E i \in Ids : Holds(i)

\* A stop is at work on the run's recipe.
StoppedAt(i, labels) ==
    \E s \in Ids : ops[s].kind = "stop" /\ work[s].at \in labels /\ ops[s].recipe = ops[i].recipe

\* What a run knows of the selection and, before a restart, of what is up.
Up(i) == i \in backend /\ proxy = i /\ ~PublishesPort(managed)
ProvenLabels == {"verify", "proxy", "claim", "promote", "commit", "activate"}

Selecting(i, op, at) ==
    /\ at \notin RetryLabels
    /\ op.phase = "recovering" \/ at \in {"account", "conclude"} => crashes > 0
    /\ at = "succeed" => op.phase \in Settled \cup {"active", "stopping"}
    /\ op.phase = "active" => Loaded(op.recipe) \/ StoppedAt(i, {"reconcile-active", "close"})
    /\ at \in {"activate", "restart", "reconnect", "reactivate"} => Loaded(op.recipe)
    /\ at \in {"restart", "reconnect", "reactivate"} => op.interrupted = "active"
    /\ at \in ProvenLabels => op.phase \in {"verifying", "stopping"}
    /\ at \in {"relaunch", "await"} => inference.recipe = None

Running(i, op, at) ==
    crashes = 0 =>
        /\ op.phase = "active" => Up(i) \/ StoppedAt(i, EmptyingLabels)
        /\ at \in {"claim", "promote", "commit", "activate"} => Up(i)
        /\ at = "proxy" => i \in backend
        /\ at = "await" => ManagedUp
        /\ op.phase = "stopping" /\ at \notin {"done", "succeed"} => ~clustered

Tells(i) ==
    ops[i].kind = "run" => Selecting(i, ops[i], work[i].at) /\ Running(i, ops[i], work[i].at)

\* What a stop knows of the run it ends.
Ends(s) ==
    ops[s].kind = "stop" =>
        /\ work[s].at \in {"lock", "done"} \cup StopLabels
        /\ work[s].at \in {"lock", "halt", "unproxy", "unload"} => ActiveRuns(ops[s].recipe) # {}
        /\ work[s].at \in {"reconcile-active", "close", "closing", "report"} => inference = Unloaded

Tale ==
    /\ OneBusy /\ Accounted
    /\ \A i \in Ids : Prior(ops[i]) /\ Tells(i)
    /\ crashes = 0 => boot = "off" /\ \A s \in Ids : Ends(s)

SInv == Calm => Tale

\* What does not fail.
LEMMA MildFaults ==
  ASSUME Mild
  PROVE  /\ ~Sticks /\ ~Fails("engine") /\ ~Fails("journal") /\ ~Fails("state")
         /\ ~Fails("remove") /\ Tame
         /\ Requests \cap {"idle-stop", "late-abort", "cluster-abort", "retry", "late-retry"} = {}
BY DEF Mild, Sticks, Fails, Tame

\* While a run is at work, every other run is over and owns nothing.
LEMMA Alone ==
  ASSUME TypeOK, Accounts, Tale, NEW i \in Ids, ops[i].kind = "run",
         work[i].at \notin {"done", "succeed"}
  PROVE  /\ ops[i].phase \notin Settled \cup {"active"}
         /\ Answered \/ Holds(i)
         /\ \A j \in Ids \ {i} : ops[j].kind = "run" =>
               /\ ops[j].phase \in Settled /\ ~Owns(ops[j])
               /\ work[j].at \in {"done", "succeed"}
         /\ crashes = 0 => \A j \in Ids \ {i} : ops[j].kind = "stop" => work[j].at = "done"
<1>1. ops[i].phase \notin Settled \cup {"active"}
  BY DEF Accounts, Sound, Phased
<1>2. Busy(ops[i])
  BY <1>1 DEF Busy, Unfinished, CheckedOut
<1>3. ASSUME NEW j \in Ids \ {i}, ops[j].kind = "run"
      PROVE  /\ ops[j].phase \in Settled /\ ~Owns(ops[j])
             /\ work[j].at \in {"done", "succeed"}
  <2>1. ~Busy(ops[j])
    BY <1>2 DEF Tale, OneBusy
  <2>2. ops[j].phase \in Settled /\ ~Owns(ops[j])
    BY <1>3, <2>1 DEF Busy, Unfinished, CheckedOut
  <2> QED  BY <2>2 DEF Accounts, Sound, Phased
<1>4. \A j \in Ids \ {i} : ~Holds(j)
  BY <1>3 DEF Holds, HoldsRecipe, HoldsManaged, Settled, UndoLabels, WaitingLabels, RaisedLabels
<1>5. Answered \/ Holds(i)
  BY <1>4 DEF Tale, Accounted
<1>6. ASSUME crashes = 0, NEW j \in Ids \ {i}, ops[j].kind = "stop" PROVE work[j].at = "done"
  <2>1. work[i].at \notin QuietLabels
    BY DEF Tale, Tells, Selecting, QuietLabels, RetryLabels
  <2>2. ~Stopping(ops[j], work[j].at)
    BY <2>1 DEF Accounts, StopIsAlone
  <2>3. work[j].at \in {"lock", "done"} \cup StopLabels
    BY <1>6 DEF Tale, Ends
  <2> QED  BY <1>6, <2>2, <2>3 DEF Stopping
<1> QED  BY <1>1, <1>3, <1>5, <1>6

\* Steps of a run at work: only what it knows and what it accounts for can change.
LEMMA OwnStep ==
  ASSUME TypeOK, Accounts, Tale, NEW i \in Ids, ops[i].kind = "run",
         work[i].at \notin {"done", "succeed"}, WritesOps(i), WritesWork(i),
         ops'[i].kind = "run", ops'[i].previous = ops[i].previous,
         UNCHANGED <<crashes, boot>>, Tells(i)', Answered' \/ Holds(i)'
  PROVE  Tale'
<1>1. Ids' = Ids /\ \A j \in Ids \ {i} : ops'[j] = ops[j] /\ work'[j] = work[j]
  BY DEF WritesOps, WritesWork, Ids
<1>2. /\ \A j \in Ids \ {i} : ops[j].kind = "run" =>
            /\ ops[j].phase \in Settled /\ ~Owns(ops[j])
            /\ work[j].at \in {"done", "succeed"}
      /\ crashes = 0 => \A j \in Ids \ {i} : ops[j].kind = "stop" => work[j].at = "done"
  BY Alone
<1>3. OneBusy'
  <2>1. \A j \in Ids \ {i} : ~Busy(ops[j])
    BY <1>2 DEF Busy, Unfinished
  <2>2. \A j \in Ids \ {i} : ~Busy(ops'[j])
    BY <1>1, <2>1
  <2> QED  BY <1>1, <2>2 DEF OneBusy
<1>4. Accounted'
  BY <1>1 DEF Accounted
<1>5. ASSUME NEW j \in Ids PROVE Prior(ops'[j]) /\ Tells(j)'
  <2>1. Prior(ops[j])
    BY DEF Tale
  <2>2. CASE j = i
    BY <2>1, <2>2 DEF Prior
  <2>3. CASE j # i
    <3>1. Prior(ops'[j])
      BY <1>1, <2>1, <2>3
    <3>2. ASSUME ops[j].kind = "run"
          PROVE  ops'[j].phase \in Settled /\ work'[j].at \in {"done", "succeed"}
      BY <1>1, <1>2, <2>3, <3>2
    <3>3. Tells(j)'
      BY <1>1, <2>3, <3>2 DEF Tells, Selecting, Running, RetryLabels, ProvenLabels, Settled
    <3> QED  BY <3>1, <3>3
  <2> QED  BY <2>2, <2>3
<1>6. crashes = 0 => \A s \in Ids : Ends(s)'
  <2>1. \A s \in Ids \ {i} : crashes = 0 /\ ops'[s].kind = "stop" => work'[s].at = "done"
    BY <1>1, <1>2
  <2> QED  BY <2>1 DEF Ends
<1> QED  BY <1>1, <1>3, <1>4, <1>5, <1>6 DEF Tale

\* A run at work: its kind, and that it is neither over nor about to rest.
Working(i) == i \in Ids /\ ops[i].kind = "run" /\ work[i].at \notin {"done", "succeed"}

\* Everything such a run knows.
LEMMA Knows ==
  ASSUME TypeOK, Accounts, Tale, NEW i, Working(i)
  PROVE  /\ ops[i].phase \notin Settled \cup {"active"}
         /\ Answered \/ Holds(i)
         /\ Phased(ops[i], work[i].at) /\ Placed(ops[i], work[i].at)
         /\ Selecting(i, ops[i], work[i].at) /\ Running(i, ops[i], work[i].at)
         /\ ops[i].previous.recipe = None \/ ops[i].previous.unloaded
BY Alone DEF Working, Tale, Tells, Prior, Accounts, Sound

\* Steps that write only to the list of tasks, not to the journal.
LEMMA Walks ==
  ASSUME TypeOK, Accounts, Tale, NEW i, Working(i), UNCHANGED <<ops, crashes, boot>>,
         WritesWork(i), Selecting(i, ops[i], work[i].at)', Running(i, ops[i], work[i].at)',
         Answered' \/ Holds(i)'
  PROVE  Tale'
<1>1. WritesOps(i) /\ ops'[i] = ops[i]
  BY OpsKept
<1>2. Tells(i)'
  BY DEF Tells
<1> QED  BY <1>1, <1>2, OwnStep DEF Working

-----------------------------------------------------------------------------
(* The selection: runLocalRecipe *)

\* RunLock
LEMMA RunLockTells ==
  ASSUME TypeOK, Accounts, Tale, Mild, NEW i, Working(i), RunLock(i)
  PROVE  Tale'
<1>1. work[i].at = "lock" /\ Go(i, "prepare")
      /\ ops' = [ops EXCEPT ![i].claims = @ \cup {"backend"}]
      /\ UNCHANGED <<boot, inference, managed, backend, proxy, clustered, crashes>>
  BY MildFaults DEF RunLock, At, runtime, setting
<1>2. i \in Ids /\ ops[i].kind = "run"
  BY DEF Working
<1>3. WritesOps(i) /\ ops'[i] = [ops[i] EXCEPT !.claims = ops[i].claims \cup {"backend"}]
  <2>1. ops[i].claims \cup {"backend"} \in SUBSET Ephemeral
    BY <1>2, Entries, ClaimsAssumption DEF Operations
  <2> QED  BY <1>1, <1>2, <2>1, Claimed
<1>4. WritesWork(i) /\ work'[i].at = "prepare"
  BY <1>1, <1>2, Went DEF Labels
<1>5. /\ ops'[i].kind = "run" /\ ops'[i].recipe = ops[i].recipe
      /\ ops'[i].previous = ops[i].previous
      /\ ops'[i].phase = ops[i].phase /\ ops'[i].interrupted = ops[i].interrupted
  BY <1>2, <1>3, Entries DEF Operations
<1>6. Tells(i)'
  BY <1>1, <1>4, <1>5, Knows DEF Tells, Selecting, Running, RetryLabels, ProvenLabels
<1>7. Answered'
  BY <1>1, Knows DEF Answered, ManagedUp, Holds, HoldsRecipe, HoldsManaged,
     UndoLabels, RaisedLabels, WaitingLabels
<1> QED  BY <1>1, <1>2, <1>3, <1>4, <1>5, <1>6, <1>7, OwnStep DEF Working

\* RunPrepare
LEMMA RunPrepareTells ==
  ASSUME TypeOK, Accounts, Tale, Mild, NEW i, Working(i), RunPrepare(i)
  PROVE  Tale'
<1>1. work[i].at = "prepare" /\ (Go(i, "prepared") \/ Go(i, "finish"))
      /\ UNCHANGED <<ops, boot, inference, managed, backend, proxy, clustered, crashes>>
  BY DEF RunPrepare, At, journal, runtime, setting
<1>2. WritesWork(i) /\ work'[i].at \in {"prepared", "finish"}
  <2>1. {"prepared", "finish"} \subseteq Labels
    BY CheckpointLabels DEF Labels
  <2> QED  BY <1>1, <2>1, Went DEF Working
<1>3. Selecting(i, ops[i], work[i].at)' /\ Running(i, ops[i], work[i].at)'
  BY <1>1, <1>2, Knows DEF Selecting, Running, RetryLabels, ProvenLabels
<1>4. Answered'
  BY <1>1, Knows DEF Answered, ManagedUp, Holds, HoldsRecipe, HoldsManaged,
     UndoLabels, RaisedLabels, WaitingLabels
<1> QED  BY <1>1, <1>2, <1>3, <1>4, Walks

\* RunCheckpoint: the label it comes from, what it records and where it goes.
LEMMA RunCheckpointTells ==
  ASSUME TypeOK, Accounts, Tale, Mild, NEW i, Working(i), RunCheckpoint(i)
  PROVE  Tale'
<1>1. UNCHANGED <<boot, inference, managed, backend, proxy, clustered, crashes>>
  BY DEF RunCheckpoint, runtime, setting
<1>2. i \in Ids /\ ops[i].kind = "run"
  BY DEF Working
<1>3. PICK c \in Checkpoints : work[i].at = c.at /\ Enter(i, c.phase, c.then, c.otherwise)
  BY DEF RunCheckpoint, At
<1>4. <<c.at, c.phase, c.then, c.otherwise>> \in
        {<<"prepared", "prepared", "switching", "finish">>,
         <<"switching", "switching", "switch", "finish">>,
         <<"starting", "starting", "start", "rollback">>,
         <<"verifying", "verifying", "verify", "rollback">>,
         <<"activate", "active", "succeed", "rollback">>}
  BY DEF Checkpoints
<1>5. c.then \in Labels /\ c.otherwise \in Labels /\ c.phase \in Entered /\ None \in Marks
      /\ c.phase # "recovering"
  BY <1>4, CheckpointLabels DEF Labels, Entered, Phases, Marks
<1>6. CASE Recording(i, c.phase, None) /\ Go(i, c.then)
  <2>1. WritesOps(i) /\ ops'[i] = Moved(ops[i], c.phase, None)
    BY <1>2, <1>5, <1>6, Recorded
  <2>2. WritesWork(i) /\ work'[i].at = c.then
    BY <1>2, <1>5, <1>6, Went
  <2>3. /\ ops'[i].kind = "run" /\ ops'[i].recipe = ops[i].recipe
        /\ ops'[i].phase = c.phase /\ ops'[i].interrupted = c.phase
    BY <1>2, <1>5, <2>1, Entries, MovedFields
  <2>4. ops'[i].previous = ops[i].previous
    BY <1>2, <2>1, Entries DEF Moved, Operations
  <2>5. work[i].at = "activate" => Loaded(ops[i].recipe) /\ (crashes = 0 => Up(i))
    BY Knows DEF Selecting, Running
  <2>6. Tells(i)'
    BY <1>1, <1>3, <1>4, <2>2, <2>3, <2>5, Knows DEF Tells, Selecting, Running, RetryLabels,
       ProvenLabels, Loaded, Up, PublishesPort, Settled
  <2>7. Answered' \/ Holds(i)'
    BY <1>1, <1>3, <1>4, <2>2, <2>3, <2>5, Knows DEF Answered, ManagedUp, Holds, HoldsRecipe,
       HoldsManaged, UndoLabels, RaisedLabels, WaitingLabels, Loaded
  <2> QED  BY <1>1, <1>2, <2>1, <2>2, <2>3, <2>4, <2>6, <2>7, OwnStep DEF Working
<1>7. CASE UNCHANGED ops /\ Go(i, c.otherwise)
  <2>1. WritesWork(i) /\ work'[i].at = c.otherwise
    BY <1>2, <1>5, <1>7, Went
  <2>2. Selecting(i, ops[i], work[i].at)' /\ Running(i, ops[i], work[i].at)'
    BY <1>1, <1>3, <1>4, <1>7, <2>1, Knows DEF Selecting, Running, RetryLabels, ProvenLabels
  <2>3. Answered' \/ Holds(i)'
    BY <1>1, <1>3, <1>4, <1>7, <2>1, Knows DEF Answered, ManagedUp, Holds, HoldsRecipe,
       HoldsManaged, UndoLabels, RaisedLabels, WaitingLabels
  <2> QED  BY <1>1, <1>7, <2>1, <2>2, <2>3, Walks
<1> QED  BY <1>3, <1>6, <1>7 DEF Enter, Unrecorded

\* RunSwitch takes the managed engine down, and then the run accounts for it.
LEMMA RunSwitchTells ==
  ASSUME TypeOK, Accounts, Tale, Mild, NEW i, Working(i), RunSwitch(i)
  PROVE  Tale'
<1>1. work[i].at = "switch" /\ Go(i, "starting")
      /\ UNCHANGED <<ops, boot, inference, backend, clustered, crashes>>
  BY MildFaults DEF RunSwitch, At, journal, setting
<1>2. WritesWork(i) /\ work'[i].at = "starting"
  BY <1>1, Went, CheckpointLabels DEF Working
<1>3. Selecting(i, ops[i], work[i].at)' /\ Running(i, ops[i], work[i].at)'
  BY <1>1, <1>2, Knows DEF Selecting, Running, RetryLabels, ProvenLabels
<1>4. Answered
  BY <1>1, Knows DEF Holds, HoldsRecipe, HoldsManaged, UndoLabels, RaisedLabels, WaitingLabels
<1>5. Answered' \/ Holds(i)'
  BY <1>1, <1>2, <1>4 DEF Working, Answered, Holds, HoldsManaged, RaisedLabels
<1> QED  BY <1>1, <1>2, <1>3, <1>5, Walks

\* RunStart and RunVerify
LEMMA RunStartTells ==
  ASSUME TypeOK, Accounts, Tale, Mild, NEW i, Working(i), RunStart(i) \/ RunVerify(i)
  PROVE  Tale'
<1>1. /\ \/ work[i].at = "start" /\ (Go(i, "verifying") \/ Go(i, "rollback"))
         \/ /\ work[i].at = "verify" /\ backend' = backend
            /\ (Go(i, "proxy") /\ i \in backend) \/ Go(i, "rollback")
      /\ UNCHANGED <<ops, boot, inference, managed, proxy, clustered, crashes>>
  BY DEF RunStart, RunVerify, At, journal, runtime, setting
<1>2. {"verifying", "proxy", "rollback"} \subseteq Labels
  BY CheckpointLabels DEF Labels
<1>3. /\ WritesWork(i)
      /\ \/ work[i].at = "start" /\ work'[i].at \in {"verifying", "rollback"}
         \/ /\ work[i].at = "verify" /\ backend' = backend
            /\ (work'[i].at = "proxy" /\ i \in backend) \/ work'[i].at = "rollback"
  BY <1>1, <1>2, Went DEF Working
<1>4. Selecting(i, ops[i], work[i].at)' /\ Running(i, ops[i], work[i].at)'
  BY <1>1, <1>3, Knows DEF Selecting, Running, RetryLabels, ProvenLabels
<1>5. Answered' \/ Holds(i)'
  BY <1>1, <1>3, Knows DEF Answered, ManagedUp, Holds, HoldsRecipe,
     HoldsManaged, UndoLabels, RaisedLabels, WaitingLabels
<1> QED  BY <1>1, <1>3, <1>4, <1>5, Walks

\* RunProxy: the port is free, so the run is the one that answers.
LEMMA RunProxyTells ==
  ASSUME TypeOK, Accounts, Tale, Mild, NEW i, Working(i), RunProxy(i)
  PROVE  Tale'
<1>1. /\ work[i].at = "proxy"
      /\ \/ Go(i, "claim") /\ proxy' = i /\ ~PublishesPort(managed)
         \/ Go(i, "rollback") /\ proxy' = proxy
      /\ UNCHANGED <<ops, boot, inference, managed, backend, clustered, crashes>>
  BY DEF RunProxy, PortFree, At, journal, setting
<1>2. /\ WritesWork(i)
      /\ \/ work'[i].at = "claim" /\ proxy' = i /\ ~PublishesPort(managed)
         \/ work'[i].at = "rollback" /\ proxy' = proxy
  <2>1. {"claim", "rollback"} \subseteq Labels
    BY DEF Labels
  <2> QED  BY <1>1, <2>1, Went DEF Working
<1>3. Selecting(i, ops[i], work[i].at)'
  BY <1>1, <1>2, Knows DEF Selecting, RetryLabels, ProvenLabels
<1>4. Running(i, ops[i], work[i].at)'
  BY <1>1, <1>2, Knows DEF Running, Up, PublishesPort
<1>5. Answered' \/ Holds(i)'
  BY <1>1, <1>2, Knows DEF Answered, Working, Holds, HoldsRecipe,
     HoldsManaged, UndoLabels, RaisedLabels, WaitingLabels
<1> QED  BY <1>1, <1>2, <1>3, <1>4, <1>5, Walks

\* RunClaim
LEMMA RunClaimTells ==
  ASSUME TypeOK, Accounts, Tale, Mild, NEW i, Working(i), RunClaim(i)
  PROVE  Tale'
<1>1. work[i].at = "claim" /\ Go(i, "promote")
      /\ ops' = [ops EXCEPT ![i].claims = @ \cup {"proxy", "port"}]
      /\ UNCHANGED <<boot, inference, managed, backend, proxy, clustered, crashes>>
  BY MildFaults DEF RunClaim, At, setting
<1>2. i \in Ids /\ ops[i].kind = "run"
  BY DEF Working
<1>3. WritesOps(i) /\ ops'[i] = [ops[i] EXCEPT !.claims = ops[i].claims \cup {"proxy", "port"}]
  <2>1. ops[i].claims \cup {"proxy", "port"} \in SUBSET Ephemeral
    BY <1>2, Entries, ClaimsAssumption DEF Operations
  <2> QED  BY <1>1, <1>2, <2>1, Claimed
<1>4. WritesWork(i) /\ work'[i].at = "promote"
  BY <1>1, <1>2, Went DEF Labels
<1>5. /\ ops'[i].kind = "run" /\ ops'[i].recipe = ops[i].recipe
      /\ ops'[i].previous = ops[i].previous
      /\ ops'[i].phase = ops[i].phase /\ ops'[i].interrupted = ops[i].interrupted
  BY <1>2, <1>3, Entries DEF Operations
<1>6. Tells(i)'
  BY <1>1, <1>4, <1>5, Knows DEF Tells, Selecting, Running, RetryLabels, ProvenLabels, Up,
     PublishesPort
<1>7. Answered' \/ Holds(i)'
  BY <1>1, <1>4, <1>5, Knows DEF Answered, ManagedUp, Holds, HoldsRecipe, HoldsManaged,
     UndoLabels, RaisedLabels, WaitingLabels
<1> QED  BY <1>1, <1>2, <1>3, <1>4, <1>5, <1>6, <1>7, OwnStep DEF Working

\* RunPromote and RunCommit: the run selects its recipe and accounts for it.
LEMMA RunCommitTells ==
  ASSUME TypeOK, Accounts, Tale, Mild, NEW i, Working(i), RunPromote(i) \/ RunCommit(i)
  PROVE  Tale'
<1>1. /\ \/ /\ work[i].at = "promote" /\ inference' = inference
            /\ Go(i, "commit") \/ Go(i, "rollback")
         \/ /\ work[i].at = "commit" /\ Go(i, "activate")
            /\ inference' = [recipe |-> ops[i].recipe, unloaded |-> FALSE]
      /\ UNCHANGED <<ops, boot, managed, backend, proxy, clustered, crashes>>
  BY MildFaults DEF RunPromote, RunCommit, At, journal, runtime, setting
<1>2. {"commit", "activate", "rollback"} \subseteq Labels
  BY CheckpointLabels DEF Labels
<1>3. /\ WritesWork(i)
      /\ \/ /\ work[i].at = "promote" /\ inference' = inference
            /\ work'[i].at \in {"commit", "rollback"}
         \/ /\ work[i].at = "commit" /\ work'[i].at = "activate"
            /\ inference' = [recipe |-> ops[i].recipe, unloaded |-> FALSE]
  BY <1>1, <1>2, Went DEF Working
<1>4. Selecting(i, ops[i], work[i].at)'
  BY <1>1, <1>3, Knows DEF Selecting, RetryLabels, ProvenLabels, Loaded
<1>5. Running(i, ops[i], work[i].at)'
  BY <1>1, <1>3, Knows DEF Running, Up, PublishesPort
<1>6. Answered' \/ Holds(i)'
  <2>1. CASE work[i].at = "promote"
    BY <1>1, <1>3, <2>1, Knows DEF Answered, ManagedUp, Holds, HoldsRecipe,
       HoldsManaged, UndoLabels, RaisedLabels, WaitingLabels
  <2>2. CASE work[i].at = "commit"
    <3>1. ops[i].interrupted \in {"verifying", "stopping"}
      BY <2>2, Knows DEF Selecting, ProvenLabels, Phased
    <3> QED  BY <1>1, <1>3, <2>2, <3>1 DEF Working, Holds, HoldsRecipe
  <2> QED  BY <1>3, <2>1, <2>2
<1> QED  BY <1>1, <1>3, <1>4, <1>5, <1>6, Walks

-----------------------------------------------------------------------------
(* The selection: rolling back and finishing *)

\* RollbackUnlock and RollbackClean
LEMMA RollbackTells ==
  ASSUME TypeOK, Accounts, Tale, Mild, NEW i, Working(i), RollbackUnlock(i) \/ RollbackClean(i)
  PROVE  Tale'
<1>1. /\ \/ work[i].at = "rollback" /\ Go(i, "undo") /\ UNCHANGED proxy
         \/ work[i].at = "undo" /\ Go(i, "restore")
      /\ UNCHANGED <<ops, boot, inference, managed, clustered, crashes>>
  BY DEF RollbackUnlock, RollbackClean, At, journal, runtime, setting
<1>2. /\ WritesWork(i)
      /\ \/ work[i].at = "rollback" /\ work'[i].at = "undo" /\ UNCHANGED proxy
         \/ work[i].at = "undo" /\ work'[i].at = "restore"
  <2>1. {"undo", "restore"} \subseteq Labels
    BY DEF Labels
  <2> QED  BY <1>1, <2>1, Went DEF Working
<1>3. Selecting(i, ops[i], work[i].at)' /\ Running(i, ops[i], work[i].at)'
  BY <1>1, <1>2, Knows DEF Selecting, Running, RetryLabels, ProvenLabels
<1>4. Answered' \/ Holds(i)'
  BY <1>1, <1>2, Knows DEF Answered, ManagedUp, Working, Holds, HoldsRecipe,
     HoldsManaged, UndoLabels, RaisedLabels, WaitingLabels
<1> QED  BY <1>1, <1>2, <1>3, <1>4, Walks

\* Restore, Relaunch, AwaitRelaunch and Withdraw: there was no recipe before, so
\* the selection is unloaded, or the managed engine is and is brought up again.
LEMMA RestoreTells ==
  ASSUME TypeOK, Accounts, Tale, Mild, NEW i, Working(i),
         Restore(i) \/ Relaunch(i) \/ AwaitRelaunch(i) \/ Withdraw(i)
  PROVE  Tale'
<1> DEFINE previous == ops[i].previous
           loaded == [inference EXCEPT !.unloaded = FALSE]
<1>1. UNCHANGED <<ops, boot, clustered, crashes>>
  BY DEF Restore, Relaunch, AwaitRelaunch, Withdraw, journal, setting
<1>2. previous \in Selections /\ (previous.recipe = None \/ previous.unloaded)
  BY Entries, Knows DEF Working, Operations
<1>3. AfterRestore(i) \in {"conclude", "finish"}
      /\ (AfterRestore(i) = "conclude" => crashes > 0)
  BY Knows DEF AfterRestore, Selecting
<1>4. {"conclude", "finish", "relaunch", "await", "withdraw"} \subseteq Labels
  BY DEF Labels
<1>5. /\ \A to \in {"relaunch", "await", "withdraw"} :
            Go(i, to) => WritesWork(i) /\ work'[i].at = to
      /\ Go(i, AfterRestore(i)) \/ GoNoting(i, AfterRestore(i), TRUE)
            => WritesWork(i) /\ work'[i].at = AfterRestore(i)
  BY <1>3, <1>4, Went, Noted DEF Working
<1>6. /\ WritesWork(i)
      /\ \/ inference' = previous /\ previous.unloaded /\ work'[i].at = AfterRestore(i)
         \/ inference' = previous /\ previous.recipe = None /\ work'[i].at = "relaunch"
         \/ /\ work[i].at = "relaunch" /\ work'[i].at = "await"
            /\ inference' = loaded
            /\ managed' /\ proxy' = (IF clustered THEN Managed ELSE None)
         \/ /\ work[i].at = "await" /\ inference' = previous
            /\ UNCHANGED <<managed, proxy>> /\ work'[i].at = AfterRestore(i)
         \/ /\ work[i].at = "await" /\ UNCHANGED inference /\ work'[i].at = "withdraw"
         \/ inference' = Safe(previous) /\ work'[i].at = AfterRestore(i)
  <2>1. CASE Restore(i)
    BY <1>2, <1>5, <2>1, MildFaults DEF Restore
  <2>2. CASE Relaunch(i)
    BY <1>5, <2>2, MildFaults DEF Relaunch, At
  <2>3. CASE AwaitRelaunch(i)
    BY <1>5, <2>3, MildFaults DEF AwaitRelaunch, At, runtime
  <2>4. CASE Withdraw(i)
    BY <1>5, <2>4, MildFaults DEF Withdraw
  <2> QED  BY <2>1, <2>2, <2>3, <2>4
<1>7. Safe(previous).unloaded
  BY <1>2 DEF Safe, Selections
<1>8. /\ work[i].at \in {"relaunch", "await"} => inference.recipe = None
      /\ work[i].at = "await" /\ crashes = 0 => ManagedUp
      /\ loaded.recipe = inference.recipe
  BY Knows DEF Selecting, Running, TypeOK, Selections
<1> HIDE DEF previous, loaded
<1>9. work'[i].at \in {"relaunch", "await"} => inference'.recipe = None
  <2>1. work'[i].at = "relaunch" => inference' = previous /\ previous.recipe = None
    BY <1>3, <1>6
  <2>2. work'[i].at = "await" =>
          work[i].at = "relaunch" /\ inference' = loaded
    BY <1>3, <1>6
  <2> QED  BY <1>8, <2>1, <2>2
<1>10. Selecting(i, ops[i], work[i].at)'
  BY <1>1, <1>3, <1>6, <1>9, Knows DEF Selecting, RetryLabels, ProvenLabels
<1>11. work'[i].at = "await" => ManagedUp'
  BY <1>1, <1>3, <1>6 DEF ManagedUp
<1>12. Running(i, ops[i], work[i].at)'
  <2>1. work'[i].at \in {"relaunch", "await", "withdraw", "conclude", "finish"}
    BY <1>3, <1>6
  <2> QED  BY <1>1, <1>11, <2>1, Knows DEF Working, Running
<1>13. Answered' \/ Holds(i)'
  <2>1. CASE inference' = previous /\ previous.unloaded
    BY <2>1 DEF Answered
  <2>2. CASE inference' = previous /\ previous.recipe = None /\ work'[i].at = "relaunch"
    BY <1>1, <2>2 DEF Working, Answered, Holds, HoldsManaged, RaisedLabels
  <2>3. CASE work'[i].at = "await"
    BY <1>9, <1>11, <2>3 DEF Answered
  <2>4. CASE work[i].at = "await" /\ inference' = previous /\ UNCHANGED <<managed, proxy>>
    BY <1>1, <1>2, <1>8, <2>4 DEF previous, Answered, ManagedUp
  <2>5. CASE work[i].at = "await" /\ UNCHANGED inference /\ work'[i].at = "withdraw"
    BY <1>1, <1>8, <2>5 DEF Working, Answered, Holds, HoldsManaged, RaisedLabels
  <2>6. CASE inference' = Safe(previous)
    BY <1>7, <2>6 DEF Answered
  <2> QED  BY <1>6, <2>1, <2>2, <2>3, <2>4, <2>5, <2>6
<1> QED  BY <1>1, <1>6, <1>10, <1>12, <1>13, Walks

\* Finish: a run that is aborted has no shared proxy beside it to take down.
LEMMA FinishTells ==
  ASSUME TypeOK, Accounts, Tale, Mild, NEW i, Working(i), Finish(i)
  PROVE  Tale'
<1>1. work[i].at = "finish" /\ UNCHANGED <<ops, boot, inference, clustered, crashes>>
  BY DEF Finish, At, journal, setting
<1>2. UNCHANGED managed /\ (ops[i].phase = "stopping" \/ UNCHANGED proxy)
  BY DEF Finish, Aborted, CleanUp, runtime
<1>3. WritesWork(i) /\ work'[i].at = "inventory"
  <2>1. i \in Ids
    BY DEF Working
  <2> QED  BY <2>1, FinishWork
<1>4. Selecting(i, ops[i], work[i].at)' /\ Running(i, ops[i], work[i].at)'
  BY <1>1, <1>3, Knows DEF Selecting, Running, RetryLabels, ProvenLabels
<1>5. Answered
  BY <1>1, Knows DEF Holds, HoldsRecipe, HoldsManaged, UndoLabels, RaisedLabels, WaitingLabels
<1>6. crashes = 0 /\ ops[i].phase = "stopping" => ~clustered
  BY <1>1, Knows DEF Running
<1>7. Answered'
  BY <1>1, <1>2, <1>5, <1>6 DEF Answered, ManagedUp
<1> QED  BY <1>1, <1>3, <1>4, <1>7, Walks

\* FinishInventory
LEMMA InventoryTells ==
  ASSUME TypeOK, Accounts, Tale, Mild, NEW i, Working(i), FinishInventory(i)
  PROVE  Tale'
<1>1. work[i].at = "inventory"
      /\ UNCHANGED <<boot, inference, managed, backend, proxy, clustered, crashes>>
  BY DEF FinishInventory, At, runtime, setting
<1>2. PICK remaining \in Remaining(i, backend, proxy) :
         ops' = [ops EXCEPT ![i].claims = remaining] /\ GoNoting(i, "settle", remaining # {})
  BY DEF FinishInventory, TakeInventory
<1>3. i \in Ids /\ ops[i].kind = "run"
  BY DEF Working
<1>4. WritesOps(i) /\ ops'[i] = [ops[i] EXCEPT !.claims = remaining]
  BY <1>2, <1>3, RemainingClaims, Claimed
<1>5. WritesWork(i) /\ work'[i].at = "settle"
  <2>1. "settle" \in Labels /\ (remaining # {}) \in BOOLEAN
    BY DEF Labels
  <2> QED  BY <1>2, <1>3, <2>1, Noted
<1>6. /\ ops'[i].kind = "run" /\ ops'[i].recipe = ops[i].recipe
      /\ ops'[i].previous = ops[i].previous
      /\ ops'[i].phase = ops[i].phase /\ ops'[i].interrupted = ops[i].interrupted
  BY <1>3, <1>4, Entries DEF Operations
<1>7. Tells(i)'
  BY <1>1, <1>5, <1>6, Knows DEF Tells, Selecting, Running, RetryLabels, ProvenLabels
<1>8. Answered'
  BY <1>1, Knows DEF Answered, ManagedUp, Holds, HoldsRecipe, HoldsManaged,
     UndoLabels, RaisedLabels, WaitingLabels
<1> QED  BY <1>1, <1>3, <1>4, <1>5, <1>6, <1>7, <1>8, OwnStep DEF Working

\* Settle and RecoverConclude: a run ends without anything to account for.
LEMMA EndTells ==
  ASSUME TypeOK, Accounts, Tale, Mild, NEW i, Working(i), Settle(i) \/ RecoverConclude(i)
  PROVE  Tale'
<1>1. work[i].at \in {"settle", "conclude"}
      /\ UNCHANGED <<boot, inference, managed, backend, proxy, clustered, crashes>>
  BY DEF Settle, RecoverConclude, At, runtime, setting
<1>2. i \in Ids /\ ops[i].kind = "run"
  BY DEF Working
<1>3. CausesOf(i, ops[i].claims) \subseteq Marks /\ {None, "other"} \subseteq Marks
  BY DEF CausesOf, Marks
<1>4. PICK phase \in Settled, cause \in Marks : Conclude(i, phase, cause)
  BY <1>3 DEF Settle, RecoverConclude, Settled
<1>5. phase \in Entered /\ phase \notin {"recovering", "active", "stopping"}
  BY DEF Entered, Phases, Settled
<1>6. WritesWork(i) /\ work'[i].at = "done"
  BY <1>2, <1>4, Rested DEF Conclude
<1>7. Answered'
  BY <1>1, Knows DEF Answered, ManagedUp, Holds, HoldsRecipe, HoldsManaged,
     UndoLabels, RaisedLabels, WaitingLabels
<1>8. CASE Recording(i, phase, cause)
  <2>1. WritesOps(i) /\ ops'[i] = Moved(ops[i], phase, cause)
    BY <1>2, <1>5, <1>8, Recorded
  <2>2. ops'[i].kind = "run" /\ ops'[i].phase = phase
    BY <1>2, <1>5, <2>1, Entries, MovedFields
  <2>3. ops'[i].previous = ops[i].previous
    BY <1>2, <2>1, Entries DEF Moved, Operations
  <2>4. Tells(i)'
    BY <1>5, <1>6, <2>2 DEF Tells, Selecting, Running, RetryLabels, ProvenLabels
  <2> QED  BY <1>1, <1>2, <1>6, <1>7, <2>1, <2>2, <2>3, <2>4, OwnStep DEF Working
<1>9. CASE UNCHANGED ops
  <2>1. Selecting(i, ops[i], work[i].at)' /\ Running(i, ops[i], work[i].at)'
    BY <1>1, <1>6, <1>9, Knows DEF Selecting, Running, RetryLabels, ProvenLabels
  <2> QED  BY <1>1, <1>6, <1>7, <1>9, <2>1, Walks
<1> QED  BY <1>4, <1>8, <1>9 DEF Conclude, Unrecorded

-----------------------------------------------------------------------------
(* The selection: recovery *)

\* A recovered run is active again, and its recipe is the one that is selected.
LEMMA ReactivateTells ==
  ASSUME TypeOK, Accounts, Tale, Mild, NEW i, Working(i), crashes > 0, Loaded(ops[i].recipe),
         ops[i].phase = "recovering", Enter(i, "active", "done", "done"),
         UNCHANGED <<boot, inference, crashes>>
  PROVE  Tale'
<1>1. i \in Ids /\ ops[i].kind = "run"
  BY DEF Working
<1>2. "active" \in Entered /\ None \in Marks /\ "done" \in Labels
  BY DEF Entered, Phases, Marks, Labels
<1>3. Recording(i, "active", None) /\ Go(i, "done")
  <2>1. ValidTransition("recovering", "active")
    BY DEF ValidTransition, Transitions, Phases, Settled
  <2> QED  BY <2>1, MildFaults DEF Enter, Unrecorded
<1>4. WritesOps(i) /\ ops'[i] = Moved(ops[i], "active", None)
  BY <1>1, <1>2, <1>3, Recorded
<1>5. WritesWork(i) /\ work'[i].at = "done"
  BY <1>1, <1>2, <1>3, Went
<1>6. /\ ops'[i].kind = "run" /\ ops'[i].recipe = ops[i].recipe
      /\ ops'[i].phase = "active" /\ ops'[i].interrupted = "active"
  BY <1>1, <1>2, <1>4, Entries, MovedFields
<1>7. ops'[i].previous = ops[i].previous
  BY <1>1, <1>4, Entries DEF Moved, Operations
<1>8. crashes \in Nat
  BY SettingsAssumption DEF TypeOK
<1>9. Tells(i)'
  BY <1>5, <1>6, <1>8 DEF Tells, Selecting, Running, RetryLabels, ProvenLabels, Loaded
<1>10. Holds(i)'
  BY <1>5, <1>6 DEF Holds, HoldsRecipe, Loaded
<1> QED  BY <1>1, <1>4, <1>5, <1>6, <1>7, <1>9, <1>10, OwnStep DEF Working

\* Recover
LEMMA RecoverTells ==
  ASSUME TypeOK, Accounts, Tale, Mild, NEW i, Working(i), Recover(i)
  PROVE  Tale'
<1>1. work[i].at = "queued"
      /\ UNCHANGED <<boot, inference, managed, backend, proxy, clustered, crashes>>
  BY DEF Recover, Turn, At, runtime, setting
<1>2. ops[i].phase = "recovering" /\ crashes > 0 /\ crashes \in Nat
  BY <1>1, Knows, SettingsAssumption DEF Placed, Phased, TypeOK
<1>3. ASSUME UNCHANGED ops, NEW to \in {"resume", "restart", "reconcile"}, Go(i, to),
             to = "resume" => Resumable(i), to = "restart" => Owner(i)
      PROVE  Tale'
  <2>1. WritesWork(i) /\ work'[i].at = to
    <3>1. to \in Labels
      BY DEF Labels
    <3> QED  BY <1>3, <3>1, Went DEF Working
  <2>2. to = "restart" => Loaded(ops[i].recipe) /\ ops[i].interrupted = "active"
    BY <1>3 DEF Owner
  <2>3. Selecting(i, ops[i], work[i].at)'
    BY <1>1, <1>2, <1>3, <2>1, <2>2, Knows DEF Selecting, RetryLabels, ProvenLabels, Loaded
  <2>4. Running(i, ops[i], work[i].at)'
    BY <1>1, <1>2 DEF Running
  <2>5. to = "resume" => ops[i].interrupted \in {"preparing", "prepared"}
    BY <1>3 DEF Resumable
  <2>6. Answered' \/ Holds(i)'
    BY <1>1, <1>2, <1>3, <2>1, <2>2, <2>5, Knows DEF Answered, Working, Holds, HoldsRecipe,
       HoldsManaged, UndoLabels, RaisedLabels, WaitingLabels, Loaded
  <2> QED  BY <1>1, <1>3, <2>1, <2>3, <2>4, <2>6, Walks
<1>4. CASE Owner(i) /\ Enter(i, "active", "done", "done")
  BY <1>1, <1>2, <1>4, ReactivateTells DEF Owner
<1> QED  BY <1>3, <1>4, MildFaults DEF Recover, journal

\* RecoverResume
LEMMA RecoverResumeTells ==
  ASSUME TypeOK, Accounts, Tale, Mild, NEW i, Working(i), RecoverResume(i)
  PROVE  Tale'
<1>1. work[i].at = "resume" /\ UNCHANGED <<boot, inference, managed, proxy, clustered, crashes>>
  BY DEF RecoverResume, At, setting
<1>2. i \in Ids /\ ops[i].kind = "run" /\ crashes > 0 /\ crashes \in Nat
  BY <1>1, Knows, SettingsAssumption DEF Working, Placed, BootLabels, TypeOK
<1>3. PICK remaining \in Remaining(i, backend', proxy) :
         LET op == [ops[i] EXCEPT !.claims = remaining \ {"port"}] IN
          \/ ops' = [ops EXCEPT ![i] = Moved(op, "preparing", None)] /\ Go(i, "lock")
          \/ ops' = [ops EXCEPT ![i] = Moved(op, "failed", "other")] /\ Go(i, "done")
  BY DEF RecoverResume
<1> DEFINE op == [ops[i] EXCEPT !.claims = remaining \ {"port"}]
<1>4. op \in Operations /\ op.kind = "run" /\ op.recipe = ops[i].recipe
      /\ op.previous = ops[i].previous
  <2>1. remaining \in SUBSET Ephemeral
    BY <1>2, <1>3, RemainingClaims
  <2> QED  BY <1>2, <2>1, Entries DEF Operations
<1>5. PICK phase \in {"preparing", "failed"}, cause \in Marks, to \in {"lock", "done"} :
         ops' = [ops EXCEPT ![i] = Moved(op, phase, cause)] /\ Go(i, to)
  <2>1. None \in Marks /\ "other" \in Marks
    BY DEF Marks
  <2> QED  BY <1>3, <2>1
<1> HIDE DEF op
<1>6. phase \in Entered /\ to \in Labels
  BY DEF Entered, Phases, Labels
<1>7. Moved(op, phase, cause) \in Operations /\ Moved(op, phase, cause).kind = "run"
      /\ Moved(op, phase, cause).phase = phase
  BY <1>4, <1>6, MovedFields
<1>8. Moved(op, phase, cause).previous = ops[i].previous
  BY <1>4 DEF Moved, Operations
<1>9. WritesOps(i) /\ ops'[i] = Moved(op, phase, cause)
  BY <1>2, <1>5, <1>7, OpWritten
<1>10. WritesWork(i) /\ work'[i].at = to
  BY <1>2, <1>5, <1>6, Went
<1>11. Tells(i)'
  BY <1>1, <1>2, <1>7, <1>9, <1>10 DEF Tells, Selecting, Running, RetryLabels, ProvenLabels
<1>12. Answered'
  BY <1>1, Knows DEF Answered, ManagedUp, Holds, HoldsRecipe, HoldsManaged,
     UndoLabels, RaisedLabels, WaitingLabels
<1> QED  BY <1>1, <1>2, <1>7, <1>8, <1>9, <1>10, <1>11, <1>12, OwnStep DEF Working

\* RecoverRestart and RecoverClean
LEMMA RecoverRestartTells ==
  ASSUME TypeOK, Accounts, Tale, Mild, NEW i, Working(i), RecoverRestart(i) \/ RecoverClean(i)
  PROVE  Tale'
<1>1. /\ \/ work[i].at = "restart" /\ (Go(i, "reconnect") \/ Go(i, "reconcile"))
         \/ work[i].at = "reconcile" /\ Go(i, "account")
      /\ UNCHANGED <<ops, boot, inference, crashes>>
  BY DEF RecoverRestart, RecoverClean, At, journal, setting
<1>2. /\ WritesWork(i)
      /\ \/ work[i].at = "restart" /\ work'[i].at \in {"reconnect", "reconcile"}
         \/ work[i].at = "reconcile" /\ work'[i].at = "account"
  <2>1. {"reconnect", "reconcile", "account"} \subseteq Labels
    BY DEF Labels
  <2> QED  BY <1>1, <2>1, Went DEF Working
<1>3. crashes > 0 /\ crashes \in Nat
  BY <1>2, Knows, SettingsAssumption DEF Placed, BootLabels, TypeOK
<1>4. Selecting(i, ops[i], work[i].at)' /\ Running(i, ops[i], work[i].at)'
  BY <1>1, <1>2, <1>3, Knows DEF Selecting, Running, RetryLabels, ProvenLabels, Loaded
<1>5. Answered' \/ Holds(i)'
  BY <1>1, <1>2, <1>3, Knows DEF Answered, Working, Holds, HoldsRecipe,
     HoldsManaged, UndoLabels, RaisedLabels, WaitingLabels
<1> QED  BY <1>1, <1>2, <1>4, <1>5, Walks

\* RecoverReconnect
LEMMA RecoverReconnectTells ==
  ASSUME TypeOK, Accounts, Tale, Mild, NEW i, Working(i), RecoverReconnect(i)
  PROVE  Tale'
<1>1. work[i].at = "reconnect" /\ (Go(i, "reactivate") \/ Go(i, "reconcile"))
      /\ UNCHANGED <<boot, inference, crashes>>
  BY DEF RecoverReconnect, At, setting
<1>2. i \in Ids /\ ops[i].kind = "run" /\ crashes > 0 /\ crashes \in Nat
  BY <1>1, Knows, SettingsAssumption DEF Working, Placed, BootLabels, TypeOK
<1>3. PICK saved \in {{}, {"proxy"}} : ops' = [ops EXCEPT ![i].claims = @ \cup saved]
  BY DEF RecoverReconnect
<1>4. WritesOps(i) /\ ops'[i] = [ops[i] EXCEPT !.claims = ops[i].claims \cup saved]
  <2>1. ops[i].claims \cup saved \in SUBSET Ephemeral
    BY <1>2, Entries, ClaimsAssumption DEF Operations
  <2> QED  BY <1>2, <1>3, <2>1, Claimed
<1>5. WritesWork(i) /\ work'[i].at \in {"reactivate", "reconcile"}
  <2>1. {"reactivate", "reconcile"} \subseteq Labels
    BY DEF Labels
  <2> QED  BY <1>1, <1>2, <2>1, Went
<1>6. /\ ops'[i].kind = "run" /\ ops'[i].recipe = ops[i].recipe
      /\ ops'[i].previous = ops[i].previous
      /\ ops'[i].phase = ops[i].phase /\ ops'[i].interrupted = ops[i].interrupted
  BY <1>2, <1>4, Entries DEF Operations
<1>7. Loaded(ops[i].recipe) /\ ops[i].interrupted = "active"
  BY <1>1, Knows DEF Selecting
<1>8. Tells(i)'
  BY <1>1, <1>2, <1>5, <1>6, <1>7, Knows DEF Tells, Selecting, Running, RetryLabels,
     ProvenLabels, Loaded
<1>9. Holds(i)'
  BY <1>1, <1>5, <1>6, <1>7 DEF Holds, HoldsRecipe, WaitingLabels, Loaded
<1> QED  BY <1>1, <1>2, <1>4, <1>5, <1>6, <1>8, <1>9, OwnStep DEF Working

\* RecoverReactivate
LEMMA RecoverReactivateTells ==
  ASSUME TypeOK, Accounts, Tale, Mild, NEW i, Working(i), RecoverReactivate(i)
  PROVE  Tale'
<1>1. work[i].at = "reactivate" /\ Enter(i, "active", "done", "done")
      /\ UNCHANGED <<boot, inference, crashes>>
  BY DEF RecoverReactivate, At, setting
<1>2. ops[i].phase = "recovering" /\ crashes > 0 /\ Loaded(ops[i].recipe)
  BY <1>1, Knows DEF Placed, Phased, Selecting, BootLabels
<1> QED  BY <1>1, <1>2, ReactivateTells

\* RecoverAccount: a recipe that is not kept stops being the selected one, unless
\* the rollback of its run takes care of it.
LEMMA RecoverAccountTells ==
  ASSUME TypeOK, Accounts, Tale, Mild, NEW i, Working(i), RecoverAccount(i)
  PROVE  Tale'
<1>1. work[i].at = "account"
      /\ UNCHANGED <<boot, managed, backend, proxy, clustered, crashes>>
  BY DEF RecoverAccount, At, runtime, setting
<1>2. i \in Ids /\ ops[i].kind = "run" /\ crashes > 0 /\ crashes \in Nat
  BY <1>1, Knows, SettingsAssumption DEF Working, Selecting, TypeOK
<1>3. PICK remaining \in Remaining(i, backend, proxy) :
          /\ ops' = [ops EXCEPT ![i].claims = remaining]
          /\ \/ NeedsRollback(i) /\ Go(i, "restore") /\ UNCHANGED inference
             \/ /\ GoNoting(i, "conclude", remaining # {})
                /\ IF inference.recipe = ops[i].recipe
                   THEN inference' = Unloaded ELSE UNCHANGED inference
  BY MildFaults DEF RecoverAccount
<1>4. WritesOps(i) /\ ops'[i] = [ops[i] EXCEPT !.claims = remaining]
  BY <1>2, <1>3, RemainingClaims, Claimed
<1>5. /\ ops'[i].kind = "run" /\ ops'[i].recipe = ops[i].recipe
      /\ ops'[i].previous = ops[i].previous
      /\ ops'[i].phase = ops[i].phase /\ ops'[i].interrupted = ops[i].interrupted
  BY <1>2, <1>4, Entries DEF Operations
<1>6. /\ WritesWork(i)
      /\ \/ /\ ops[i].interrupted \in {"switching", "starting", "verifying"}
            /\ work'[i].at = "restore" /\ UNCHANGED inference
         \/ /\ work'[i].at = "conclude"
            /\ IF inference.recipe = ops[i].recipe
               THEN inference' = Unloaded ELSE UNCHANGED inference
  <2>1. {"restore", "conclude"} \subseteq Labels /\ (remaining # {}) \in BOOLEAN
    BY DEF Labels
  <2> QED  BY <1>2, <1>3, <2>1, Went, Noted DEF NeedsRollback
<1>7. Tells(i)'
  BY <1>1, <1>2, <1>5, <1>6, Knows DEF Tells, Selecting, Running, RetryLabels, ProvenLabels
<1>8. Answered \/ (inference.recipe = ops[i].recipe
                     /\ ops[i].interrupted \in {"verifying", "stopping", "active"})
  BY <1>1, <1>2, Knows DEF Holds, HoldsRecipe, HoldsManaged
<1>9. Answered' \/ Holds(i)'
  <2>1. CASE work'[i].at = "restore" /\ UNCHANGED inference
            /\ ops[i].interrupted \in {"switching", "starting", "verifying"}
    BY <1>1, <1>2, <1>5, <1>8, <2>1 DEF Answered, Holds, HoldsRecipe, UndoLabels
  <2>2. CASE inference' = Unloaded
    BY <2>2 DEF Answered, Unloaded
  <2>3. CASE inference.recipe # ops[i].recipe /\ UNCHANGED inference
    BY <1>1, <1>2, <1>8, <2>3 DEF Answered
  <2> QED  BY <1>6, <2>1, <2>2, <2>3
<1> QED  BY <1>1, <1>2, <1>4, <1>5, <1>6, <1>7, <1>9, OwnStep DEF Working

-----------------------------------------------------------------------------
(* The selection: requests *)

\* Abort: a run that has selected its recipe goes on accounting for it.
LEMMA AbortTells ==
  ASSUME TypeOK, Accounts, Tale, Mild, Calm, NEW i \in Ids, Abort(i)
  PROVE  Tale'
<1>1. ops[i].kind = "run" /\ work[i].at # "done" /\ Recording(i, "stopping", None)
      /\ ops[i].phase \notin Settled \cup {"recovering", "stopping", "active"} /\ ~clustered
      /\ UNCHANGED <<work, boot, inference, managed, backend, proxy, clustered, crashes>>
  BY MildFaults DEF Abort, tasks, runtime, setting
<1>2. work[i].at # "succeed"
  BY <1>1 DEF Tale, Tells, Selecting
<1>3. Working(i)
  BY <1>1, <1>2 DEF Working
<1>4. "stopping" \in Entered /\ None \in Marks
  BY DEF Entered, Phases, Marks
<1>5. WritesOps(i) /\ ops'[i] = Moved(ops[i], "stopping", None)
  BY <1>1, <1>4, Recorded
<1>6. /\ ops'[i].kind = "run" /\ ops'[i].recipe = ops[i].recipe
      /\ ops'[i].phase = "stopping" /\ ops'[i].interrupted = "stopping"
  BY <1>1, <1>4, <1>5, Entries, MovedFields
<1>7. ops'[i].previous = ops[i].previous
  BY <1>5, Entries DEF Moved, Operations
<1>8. WritesWork(i) /\ work'[i] = work[i]
  BY <1>1, WorkKept
<1>9. ops[i].interrupted = ops[i].phase /\ work[i].at \notin BootLabels
  BY <1>1, <1>3, Knows DEF Phased
<1>10. Tells(i)'
  <2>1. Selecting(i, ops[i], work[i].at)'
    BY <1>1, <1>2, <1>6, <1>8, <1>9, <1>3, Knows DEF Selecting, Loaded, BootLabels
  <2>2. Running(i, ops[i], work[i].at)'
    BY <1>1, <1>3, <1>6, <1>8, Knows DEF Running, Up, PublishesPort, ManagedUp
  <2> QED  BY <2>1, <2>2 DEF Tells
<1>11. Answered' \/ Holds(i)'
  BY <1>1, <1>3, <1>6, <1>8, <1>9, Knows DEF Answered, ManagedUp, Holds, HoldsRecipe,
     HoldsManaged
<1> QED  BY <1>1, <1>3, <1>5, <1>6, <1>7, <1>8, <1>10, <1>11, OwnStep DEF Working

\* RunSucceed: a run knows the same when its job is over.
LEMMA RunSucceedTells ==
  ASSUME TypeOK, Accounts, Tale, Calm, NEW i \in Ids, RunSucceed(i)
  PROVE  Tale'
<1>1. work[i].at = "succeed" /\ work' = [work EXCEPT ![i] = Resting]
      /\ UNCHANGED <<ops, boot, inference, managed, backend, proxy, clustered, crashes>>
  BY DEF RunSucceed, At, journal, runtime, setting
<1>2. WritesWork(i) /\ work'[i].at = "done"
  BY <1>1, Rested
<1>3. Ids' = Ids /\ \A j \in Ids \ {i} : work'[j] = work[j]
  BY <1>1, <1>2 DEF Ids, WritesWork
<1>4. ops[i].kind = "run"
  <2>1. ops[i].kind \in {"run", "stop"}
    BY Entries DEF Operations
  <2>2. crashes = 0 => Ends(i)
    BY DEF Tale
  <2> QED  BY <1>1, <2>1, <2>2 DEF Calm, Ends, StopLabels
<1>5. ASSUME NEW labels, NEW j \in Ids, StoppedAt(j, labels) PROVE StoppedAt(j, labels)'
  <2>1. PICK s \in Ids : ops[s].kind = "stop" /\ work[s].at \in labels
                         /\ ops[s].recipe = ops[j].recipe
    BY <1>5 DEF StoppedAt
  <2> QED  BY <1>1, <1>3, <1>4, <2>1 DEF StoppedAt
<1>6. OneBusy'
  BY <1>1, <1>3 DEF Tale, OneBusy
<1>7. Accounted'
  <2>1. Answered => Answered'
    BY <1>1 DEF Answered, ManagedUp
  <2>2. ASSUME NEW j \in Ids, Holds(j) PROVE Holds(j)'
    <3>1. CASE j = i
      BY <1>1, <1>2, <2>2, <3>1 DEF Holds, HoldsRecipe, HoldsManaged, UndoLabels, RaisedLabels,
         WaitingLabels
    <3>2. CASE j # i
      BY <1>1, <1>3, <2>2, <3>2 DEF Holds, HoldsRecipe, HoldsManaged
    <3> QED  BY <3>1, <3>2
  <2> QED  BY <1>3, <2>1, <2>2 DEF Tale, Accounted
<1>8. ASSUME NEW j \in Ids PROVE Prior(ops'[j]) /\ Tells(j)'
  <2>1. Prior(ops[j]) /\ Tells(j)
    BY DEF Tale
  <2>2. CASE j = i
    BY <1>1, <1>2, <1>5, <2>1, <2>2 DEF Tells, Selecting, Running, RetryLabels,
       ProvenLabels, Loaded, Up, PublishesPort
  <2>3. CASE j # i
    BY <1>1, <1>3, <1>5, <2>1, <2>3 DEF Tells, Selecting, Running, Loaded, Up, PublishesPort,
       ManagedUp
  <2> QED  BY <1>1, <2>1, <2>2, <2>3
<1>9. ASSUME crashes = 0, NEW s \in Ids PROVE Ends(s)'
  <2>1. Ends(s)
    BY <1>9 DEF Tale
  <2> QED  BY <1>1, <1>3, <1>4, <2>1 DEF Ends, ActiveRuns
<1> QED  BY <1>1, <1>3, <1>6, <1>7, <1>8, <1>9 DEF Tale

\* What a request appends: all is over, or a stop meets an active run.
LEMMA Begun ==
  ASSUME TypeOK, NEW op \in Operations, ops' = Append(ops, op),
         work' = Append(work, [Resting EXCEPT !.at = "lock"])
  PROVE  \E n \in Nat : /\ n \notin Ids /\ Ids' = Ids \cup {n}
                        /\ \A i \in Ids : ops'[i] = ops[i] /\ work'[i] = work[i]
                        /\ ops'[n] = op /\ work'[n].at = "lock"
<1> DEFINE task == [Resting EXCEPT !.at = "lock"]
<1>1. ops \in Seq(Operations) /\ work \in Seq(Tasks) /\ Len(work) = Len(ops) /\ Len(ops) \in Nat
  BY LenProperties DEF TypeOK
<1>2. task \in Tasks /\ task.at = "lock"
  BY DEF Resting, Tasks, Labels
<1>3. PICK n \in Nat : n = Len(ops) + 1
  BY <1>1
<1>4. /\ Len(ops') = n /\ \A i \in 1..Len(ops) : ops'[i] = ops[i]
      /\ ops'[n] = op
  BY <1>1, <1>3, AppendProperties
<1> HIDE DEF task
<1>5. /\ \A i \in 1..Len(ops) : work'[i] = work[i]
      /\ work'[n] = task
  <2>1. work' = Append(work, task)
    BY DEF task
  <2> QED  BY <1>1, <1>2, <1>3, <2>1, AppendProperties
<1>6. n \notin Ids /\ Ids' = Ids \cup {n}
  BY <1>1, <1>3, <1>4 DEF Ids
<1> QED  BY <1>2, <1>4, <1>5, <1>6 DEF Ids

\* Run: what it finds selected is what it would have to bring back.
LEMMA RunTells ==
  ASSUME TypeOK, Accounts, Tale, NEW recipe \in Recipes, Run(recipe)
  PROVE  Tale'
<1> DEFINE op == [kind |-> "run", recipe |-> recipe, phase |-> "preparing",
                  interrupted |-> "preparing", error |-> None,
                  claims |-> {}, previous |-> inference]
<1>1. /\ ops' = Append(ops, op) /\ work' = Append(work, [Resting EXCEPT !.at = "lock"])
      /\ UNCHANGED <<boot, inference, managed, backend, proxy, clustered, crashes>>
      /\ \A i \in Ids : ~BlocksAdmission(ops[i], "run")
      /\ inference.recipe = None \/ inference.unloaded
  BY DEF Run, runtime, setting
<1>2. op \in Operations /\ op.kind = "run" /\ op.phase = "preparing"
      /\ (op.previous.recipe = None \/ op.previous.unloaded)
  BY <1>1 DEF Operations, Phases, TypeOK
<1> HIDE DEF op
<1>3. PICK n \in Nat : /\ n \notin Ids /\ Ids' = Ids \cup {n}
                       /\ \A i \in Ids : ops'[i] = ops[i] /\ work'[i] = work[i]
                       /\ ops'[n] = op /\ work'[n].at = "lock"
  BY <1>1, <1>2, Begun
<1>4. ASSUME NEW i \in Ids
      PROVE  ops[i].phase \in Settled /\ ~Owns(ops[i]) /\ work[i].at \in {"done", "succeed"}
  <2>1. ops[i].kind \in {"run", "stop"} /\ ~BlocksAdmission(ops[i], "run")
    BY <1>1, Entries DEF Operations
  <2>2. ops[i].phase \in Settled /\ ~Owns(ops[i])
    BY <2>1 DEF BlocksAdmission, Unfinished, CheckedOut
  <2> QED  BY <2>2 DEF Accounts, Sound, Phased
<1>5. OneBusy'
  <2>1. \A i \in Ids : ~Busy(ops[i])
    BY <1>4 DEF Busy, Unfinished
  <2>2. \A i \in Ids : ~Busy(ops'[i])
    BY <1>3, <2>1
  <2> QED  BY <1>3, <2>2 DEF OneBusy
<1>6. Accounted'
  <2>1. \A i \in Ids : ~Holds(i)
    BY <1>4 DEF Holds, HoldsRecipe, HoldsManaged, Settled, UndoLabels, WaitingLabels, RaisedLabels
  <2>2. Answered
    BY <2>1 DEF Tale, Accounted
  <2> QED  BY <1>1, <2>2 DEF Accounted, Answered, ManagedUp
<1>7. ASSUME NEW i \in Ids PROVE Prior(ops'[i]) /\ Tells(i)'
  <2>1. Prior(ops'[i])
    BY <1>3 DEF Tale
  <2>2. ops'[i].phase \in Settled /\ work'[i].at \in {"done", "succeed"}
    BY <1>3, <1>4
  <2>3. Tells(i)'
    BY <2>2 DEF Tells, Selecting, Running, RetryLabels, ProvenLabels, Settled
  <2> QED  BY <2>1, <2>3
<1>8. Prior(ops'[n]) /\ Tells(n)'
  BY <1>2, <1>3 DEF Prior, Tells, Selecting, Running, RetryLabels, ProvenLabels
<1>9. ASSUME crashes = 0, NEW s \in Ids' PROVE Ends(s)'
  <2>1. CASE s = n
    BY <1>2, <1>3, <2>1 DEF Ends
  <2>2. CASE s \in Ids
    <3>1. work'[s].at \in {"done", "succeed"} /\ Ends(s)
      BY <1>3, <1>4, <1>9, <2>2 DEF Tale
    <3> QED  BY <1>3, <2>2, <3>1 DEF Ends, StopLabels
  <2> QED  BY <1>3, <2>1, <2>2
<1>10. \A i \in Ids' : Prior(ops'[i]) /\ Tells(i)'
  BY <1>3, <1>7, <1>8
<1>11. crashes' = 0 => boot' = "off" /\ \A s \in Ids' : Ends(s)'
  BY <1>1, <1>9 DEF Tale
<1> QED  BY <1>5, <1>6, <1>10, <1>11 DEF Tale

\* Stop: without a restart it is for an active run.
LEMMA StopTells ==
  ASSUME TypeOK, Accounts, Tale, Mild, crashes = 0, NEW recipe \in Recipes, Stop(recipe)
  PROVE  Tale'
<1> DEFINE op == [kind |-> "stop", recipe |-> recipe, phase |-> "stopping",
                  interrupted |-> "stopping", error |-> None,
                  claims |-> {}, previous |-> inference]
<1>1. /\ ops' = Append(ops, op) /\ work' = Append(work, [Resting EXCEPT !.at = "lock"])
      /\ UNCHANGED <<boot, inference, managed, backend, proxy, clustered, crashes>>
      /\ ActiveRuns(recipe) # {}
  BY MildFaults DEF Stop, runtime, setting
<1>2. op \in Operations /\ op.kind = "stop" /\ op.recipe = recipe
  BY DEF Operations, Phases, TypeOK
<1> HIDE DEF op
<1>3. PICK n \in Nat : /\ n \notin Ids /\ Ids' = Ids \cup {n}
                       /\ \A i \in Ids : ops'[i] = ops[i] /\ work'[i] = work[i]
                       /\ ops'[n] = op /\ work'[n].at = "lock"
  BY <1>1, <1>2, Begun
<1>4. ASSUME NEW labels, NEW j \in Ids, StoppedAt(j, labels) PROVE StoppedAt(j, labels)'
  <2>1. PICK s \in Ids : ops[s].kind = "stop" /\ work[s].at \in labels
                         /\ ops[s].recipe = ops[j].recipe
    BY <1>4 DEF StoppedAt
  <2> QED  BY <1>3, <2>1 DEF StoppedAt
<1>5. OneBusy'
  <2>1. ~Busy(ops'[n])
    BY <1>2, <1>3 DEF Busy
  <2> QED  BY <1>3, <2>1 DEF Tale, OneBusy
<1>6. Accounted'
  <2>1. Answered => Answered'
    BY <1>1 DEF Answered, ManagedUp
  <2>2. \A j \in Ids : Holds(j) => Holds(j)'
    BY <1>1, <1>3 DEF Holds, HoldsRecipe, HoldsManaged
  <2> QED  BY <1>3, <2>1, <2>2 DEF Tale, Accounted
<1>7. ASSUME NEW i \in Ids PROVE Prior(ops'[i]) /\ Tells(i)'
  <2>1. Prior(ops[i]) /\ Tells(i)
    BY DEF Tale
  <2>2. ops'[i] = ops[i] /\ work'[i] = work[i]
    BY <1>3
  <2>3. /\ StoppedAt(i, {"reconcile-active", "close"}) => StoppedAt(i, {"reconcile-active", "close"})'
        /\ StoppedAt(i, EmptyingLabels) => StoppedAt(i, EmptyingLabels)'
    BY <1>4 DEF EmptyingLabels
  <2>4. ops[i].kind = "run" => Selecting(i, ops[i], work[i].at)'
    BY <1>1, <2>1, <2>2, <2>3 DEF Tells, Selecting, Loaded
  <2>5. ops[i].kind = "run" => Running(i, ops[i], work[i].at)'
    BY <1>1, <2>1, <2>2, <2>3 DEF Tells, Running, Up, PublishesPort, ManagedUp
  <2> QED  BY <2>1, <2>2, <2>4, <2>5 DEF Tells
<1>8. Prior(ops'[n]) /\ Tells(n)'
  BY <1>2, <1>3 DEF Prior, Tells
<1>9. \A r \in Recipes : ActiveRuns(r)' = ActiveRuns(r)
  BY <1>2, <1>3 DEF ActiveRuns
<1>10. ASSUME NEW s \in Ids' PROVE Ends(s)'
  <2>1. CASE s = n
    BY <1>1, <1>2, <1>3, <1>9, <2>1 DEF Ends
  <2>2. CASE s \in Ids
    <3>1. Ends(s) /\ ops[s].recipe \in Recipes
      BY <2>2, Entries DEF Tale, Operations
    <3> QED  BY <1>1, <1>3, <1>9, <2>2, <3>1 DEF Ends
  <2> QED  BY <1>3, <2>1, <2>2
<1>11. \A i \in Ids' : Prior(ops'[i]) /\ Tells(i)'
  BY <1>3, <1>7, <1>8
<1>12. boot' = "off"
  BY <1>1 DEF Tale
<1> QED  BY <1>5, <1>6, <1>10, <1>11, <1>12 DEF Tale

-----------------------------------------------------------------------------
(* The selection: the provisioner and restarts *)

\* BootRead and BootApply follow a restart, and leave the selection alone.
LEMMA BootTells ==
  ASSUME TypeOK, Tale, BootRead \/ BootApply
  PROVE  Tale'
<1>1. crashes # 0
  BY DEF Tale, BootRead, BootApply
<1>2. UNCHANGED <<ops, work, inference, crashes>> /\ Ids' = Ids
  BY DEF BootRead, BootApply, journal, setting, Ids
<1>3. Accounted'
  BY <1>1, <1>2 DEF Tale, Accounted, Answered, Holds, HoldsRecipe, HoldsManaged
<1>4. \A i \in Ids : Tells(i)'
  BY <1>1, <1>2 DEF Tale, Tells, Selecting, Running, Loaded, StoppedAt
<1>5. OneBusy' /\ \A i \in Ids : Prior(ops'[i])
  BY <1>2 DEF Tale, OneBusy
<1> QED  BY <1>1, <1>2, <1>3, <1>4, <1>5 DEF Tale

\* Restart: who accounted for the selection is queued and still does.
LEMMA RestartTells ==
  ASSUME TypeOK, Accounts, Tale, NEW host \in BOOLEAN, NEW automatic \in BOOLEAN,
         Restart(host, automatic), \A i \in Ids : ops[i].kind = "run"
  PROVE  Tale'
<1>1. crashes' > 0 /\ inference' \in {inference, Safe(inference)} /\ crashes' # 0
  BY SettingsAssumption DEF Restart, TypeOK
<1>2. /\ Ids' = Ids
      /\ \A i \in Ids :
            /\ ops'[i].kind = "run" /\ ops'[i].recipe = ops[i].recipe
            /\ ops'[i].claims = ops[i].claims /\ ops'[i].interrupted = ops[i].interrupted
            /\ ops'[i].previous = ops[i].previous
            /\ \/ /\ NeedsRecovery(ops[i])
                  /\ ops'[i].phase = "recovering" /\ work'[i].at = "queued"
               \/ /\ ~NeedsRecovery(ops[i]) /\ ops'[i] = ops[i]
                  /\ ops[i].phase \in Settled /\ work'[i].at = "done"
  BY RestartFinds
<1>3. \A i \in Ids : Busy(ops'[i]) => Busy(ops[i])
  BY <1>2 DEF Busy, NeedsRecovery
<1>4. OneBusy'
  BY <1>2, <1>3 DEF Tale, OneBusy
<1>5. ASSUME NEW i \in Ids PROVE Prior(ops'[i]) /\ Tells(i)'
  <2>1. Prior(ops[i])
    BY DEF Tale
  <2>2. Prior(ops'[i])
    BY <1>2, <2>1 DEF Prior
  <2>3. Tells(i)'
    BY <1>1, <1>2 DEF Tells, Selecting, Running, RetryLabels, ProvenLabels, Settled
  <2> QED  BY <2>2, <2>3
<1>6. Accounted'
  <2>1. CASE inference' = Safe(inference)
    <3>1. inference'.unloaded
      BY <2>1 DEF Safe, TypeOK, Selections
    <3> QED  BY <3>1 DEF Accounted, Answered
  <2>2. CASE inference' = inference /\ Answered
    BY <1>1, <2>2 DEF Accounted, Answered
  <2>3. CASE inference' = inference /\ \E i \in Ids : Holds(i)
    <3>1. PICK i \in Ids : Holds(i)
      BY <2>3
    <3>2. CASE HoldsManaged(work[i].at)
      BY <1>1, <2>3, <3>2 DEF HoldsManaged, Accounted, Answered
    <3>3. CASE HoldsRecipe(ops[i], work[i].at)
      <4>1. Phased(ops[i], work[i].at)
        BY DEF Accounts, Sound
      <4>2. ops[i].phase \notin Settled
        BY <3>3, <4>1 DEF HoldsRecipe, Phased, UndoLabels, WaitingLabels, Settled
      <4>3. ops'[i].phase = "recovering" /\ work'[i].at = "queued"
        BY <1>2, <4>2
      <4>4. ops[i].interrupted \in {"verifying", "stopping", "active"}
        BY <3>3, <4>1 DEF HoldsRecipe, Phased
      <4>5. Holds(i)'
        BY <1>2, <2>3, <3>3, <4>3, <4>4 DEF Holds, HoldsRecipe, WaitingLabels
      <4> QED  BY <1>2, <4>5 DEF Accounted
    <3> QED  BY <3>1, <3>2, <3>3 DEF Holds
  <2> QED  BY <1>1, <2>1, <2>2, <2>3 DEF Tale, Accounted
<1> QED  BY <1>1, <1>2, <1>4, <1>5, <1>6 DEF Tale

-----------------------------------------------------------------------------
(* The selection: stopLocalRecipe, without a restart so far *)

Ending(s) ==
    /\ crashes = 0 /\ s \in Ids
    /\ ops[s].kind = "stop" /\ work[s].at \in {"lock"} \cup StopLabels

\* While a stop is at work nothing else is.
LEMMA Beside ==
  ASSUME TypeOK, Accounts, Tale, NEW s, Ending(s), NEW k \in Ids \ {s}
  PROVE  /\ ops[k].kind = "run" => work[k].at \in {"done", "succeed"}
         /\ ops[k].kind = "stop" => work[k].at = "done"
<1>1. work[k].at \in QuietLabels
  BY DEF Ending, Accounts, StopIsAlone, Stopping
<1>2. ops[k].kind = "run" => work[k].at \notin RetryLabels
  BY DEF Tale, Tells, Selecting
<1>3. ops[k].kind = "stop" => work[k].at \in {"lock", "done"} \cup StopLabels
  BY DEF Ending, Tale, Ends
<1> QED  BY <1>1, <1>2, <1>3 DEF QuietLabels, RetryLabels, StopLabels

\* Who empties a recipe's run is the stop that is at work.
LEMMA StoppedBy ==
  ASSUME TypeOK, Accounts, Tale, NEW s, Ending(s), NEW k \in Ids, NEW labels,
         "done" \notin labels, StoppedAt(k, labels)
  PROVE  work[s].at \in labels /\ ops[s].recipe = ops[k].recipe
BY Beside DEF StoppedAt

\* Until the selection is unloaded a stop finds the one active run, which is the
\* selected one and is up until the stop takes it down.
LEMMA StopFinds ==
  ASSUME TypeOK, Accounts, Tale, NEW s, Ending(s),
         work[s].at \in {"lock", "halt", "unproxy", "unload"}
  PROVE  \E j \in Ids \ {s} :
            /\ ActiveRuns(ops[s].recipe) = {j}
            /\ ops[j].kind = "run" /\ ops[j].phase = "active" /\ ops[j].recipe = ops[s].recipe
            /\ Loaded(ops[j].recipe) /\ Holds(j)
            /\ work[s].at \in {"lock", "halt"} => Up(j)
            /\ \A k \in Ids : ops[k].phase = "active" => k = j
<1>1. s \in Ids /\ crashes = 0 /\ ops[s].kind = "stop"
  BY DEF Ending
<1>2. ActiveRuns(ops[s].recipe) # {}
  BY <1>1 DEF Tale, Ends
<1>3. PICK j \in Ids : j \in ActiveRuns(ops[s].recipe)
  BY <1>2 DEF ActiveRuns
<1>4. ops[j].kind = "run" /\ ops[j].phase = "active" /\ ops[j].recipe = ops[s].recipe /\ j # s
  BY <1>1, <1>3 DEF ActiveRuns
<1>5. \A k \in Ids : ops[k].phase = "active" => k = j
  BY <1>4, OneActiveRun
<1>6. ActiveRuns(ops[s].recipe) = {j}
  BY <1>3, <1>5 DEF ActiveRuns
<1>7. Selecting(j, ops[j], work[j].at) /\ Running(j, ops[j], work[j].at)
  BY <1>4 DEF Tale, Tells
<1>8. ~StoppedAt(j, {"reconcile-active", "close"})
  BY StoppedBy
<1>9. Loaded(ops[j].recipe)
  BY <1>4, <1>7, <1>8 DEF Selecting
<1>10. work[j].at \in {"done", "succeed"}
  BY <1>4, Beside
<1>11. Holds(j)
  BY <1>4, <1>9, <1>10 DEF Holds, HoldsRecipe, Loaded
<1>12. work[s].at \in {"lock", "halt"} => Up(j)
  <2>1. work[s].at \in {"lock", "halt"} => ~StoppedAt(j, EmptyingLabels)
    BY StoppedBy DEF EmptyingLabels
  <2> QED  BY <1>1, <1>4, <1>7, <2>1 DEF Running
<1> QED  BY <1>4, <1>5, <1>6, <1>9, <1>11, <1>12

\* From then on nothing is selected, and only the run it ends may be active.
LEMMA StopHasUnloaded ==
  ASSUME TypeOK, Accounts, Tale, NEW s, Ending(s),
         work[s].at \in {"reconcile-active", "close", "closing", "report"}
  PROVE  /\ inference = Unloaded
         /\ \A k \in Ids : ops[k].phase = "active" =>
               /\ ops[k].kind = "run" /\ ops[k].recipe = ops[s].recipe
               /\ work[s].at \in {"reconcile-active", "close"}
<1>1. inference = Unloaded
  BY DEF Ending, Tale, Ends
<1>2. ASSUME NEW k \in Ids, ops[k].phase = "active"
      PROVE  /\ ops[k].kind = "run" /\ ops[k].recipe = ops[s].recipe
             /\ work[s].at \in {"reconcile-active", "close"}
  <2>1. ops[k].kind = "run"
    BY <1>2 DEF Accounts, Sound, Phased
  <2>2. ~Loaded(ops[k].recipe)
    BY <1>1 DEF Loaded, Unloaded
  <2>3. StoppedAt(k, {"reconcile-active", "close"})
    BY <1>2, <2>1, <2>2 DEF Tale, Tells, Selecting
  <2> QED  BY <2>1, <2>3, StoppedBy
<1> QED  BY <1>1, <1>2

\* Steps of a stop: what stays active is selected and up, or the stop's to end.
LEMMA StopKnows ==
  ASSUME TypeOK, Accounts, Tale, NEW s, Ending(s), WritesWork(s), Ids' = Ids,
         UNCHANGED <<crashes, boot>>,
         \A k \in Ids : /\ ops'[k].kind = ops[k].kind /\ ops'[k].recipe = ops[k].recipe
                        /\ ops'[k].previous = ops[k].previous
                        /\ Busy(ops'[k]) => Busy(ops[k]),
         \A k \in Ids \ {s} : ops'[k].phase \in {ops[k].phase, "stopping", "stopped", "failed"},
         \A k \in Ids \ {s} : ops[k].kind = "run" /\ ops'[k].phase = "active" =>
            /\ Loaded(ops[k].recipe)' \/ StoppedAt(k, {"reconcile-active", "close"})'
            /\ Up(k)' \/ StoppedAt(k, EmptyingLabels)',
         Accounted', Ends(s)'
  PROVE  Tale'
<1>1. s \in Ids /\ crashes = 0 /\ ops[s].kind = "stop"
  BY DEF Ending
<1>2. \A k \in Ids \ {s} : work'[k] = work[k]
  BY DEF WritesWork
<1>3. OneBusy'
  BY DEF Tale, OneBusy
<1>4. ASSUME NEW k \in Ids PROVE Prior(ops'[k]) /\ Tells(k)'
  <2>1. Prior(ops[k]) /\ Tells(k)
    BY DEF Tale
  <2>2. Prior(ops'[k])
    BY <2>1 DEF Prior
  <2>3. CASE ops[k].kind # "run"
    BY <2>2, <2>3 DEF Tells
  <2>4. CASE ops[k].kind = "run"
    <3>1. k # s
      BY <1>1, <2>4
    <3>2. work'[k].at = work[k].at /\ work[k].at \in {"done", "succeed"}
      BY <1>2, <2>4, <3>1, Beside
    <3>3. ops'[k].phase \in {ops[k].phase, "stopping", "stopped", "failed"}
      BY <3>1
    <3>4. Selecting(k, ops[k], work[k].at)
      BY <2>1, <2>4 DEF Tells
    <3>5. ops'[k].phase = "active" =>
            /\ Loaded(ops[k].recipe)' \/ StoppedAt(k, {"reconcile-active", "close"})'
            /\ Up(k)' \/ StoppedAt(k, EmptyingLabels)'
      BY <2>4, <3>1
    <3>6. Selecting(k, ops[k], work[k].at)'
      BY <3>2, <3>3, <3>4, <3>5 DEF Selecting, Settled, RetryLabels, ProvenLabels, Loaded
    <3>7. Running(k, ops[k], work[k].at)'
      BY <3>2, <3>5 DEF Running
    <3> QED  BY <2>2, <3>6, <3>7 DEF Tells
  <2> QED  BY <2>3, <2>4
<1>5. \A t \in Ids : Ends(t)'
  <2>1. \A t \in Ids \ {s} : ops[t].kind = "stop" => work'[t].at = "done"
    BY <1>2, Beside
  <2> QED  BY <2>1 DEF Ends
<1>6. boot' = "off"
  BY <1>1 DEF Tale
<1> QED  BY <1>3, <1>4, <1>5, <1>6 DEF Tale

\* Until the selection is unloaded a stop writes at most to claims.
LEMMA StopMoves ==
  ASSUME TypeOK, Accounts, Tale, NEW s, Ending(s), WritesWork(s), Ids' = Ids,
         UNCHANGED <<crashes, boot, inference>>,
         \A k \in Ids : /\ ops'[k].kind = ops[k].kind /\ ops'[k].recipe = ops[k].recipe
                        /\ ops'[k].previous = ops[k].previous /\ ops'[k].phase = ops[k].phase
                        /\ Busy(ops'[k]) => Busy(ops[k]),
         \/ /\ work[s].at = "lock" /\ work'[s].at = "halt"
            /\ UNCHANGED <<managed, backend, proxy, clustered>>
         \/ work[s].at \in {"halt", "unproxy"} /\ work'[s].at \in {"unproxy", "unload"}
  PROVE  Tale'
<1>1. s \in Ids /\ crashes = 0 /\ ops[s].kind = "stop"
  BY DEF Ending
<1>2. PICK j \in Ids \ {s} :
            /\ ActiveRuns(ops[s].recipe) = {j}
            /\ ops[j].kind = "run" /\ ops[j].phase = "active" /\ ops[j].recipe = ops[s].recipe
            /\ Loaded(ops[j].recipe)
            /\ work[s].at \in {"lock", "halt"} => Up(j)
            /\ \A k \in Ids : ops[k].phase = "active" => k = j
  BY StopFinds
<1>3. work'[j].at = work[j].at /\ work[j].at \in {"done", "succeed"}
  BY <1>2, Beside DEF WritesWork
<1>4. Loaded(ops[j].recipe)'
  BY <1>2 DEF Loaded
<1>5. Up(j)' \/ StoppedAt(j, EmptyingLabels)'
  <2>1. CASE work[s].at = "lock"
    BY <1>2, <2>1 DEF Up, PublishesPort
  <2>2. CASE work'[s].at \in {"unproxy", "unload"}
    BY <1>1, <1>2, <2>2 DEF StoppedAt, EmptyingLabels
  <2> QED  BY <2>1, <2>2
<1>6. Accounted'
  <2>1. inference'.recipe = ops[j].recipe
    BY <1>4 DEF Loaded
  <2>2. Holds(j)'
    BY <1>2, <1>3, <2>1 DEF Holds, HoldsRecipe
  <2> QED  BY <2>2 DEF Accounted
<1>7. Ends(s)'
  <2>1. j \in ActiveRuns(ops[s].recipe)'
    BY <1>1, <1>2 DEF ActiveRuns
  <2> QED  BY <1>1, <2>1 DEF Ends, StopLabels
<1>8. \A k \in Ids \ {s} : ops[k].kind = "run" /\ ops'[k].phase = "active" =>
            /\ Loaded(ops[k].recipe)' \/ StoppedAt(k, {"reconcile-active", "close"})'
            /\ Up(k)' \/ StoppedAt(k, EmptyingLabels)'
  BY <1>2, <1>4, <1>5
<1> QED  BY <1>6, <1>7, <1>8, StopKnows

\* StopLock and StopUnproxy
LEMMA StopLockTells ==
  ASSUME TypeOK, Accounts, Tale, NEW s, Ending(s), StopLock(s) \/ StopUnproxy(s)
  PROVE  Tale'
<1>1. /\ \/ /\ work[s].at = "lock" /\ Go(s, "halt")
            /\ UNCHANGED <<managed, backend, proxy, clustered>>
         \/ work[s].at = "unproxy" /\ Go(s, "unload")
      /\ UNCHANGED <<ops, crashes, boot, inference>>
  BY DEF StopLock, StopUnproxy, At, journal, runtime, setting
<1>2. /\ WritesWork(s)
      /\ \/ /\ work[s].at = "lock" /\ work'[s].at = "halt"
            /\ UNCHANGED <<managed, backend, proxy, clustered>>
         \/ work[s].at \in {"halt", "unproxy"} /\ work'[s].at \in {"unproxy", "unload"}
  <2>1. {"halt", "unload"} \subseteq Labels
    BY DEF Labels
  <2> QED  BY <1>1, <2>1, Went DEF Ending
<1>3. Ids' = Ids
  BY <1>1 DEF Ids
<1> QED  BY <1>1, <1>2, <1>3, StopMoves

\* Losing claims.
LEMMA ClaimsLost ==
  ASSUME TypeOK, NEW j \in Ids, NEW claims, claims \subseteq ops[j].claims,
         ops' = [ops EXCEPT ![j].claims = claims]
  PROVE  /\ Ids' = Ids
         /\ \A k \in Ids :
               /\ ops'[k].kind = ops[k].kind /\ ops'[k].recipe = ops[k].recipe
               /\ ops'[k].previous = ops[k].previous /\ ops'[k].phase = ops[k].phase
               /\ Busy(ops'[k]) => Busy(ops[k])
<1>1. claims \in SUBSET Ephemeral
  BY Entries DEF Operations
<1>2. WritesOps(j) /\ ops'[j] = [ops[j] EXCEPT !.claims = claims]
  BY <1>1, Claimed
<1>3. /\ ops'[j].kind = ops[j].kind /\ ops'[j].recipe = ops[j].recipe
      /\ ops'[j].previous = ops[j].previous /\ ops'[j].phase = ops[j].phase
      /\ ops'[j].claims = claims
  BY <1>2, Entries DEF Operations
<1>4. Busy(ops'[j]) => Busy(ops[j])
  BY <1>3 DEF Busy, Owns, Unfinished, CheckedOut
<1>5. Ids' = Ids /\ \A k \in Ids \ {j} : ops'[k] = ops[k]
  BY <1>2 DEF WritesOps, Ids
<1> QED  BY <1>3, <1>4, <1>5

\* StopHalt: what it cannot stop by its command it takes down, and then nothing
\* remains, as nobody else listens on the port.
LEMMA StopHaltTells ==
  ASSUME TypeOK, Accounts, Tale, Mild, NEW s, Ending(s), StopHalt(s)
  PROVE  Tale'
<1>1. work[s].at = "halt" /\ UNCHANGED <<boot, inference, managed, clustered, crashes>>
  BY DEF StopHalt, At, setting
<1>2. PICK j \in Ids \ {s} :
            /\ ActiveRuns(ops[s].recipe) = {j}
            /\ Up(j)
  BY <1>1, StopFinds
<1>3. ASSUME Go(s, "unproxy"), Ids' = Ids,
             \A k \in Ids :
                /\ ops'[k].kind = ops[k].kind /\ ops'[k].recipe = ops[k].recipe
                /\ ops'[k].previous = ops[k].previous /\ ops'[k].phase = ops[k].phase
                /\ Busy(ops'[k]) => Busy(ops[k])
      PROVE  Tale'
  <2>1. WritesWork(s) /\ work'[s].at = "unproxy"
    <3>1. "unproxy" \in Labels
      BY DEF Labels
    <3> QED  BY <1>3, <3>1, Went DEF Ending
  <2> QED  BY <1>1, <1>3, <2>1, StopMoves
<1>4. CASE Go(s, "unproxy") /\ UNCHANGED ops
  <2>1. Ids' = Ids
    BY <1>4 DEF Ids
  <2> QED  BY <1>3, <1>4, <2>1
<1>5. ASSUME NEW failed, CleanUp(j, failed), NEW remaining \in Remaining(j, backend', proxy'),
             ops' = [ops EXCEPT ![j].claims = remaining],
             Go(s, IF remaining = {} THEN "unproxy" ELSE "settle")
      PROVE  Tale'
  <2>1. j \notin backend' /\ proxy' = None /\ UNCHANGED managed
    BY <1>5, MildFaults DEF CleanUp, WithoutRuntime
  <2>2. ~PublishesPort(managed) /\ j # None
    BY <1>2, OwnersAssumption DEF Up, Ids
  <2>3. remaining = Present(j, managed, backend', proxy')
    BY <1>5, MildFaults DEF Remaining
  <2>4. remaining = {}
    BY <2>1, <2>2, <2>3 DEF Present
  <2>5. Go(s, "unproxy")
    BY <1>5, <2>4
  <2> QED  BY <1>3, <1>5, <2>4, <2>5, ClaimsLost
<1> QED  BY <1>2, <1>4, <1>5 DEF StopHalt, journal

\* StopCommit: from here on nothing is selected.
LEMMA StopCommitTells ==
  ASSUME TypeOK, Accounts, Tale, Mild, NEW s, Ending(s), StopCommit(s)
  PROVE  Tale'
<1>1. work[s].at = "unload" /\ Go(s, "reconcile-active") /\ inference' = Unloaded
      /\ UNCHANGED <<ops, crashes, boot>>
  BY MildFaults DEF StopCommit, At, journal, setting
<1>2. s \in Ids /\ ops[s].kind = "stop"
  BY DEF Ending
<1>3. WritesWork(s) /\ work'[s].at = "reconcile-active"
  BY <1>1, <1>2, Went DEF Labels
<1>4. Ids' = Ids
  BY <1>1 DEF Ids
<1>5. PICK j \in Ids \ {s} : ops[j].recipe = ops[s].recipe
                             /\ \A k \in Ids : ops[k].phase = "active" => k = j
  BY <1>1, StopFinds
<1>6. StoppedAt(j, {"reconcile-active", "close"})' /\ StoppedAt(j, EmptyingLabels)'
  BY <1>1, <1>2, <1>3, <1>4, <1>5 DEF StoppedAt, EmptyingLabels
<1>7. Accounted'
  BY <1>1 DEF Accounted, Answered, Unloaded
<1>8. Ends(s)'
  BY <1>1, <1>3 DEF Ends, StopLabels
<1>9. \A k \in Ids \ {s} : ops[k].kind = "run" /\ ops'[k].phase = "active" =>
            /\ Loaded(ops[k].recipe)' \/ StoppedAt(k, {"reconcile-active", "close"})'
            /\ Up(k)' \/ StoppedAt(k, EmptyingLabels)'
  BY <1>1, <1>5, <1>6
<1> QED  BY <1>1, <1>3, <1>4, <1>7, <1>8, <1>9, StopKnows

\* StopReconcile
LEMMA StopReconcileTells ==
  ASSUME TypeOK, Accounts, Tale, NEW s, Ending(s), StopReconcile(s)
  PROVE  Tale'
<1>1. work[s].at = "reconcile-active" /\ UNCHANGED <<boot, inference, crashes>>
  BY DEF StopReconcile, At, setting
<1>2. s \in Ids /\ ops[s].kind = "stop" /\ inference = Unloaded
  BY <1>1, StopHasUnloaded DEF Ending
<1>3. ASSUME WritesWork(s), work'[s].at \in {"report", "close"}, Ids' = Ids,
             \A k \in Ids :
                /\ ops'[k].kind = ops[k].kind /\ ops'[k].recipe = ops[k].recipe
                /\ ops'[k].previous = ops[k].previous /\ ops'[k].phase = ops[k].phase
                /\ Busy(ops'[k]) => Busy(ops[k]),
             work'[s].at = "report" => ActiveRuns(ops[s].recipe) = {}
      PROVE  Tale'
  <2>1. Accounted' /\ Ends(s)'
    BY <1>1, <1>2, <1>3 DEF Accounted, Answered, Unloaded, Ends, StopLabels
  <2>2. \A k \in Ids \ {s} : ops[k].kind = "run" /\ ops'[k].phase = "active" =>
            /\ Loaded(ops[k].recipe)' \/ StoppedAt(k, {"reconcile-active", "close"})'
            /\ Up(k)' \/ StoppedAt(k, EmptyingLabels)'
    <3> SUFFICES ASSUME NEW k \in Ids \ {s}, ops[k].kind = "run", ops'[k].phase = "active"
                 PROVE  /\ StoppedAt(k, {"reconcile-active", "close"})'
                        /\ StoppedAt(k, EmptyingLabels)'
      OBVIOUS
    <3>1. ops[k].phase = "active"
      BY <1>3
    <3>2. ops[k].recipe = ops[s].recipe
      BY <1>1, <3>1, StopHasUnloaded
    <3>3. work'[s].at = "close"
      BY <1>3, <3>1, <3>2 DEF ActiveRuns
    <3> QED  BY <1>2, <1>3, <3>2, <3>3 DEF StoppedAt, EmptyingLabels
  <2> QED  BY <1>1, <1>3, <2>1, <2>2, StopKnows
<1>4. CASE ActiveRuns(ops[s].recipe) = {} /\ Go(s, "report") /\ UNCHANGED ops
  <2>1. WritesWork(s) /\ work'[s].at = "report"
    BY <1>2, <1>4, Went DEF Labels
  <2>2. Ids' = Ids
    BY <1>4 DEF Ids
  <2> QED  BY <1>3, <1>4, <2>1, <2>2
<1>5. ASSUME NEW j \in ActiveRuns(ops[s].recipe), NEW remaining \in Remaining(j, backend, proxy),
             ops' = [ops EXCEPT ![j].claims = remaining], GoNoting(s, "close", remaining # {})
      PROVE  Tale'
  <2>1. j \in Ids
    BY DEF ActiveRuns
  <2>2. WritesWork(s) /\ work'[s].at = "close"
    <3>1. "close" \in Labels /\ (remaining # {}) \in BOOLEAN
      BY DEF Labels
    <3> QED  BY <1>2, <1>5, <3>1, Noted
  <2>3. remaining \subseteq ops[j].claims
    BY <2>1, RemainingClaims
  <2> QED  BY <1>3, <1>5, <2>1, <2>2, <2>3, ClaimsLost
<1> QED  BY <1>4, <1>5 DEF StopReconcile, journal

\* StopClose and StopClosed: the run is no longer active, and nothing is selected.
LEMMA StopCloseTells ==
  ASSUME TypeOK, Accounts, Tale, Mild, NEW s, Ending(s), StopClose(s) \/ StopClosed(s)
  PROVE  Tale'
<1>1. work[s].at \in {"close", "closing"} /\ UNCHANGED <<boot, inference, crashes>>
  BY DEF StopClose, StopClosed, At, setting
<1>2. s \in Ids /\ ops[s].kind = "stop" /\ inference = Unloaded
  BY <1>1, StopHasUnloaded DEF Ending
<1>3. PICK j \in Ids, phase \in {"stopping", "failed", "stopped"}, cause \in Marks,
           to \in {"closing", "report"} :
         /\ Recording(j, phase, cause) /\ Go(s, to) /\ ops[j].kind = "run"
         /\ work[s].at = "close" => ops[j].phase = "active"
         /\ ops[j].phase \notin Settled
  <2>1. None \in Marks /\ "inventory" \in Marks
    BY DEF Marks
  <2>2. /\ ValidTransition("active", "stopping") /\ ValidTransition("stopping", "failed")
        /\ ValidTransition("stopping", "stopped")
    BY DEF ValidTransition, Transitions, Phases, Settled
  <2>3. CASE StopClose(s)
    <3>1. PICK j \in ActiveRuns(ops[s].recipe) :
            \/ Recording(j, "stopping", None) /\ Go(s, "closing")
            \/ Unrecorded(j, "stopping") /\ Go(s, "settle")
      BY <2>3 DEF StopClose
    <3>2. j \in Ids /\ ops[j].kind = "run" /\ ops[j].phase = "active"
      BY DEF ActiveRuns
    <3>3. Recording(j, "stopping", None) /\ Go(s, "closing")
      BY <2>2, <3>1, <3>2, MildFaults DEF Unrecorded
    <3> QED  BY <2>1, <3>2, <3>3 DEF Settled
  <2>4. CASE StopClosed(s)
    <3> DEFINE ending == IF work[s].dirty THEN "failed" ELSE "stopped"
               mark == IF work[s].dirty THEN "inventory" ELSE None
    <3>1. PICK j \in Ids :
             /\ ops[j].kind = "run" /\ ops[j].phase = "stopping"
             /\ \/ Recording(j, ending, mark) /\ Go(s, "report")
                \/ Unrecorded(j, ending) /\ Go(s, "settle")
      BY <2>4 DEF StopClosed
    <3>2. ending \in {"failed", "stopped"} /\ mark \in Marks
      BY <2>1
    <3> HIDE DEF ending, mark
    <3>3. Recording(j, ending, mark) /\ Go(s, "report")
      BY <2>2, <3>1, <3>2, MildFaults DEF Unrecorded
    <3>4. work[s].at = "closing"
      BY <2>4 DEF StopClosed, At
    <3> QED  BY <3>1, <3>2, <3>3, <3>4 DEF Settled
  <2> QED  BY <2>3, <2>4
<1>4. phase \in Entered /\ phase \notin {"recovering", "active"} /\ to \in Labels
  BY DEF Entered, Phases, Labels
<1>5. WritesOps(j) /\ ops'[j] = Moved(ops[j], phase, cause)
  BY <1>3, <1>4, Recorded
<1>6. /\ ops'[j].kind = ops[j].kind /\ ops'[j].recipe = ops[j].recipe
      /\ ops'[j].phase = phase /\ ops'[j].claims = ops[j].claims
  BY <1>4, <1>5, Entries, MovedFields
<1>7. ops'[j].previous = ops[j].previous
  BY <1>5, Entries DEF Moved, Operations
<1>8. WritesWork(s) /\ work'[s].at = to
  BY <1>2, <1>3, <1>4, Went
<1>9. Ids' = Ids /\ \A k \in Ids \ {j} : ops'[k] = ops[k]
  BY <1>5 DEF WritesOps, Ids
<1>10. Busy(ops[j])
  BY <1>3 DEF Busy, Unfinished, CheckedOut
<1>11. Accounted' /\ Ends(s)'
  BY <1>1, <1>2, <1>8 DEF Accounted, Answered, Unloaded, Ends, StopLabels
<1>12. \A k \in Ids : ops'[k].phase # "active"
  <2>1. \A k \in Ids : ops[k].phase = "active" => work[s].at = "close" /\ k = j
    BY <1>1, <1>3, StopHasUnloaded, OneActiveRun
  <2> QED  BY <1>4, <1>6, <1>9, <2>1
<1>13. \A k \in Ids : /\ ops'[k].kind = ops[k].kind /\ ops'[k].recipe = ops[k].recipe
                      /\ ops'[k].previous = ops[k].previous
                      /\ Busy(ops'[k]) => Busy(ops[k])
  BY <1>6, <1>7, <1>9, <1>10
<1>14. \A k \in Ids \ {s} : ops'[k].phase \in {ops[k].phase, "stopping", "stopped", "failed"}
  BY <1>6, <1>9
<1> QED  BY <1>1, <1>8, <1>9, <1>11, <1>12, <1>13, <1>14, StopKnows

\* StopReport
LEMMA StopReportTells ==
  ASSUME TypeOK, Accounts, Tale, NEW s, Ending(s), StopReport(s)
  PROVE  Tale'
<1>1. work[s].at = "report" /\ UNCHANGED <<boot, inference, crashes>>
  BY DEF StopReport, At, setting
<1>2. s \in Ids /\ ops[s].kind = "stop" /\ inference = Unloaded
  BY <1>1, StopHasUnloaded DEF Ending
<1>3. PICK phase \in Settled, cause \in Marks : Conclude(s, phase, cause)
  <2>1. None \in Marks /\ "inventory" \in Marks
    BY DEF Marks
  <2> QED  BY <2>1 DEF StopReport, Settled
<1>4. phase \in Entered
  BY DEF Entered, Phases, Settled
<1>5. WritesWork(s) /\ work'[s].at = "done"
  BY <1>2, <1>3, Rested DEF Conclude
<1>6. WritesOps(s) /\ ops'[s].kind = "stop" /\ ops'[s].recipe = ops[s].recipe
      /\ ops'[s].previous = ops[s].previous
  <2>1. CASE Recording(s, phase, cause)
    <3>1. WritesOps(s) /\ ops'[s] = Moved(ops[s], phase, cause)
      BY <1>2, <1>4, <2>1, Recorded
    <3>2. ops'[s].previous = ops[s].previous
      BY <1>2, <3>1, Entries DEF Moved, Operations
    <3> QED  BY <1>2, <1>4, <3>1, <3>2, Entries, MovedFields
  <2>2. CASE UNCHANGED ops
    BY <1>2, <2>2, OpsKept
  <2> QED  BY <1>3, <2>1, <2>2 DEF Conclude, Unrecorded
<1>7. Ids' = Ids /\ \A k \in Ids \ {s} : ops'[k] = ops[k]
  BY <1>6 DEF WritesOps, Ids
<1>8. \A k \in Ids : ops[k].phase # "active"
  BY <1>1, StopHasUnloaded
<1>9. Accounted' /\ Ends(s)'
  BY <1>1, <1>2, <1>5 DEF Accounted, Answered, Unloaded, Ends, StopLabels
<1>10. \A k \in Ids : /\ ops'[k].kind = ops[k].kind /\ ops'[k].recipe = ops[k].recipe
                      /\ ops'[k].previous = ops[k].previous
                      /\ Busy(ops'[k]) => Busy(ops[k])
  <2>1. ~Busy(ops'[s])
    BY <1>6 DEF Busy
  <2> QED  BY <1>2, <1>6, <1>7, <2>1
<1>11. \A k \in Ids \ {s} : ops'[k].phase = ops[k].phase /\ ops'[k].phase # "active"
  BY <1>7, <1>8
<1> QED  BY <1>1, <1>5, <1>7, <1>9, <1>10, <1>11, StopKnows

-----------------------------------------------------------------------------
(* The selection's invariant, and what follows from it *)

\* A step of a goroutine makes no run a stop and no stop a run.
LEMMA KindsKept ==
  ASSUME TypeOK, Accounts, Tame, NEW i \in Ids, Step(i)
  PROVE  Ids' = Ids /\ \A k \in Ids : ops'[k].kind = ops[k].kind
<1>1. CASE Good(i)
  BY <1>1 DEF Good, Touches, Settles, WritesOps, Accounts
<1>2. CASE StopHalt(i) \/ StopReconcile(i)
  <2>1. CASE UNCHANGED ops
    BY <2>1 DEF Ids
  <2>2. ASSUME NEW j \in ActiveRuns(ops[i].recipe), NEW b, NEW p,
               NEW remaining \in Remaining(j, b, p), ops' = [ops EXCEPT ![j].claims = remaining]
        PROVE  Ids' = Ids /\ \A k \in Ids : ops'[k].kind = ops[k].kind
    <3>1. j \in Ids
      BY DEF ActiveRuns
    <3>2. remaining \subseteq ops[j].claims
      BY <3>1, RemainingClaims
    <3> QED  BY <2>2, <3>1, <3>2, ClaimsLost
  <2>3. CASE StopHalt(i)
    BY <2>1, <2>2, <2>3 DEF StopHalt, journal
  <2>4. CASE StopReconcile(i)
    BY <2>1, <2>2, <2>4 DEF StopReconcile, journal
  <2> QED  BY <1>2, <2>3, <2>4
<1>3. CASE StopClose(i) \/ StopClosed(i)
  <2>1. CASE UNCHANGED ops
    BY <2>1 DEF Ids
  <2>2. ASSUME NEW j \in Ids, NEW phase \in {"stopping", "failed", "stopped"},
               NEW cause \in {None, "inventory"}, Recording(j, phase, cause)
        PROVE  Ids' = Ids /\ \A k \in Ids : ops'[k].kind = ops[k].kind
    <3>1. phase \in Entered /\ cause \in Marks
      BY DEF Entered, Phases, Marks
    <3>2. WritesOps(j) /\ ops'[j] = Moved(ops[j], phase, cause)
      BY <2>2, <3>1, Recorded
    <3>3. ops'[j].kind = ops[j].kind
      BY <3>1, <3>2, Entries, MovedFields
    <3> QED  BY <3>2, <3>3 DEF WritesOps, Ids
  <2>3. \A recipe : ActiveRuns(recipe) \subseteq Ids
    BY DEF ActiveRuns
  <2>4. CASE StopClose(i)
    BY <2>1, <2>2, <2>3, <2>4 DEF StopClose, Unrecorded
  <2>5. CASE StopClosed(i)
    BY <2>1, <2>2, <2>5 DEF StopClosed, Unrecorded
  <2> QED  BY <1>3, <2>4, <2>5
<1> QED  BY <1>1, <1>2, <1>3, StepGood

\* Every step of a goroutine keeps account of the selection.
LEMMA StepTells ==
  ASSUME TypeOK, Accounts, Tale, Mild, Calm, NEW i \in Ids, Step(i)
  PROVE  Tale'
<1>1. ops[i].kind \in {"run", "stop"}
  BY Entries DEF Operations
<1>2. ops[i].kind = "stop" => crashes = 0 /\ work[i].at \in {"lock", "done"} \cup StopLabels
  BY <1>1 DEF Calm, Tale, Ends
<1>3. work[i].at \notin {"lock", "done", "succeed"} \cup StopLabels => Working(i)
  BY <1>1, <1>2 DEF Working
<1>4. ops[i].kind = "run" /\ work[i].at = "lock" => Working(i)
  BY DEF Working
<1>5. work[i].at \in StopLabels => Ending(i)
  <2>1. work[i].at \in StopLabels => ops[i].kind = "stop"
    BY DEF Accounts, Sound, Placed
  <2> QED  BY <1>2, <2>1 DEF Ending
<1>6. CASE RunStep(i)
  <2>1. CASE RunSucceed(i)
    BY <2>1, RunSucceedTells
  <2>2. CASE RunLock(i)
    BY <1>4, <2>2, RunLockTells DEF RunLock, At
  <2>3. CASE RunCheckpoint(i)
    <3>1. work[i].at \in {"prepared", "switching", "starting", "verifying", "activate"}
      BY <2>3 DEF RunCheckpoint, Checkpoints, At
    <3> QED  BY <1>3, <2>3, <3>1, RunCheckpointTells DEF StopLabels
  <2>4. CASE RunPrepare(i)
    BY <1>3, <2>4, RunPrepareTells DEF RunPrepare, At, StopLabels
  <2>5. CASE RunSwitch(i)
    BY <1>3, <2>5, RunSwitchTells DEF RunSwitch, At, StopLabels
  <2>6. CASE RunStart(i) \/ RunVerify(i)
    BY <1>3, <2>6, RunStartTells DEF RunStart, RunVerify, At, StopLabels
  <2>7. CASE RunProxy(i)
    BY <1>3, <2>7, RunProxyTells DEF RunProxy, At, StopLabels
  <2>8. CASE RunClaim(i)
    BY <1>3, <2>8, RunClaimTells DEF RunClaim, At, StopLabels
  <2>9. CASE RunPromote(i) \/ RunCommit(i)
    BY <1>3, <2>9, RunCommitTells DEF RunPromote, RunCommit, At, StopLabels
  <2> QED  BY <1>6, <2>1, <2>2, <2>3, <2>4, <2>5, <2>6, <2>7, <2>8, <2>9 DEF RunStep
<1>7. CASE RollbackStep(i)
  <2>1. CASE RollbackUnlock(i) \/ RollbackClean(i)
    BY <1>3, <2>1, RollbackTells DEF RollbackUnlock, RollbackClean, At, StopLabels
  <2>2. CASE Restore(i) \/ Relaunch(i) \/ AwaitRelaunch(i) \/ Withdraw(i)
    BY <1>3, <2>2, RestoreTells DEF Restore, Relaunch, AwaitRelaunch, Withdraw, At, StopLabels
  <2> QED  BY <1>7, <2>1, <2>2 DEF RollbackStep
<1>8. CASE FinishStep(i)
  <2>1. CASE Finish(i)
    BY <1>3, <2>1, FinishTells DEF Finish, At, StopLabels
  <2>2. CASE FinishInventory(i)
    BY <1>3, <2>2, InventoryTells DEF FinishInventory, At, StopLabels
  <2>3. CASE Settle(i)
    BY <1>3, <2>3, EndTells DEF Settle, At, StopLabels
  <2> QED  BY <1>8, <2>1, <2>2, <2>3 DEF FinishStep
<1>9. CASE StopStep(i)
  <2>1. CASE StopLock(i)
    <3>1. Ending(i)
      BY <1>2, <2>1 DEF Ending, StopLock, At
    <3> QED  BY <2>1, <3>1, StopLockTells
  <2>2. CASE StopUnproxy(i)
    BY <1>5, <2>2, StopLockTells DEF StopUnproxy, At, StopLabels
  <2>3. CASE StopHalt(i)
    BY <1>5, <2>3, StopHaltTells DEF StopHalt, At, StopLabels
  <2>4. CASE StopCommit(i)
    BY <1>5, <2>4, StopCommitTells DEF StopCommit, At, StopLabels
  <2>5. CASE StopReconcile(i)
    BY <1>5, <2>5, StopReconcileTells DEF StopReconcile, At, StopLabels
  <2>6. CASE StopClose(i) \/ StopClosed(i)
    BY <1>5, <2>6, StopCloseTells DEF StopClose, StopClosed, At, StopLabels
  <2>7. CASE StopReport(i)
    BY <1>5, <2>7, StopReportTells DEF StopReport, At, StopLabels
  <2> QED  BY <1>9, <2>1, <2>2, <2>3, <2>4, <2>5, <2>6, <2>7 DEF StopStep
<1>10. CASE RecoveryStep(i)
  <2>1. CASE Recover(i)
    BY <1>3, <2>1, RecoverTells DEF Recover, Turn, At, StopLabels
  <2>2. CASE RecoverResume(i)
    BY <1>3, <2>2, RecoverResumeTells DEF RecoverResume, At, StopLabels
  <2>3. CASE RecoverRestart(i) \/ RecoverClean(i)
    BY <1>3, <2>3, RecoverRestartTells DEF RecoverRestart, RecoverClean, At, StopLabels
  <2>4. CASE RecoverReconnect(i)
    BY <1>3, <2>4, RecoverReconnectTells DEF RecoverReconnect, At, StopLabels
  <2>5. CASE RecoverReactivate(i)
    BY <1>3, <2>5, RecoverReactivateTells DEF RecoverReactivate, At, StopLabels
  <2>6. CASE RecoverAccount(i)
    BY <1>3, <2>6, RecoverAccountTells DEF RecoverAccount, At, StopLabels
  <2>7. CASE RecoverConclude(i)
    BY <1>3, <2>7, EndTells DEF RecoverConclude, At, StopLabels
  <2> QED  BY <1>10, <2>1, <2>2, <2>3, <2>4, <2>5, <2>6, <2>7 DEF RecoveryStep
<1>11. ~RetryStep(i)
  <2>1. ops[i].kind = "run" => work[i].at \notin RetryLabels
    BY DEF Tale, Tells, Selecting
  <2>2. work[i].at \notin RetryLabels
    BY <1>1, <1>2, <2>1 DEF RetryLabels, StopLabels
  <2> QED  BY <2>2 DEF RetryStep, RetryClean, RetryCount, RetryConclude, At, RetryLabels
<1> QED  BY <1>6, <1>7, <1>8, <1>9, <1>10, <1>11 DEF Step

\* At first nothing runs but the managed engine, if it is the one selected.
LEMMA InitTale == Init => Tale
<1> SUFFICES ASSUME Init PROVE Tale
  OBVIOUS
<1>1. Ids = {}
  <2>1. Len(ops) = 0
    BY EmptySeq DEF Init
  <2> QED  BY <2>1 DEF Ids
<1>2. Answered
  BY DEF Init, Answered, ManagedUp, Unloaded
<1> QED  BY <1>1, <1>2 DEF Tale, OneBusy, Accounted, Init

\* SInv is inductive.
LEMMA NextSInv ==
  ASSUME Mild, IInv, SInv, [Next]_vars
  PROVE  SInv'
<1> SUFFICES ASSUME Calm' PROVE Tale'
  BY DEF SInv
<1>1. TypeOK /\ Accounts /\ Tame /\ (Calm => Tale) /\ crashes \in Nat
  BY MildFaults, SettingsAssumption DEF IInv, SInv, TypeOK
<1>2. ASSUME crashes' = crashes, Ids \subseteq Ids',
             \A i \in Ids : ops'[i].kind = ops[i].kind
      PROVE  Calm
  BY <1>2 DEF Calm
<1>3. CASE \E i \in Ids : Step(i)
  <2>1. PICK i \in Ids : Step(i)
    BY <1>3
  <2>2. Calm
    BY <1>1, <1>2, <2>1, StepKeeps, KindsKept
  <2> QED  BY <1>1, <2>1, <2>2, StepTells
<1>4. CASE \E i \in Ids : Abort(i)
  <2>1. PICK i \in Ids : Abort(i)
    BY <1>4
  <2>2. crashes' = crashes /\ Ids' = Ids /\ \A k \in Ids : ops'[k].kind = ops[k].kind
    BY <1>1, <2>1, AbortGood DEF Good, Touches, Settles, WritesOps, Accounts
  <2>3. Calm
    BY <1>2, <2>2
  <2> QED  BY <1>1, <2>1, <2>3, AbortTells
<1>5. \A i \in Ids : ~Retry(i)
  BY MildFaults DEF Retry
<1>6. ASSUME NEW recipe \in Recipes, Run(recipe) PROVE Tale'
  <2> DEFINE op == [kind |-> "run", recipe |-> recipe, phase |-> "preparing",
                    interrupted |-> "preparing", error |-> None,
                    claims |-> {}, previous |-> inference]
  <2>1. op \in Operations
    BY <1>1 DEF Operations, Phases, TypeOK
  <2>2. ops' = Append(ops, op) /\ work' = Append(work, [Resting EXCEPT !.at = "lock"])
        /\ crashes' = crashes
    BY <1>6 DEF Run, setting
  <2> HIDE DEF op
  <2>3. Ids \subseteq Ids' /\ \A i \in Ids : ops'[i] = ops[i]
    BY <1>1, <2>1, <2>2, Begun
  <2>4. Calm
    BY <1>2, <2>2, <2>3
  <2> QED  BY <1>1, <1>6, <2>4, RunTells
<1>7. ASSUME NEW recipe \in Recipes, Stop(recipe) PROVE Tale'
  <2> DEFINE op == [kind |-> "stop", recipe |-> recipe, phase |-> "stopping",
                    interrupted |-> "stopping", error |-> None,
                    claims |-> {}, previous |-> inference]
  <2>1. op \in Operations /\ op.kind = "stop"
    BY <1>1 DEF Operations, Phases, TypeOK
  <2>2. ops' = Append(ops, op) /\ work' = Append(work, [Resting EXCEPT !.at = "lock"])
        /\ crashes' = crashes
    BY <1>7 DEF Stop, setting
  <2> HIDE DEF op
  <2>a. TypeOK
    BY <1>1
  <2>b. PICK n \in Nat : Ids' = Ids \cup {n} /\ ops'[n] = op
    BY <2>a, <2>1, <2>2, Begun
  <2>3. \E i \in Ids' : ops'[i].kind = "stop"
    BY <2>1, <2>b
  <2>4. crashes = 0
    BY <2>2, <2>3 DEF Calm
  <2>5. Calm
    BY <2>4 DEF Calm
  <2> QED  BY <1>1, <1>7, <2>4, <2>5, StopTells
<1>8. CASE BootRead \/ BootApply
  <2>1. UNCHANGED <<ops, crashes>> /\ Ids' = Ids
    BY <1>8 DEF BootRead, BootApply, journal, setting, Ids
  <2>2. Calm
    BY <1>2, <2>1
  <2> QED  BY <1>1, <1>8, <2>2, BootTells
<1>9. CASE \E host \in BOOLEAN, automatic \in AutoRestarts : Restart(host, automatic)
  <2>1. PICK host \in BOOLEAN, automatic \in BOOLEAN : Restart(host, automatic)
    BY <1>9, SettingsAssumption
  <2>2. crashes' # 0
    BY <1>1, <2>1 DEF Restart
  <2>3. \A i \in Ids : ops[i].kind = "run"
    BY <1>1, <2>1, <2>2, RestartFinds DEF Calm
  <2> QED  BY <1>1, <2>1, <2>3, RestartTells DEF Calm
<1>10. CASE UNCHANGED vars
  <2>1. UNCHANGED <<ops, work, holder, boot, inference, managed, backend, proxy, clustered, crashes>>
    BY <1>10 DEF vars, journal, tasks, runtime, setting
  <2>2. Calm
    BY <2>1 DEF Calm, Ids
  <2>3. OneBusy' /\ Accounted'
    BY <1>1, <2>1, <2>2 DEF Tale, OneBusy, Accounted, Answered, ManagedUp, Holds, HoldsRecipe,
       HoldsManaged, Ids
  <2>4. \A i \in Ids : Prior(ops'[i]) /\ Tells(i)'
    BY <1>1, <2>1, <2>2 DEF Tale, Tells, Selecting, Running, Loaded, StoppedAt, Up,
       PublishesPort, ManagedUp, Ids
  <2>5. \A i \in Ids : Ends(i) => Ends(i)'
    BY <2>1 DEF Ends, ActiveRuns, Ids
  <2>6. Ids' = Ids
    BY <2>1 DEF Ids
  <2> QED  BY <1>1, <2>1, <2>2, <2>3, <2>4, <2>5, <2>6 DEF Tale
<1> QED  BY <1>3, <1>4, <1>5, <1>6, <1>7, <1>8, <1>9, <1>10 DEF Next, Request

\* The selection is accounted for in every state.
LEMMA SelectionAccounted ==
  ASSUME Mild
  PROVE  Spec => [](IInv /\ SInv)
<1>1. Init => IInv /\ SInv
  BY InitIInv, InitTale DEF SInv
<1>2. IInv /\ SInv /\ [Next]_vars => (IInv /\ SInv)'
  BY NextIInv, NextSInv
<1> QED  BY <1>1, <1>2, PTL DEF Spec

\* As long as the daemon lives, what is selected when all is quiet is what
\* answers, however runs fail or are aborted (restorePreviousOrMarkUnloaded).
\* "Mild" says what may go wrong.  Containers that cannot be looked up or removed,
\* files that cannot be saved, a cleanup that is retried, a Stop of what does not
\* run, an abort that is too late or beside a shared proxy are the exceptions.
THEOREM TheSelectedOneAnswers ==
  ASSUME Mild
  PROVE  Spec => []SelectionIsServedAfterFailures
<1>1. IInv /\ SInv => SelectionIsServedAfterFailures
  <2> SUFFICES ASSUME IInv, SInv, crashes = 0, Idle, ~inference.unloaded
               PROVE  Serving(inference.recipe)
    BY DEF SelectionIsServedAfterFailures, SelectionIsServed
  <2>1. TypeOK /\ Tale
    BY DEF IInv, SInv, Calm
  <2>2. CASE Answered
    BY <2>2 DEF Answered, ManagedUp, Serving
  <2>3. ASSUME NEW i \in Ids, Holds(i) PROVE Serving(inference.recipe)
    <3>1. work[i].at = "done" /\ ops[i].kind = "run"
      BY <2>3 DEF Idle, Holds
    <3>2. inference.recipe = ops[i].recipe /\ ops[i].phase = "active"
      BY <2>3, <3>1 DEF Holds, HoldsRecipe, HoldsManaged, UndoLabels, RaisedLabels, WaitingLabels
    <3>3. ~StoppedAt(i, EmptyingLabels)
      BY DEF Idle, StoppedAt, EmptyingLabels
    <3>4. Up(i)
      BY <2>1, <3>1, <3>2, <3>3 DEF Tale, Tells, Running
    <3>5. ops[i].recipe # None
      BY <2>1, Entries, RecipesAssumption DEF Operations
    <3> QED  BY <3>2, <3>4, <3>5 DEF Up, Serving
  <2> QED  BY <2>1, <2>2, <2>3 DEF Tale, Accounted
<1> QED  BY <1>1, SelectionAccounted, PTL

\* The journal and the selection agree when all is quiet: as long as the daemon
\* lives, and over restarts at any point until a first Stop is begun
\* (CommitInferenceRuntime, closeActiveRecipeOperation, recoverRecipeOperation).
THEOREM TheFilesAgree ==
  ASSUME Mild
  PROVE  Spec => []FilesAgree
<1>1. IInv /\ SInv => FilesAgree
  <2> SUFFICES ASSUME IInv, SInv, Calm, Idle
               PROVE  /\ \A i \in Ids : ops[i].phase = "active" => Loaded(ops[i].recipe)
                      /\ inference.recipe # None /\ ~inference.unloaded =>
                            ActiveRuns(inference.recipe) # {}
    BY DEF FilesAgree, SelectionMatchesJournal, Calm
  <2>1. Accounts /\ Tale
    BY MildFaults DEF IInv, SInv
  <2>2. ASSUME NEW i \in Ids, ops[i].phase = "active" PROVE Loaded(ops[i].recipe)
    <3>1. ops[i].kind = "run"
      BY <2>1, <2>2 DEF Accounts, Sound, Phased
    <3>2. ~StoppedAt(i, {"reconcile-active", "close"})
      BY DEF Idle, StoppedAt
    <3> QED  BY <2>1, <2>2, <3>1, <3>2 DEF Tale, Tells, Selecting
  <2>3. ASSUME inference.recipe # None, ~inference.unloaded
        PROVE  ActiveRuns(inference.recipe) # {}
    <3>1. PICK i \in Ids : Holds(i)
      BY <2>1, <2>3 DEF Tale, Accounted, Answered
    <3>2. work[i].at = "done" /\ ops[i].kind = "run"
      BY <3>1 DEF Idle, Holds
    <3>3. inference.recipe = ops[i].recipe /\ ops[i].phase = "active"
      BY <2>3, <3>1, <3>2 DEF Holds, HoldsRecipe, HoldsManaged, UndoLabels, WaitingLabels
    <3> QED  BY <3>2, <3>3 DEF ActiveRuns
  <2> QED  BY <2>2, <2>3
<1> QED  BY <1>1, SelectionAccounted, PTL

=============================================================================
