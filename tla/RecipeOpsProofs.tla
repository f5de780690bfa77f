--------------------------- MODULE RecipeOpsProofs ---------------------------
(***************************************************************************)
(* Proofs about the recipe journal, for every value of its constants.      *)
(*                                                                         *)
(* The argument: every step leaves the stored operations alone, replaces   *)
(* one of them, begins one, or prunes some (StepShape).  Each invariant is *)
(* then preserved by these four shapes, whatever action has them.          *)
(***************************************************************************)
EXTENDS RecipeOps, TLAPS, WellFoundedInduction

-----------------------------------------------------------------------------
(* Facts about the operators *)

\* A set of operation ids that is not empty has a newest one, and Newest is it.
LEMMA NewestIsMember ==
    ASSUME NEW ids \in SUBSET OpIds, ids # {}
    PROVE  Newest(ids) \in ids /\ \A j \in ids : j <= Newest(ids)
<1> DEFINE mirror == {n \in Nat : \E i \in ids : n = MaxOps - i}
           less == OpToRel(<, Nat)
<1>1. ids \subseteq Nat /\ \A i \in ids : MaxOps - i \in Nat
  BY MaxOpsAssumption DEF OpIds
<1>2. mirror \subseteq Nat /\ mirror # {}
  BY <1>1
<1>3. IsWellFoundedOn(less, Nat)
  BY NatLessThanWellFounded
<1>4. PICK n \in mirror : \A m \in mirror : <<m, n>> \notin less
  BY <1>2, <1>3, WFMin
<1>5. PICK i \in ids : n = MaxOps - i
  OBVIOUS
<1>6. \A m \in mirror : ~(m < n)
  BY <1>2, <1>4 DEF OpToRel
<1>7. \A j \in ids : j <= i
  <2> TAKE j \in ids
  <2>1. MaxOps - j \in mirror
    BY <1>1
  <2>2. ~(MaxOps - j < MaxOps - i)
    BY <1>5, <1>6, <2>1
  <2> QED
    BY <2>2, MaxOpsAssumption DEF OpIds
<1>8. QED
  BY <1>7 DEF Newest

\* Every kind of operation starts in one of the phases.
LEMMA InitialPhaseType == \A kind \in Kinds : InitialPhase(kind) \in Phases
BY DEF Kinds, InitialPhase, Phases

\* A fresh operation is well formed, and so is what Moved makes of one.
LEMMA NewOperationType ==
    ASSUME NEW kind \in Kinds, NEW recipe \in Recipes, NEW revision \in Revisions,
           NEW preflight \in Artifacts \cup {None}
    PROVE  NewOperation(kind, recipe, revision, preflight) \in Operations
BY InitialPhaseType DEF NewOperation, Operations

\* Transition turns a well formed operation into a well formed one.
LEMMA MovedType ==
    ASSUME NEW op \in Operations, NEW next \in Phases, NEW cause \in Causes \cup {None}
    PROVE  /\ Moved(op, next, cause) \in Operations
           /\ \A field \in {"kind", "recipe", "revision", "preflight"} :
                 Moved(op, next, cause)[field] = op[field]
BY DEF Moved, Operations

\* The artifact that BindPreflight writes is well formed.
LEMMA NewPreflightType ==
    ASSUME NEW op \in Operations
    PROVE  /\ NewPreflight(op) \in Artifacts
           /\ NewPreflight(op).recipe = op.recipe
           /\ NewPreflight(op).revision = op.revision
BY DEF NewPreflight, Operations, Artifacts

-----------------------------------------------------------------------------
(* What a step can do to the stored operations *)

Kept ==
    /\ doc'.operations = doc.operations
    /\ disk'.operations = disk.operations

\* The same operation, its verdict included, except that a check may get one,
\* and is over only with one that admits a run; only a late cleanup brings it
\* back once it is over; a claim it loses is all that changes in that step.
SameWork(old, new) ==
    /\ new.kind = old.kind /\ new.recipe = old.recipe /\ new.revision = old.revision
    /\ NeedsRecovery(new) => NeedsRecovery(old) \/ LateCleanup
    /\ \/ new.preflight = old.preflight
       \/ /\ new.kind = "check"
          /\ new.preflight.recipe = new.recipe
          /\ new.preflight.revision = new.revision
    /\ CheckedOut(new) =>
          \/ CheckedOut(old) /\ new.preflight = old.preflight
          \/ new.preflight # None /\ new.preflight.runnable
    /\ \/ old.claims \subseteq new.claims
       \/ \E r \in Resources : new = [old EXCEPT !.claims = @ \ {r}]

Rewritten ==
    \E i \in Live(doc), op \in Operations :
        /\ SameWork(doc.operations[i], op)
        /\ doc'.operations = [doc.operations EXCEPT ![i] = op]
        /\ disk'.operations = doc'.operations

Begun ==
    \E kind \in Kinds, recipe \in Recipes, revision \in Revisions,
       preflight \in Artifacts \cup {None} :
        /\ Admissible(kind, recipe)
        /\ kind # "run" => preflight = None
        /\ kind = "run" =>
              \E i \in RunnableChecks(doc, recipe, revision) :
                  preflight = doc.operations[i].preflight
        /\ issued + 1 \in OpIds /\ issued' = issued + 1
        /\ doc'.operations = [doc.operations EXCEPT ![issued + 1] =
                                 NewOperation(kind, recipe, revision, preflight)]
        /\ disk'.operations = doc'.operations

Pruned ==
    /\ \E remove \in SUBSET Live(doc) :
          /\ \A i \in remove : ~NeedsRecovery(doc.operations[i])
          /\ doc'.operations = [i \in OpIds |-> IF i \in remove THEN None
                                                ELSE doc.operations[i]]
    /\ disk'.operations = doc'.operations

\* Working on an operation leaves the pending deletions alone.
SameMarks ==
    /\ doc'.tombstones = doc.tombstones
    /\ disk'.tombstones \in {disk.tombstones, doc.tombstones}

Shape == (issued' = issued /\ (Kept \/ Rewritten \/ Pruned)) \/ Begun

\* Every way of changing one operation has the shape, once the new record is
\* known to be the same work.
LEMMA ChangeShape ==
    ASSUME TypeOK, MemoryMatchesDisk,
           NEW i \in OpIds, NEW op \in Operations,
           SameWork(doc.operations[i], op), Change(i, op),
           UNCHANGED <<issued, library, hidden, held>>, late' \subseteq OpIds
    PROVE  TypeOK' /\ MemoryMatchesDisk' /\ Shape /\ SameMarks
<1>1. CASE UNCHANGED <<doc, disk>>
  BY <1>1 DEF TypeOK, MemoryMatchesDisk, Shape, Kept, SameMarks
<1>2. CASE doc' = Put(doc, i, op) /\ disk' = Put(doc, i, op)
  <2>1. Put(doc, i, op) \in Documents
    BY DEF TypeOK, Documents, Put
  <2>2. doc'.operations = [doc.operations EXCEPT ![i] = op]
    BY <1>2 DEF Put, TypeOK, Documents
  <2>3. i \in Live(doc)
    BY DEF Change
  <2>4. Rewritten
    BY <1>2, <2>2, <2>3 DEF Rewritten
  <2> QED
    BY <1>2, <2>1, <2>4 DEF TypeOK, MemoryMatchesDisk, Shape, SameMarks, Put, Documents
<1> QED
  BY <1>1, <1>2 DEF Change, Save


\* The records the journal's own methods write are the same work as before.
LEMMA TransitionShape ==
    ASSUME TypeOK, MemoryMatchesDisk,
           NEW i \in Live(doc), NEW next \in Phases, NEW cause \in Causes \cup {None},
           NeedsRecovery(doc.operations[i]) \/ LateCleanup,
           doc.operations[i].kind = "check" /\ next = "prepared" =>
               doc.operations[i].preflight # None /\ doc.operations[i].preflight.runnable,
           Transition(i, next, cause),
           UNCHANGED <<issued, library, hidden, held>>, late' \subseteq OpIds
    PROVE  TypeOK' /\ MemoryMatchesDisk' /\ Shape /\ SameMarks
<1> DEFINE op == doc.operations[i]
<1>1. i \in OpIds /\ op \in Operations
  BY DEF Live, TypeOK, Documents
<1>2. Moved(op, next, cause) \in Operations
  BY <1>1, MovedType
<1>3. SameWork(op, Moved(op, next, cause))
  BY <1>1 DEF SameWork, Moved, Operations, CheckedOut
<1> QED
  BY <1>1, <1>2, <1>3, ChangeShape DEF Transition

\* What Check, Run and Stop write while they work has one of the shapes.
LEMMA WorkShape ==
    ASSUME TypeOK, MemoryMatchesDisk, Work, late' \subseteq OpIds
    PROVE  TypeOK' /\ MemoryMatchesDisk' /\ Shape /\ SameMarks
<1> USE DEF Work
<1>0. UNCHANGED <<issued, library, hidden, held>>
  OBVIOUS
<1>1. PICK i \in Live(doc) :
          \/ \E percent \in Percents : RecordProgress(i, percent)
          \/ /\ NeedsRecovery(doc.operations[i])
             /\ \/ Advance(i)
                \/ \E source \in Sources : BindResolvedSource(i, source)
                \/ \E image \in Images : BindPreparedImage(i, image)
                \/ \E c \in CheckIds, status \in Verdicts : RecordCheck(i, c, status)
                \/ BindPreflight(i)
                \/ /\ doc.operations[i].kind = "check"
                   /\ \E resource \in Resources : Release(i, resource)
          \/ /\ Unfinished(doc.operations[i])
             /\ \E resource \in Resources : Claim(i, resource) \/ Release(i, resource)
  OBVIOUS
<1> DEFINE op == doc.operations[i]
<1>2. i \in OpIds /\ op \in Operations
  BY DEF Live, TypeOK, Documents
<1> HIDE DEF op
<1>3. ASSUME NEW percent \in Percents, RecordProgress(i, percent)
      PROVE  TypeOK' /\ MemoryMatchesDisk' /\ Shape /\ SameMarks
  <2> DEFINE new == [op EXCEPT !.percent = IF @ # None /\ @ > percent THEN @ ELSE percent]
  <2>1. new \in Operations
    BY <1>2 DEF Operations
  <2>2. SameWork(op, new)
    BY <1>2 DEF SameWork, Operations, NeedsRecovery, Owns, Unfinished, CheckedOut
  <2>3. Change(i, new)
    BY <1>3 DEF RecordProgress, op
  <2> QED
    BY <1>0, <1>2, <2>1, <2>2, <2>3, ChangeShape DEF op
<1>4. ASSUME NeedsRecovery(op), Advance(i)
      PROVE  TypeOK' /\ MemoryMatchesDisk' /\ Shape /\ SameMarks
  <2>1. PICK next \in Entered(op.kind), cause \in Causes \cup {None} :
            /\ Transition(i, next, cause)
            /\ op.kind = "check" /\ next = "prepared" =>
                    op.preflight # None /\ op.preflight.runnable
    BY <1>4 DEF Advance, op
  <2>2. next \in Phases
    BY <1>2 DEF Entered, Phases, Settled, Operations, Kinds
  <2> QED
    BY <1>0, <1>4, <2>1, <2>2, TransitionShape DEF op
<1>5. ASSUME NEW source \in Sources, BindResolvedSource(i, source), NeedsRecovery(op)
      PROVE  TypeOK' /\ MemoryMatchesDisk' /\ Shape /\ SameMarks
  <2> DEFINE new == [op EXCEPT !.source = source]
  <2>1. new \in Operations /\ SameWork(op, new)
    BY <1>2, <1>5 DEF Operations, SameWork, CheckedOut
  <2>2. Change(i, new)
    BY <1>5 DEF BindResolvedSource, op
  <2> QED
    BY <1>0, <1>2, <2>1, <2>2, ChangeShape DEF op
<1>6. ASSUME NEW image \in Images, BindPreparedImage(i, image), NeedsRecovery(op)
      PROVE  TypeOK' /\ MemoryMatchesDisk' /\ Shape /\ SameMarks
  <2> DEFINE new == [op EXCEPT !.image = image]
  <2>1. new \in Operations /\ SameWork(op, new)
    BY <1>2, <1>6 DEF Operations, SameWork, CheckedOut
  <2>2. Change(i, new)
    BY <1>6 DEF BindPreparedImage, op
  <2> QED
    BY <1>0, <1>2, <2>1, <2>2, ChangeShape DEF op
<1>7. ASSUME NEW c \in CheckIds, NEW status \in Verdicts, RecordCheck(i, c, status),
             NeedsRecovery(op)
      PROVE  TypeOK' /\ MemoryMatchesDisk' /\ Shape /\ SameMarks
  <2> DEFINE new == [op EXCEPT !.checks[c] = status]
  <2>1. new \in Operations /\ SameWork(op, new)
    BY <1>2, <1>7 DEF Operations, SameWork, CheckedOut
  <2>2. Change(i, new)
    BY <1>7 DEF RecordCheck, op
  <2> QED
    BY <1>0, <1>2, <2>1, <2>2, ChangeShape DEF op
<1>8. ASSUME BindPreflight(i), NeedsRecovery(op)
      PROVE  TypeOK' /\ MemoryMatchesDisk' /\ Shape /\ SameMarks
  <2> DEFINE new == [op EXCEPT !.preflight = NewPreflight(op)]
  <2>1. /\ NewPreflight(op) \in Artifacts
        /\ NewPreflight(op).recipe = op.recipe
        /\ NewPreflight(op).revision = op.revision
    BY <1>2, NewPreflightType
  <2>2. new \in Operations /\ SameWork(op, new)
    <3> HIDE DEF op
    <3>1. op.kind = "check" /\ op.phase = "checking"
      BY <1>8 DEF BindPreflight, op
    <3> QED
      BY <1>2, <1>8, <2>1, <3>1 DEF Operations, SameWork, CheckedOut
  <2>3. Change(i, new)
    BY <1>8 DEF BindPreflight, op
  <2> QED
    BY <1>0, <1>2, <2>2, <2>3, ChangeShape DEF op
<1>9. ASSUME NEW resource \in Resources, Claim(i, resource), NeedsRecovery(op)
      PROVE  TypeOK' /\ MemoryMatchesDisk' /\ Shape /\ SameMarks
  <2> DEFINE new == [op EXCEPT !.claims = @ \cup {resource}]
  <2>1. new \in Operations /\ SameWork(op, new)
    BY <1>2, <1>9 DEF Operations, SameWork, CheckedOut
  <2>2. Change(i, new)
    BY <1>9 DEF Claim, op
  <2> QED
    BY <1>0, <1>2, <2>1, <2>2, ChangeShape DEF op
<1>10. ASSUME NEW resource \in Resources, Release(i, resource), NeedsRecovery(op)
       PROVE  TypeOK' /\ MemoryMatchesDisk' /\ Shape /\ SameMarks
  <2> DEFINE new == [op EXCEPT !.claims = @ \ {resource}]
  <2>1. new \in Operations /\ SameWork(op, new)
    BY <1>2, <1>10 DEF Operations, SameWork, CheckedOut
  <2>2. Change(i, new)
    BY <1>10 DEF Release, op
  <2> QED
    BY <1>0, <1>2, <2>1, <2>2, ChangeShape DEF op
<1>11. Unfinished(op) => NeedsRecovery(op)
  BY DEF NeedsRecovery
<1> QED
  BY <1>1, <1>3, <1>4, <1>5, <1>6, <1>7, <1>8, <1>9, <1>10, <1>11 DEF op

\* An admission appends one fresh operation that nothing on record blocked.
LEMMA AdmitShape ==
    ASSUME TypeOK, MemoryMatchesDisk, Admit, late' \subseteq OpIds
    PROVE  TypeOK' /\ MemoryMatchesDisk' /\ Shape
<1>1. PICK kind \in Kinds, request \in held : Begin(kind, request[1], request[2])
  BY DEF Admit
<1> DEFINE recipe == request[1]
           revision == request[2]
           evidence == RunnableChecks(doc, recipe, revision)
           preflight == IF kind = "run"
                        THEN doc.operations[Newest(evidence)].preflight ELSE None
           op == NewOperation(kind, recipe, revision, preflight)
           next == Put(doc, issued + 1, op)
<1>2. recipe \in Recipes /\ revision \in Revisions
  BY DEF TypeOK
<1>3. /\ issued < MaxOps
      /\ Admissible(kind, recipe)
      /\ kind = "run" => evidence # {}
      /\ Save(next)
      /\ issued' = IF doc' = next THEN issued + 1 ELSE issued
  BY <1>1 DEF Begin
<1>4. UNCHANGED <<library, hidden, held>>
  BY DEF Admit
<1>5. issued + 1 \in OpIds /\ issued \in Nat
  BY <1>3, MaxOpsAssumption DEF TypeOK, OpIds
<1>6. evidence \in SUBSET OpIds
  BY DEF RunnableChecks, Live
<1> HIDE DEF evidence
<1>7. kind = "run" => Newest(evidence) \in evidence
  BY <1>3, <1>6, NewestIsMember
<1>8. preflight \in Artifacts \cup {None}
  <2>1. ASSUME kind = "run"
        PROVE  doc.operations[Newest(evidence)].preflight \in Artifacts \cup {None}
    <3>1. Newest(evidence) \in Live(doc)
      BY <1>7, <2>1 DEF evidence, RunnableChecks
    <3>2. doc.operations[Newest(evidence)] \in Operations
      BY <3>1 DEF Live, TypeOK, Documents
    <3> QED
      BY <3>2 DEF Operations
  <2> QED
    BY <2>1
<1>9. /\ kind # "run" => preflight = None
      /\ kind = "run" => \E i \in RunnableChecks(doc, recipe, revision) :
                             preflight = doc.operations[i].preflight
  BY <1>7 DEF evidence
<1> HIDE DEF preflight, recipe, revision
<1>10. op \in Operations
  BY <1>2, <1>8, NewOperationType
<1>11. CASE UNCHANGED <<doc, disk>> /\ doc' # next
  BY <1>3, <1>4, <1>11 DEF TypeOK, MemoryMatchesDisk, Shape, Kept
<1>12. next \in Documents /\ next.operations = [doc.operations EXCEPT ![issued + 1] = op]
  BY <1>5, <1>10 DEF TypeOK, Documents, Put
<1>13. CASE doc' = next /\ disk' \in Documents /\ MemoryMatchesDisk'
  <2>1. Begun
    BY <1>2, <1>3, <1>5, <1>8, <1>9, <1>12, <1>13 DEF Begun, MemoryMatchesDisk
  <2>2. issued' \in 0..MaxOps
    BY <1>3, <1>5, <1>13, MaxOpsAssumption DEF OpIds, TypeOK
  <2> QED
    BY <1>4, <1>12, <1>13, <2>1, <2>2 DEF TypeOK, Shape
<1>14. next.tombstones = doc.tombstones
  BY DEF Put, TypeOK, Documents
<1> QED
  BY <1>3, <1>11, <1>12, <1>13, <1>14 DEF Save, TypeOK, MemoryMatchesDisk

\* Pruning only drops operations that need no recovery.
LEMMA PruneShape ==
    ASSUME TypeOK, MemoryMatchesDisk, PruneHistory, late' \subseteq OpIds
    PROVE  TypeOK' /\ MemoryMatchesDisk' /\ Shape /\ SameMarks
<1>1. PICK remove \in SUBSET Live(doc) : Prune(remove)
  BY DEF PruneHistory
<1> DEFINE left == [i \in OpIds |-> IF i \in remove THEN None ELSE doc.operations[i]]
           next == [doc EXCEPT !.operations = left]
<1>2. Save(next)
  BY <1>1 DEF Prune
<1>3. UNCHANGED <<issued, library, hidden, held>>
  BY DEF PruneHistory
<1>4. CASE UNCHANGED <<doc, disk>>
  BY <1>3, <1>4 DEF TypeOK, MemoryMatchesDisk, Shape, Kept, SameMarks
<1>5. CASE doc' = next /\ disk' = next
  <2>1. /\ next \in Documents /\ next.operations = left
        /\ next.tombstones = doc.tombstones
    BY DEF TypeOK, Documents
  <2>2. \A i \in remove : ~NeedsRecovery(doc.operations[i])
    BY <1>1 DEF Prune
  <2>3. Pruned
    BY <1>5, <2>1, <2>2 DEF Pruned
  <2> QED
    BY <1>3, <1>5, <2>1, <2>3 DEF TypeOK, MemoryMatchesDisk, Shape, SameMarks
<1> QED
  BY <1>2, <1>4, <1>5 DEF Save

\* Marking a deletion, or taking the mark back, leaves the operations alone.
LEMMA MarkType ==
    ASSUME TypeOK, NEW recipe \in Recipes
    PROVE  /\ Marked(recipe) \in Documents /\ Unmarked(recipe) \in Documents
           /\ Marked(recipe).operations = doc.operations
           /\ Unmarked(recipe).operations = doc.operations
           /\ Marked(recipe).tombstones = doc.tombstones \cup {recipe}
           /\ Unmarked(recipe).tombstones = doc.tombstones \ {recipe}
BY DEF TypeOK, Documents, Marked, Unmarked

\* Edits, installs and deletions leave the operations alone.
LEMMA MutateShape ==
    ASSUME TypeOK, MemoryMatchesDisk, Mutate, late' \subseteq OpIds
    PROVE  TypeOK' /\ MemoryMatchesDisk' /\ Shape
<1>1. PICK recipe \in Recipes :
          \/ \E revision \in Revisions :
                ExecuteMutation(recipe, revision) \/ InstallCommunity(recipe, revision)
          \/ Tombstone(recipe)
          \/ FinalizeTombstone(recipe)
  BY DEF Mutate
<1>2. UNCHANGED <<issued, held>>
  BY DEF Mutate
<1>3. ASSUME NEW revision \in Revisions,
             ExecuteMutation(recipe, revision) \/ InstallCommunity(recipe, revision)
      PROVE  TypeOK' /\ MemoryMatchesDisk' /\ Shape
  BY <1>2, <1>3 DEF ExecuteMutation, InstallCommunity, TypeOK, MemoryMatchesDisk,
                    Shape, Kept
<1>4. CASE Tombstone(recipe)
  BY <1>2, <1>4, MarkType DEF Tombstone, TypeOK, MemoryMatchesDisk, Shape, Kept
<1>5. CASE FinalizeTombstone(recipe)
  BY <1>2, <1>5, MarkType DEF FinalizeTombstone, Purge, TypeOK, MemoryMatchesDisk,
                              Shape, Kept
<1> QED
  BY <1>1, <1>3, <1>4, <1>5

\* A step keeps the types and the agreement of the two copies, and changes the
\* stored operations in one of the four ways.
LEMMA StepShape ==
    ASSUME TypeOK, MemoryMatchesDisk, [Next]_vars
    PROVE  TypeOK' /\ MemoryMatchesDisk' /\ Shape
<1>0. late' \subseteq OpIds
  BY DEF Next, vars, StillLate, LateCleanup, InProgress, Live, TypeOK
<1>1. ASSUME NEW recipe \in Recipes, Lookup(recipe)
      PROVE  TypeOK' /\ MemoryMatchesDisk' /\ Shape
  <2>1. library[recipe] \in Revisions
    BY <1>1 DEF Lookup, TypeOK
  <2> QED
    BY <1>0, <1>1, <2>1 DEF Lookup, TypeOK, MemoryMatchesDisk, Shape, Kept
<1>2. ASSUME LateCleanup
      PROVE  TypeOK' /\ MemoryMatchesDisk' /\ Shape
  <2>1. PICK i \in Live(doc) : Transition(i, "recovering", None)
    BY <1>2 DEF LateCleanup, RetryCleanup
  <2>2. "recovering" \in Phases
    BY DEF Phases
  <2>3. UNCHANGED <<issued, library, hidden, held>>
    BY <1>2 DEF LateCleanup, RetryCleanup
  <2> QED
    BY <1>0, <1>2, <2>1, <2>2, <2>3, TransitionShape
<1>3. ASSUME Crash
      PROVE  TypeOK' /\ MemoryMatchesDisk' /\ Shape
  BY <1>0, <1>3 DEF Crash, TypeOK, MemoryMatchesDisk, Shape, Kept
<1>4. ASSUME CrashDuringDeletion
      PROVE  TypeOK' /\ MemoryMatchesDisk' /\ Shape
  BY <1>0, <1>4, MarkType DEF CrashDuringDeletion, Purge, TypeOK, MemoryMatchesDisk, Shape, Kept
<1>5. CASE UNCHANGED vars
  BY <1>5 DEF vars, TypeOK, MemoryMatchesDisk, Shape, Kept
<1> QED
  BY <1>0, <1>1, <1>2, <1>3, <1>4, <1>5, AdmitShape, WorkShape, PruneShape, MutateShape DEF Next


-----------------------------------------------------------------------------
(* Theorems *)

\* The journal's values keep their types, and the copy in memory agrees with
\* the file: what the daemon decides by is what a restart finds.
THEOREM JournalIsDurable == Spec => []TypeOK /\ []MemoryMatchesDisk
<1>1. Init => TypeOK /\ MemoryMatchesDisk
  <2>1. NoDocument \in Documents
    BY DEF NoDocument, Documents
  <2> QED
    BY <2>1, MaxOpsAssumption DEF Init, TypeOK, MemoryMatchesDisk
<1>2. TypeOK /\ MemoryMatchesDisk /\ [Next]_vars => TypeOK' /\ MemoryMatchesDisk'
  BY StepShape
<1> QED
  BY <1>1, <1>2, PTL DEF Spec

\* The shapes, as a fact about every step of a behaviour.
LEMMA EveryStepHasShape ==
    Spec => [](TypeOK /\ MemoryMatchesDisk)
            /\ [][TypeOK /\ TypeOK' /\ Shape]_vars
<1>1. TypeOK /\ MemoryMatchesDisk /\ [Next]_vars => [TypeOK /\ TypeOK' /\ Shape]_vars
  BY StepShape
<1> QED
  BY <1>1, JournalIsDurable, PTL DEF Spec

\* No step of any shape lets a second operation in beside the first, those that
\* a late cleanup brought back left aside.
LEMMA ShapeKeepsExclusion ==
    ASSUME TypeOK, ExclusiveAdmission, Shape, StillLate \/ LateCleanup
    PROVE  ExclusiveAdmission'
<1> DEFINE old == doc.operations
           new == doc'.operations
<1>0. \A j \in InProgress(doc') \ late' : j \notin late
  BY DEF StillLate, LateCleanup
<1>1. CASE Kept
  BY <1>0, <1>1 DEF Kept, ExclusiveAdmission, InProgress, Live
<1>2. CASE Rewritten
  <2>1. PICK i \in Live(doc), op \in Operations :
            SameWork(old[i], op) /\ new = [old EXCEPT ![i] = op]
    BY <1>2 DEF Rewritten
  <2>2. i \in OpIds /\ old[i] \in Operations /\ old \in [OpIds -> Operations \cup {None}]
    BY DEF TypeOK, Documents, Live
  <2>3. ASSUME NEW j \in InProgress(doc') \ late'
        PROVE  j \in InProgress(doc) \ late /\ new[j].kind = old[j].kind
    <3>1. j \in OpIds /\ new[j] # None /\ NeedsRecovery(new[j])
      BY DEF InProgress, Live
    <3>2. CASE j = i
      <4>1. NeedsRecovery(op) /\ new[j].kind = old[j].kind
        BY <2>1, <2>2, <3>1, <3>2 DEF SameWork
      <4>2. LateCleanup => i \in InProgress(doc)
        BY <3>2 DEF LateCleanup
      <4>3. NeedsRecovery(old[i]) => i \in InProgress(doc)
        BY <2>1 DEF InProgress
      <4> QED
        BY <1>0, <2>1, <3>2, <4>1, <4>2, <4>3 DEF SameWork
    <3>3. CASE j # i
      BY <1>0, <2>1, <2>2, <3>1, <3>3 DEF InProgress, Live
    <3> QED
      BY <3>2, <3>3
  <2> QED
    BY <2>3 DEF ExclusiveAdmission
<1>3. CASE Pruned
  <2>1. PICK remove \in SUBSET Live(doc) :
            new = [i \in OpIds |-> IF i \in remove THEN None ELSE old[i]]
    BY <1>3 DEF Pruned
  <2>2. \A j \in InProgress(doc') : j \in InProgress(doc) /\ new[j] = old[j]
    BY <2>1 DEF InProgress, Live
  <2> QED
    BY <1>0, <2>2 DEF ExclusiveAdmission
<1>4. CASE Begun
  <2>1. PICK kind \in Kinds, recipe \in Recipes, revision \in Revisions,
             preflight \in Artifacts \cup {None} :
            /\ Admissible(kind, recipe)
            /\ new = [old EXCEPT ![issued + 1] =
                         NewOperation(kind, recipe, revision, preflight)]
    BY <1>4 DEF Begun
  <2>2. issued + 1 \in OpIds /\ old \in [OpIds -> Operations \cup {None}]
    BY <1>4 DEF Begun, TypeOK, Documents
  <2>3. new[issued + 1].kind = kind
    BY <2>1, <2>2 DEF NewOperation
  <2>4. \A j \in InProgress(doc') :
            j # issued + 1 => j \in InProgress(doc) /\ new[j] = old[j]
    BY <2>1, <2>2 DEF InProgress, Live
  \* Whoever is in progress beside the newcomer is an active run, and the
  \* newcomer is a Stop.
  <2>5. \A j \in InProgress(doc) : kind = "stop" /\ old[j].kind = "run"
    BY <2>1 DEF Admissible, BlocksAdmission, InProgress, NeedsRecovery
  <2>6. \A i, j \in InProgress(doc) \ late : i = j
    BY <2>5 DEF ExclusiveAdmission
  <2> QED
    <3> SUFFICES ASSUME NEW i \in InProgress(doc') \ late',
                        NEW j \in InProgress(doc') \ late', i # j
                 PROVE  {new[i].kind, new[j].kind} = {"run", "stop"}
      BY DEF ExclusiveAdmission
    <3>1. CASE i = issued + 1
      BY <2>3, <2>4, <2>5, <3>1
    <3>2. CASE j = issued + 1
      BY <2>3, <2>4, <2>5, <3>2
    <3>3. CASE i # issued + 1 /\ j # issued + 1
      BY <1>0, <2>4, <2>6, <3>3
    <3> QED
      BY <3>1, <3>2, <3>3
<1> QED
  BY <1>1, <1>2, <1>3, <1>4 DEF Shape

\* One recipe operation at a time on the machine, or a run and the Stop that
\* ends it, beside those that were over and that a late cleanup brought back.
THEOREM AdmissionIsExclusive == Spec => []ExclusiveAdmission
<1>1. Init => ExclusiveAdmission
  BY DEF Init, NoDocument, ExclusiveAdmission, InProgress, Live
<1>2. TypeOK /\ ExclusiveAdmission /\ [TypeOK /\ TypeOK' /\ Shape]_vars /\ [Next]_vars
      => ExclusiveAdmission'
  <2>1. CASE UNCHANGED vars
    BY <2>1 DEF vars, ExclusiveAdmission, InProgress, Live
  <2>2. Next => StillLate \/ LateCleanup
    BY DEF Next
  <2> QED
    BY <2>1, <2>2, ShapeKeepsExclusion
<1> QED
  BY <1>1, <1>2, EveryStepHasShape, PTL DEF Spec


\* The inductive strengthening of RunsOnRunnableEvidence: whoever has a verdict
\* has it for its own recipe and revision.  A run takes over the verdict of a
\* check, so the check's must be right already.
OwnVerdicts ==
    \A i \in Live(doc) :
        LET op == doc.operations[i] IN
        op.preflight # None => /\ op.preflight.recipe = op.recipe
                               /\ op.preflight.revision = op.revision

\* No step of any shape takes the verdict away from a run.
LEMMA ShapeKeepsEvidence ==
    ASSUME TypeOK, OwnVerdicts, RunsOnRunnableEvidence, Shape
    PROVE  OwnVerdicts' /\ RunsOnRunnableEvidence'
<1> DEFINE old == doc.operations
           new == doc'.operations
<1> USE DEF Live
<1>1. CASE Kept
  BY <1>1 DEF Kept, OwnVerdicts, RunsOnRunnableEvidence
<1>2. CASE Rewritten
  <2>1. PICK i \in Live(doc), op \in Operations :
            SameWork(old[i], op) /\ new = [old EXCEPT ![i] = op]
    BY <1>2 DEF Rewritten
  <2>2. i \in OpIds /\ old \in [OpIds -> Operations \cup {None}]
    BY DEF TypeOK, Documents
  <2>3. op.preflight # None => op.preflight.recipe = op.recipe
                               /\ op.preflight.revision = op.revision
    BY <2>1 DEF SameWork, OwnVerdicts
  <2>4. op.kind = "run" => op.preflight # None /\ op.preflight.runnable
    BY <2>1 DEF SameWork, RunsOnRunnableEvidence
  <2>5. new[i] = op /\ \A j \in OpIds \ {i} : new[j] = old[j]
    BY <2>1, <2>2
  <2> QED
    BY <2>3, <2>4, <2>5 DEF OwnVerdicts, RunsOnRunnableEvidence
<1>3. CASE Pruned
  BY <1>3 DEF Pruned, OwnVerdicts, RunsOnRunnableEvidence
<1>4. CASE Begun
  <2>1. PICK kind \in Kinds, recipe \in Recipes, revision \in Revisions,
             preflight \in Artifacts \cup {None} :
            /\ kind = "run" => \E i \in RunnableChecks(doc, recipe, revision) :
                                   preflight = old[i].preflight
            /\ new = [old EXCEPT ![issued + 1] =
                         NewOperation(kind, recipe, revision,
                                      IF kind = "run" THEN preflight ELSE None)]
    <3>1. PICK kind \in Kinds, recipe \in Recipes, revision \in Revisions,
               preflight \in Artifacts \cup {None} :
              /\ kind # "run" => preflight = None
              /\ kind = "run" => \E i \in RunnableChecks(doc, recipe, revision) :
                                     preflight = old[i].preflight
              /\ new = [old EXCEPT ![issued + 1] =
                           NewOperation(kind, recipe, revision, preflight)]
      BY <1>4 DEF Begun
    <3> QED
      BY <3>1
  <2> DEFINE op == NewOperation(kind, recipe, revision,
                                IF kind = "run" THEN preflight ELSE None)
  <2>2. issued + 1 \in OpIds /\ old \in [OpIds -> Operations \cup {None}]
    BY <1>4 DEF Begun, TypeOK, Documents
  <2>3. /\ op.kind = kind /\ op.recipe = recipe /\ op.revision = revision
        /\ op.preflight = IF kind = "run" THEN preflight ELSE None
    BY DEF NewOperation
  <2>4. kind = "run" => /\ preflight # None /\ preflight.runnable
                        /\ preflight.recipe = recipe /\ preflight.revision = revision
    BY <2>1 DEF RunnableChecks, OwnVerdicts
  <2>5. new[issued + 1] = op /\ \A j \in OpIds \ {issued + 1} : new[j] = old[j]
    BY <2>1, <2>2
  <2> HIDE DEF op
  <2> QED
    BY <2>3, <2>4, <2>5 DEF OwnVerdicts, RunsOnRunnableEvidence
<1> QED
  BY <1>1, <1>2, <1>3, <1>4 DEF Shape

\* A run always stands on a runnable verdict about its own recipe and revision.
THEOREM RunsHaveEvidence == Spec => []RunsOnRunnableEvidence
<1> DEFINE IInv == OwnVerdicts /\ RunsOnRunnableEvidence
<1>1. Init => IInv
  BY DEF Init, NoDocument, OwnVerdicts, RunsOnRunnableEvidence, Live
<1>2. TypeOK /\ IInv /\ [TypeOK /\ TypeOK' /\ Shape]_vars => IInv'
  <2>1. CASE UNCHANGED vars
    BY <2>1 DEF vars, OwnVerdicts, RunsOnRunnableEvidence, Live
  <2> QED
    BY <2>1, ShapeKeepsEvidence
<1> QED
  BY <1>1, <1>2, EveryStepHasShape, PTL DEF Spec

\* A check that is over has a verdict that admits a run: only then did it get
\* to its last phase.
ChecksAreRunnable ==
    \A i \in Live(doc) :
        CheckedOut(doc.operations[i]) =>
            doc.operations[i].preflight # None /\ doc.operations[i].preflight.runnable

\* No step of any shape ends a check with less.
LEMMA ShapeKeepsChecks ==
    ASSUME TypeOK, ChecksAreRunnable, Shape
    PROVE  ChecksAreRunnable'
<1> DEFINE old == doc.operations
           new == doc'.operations
<1> USE DEF Live
<1>1. CASE Kept
  BY <1>1 DEF Kept, ChecksAreRunnable
<1>2. CASE Rewritten
  <2>1. PICK i \in Live(doc), op \in Operations :
            SameWork(old[i], op) /\ new = [old EXCEPT ![i] = op]
    BY <1>2 DEF Rewritten
  <2>2. i \in OpIds /\ old \in [OpIds -> Operations \cup {None}]
    BY DEF TypeOK, Documents
  <2>3. CheckedOut(op) => op.preflight # None /\ op.preflight.runnable
    BY <2>1 DEF SameWork, ChecksAreRunnable
  <2>4. new[i] = op /\ \A j \in OpIds \ {i} : new[j] = old[j]
    BY <2>1, <2>2
  <2> QED
    BY <2>3, <2>4 DEF ChecksAreRunnable
<1>3. CASE Pruned
  BY <1>3 DEF Pruned, ChecksAreRunnable
<1>4. CASE Begun
  <2>1. PICK kind \in Kinds, recipe \in Recipes, revision \in Revisions,
             preflight \in Artifacts \cup {None} :
            new = [old EXCEPT ![issued + 1] = NewOperation(kind, recipe, revision, preflight)]
    BY <1>4 DEF Begun
  <2> DEFINE op == NewOperation(kind, recipe, revision, preflight)
  <2>2. issued + 1 \in OpIds /\ old \in [OpIds -> Operations \cup {None}]
    BY <1>4 DEF Begun, TypeOK, Documents
  <2>3. ~CheckedOut(op)
    BY DEF CheckedOut, NewOperation, InitialPhase
  <2> HIDE DEF op
  <2>4. new[issued + 1] = op /\ \A j \in OpIds \ {issued + 1} : new[j] = old[j]
    BY <2>1, <2>2 DEF op
  <2> QED
    BY <2>3, <2>4 DEF ChecksAreRunnable
<1> QED
  BY <1>1, <1>2, <1>3, <1>4 DEF Shape

\* What a prune keeps of a revision is a check that is over, and so admits a
\* run as well as the one that is gone.
LEMMA PruneKeepsChecks ==
    ASSUME TypeOK, ChecksAreRunnable, PruneHistory,
           NEW recipe \in Recipes, NEW revision \in Revisions,
           RunnableChecks(doc, recipe, revision) # {}
    PROVE  RunnableChecks(doc', recipe, revision) # {}
<1>1. PICK remove \in SUBSET Live(doc) : Prune(remove)
  BY DEF PruneHistory
<1> DEFINE left == [i \in OpIds |-> IF i \in remove THEN None ELSE doc.operations[i]]
<1>2. CASE doc' = doc
  BY <1>2
<1>3. CASE doc' = [doc EXCEPT !.operations = left]
  <2>1. doc'.operations = left
    BY <1>3 DEF TypeOK, Documents
  <2>2. PICK i \in RunnableChecks(doc, recipe, revision) : TRUE
    OBVIOUS
  <2>3. /\ i \in Evidence(doc) /\ KeepsOne(doc, remove)
        /\ doc.operations[i].recipe = recipe /\ doc.operations[i].revision = revision
    BY <1>1, <2>2 DEF Prune, RunnableChecks, Evidence
  <2>4. PICK j \in Evidence(doc) \ remove :
            doc.operations[j].recipe = recipe /\ doc.operations[j].revision = revision
    BY <2>3 DEF KeepsOne
  <2>5. /\ j \in OpIds /\ doc.operations[j] # None /\ CheckedOut(doc.operations[j])
        /\ doc.operations[j].preflight # None /\ doc.operations[j].preflight.runnable
    BY <2>4 DEF Evidence, ChecksAreRunnable, Live
  <2>6. doc'.operations[j] = doc.operations[j]
    BY <2>1, <2>4, <2>5
  <2>7. j \in RunnableChecks(doc', recipe, revision)
    BY <2>4, <2>5, <2>6 DEF RunnableChecks, Live
  <2> QED
    BY <2>7
<1> QED
  BY <1>1, <1>2, <1>3 DEF Prune, Save

\* Pruning the history never takes away the evidence on which a run of some
\* revision could be admitted.
THEOREM PruningLosesNoEvidence == Spec => PruningKeepsEvidence
<1>1. Init => ChecksAreRunnable
  BY DEF Init, NoDocument, ChecksAreRunnable, Live
<1>2. TypeOK /\ ChecksAreRunnable /\ [TypeOK /\ TypeOK' /\ Shape]_vars => ChecksAreRunnable'
  <2>1. CASE UNCHANGED vars
    BY <2>1 DEF vars, ChecksAreRunnable, Live
  <2> QED
    BY <2>1, ShapeKeepsChecks
<1>3. TypeOK /\ ChecksAreRunnable /\ [Next]_vars =>
        [\A recipe \in Recipes, revision \in Revisions :
            /\ RunnableChecks(doc, recipe, revision) # {}
            /\ RunnableChecks(doc', recipe, revision) = {}
            => ~PruneHistory]_vars
  BY PruneKeepsChecks
<1> QED
  BY <1>1, <1>2, <1>3, EveryStepHasShape, PTL DEF Spec, PruningKeepsEvidence

\* No id is used twice: the operations in the journal are among those issued.
Fresh == \A i \in Live(doc) : i <= issued

\* Operation ids are never used again, so no record is mistaken for another.
LEMMA ShapeKeepsFresh ==
    ASSUME TypeOK, Fresh, Shape
    PROVE  Fresh'
<1> USE DEF Live
<1>1. CASE issued' = issued /\ Kept
  BY <1>1 DEF Kept, Fresh
<1>2. CASE issued' = issued /\ Rewritten
  <2>1. \A j \in Live(doc)' : j \in Live(doc)
    BY <1>2 DEF Rewritten, TypeOK, Documents
  <2> QED
    BY <1>2, <2>1 DEF Fresh
<1>3. CASE issued' = issued /\ Pruned
  BY <1>3 DEF Pruned, Fresh
<1>4. CASE Begun
  <2>1. \A j \in Live(doc)' : j \in Live(doc) \/ j = issued + 1
    BY <1>4 DEF Begun, TypeOK, Documents
  <2>2. issued \in Nat /\ issued' = issued + 1 /\ Live(doc) \subseteq Nat
    BY <1>4 DEF TypeOK, Begun, OpIds
  <2> QED
    BY <2>1, <2>2 DEF Fresh
<1> QED
  BY <1>1, <1>2, <1>3, <1>4 DEF Shape

\* What one step may do to the resources an operation owns.
ClaimsSurvive ==
    \A i \in Live(doc) :
        LET lost(r) == \/ i \notin Live(doc)'
                       \/ r \notin doc'.operations[i].claims
        IN \A r \in doc.operations[i].claims \cap Ephemeral :
              lost(r) => /\ i \in Live(doc)'
                         /\ doc'.operations[i] =
                              [doc.operations[i] EXCEPT !.claims = @ \ {r}]

\* A claim leaves the record by a step that does nothing else, or never.
LEMMA ShapeKeepsClaims ==
    ASSUME TypeOK, TypeOK', Fresh, Shape
    PROVE  ClaimsSurvive
<1> DEFINE old == doc.operations
           new == doc'.operations
<1> SUFFICES ASSUME NEW i \in Live(doc), NEW r \in old[i].claims \cap Ephemeral,
                    i \notin Live(doc)' \/ r \notin new[i].claims
             PROVE  i \in Live(doc)' /\ new[i] = [old[i] EXCEPT !.claims = @ \ {r}]
  BY DEF ClaimsSurvive
<1>0. i \in OpIds /\ old[i] \in Operations /\ old \in [OpIds -> Operations \cup {None}]
  BY DEF TypeOK, Documents, Live
<1>1. CASE Kept
  BY <1>1 DEF Kept, Live
<1>2. CASE Rewritten
  <2>1. PICK k \in Live(doc), op \in Operations :
            SameWork(old[k], op) /\ new = [old EXCEPT ![k] = op]
    BY <1>2 DEF Rewritten
  <2>2. op # None
    BY NoneAssumption
  <2>3. k = i
    BY <1>0, <2>1 DEF Live
  <2>4. new[i] = op /\ i \in Live(doc)'
    BY <1>0, <2>1, <2>2, <2>3 DEF Live
  <2>5. r \notin op.claims
    BY <2>4
  <2>6. PICK s \in Resources : op = [old[i] EXCEPT !.claims = @ \ {s}]
    BY <2>1, <2>3, <2>5 DEF SameWork
  <2>7. op.claims = old[i].claims \ {s}
    BY <1>0, <2>6 DEF Operations
  <2>8. s = r
    BY <2>5, <2>7
  <2> QED
    BY <2>4, <2>6, <2>8
<1>3. CASE Pruned
  <2>1. PICK remove \in SUBSET Live(doc) :
            /\ \A j \in remove : ~NeedsRecovery(old[j])
            /\ new = [j \in OpIds |-> IF j \in remove THEN None ELSE old[j]]
    BY <1>3 DEF Pruned
  <2>2. NeedsRecovery(old[i])
    BY DEF NeedsRecovery, Owns
  <2> QED
    BY <1>0, <2>1, <2>2 DEF Live
<1>4. CASE Begun
  <2>1. i # issued + 1
    BY <1>0 DEF Fresh, TypeOK, OpIds
  <2>2. new[i] = old[i]
    BY <1>0, <1>4, <2>1 DEF Begun
  <2> QED
    BY <2>2 DEF Live
<1> QED
  BY <1>1, <1>2, <1>3, <1>4 DEF Shape

\* A runtime resource an operation owns leaves the journal only by being
\* released, in a step that does nothing else.
THEOREM OwnedResourcesSurvive == Spec => OwnershipSurvives
<1>1. Init => Fresh
  BY DEF Init, NoDocument, Fresh, Live
<1>2. TypeOK /\ Fresh /\ [TypeOK /\ TypeOK' /\ Shape]_vars => Fresh'
  <2>1. CASE UNCHANGED vars
    BY <2>1 DEF vars, Fresh, Live
  <2> QED
    BY <2>1, ShapeKeepsFresh
<1>3. Fresh /\ [TypeOK /\ TypeOK' /\ Shape]_vars => [ClaimsSurvive]_vars
  BY ShapeKeepsClaims
<1>4. Spec => [][ClaimsSurvive]_vars
  BY <1>1, <1>2, <1>3, EveryStepHasShape, PTL DEF Spec
<1> QED
  BY <1>4 DEF ClaimsSurvive, OwnershipSurvives

\* A change of one operation's record leaves the tombstones alone.
LEMMA ChangeKeepsTombstones ==
    \A i \in Live(doc) : \A op : Change(i, op) /\ TypeOK =>
        /\ doc'.tombstones = doc.tombstones
        /\ disk'.tombstones \in {disk.tombstones, doc.tombstones}
BY DEF Change, Save, Put, TypeOK, Documents

\* A recipe that is hidden is condemned in both copies of the journal, whatever
\* save failed and wherever the daemon died.
THEOREM HiddenRecipesAreCondemned == Spec => []HiddenIsCondemned
<1>1. Init => HiddenIsCondemned
  BY DEF Init, HiddenIsCondemned
<1>2. TypeOK /\ TypeOK' /\ MemoryMatchesDisk /\ HiddenIsCondemned /\ [Next]_vars
      => HiddenIsCondemned'
  <2> SUFFICES ASSUME TypeOK, TypeOK', MemoryMatchesDisk, HiddenIsCondemned, [Next]_vars
               PROVE  HiddenIsCondemned'
    OBVIOUS
  <2>0. late' \subseteq OpIds
    BY DEF TypeOK
  <2> USE DEF HiddenIsCondemned
  <2>1. CASE \E recipe \in Recipes : Lookup(recipe)
    BY <2>1 DEF Lookup
  <2>2. CASE Admit
    BY <2>2 DEF Admit, Begin, Save, Put, TypeOK, Documents
  <2>3. CASE Work
    <3>1. UNCHANGED hidden
      BY <2>3 DEF Work
    <3> QED
      BY <2>0, <2>3, <3>1, WorkShape DEF SameMarks
  <2>4. CASE LateCleanup
    BY <2>4, ChangeKeepsTombstones DEF LateCleanup, RetryCleanup, Transition
  <2>5. CASE PruneHistory
    BY <2>0, <2>5, PruneShape DEF PruneHistory, SameMarks
  <2>6. CASE Mutate
    BY <2>6, MarkType DEF Mutate, ExecuteMutation, InstallCommunity, Tombstone,
                          FinalizeTombstone, Purge, MemoryMatchesDisk
  <2>7. CASE Crash
    BY <2>7 DEF Crash
  <2>8. CASE CrashDuringDeletion
    BY <2>8, MarkType DEF CrashDuringDeletion, Purge
  <2>9. CASE UNCHANGED vars
    BY <2>9 DEF vars
  <2> QED
    BY <2>1, <2>2, <2>3, <2>4, <2>5, <2>6, <2>7, <2>8, <2>9 DEF Next
<1> QED
  BY <1>1, <1>2, JournalIsDurable, PTL DEF Spec

=============================================================================
