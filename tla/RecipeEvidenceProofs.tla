------------------------ MODULE RecipeEvidenceProofs ------------------------
(***************************************************************************)
(* Proofs about RecipeEvidence: a run serves what the newest check found,  *)
(* the same on every Spark (the refinement of CheckedLaunch), nothing      *)
(* prepared is left off the record, and a check that passed is an answer   *)
(* that holds while nothing around the operations changes.                 *)
(***************************************************************************)
EXTENDS RecipeEvidence, SequenceTheorems, TLAPS

-----------------------------------------------------------------------------
(* The paths of operations *)

\* What a check finds its image with.
Finder == IF Builds THEN "build" ELSE "inspect"

\* Which steps each kind of operation takes, and in which order.
LEMMA RunPath ==
    ASSUME NEW o, o.kind = "run"
    PROVE  /\ \A k, l \in 1..Len(Path(o)) :
                /\ Path(o)[k] \notin {"claim", "workspace", "inspect", "image", "bind"}
                /\ Path(o)[k] = "match" /\ Path(o)[l] = "source" => l < k
                /\ Path(o)[k] = "images" /\ Path(o)[l] \in {"pin", "build"} => l < k
                /\ Path(o)[k] \in {"match", "images"} /\ Path(o)[l] = "attest" => k < l
                /\ Path(o)[k] = "launch" => k > 1 /\ Path(o)[k - 1] = "attest"
           /\ \E k, l \in 1..Len(Path(o)) : Path(o)[k] = "match" /\ Path(o)[l] = "images"
           /\ Len(Path(o)) \in Nat
BY DEF Path, ScriptRun, ManagedRun

\* A check takes no step of a run; what it binds was found before on its path.
LEMMA CheckPath ==
    ASSUME NEW o, o.kind = "check"
    PROVE  /\ \A k \in 1..Len(Path(o)) :
                /\ Path(o)[k] \notin {"pin", "model", "match", "images", "verify", "attest", "launch"}
                /\ Path(o)[k] = "workspace" => k > 1 /\ Path(o)[k - 1] = "claim"
                /\ Path(o)[k] \in {"image", "bind"} =>
                        \E l \in 1..(k - 1) : Path(o)[l] = Finder
           /\ Len(Path(o)) \in Nat
BY DEF Path, ScriptCheck, ManagedCheck, Finder, Managed, Builds

\* What follows what on every path, with nothing in between.
LEMMA PathPairs ==
    ASSUME NEW o \in Operations, NEW k \in 1..Len(Path(o))
    PROVE  /\ Path(o)[k] = "launch" => k > 1 /\ Path(o)[k - 1] = "attest"
           /\ Path(o)[k] = "workspace" => k > 1 /\ Path(o)[k - 1] = "claim"
           /\ Path(o)[k] = "claim-probe" => k > 1 /\ Path(o)[k - 1] = "probe"
           /\ Path(o)[k] = "answer" => k > 1 /\ Path(o)[k - 1] = "claim-probe"
           /\ Path(o)[k] = "attest" => k < Len(Path(o)) /\ Path(o)[k + 1] = "launch"
           /\ Path(o)[k] = "probe" => k < Len(Path(o)) /\ Path(o)[k + 1] = "claim-probe"
           /\ Path(o)[k] = "claim-probe" => k < Len(Path(o)) /\ Path(o)[k + 1] = "answer"
           /\ k \in Nat /\ Len(Path(o)) \in Nat
<1>1. CASE o.kind = "check"
  BY <1>1 DEF Path, ScriptCheck, ManagedCheck
<1>2. CASE o.kind = "run"
  BY <1>2 DEF Path, ScriptRun, ManagedRun
<1> QED
  BY <1>1, <1>2 DEF Operations

\* Advance goes on along the path, over steps that do not apply.
LEMMA Onward ==
    ASSUME NEW o \in Operations, o.result = None, Advance(o), UNCHANGED recipe
    PROVE  /\ op' \in Operations /\ UnderWay' /\ Path(op)' = Path(o)
           /\ op' = [o EXCEPT !.step = op'.step]
           /\ op'.step \in (o.step + 1)..Len(Path(o))
           /\ Step' = Path(o)[op'.step]
           /\ Applies(o.kind, Path(o)[op'.step])
           /\ \A k \in (o.step + 1)..(op'.step - 1) : ~Applies(o.kind, Path(o)[k])
<1>1. PICK next \in (o.step + 1)..Len(Path(o)) :
        /\ Applies(o.kind, Path(o)[next])
        /\ \A n \in (o.step + 1)..(next - 1) : ~Applies(o.kind, Path(o)[n])
        /\ op' = [o EXCEPT !.step = next]
  BY DEF Advance
<1>2. Len(Path(o)) \in Nat
  BY RunPath, CheckPath DEF Operations
<1>3. op' \in Operations /\ op'.step = next
  BY <1>1, <1>2 DEF Operations
<1>4. Path(op)' = Path(o)
  BY <1>1 DEF Path, Managed, Operations
<1>5. UnderWay'
  BY <1>1, <1>3, NoneAssumption DEF UnderWay, Operations
<1> QED
  BY <1>1, <1>3, <1>4, <1>5 DEF Step

-----------------------------------------------------------------------------
(* The invariant *)

\* A check that has looked for its image has found one.
Found ==
    UnderWay /\ op.kind = "check" =>
        \A k \in 1..(op.step - 1) : Path(op)[k] = Finder => op.found \in Contents

\* A run is bound to the newest check, and what it compared with it is the same.
Bound ==
    UnderWay /\ op.kind = "run" =>
        /\ evidence # <<>> /\ op.check = evidence[Len(evidence)]
        /\ \A k \in 1..(op.step - 1) :
            /\ Path(op)[k] = "match" => op.source = op.check.source
            /\ Path(op)[k] = "images" => op.image = op.check.image

\* Nothing serves but what is active or being launched, and that is attested.
Served ==
    /\ active = None /\ ~Switched => serving = [n \in Nodes |-> None]
    /\ active # None => attested = active /\ ~UnderWay
    /\ active # None /\ op # None => op.kind = "run"
    /\ booting => active # None
    /\ Switched => attested = Identity(op) /\ attested # None

\* What an operation leaves is on record; what is left of one that is over was
\* left by a failure or a kill.
Recorded ==
    /\ At("workspace") => "workspace" \in claims
    /\ workspace => "workspace" \in claims
    /\ probe => "probe" \in claims \/ At("claim-probe") \/ slipped
    /\ "probe" \in claims => At("answer") \/ slipped
    /\ "workspace" \in claims => slipped \/ (op # None /\ op.kind = "check")

IInv == TypeOK /\ Found /\ Bound /\ Served /\ Recorded

-----------------------------------------------------------------------------
(* One step on, with the operation as the step leaves it *)

\* Where Advance goes from a step, and which steps are done then.
LEMMA Forward ==
    ASSUME TypeOK, UnderWay, UNCHANGED recipe,
           NEW o \in Operations, Advance(o), o.result = None,
           o.kind = op.kind, o.step = op.step, o.resumed = op.resumed
    PROVE  /\ op' \in Operations /\ UnderWay' /\ Path(op)' = Path(op)
           /\ op' = [o EXCEPT !.step = op'.step]
           /\ op'.step \in 1..Len(Path(op))
           /\ \A k \in 1..(op'.step - 1) :
                k \in 1..(op.step - 1) \/ k = op.step \/ ~Applies(op.kind, Path(op)[k])
           /\ Switched' <=> At("attest")
           /\ At("workspace")' => At("claim")
           /\ At("claim-probe")' <=> At("probe")
           /\ At("answer")' <=> At("claim-probe")
<1> DEFINE t == op'.step
           P == Path(op)
<1>1. /\ op \in Operations /\ op.result = None /\ op # None
      /\ op.step \in 1..Len(P) /\ Path(o) = P
  BY DEF TypeOK, UnderWay, Path
<1>2. /\ op' \in Operations /\ UnderWay' /\ Path(op)' = P
      /\ op' = [o EXCEPT !.step = t]
      /\ t \in (op.step + 1)..Len(P)
      /\ Step' = P[t]
      /\ Applies(op.kind, P[t])
      /\ \A k \in (op.step + 1)..(t - 1) : ~Applies(op.kind, P[k])
  BY <1>1, Onward
<1>3. Step = P[op.step] /\ Len(P) \in Nat /\ op.step \in Nat /\ t \in Nat
  BY <1>1, <1>2, PathPairs DEF Step, UnderWay
<1>4. \A s \in {"attest", "claim", "probe", "claim-probe", "launch", "answer"} :
          Applies(op.kind, s)
  BY DEF Applies
<1>5. \A k \in 1..(t - 1) :
          k \in 1..(op.step - 1) \/ k = op.step \/ ~Applies(op.kind, P[k])
  BY <1>2, <1>3
<1>6. ASSUME NEW a \in {"attest", "claim", "probe", "claim-probe"},
             t > 1 /\ P[t - 1] = a
      PROVE  Step = a
  BY <1>2, <1>3, <1>4, <1>6
<1>7. ASSUME NEW b \in {"launch", "claim-probe", "answer"},
             op.step < Len(P) /\ P[op.step + 1] = b
      PROVE  Step' = b
  BY <1>2, <1>3, <1>4, <1>7
<1>8. Switched' <=> At("attest")
  BY <1>1, <1>2, <1>3, <1>6, <1>7, PathPairs DEF Switched, At
<1>9. At("workspace")' => At("claim")
  <2>1. P[t] = "workspace" => t > 1 /\ P[t - 1] = "claim"
    BY <1>1, <1>2, <1>3, PathPairs
  <2> QED
    BY <1>2, <1>6, <2>1 DEF At
<1>10. At("claim-probe")' <=> At("probe")
  BY <1>1, <1>2, <1>3, <1>6, <1>7, PathPairs DEF At
<1>11. At("answer")' <=> At("claim-probe")
  BY <1>1, <1>2, <1>3, <1>6, <1>7, PathPairs DEF At
<1> QED
  BY <1>2, <1>3, <1>5, <1>8, <1>9, <1>10, <1>11

\* A step that keeps what was found and compared keeps Found and Bound.
LEMMA Kept ==
    ASSUME TypeOK, Found, Bound, UnderWay, UNCHANGED <<recipe, evidence>>,
           NEW o \in Operations, Advance(o), o.result = None,
           o.kind = op.kind, o.step = op.step, o.resumed = op.resumed,
           o.check = op.check,
           op.kind = "check" /\ At(Finder) => o.found \in Contents,
           o.found = op.found \/ o.found \in Contents,
           At("match") => o.source = o.check.source,
           At("images") => o.image = o.check.image,
           o.source = op.source \/ At("source"),
           o.image = op.image \/ Step \in {"pin", "build", "image"}
    PROVE  Found' /\ Bound'
<1> DEFINE P == Path(op)
<1>1. /\ op' \in Operations /\ UnderWay' /\ Path(op)' = P
      /\ op' = [o EXCEPT !.step = op'.step]
      /\ \A k \in 1..(op'.step - 1) :
           k \in 1..(op.step - 1) \/ k = op.step \/ ~Applies(op.kind, P[k])
      /\ op'.step \in 1..Len(P)
  BY Forward
<1>2. /\ op \in Operations /\ op.step \in 1..Len(P) /\ Step = P[op.step]
      /\ Len(P) \in Nat /\ op.step \in Nat /\ op'.step \in Nat
  BY <1>1, PathPairs DEF TypeOK, UnderWay, Step
<1>3. /\ op'.kind = op.kind /\ op'.found = o.found /\ op'.check = op.check
      /\ op'.source = o.source /\ op'.image = o.image
  BY <1>1 DEF Operations
<1>4. Finder' = Finder /\ \A s \in {Finder, "match", "images"} : Applies(op.kind, s)
  BY DEF Finder, Applies, Builds
<1>5. Found'
  <2> SUFFICES ASSUME op.kind = "check", NEW k \in 1..(op'.step - 1), P[k] = Finder
               PROVE  o.found \in Contents
    BY <1>1, <1>3, <1>4 DEF Found
  <2>1. k \in 1..(op.step - 1) \/ k = op.step
    BY <1>1, <1>4
  <2> QED
    BY <1>2, <2>1 DEF Found, At
<1>6. Bound'
  <2> SUFFICES ASSUME op.kind = "run"
               PROVE  Bound'
    BY <1>3 DEF Bound
  <2>1. evidence' # <<>> /\ op'.check = evidence'[Len(evidence')]
    BY <1>3 DEF Bound
  <2>2. ASSUME NEW k \in 1..(op'.step - 1), P[k] = "match"
        PROVE  o.source = op.check.source
    <3>1. k \in 1..(op.step - 1) \/ k = op.step
      BY <1>1, <1>4, <2>2
    <3>2. CASE k = op.step
      BY <1>2, <2>2, <3>2 DEF At
    <3>3. CASE k \in 1..(op.step - 1)
      <4>1. k \in 1..Len(P) /\ op.step \in 1..Len(P) /\ k < op.step
        BY <1>2, <3>3
      <4>2. ~At("source")
        BY <1>2, <2>2, <4>1, RunPath DEF At
      <4> QED
        BY <2>2, <3>3, <4>2 DEF Bound
    <3> QED
      BY <3>1, <3>2, <3>3
  <2>3. ASSUME NEW k \in 1..(op'.step - 1), P[k] = "images"
        PROVE  o.image = op.check.image
    <3>1. k \in 1..(op.step - 1) \/ k = op.step
      BY <1>1, <1>4, <2>3
    <3>2. CASE k = op.step
      BY <1>2, <2>3, <3>2 DEF At
    <3>3. CASE k \in 1..(op.step - 1)
      <4>1. k \in 1..Len(P) /\ op.step \in 1..Len(P) /\ k < op.step
        BY <1>2, <3>3
      <4>2. Step \notin {"pin", "build", "image"}
        BY <1>2, <2>3, <4>1, RunPath
      <4> QED
        BY <2>3, <3>3, <4>2 DEF Bound
    <3> QED
      BY <3>1, <3>2, <3>3
  <2> QED
    BY <1>1, <1>3, <2>1, <2>2, <2>3 DEF Bound
<1> QED
  BY <1>5, <1>6

\* A step that observes or prepares, and touches neither what serves nor what
\* an operation leaves behind.
LEMMA Progress ==
    ASSUME IInv, UnderWay, UNCHANGED <<outside, evidence, leavings, runtime, bounds>>,
           tag' \in Contents \cup {None}, model' \in {"whole", "damaged"},
           images' \in [Nodes -> SUBSET Contents],
           NEW o \in Operations, Advance(o), o.result = None,
           o.kind = op.kind, o.step = op.step, o.resumed = op.resumed,
           o.check = op.check,
           op.kind = "check" /\ At(Finder) => o.found \in Contents,
           o.found = op.found \/ o.found \in Contents,
           At("match") => o.source = o.check.source,
           At("images") => o.image = o.check.image,
           o.source = op.source \/ At("source"),
           o.image = op.image \/ Step \in {"pin", "build", "image"},
           Step \notin {"attest", "launch", "claim", "probe", "claim-probe", "answer"}
    PROVE  IInv'
<1>1. /\ op' \in Operations /\ UnderWay' /\ op' # None
      /\ op'.step \in 1..Len(Path(op)) /\ Path(op)' = Path(op)
      /\ ~Switched /\ ~Switched' /\ ~At("workspace")'
      /\ ~At("claim-probe")' /\ ~At("claim-probe") /\ ~At("answer")
      /\ op' = [o EXCEPT !.step = op'.step]
  BY Forward DEF IInv, outside, Switched, At, UnderWay
<1>6. op'.kind = op.kind /\ op # None
  BY <1>1 DEF Operations, UnderWay
<1>2. TypeOK'
  BY <1>1 DEF IInv, TypeOK, outside, leavings, runtime, bounds
<1>3. Found' /\ Bound'
  BY Kept DEF IInv, outside
<1>4. Served'
  BY <1>1 DEF IInv, Served, runtime
<1>5. Recorded'
  BY <1>1, <1>6 DEF IInv, Recorded, leavings
<1> QED
  BY <1>2, <1>3, <1>4, <1>5 DEF IInv

\* A step that ends the operation where it leaves nothing behind.
LEMMA Ending ==
    ASSUME IInv, UnderWay, UNCHANGED <<outside, leavings, runtime, bounds>>,
           tag' \in Contents \cup {None}, model' \in {"whole", "damaged"},
           images' \in [Nodes -> SUBSET Contents], evidence' \in Seq(Evidences),
           NEW result \in {"passed", "failed"}, Ends(result),
           Step \notin {"launch", "claim-probe", "answer"}
    PROVE  IInv'
<1>0. op \in Operations /\ active = None
  BY DEF IInv, TypeOK, Served, UnderWay
<1>9. op' \in Operations /\ op'.result # None /\ op'.kind = op.kind /\ op # None
  BY <1>0, NoneAssumption DEF Ends, Operations, UnderWay
<1>1. /\ op' \in Operations /\ ~UnderWay' /\ op' # None
      /\ ~Switched /\ ~Switched' /\ ~At("workspace")'
      /\ ~At("claim-probe")' /\ ~At("claim-probe") /\ ~At("answer")
      /\ active = None
  BY <1>0, <1>9, NoneAssumption DEF UnderWay, Switched, At, Step
<1>2. TypeOK'
  BY <1>1 DEF IInv, TypeOK, outside, leavings, runtime, bounds
<1>3. Found' /\ Bound'
  BY <1>1 DEF Found, Bound
<1>4. Served'
  BY <1>1 DEF IInv, Served, runtime
<1>5. Recorded'
  BY <1>1, <1>9 DEF IInv, Recorded, leavings
<1> QED
  BY <1>2, <1>3, <1>4, <1>5 DEF IInv

-----------------------------------------------------------------------------
(* The invariant holds: one lemma for each part of a life *)

\* The machine at rest satisfies the invariant.
LEMMA InitInv == Init => IInv
<1> SUFFICES ASSUME Init
             PROVE  IInv
  OBVIOUS
<1>1. ~UnderWay /\ Step = "none"
  BY DEF Init, UnderWay, Step
<1>2. TypeOK
  <2>1. <<>> \in Seq(Evidences)
    OBVIOUS
  <2>2. /\ images \in [Nodes -> SUBSET Contents]
        /\ serving \in [Nodes -> Identities \cup {None}]
    BY DEF Init
  <2> QED
    BY <1>1, <2>1, <2>2, ContentsAssumption DEF Init, TypeOK
<1>3. Found /\ Bound /\ Served /\ Recorded
  BY <1>1 DEF Init, Found, Bound, Served, Recorded, Switched, At
<1> QED
  BY <1>2, <1>3 DEF IInv

\* Steps that only look.
LEMMA Looking ==
    ASSUME IInv, Observe \/ ReadCluster \/ Inspect
    PROVE  IInv'
<1>1. CASE Observe
  <2>1. UnderWay /\ op \in Operations /\ op.result = None
    BY <1>1 DEF IInv, TypeOK, Observe, Step, UnderWay
  <2>2. At("match") => op.source = op.check.source
    BY <1>1 DEF Observe, Can, Matches, At
  <2>3. At("images") => op.image = op.check.image
    BY <1>1 DEF Observe, Can, At
  <2>4. ~At(Finder)
    BY <1>1 DEF Observe, Finder, At
  <2>5. Step \notin {"attest", "launch", "claim", "probe", "claim-probe", "answer"}
    BY <1>1 DEF Observe
  <2> QED
    BY <1>1, <2>1, <2>2, <2>3, <2>4, <2>5, Progress DEF IInv, TypeOK, Observe, machine
<1>2. CASE ReadCluster
  <2> DEFINE o == [op EXCEPT !.seen = binding]
  <2>1. UnderWay /\ Step = "topology" /\ op \in Operations /\ op.result = None
    BY <1>2 DEF IInv, TypeOK, ReadCluster, At, Step, UnderWay
  <2>2. /\ o \in Operations /\ o.result = None /\ o.kind = op.kind /\ o.step = op.step
        /\ o.resumed = op.resumed /\ o.check = op.check /\ o.found = op.found
        /\ o.source = op.source /\ o.image = op.image /\ Advance(o)
    BY <1>2, <2>1 DEF IInv, TypeOK, Operations, ReadCluster
  <2>3. ~At(Finder) /\ ~At("match") /\ ~At("images")
    BY <2>1 DEF Finder, At
  <2> HIDE DEF o
  <2> QED
    BY <1>2, <2>1, <2>2, <2>3, Progress DEF IInv, TypeOK, ReadCluster, machine
<1>3. CASE Inspect
  <2> DEFINE o == [op EXCEPT !.found = IF Managed THEN Pinned ELSE registry]
  <2>1. UnderWay /\ Step = "inspect" /\ op \in Operations /\ op.result = None
    BY <1>3 DEF IInv, TypeOK, Inspect, At, Step, UnderWay
  <2>2. /\ o \in Operations /\ o.result = None /\ o.kind = op.kind /\ o.step = op.step
        /\ o.resumed = op.resumed /\ o.check = op.check /\ o.found \in Contents
        /\ o.source = op.source /\ o.image = op.image /\ Advance(o)
    <3> DEFINE found == IF Managed THEN Pinned ELSE registry
    <3>1. found \in Contents /\ registry \in Contents
      BY ContentsAssumption DEF IInv, TypeOK, Pinned
    <3>2. Advance([op EXCEPT !.found = found])
      BY <1>3 DEF Inspect
    <3> HIDE DEF found
    <3>3. /\ [op EXCEPT !.found = found] \in Operations
          /\ [op EXCEPT !.found = found].result = None
          /\ [op EXCEPT !.found = found].kind = op.kind
          /\ [op EXCEPT !.found = found].step = op.step
          /\ [op EXCEPT !.found = found].resumed = op.resumed
          /\ [op EXCEPT !.found = found].check = op.check
          /\ [op EXCEPT !.found = found].found = found
          /\ [op EXCEPT !.found = found].source = op.source
          /\ [op EXCEPT !.found = found].image = op.image
      BY <2>1, <3>1 DEF Operations
    <3> QED
      BY <3>1, <3>2, <3>3 DEF found
  <2>3. ~At("match") /\ ~At("images")
    BY <2>1 DEF At
  <2> HIDE DEF o
  <2> QED
    BY <1>3, <2>1, <2>2, <2>3, Progress DEF IInv, TypeOK, Inspect, machine
<1> QED
  BY <1>1, <1>2, <1>3

\* Steps that bring the source, the image or the model.
LEMMA Preparing ==
    ASSUME IInv,
           \/ FetchSource \/ BuildForCheck \/ Reuse \/ BuildForRun
           \/ PrepareImage \/ PinImage \/ SendImage \/ PrepareModel
    PROVE  IInv'
<1> SUFFICES ASSUME UnderWay, op \in Operations, op.result = None
             PROVE  IInv'
  BY DEF IInv, TypeOK, Step, UnderWay, At,
         FetchSource, BuildForCheck, Reuse, BuildForRun, PrepareImage, PinImage,
         SendImage, PrepareModel
<1>1. CASE FetchSource
  <2> DEFINE o == IF recipe.sourced THEN [op EXCEPT !.source = upstream] ELSE op
  <2>1. /\ o \in Operations /\ o.result = None /\ o.kind = op.kind /\ o.step = op.step
        /\ o.resumed = op.resumed /\ o.check = op.check /\ o.found = op.found
        /\ o.image = op.image /\ Advance(o)
    BY <1>1 DEF IInv, TypeOK, Operations, FetchSource
  <2>2. At("source") /\ ~At(Finder) /\ ~At("match") /\ ~At("images")
    BY <1>1 DEF FetchSource, Finder, At
  <2> HIDE DEF o
  <2> QED
    BY <1>1, <2>1, <2>2, Progress DEF IInv, TypeOK, FetchSource, machine, At
<1>2. CASE BuildForCheck
  <2>1. PICK content \in Contents :
          /\ tag' = content
          /\ images' = [images EXCEPT ![HeadNode] = @ \cup {content}]
          /\ Advance([op EXCEPT !.found = content])
    BY <1>2 DEF BuildForCheck
  <2> DEFINE o == [op EXCEPT !.found = content]
  <2>2. /\ o \in Operations /\ o.result = None /\ o.kind = op.kind /\ o.step = op.step
        /\ o.resumed = op.resumed /\ o.check = op.check /\ o.found \in Contents
        /\ o.source = op.source /\ o.image = op.image /\ Advance(o)
    BY <2>1 DEF Operations
  <2>3. images' \in [Nodes -> SUBSET Contents] /\ model' \in {"whole", "damaged"}
    BY <1>2, <2>1 DEF IInv, TypeOK, BuildForCheck
  <2>4. Step = "build" /\ ~At("match") /\ ~At("images")
    BY <1>2 DEF BuildForCheck, At
  <2> HIDE DEF o
  <2> QED
    BY <1>2, <2>1, <2>2, <2>3, <2>4, Progress DEF BuildForCheck
<1>3. ASSUME NEW content \in Contents, At("build") \/ At("pin") \/ At("image"),
             NEW name \in {"local", "manifest"}, op.kind = "check" => ~At("build"),
             Advance(Bind(content, name)), tag' \in Contents \cup {None},
             images' \in [Nodes -> SUBSET Contents], model' \in {"whole", "damaged"},
             UNCHANGED <<outside, evidence, leavings, runtime, bounds>>
      PROVE  IInv'
  <2> DEFINE o == Bind(content, name)
  <2>1. /\ o \in Operations /\ o.result = None /\ o.kind = op.kind /\ o.step = op.step
        /\ o.resumed = op.resumed /\ o.check = op.check /\ o.found = op.found
        /\ o.source = op.source /\ Advance(o)
    BY <1>3 DEF Operations, Bind
  <2>2. /\ Step \in {"pin", "build", "image"} /\ ~At("match") /\ ~At("images")
        /\ op.kind = "check" => ~At(Finder)
    BY <1>3 DEF At, Finder
  <2> HIDE DEF o
  <2> QED
    BY <1>3, <2>1, <2>2, Progress
<1>4. ASSUME NEW content \in Contents
      PROVE  [images EXCEPT ![HeadNode] = @ \cup {content}] \in [Nodes -> SUBSET Contents]
  BY DEF IInv, TypeOK
<1>5. ASSUME op.kind = "run"
      PROVE  op.check \in Evidences
  BY <1>5 DEF IInv, Bound, TypeOK
<1>6. CASE Reuse
  <2>1. At("build") /\ op.kind = "run" /\ tag = op.check.image /\ tag \in Contents
    BY <1>5, <1>6 DEF Reuse, Reusable, Evidences
  <2>2. CASE Bindable(tag, "local")
    BY <1>3, <1>6, <2>1, <2>2 DEF Reuse, machine, IInv, TypeOK
  <2>3. CASE ~Bindable(tag, "local")
    BY <1>6, <2>1, <2>3, Ending DEF Reuse, machine, IInv, TypeOK, At
  <2> QED
    BY <2>2, <2>3
<1>7. CASE BuildForRun
  <2>1. At("build") /\ op.kind = "run"
    BY <1>7 DEF BuildForRun
  <2>2. PICK content \in Contents :
          /\ tag' = content
          /\ images' = [images EXCEPT ![HeadNode] = @ \cup {content}]
          /\ IF content = op.check.image /\ Bindable(content, "local")
             THEN Advance(Bind(content, "local")) ELSE Ends("failed")
    BY <1>7 DEF BuildForRun
  <2>3. images' \in [Nodes -> SUBSET Contents] /\ model' \in {"whole", "damaged"}
    BY <1>4, <1>7, <2>2 DEF BuildForRun, IInv, TypeOK
  <2>4. CASE Advance(Bind(content, "local"))
    BY <1>3, <1>7, <2>1, <2>2, <2>3, <2>4 DEF BuildForRun
  <2>5. CASE Ends("failed")
    BY <1>7, <2>1, <2>2, <2>3, <2>5, Ending DEF BuildForRun, IInv, TypeOK, At
  <2> QED
    BY <2>2, <2>4, <2>5
<1>8. CASE PrepareImage
  <2>1. op.kind = "check" /\ At("image") /\ op.found \in Contents
    <3>1. /\ op.step \in 1..Len(Path(op)) /\ Path(op)[op.step] = "image"
          /\ op.kind = "check"
      BY <1>8, RunPath DEF PrepareImage, At, Step, IInv, TypeOK, Operations
    <3>2. PICK l \in 1..(op.step - 1) : Path(op)[l] = Finder
      BY <3>1, CheckPath
    <3> QED
      BY <1>8, <3>1, <3>2 DEF IInv, Found, PrepareImage
  <2>2. images' \in [Nodes -> SUBSET Contents]
    BY <1>4, <1>8, <2>1 DEF PrepareImage
  <2> QED
    BY <1>3, <1>8, <2>1, <2>2 DEF PrepareImage, IInv, TypeOK, At
<1>9. CASE PinImage
  <2>1. op.kind = "run" /\ At("pin")
    BY <1>9, CheckPath DEF PinImage, At, Step, IInv, TypeOK, Operations
  <2>2. op.check.image \in Contents
    BY <1>5, <2>1 DEF Evidences
  <2>3. images' \in [Nodes -> SUBSET Contents]
    BY <1>4, <1>9, <2>2 DEF PinImage
  <2> QED
    BY <1>3, <1>9, <2>1, <2>2, <2>3 DEF PinImage, IInv, TypeOK
<1>10. CASE SendImage
  <2>1. op.image \in Contents
    BY <1>10 DEF SendImage, Can, Holds, IInv, TypeOK, HeadNode, Nodes
  <2>2. images' \in [Nodes -> SUBSET Contents]
    BY <1>10, <2>1 DEF SendImage, IInv, TypeOK
  <2>3. Step = "send" /\ ~At(Finder) /\ ~At("match") /\ ~At("images")
    BY <1>10 DEF SendImage, At, Finder
  <2> QED
    BY <1>10, <2>2, <2>3, Progress DEF SendImage, IInv, TypeOK
<1>11. CASE PrepareModel
  <2>1. Step = "model" /\ ~At(Finder) /\ ~At("match") /\ ~At("images")
    BY <1>11 DEF PrepareModel, At, Finder
  <2> QED
    BY <1>11, <2>1, Progress DEF PrepareModel, IInv, TypeOK
<1> QED
  BY <1>1, <1>2, <1>6, <1>7, <1>8, <1>9, <1>10, <1>11

\* Steps that claim, create and remove what an operation leaves on the machine.
LEMMA Leaving ==
    ASSUME IInv,
           \/ ClaimWorkspace \/ CreateWorkspace
           \/ StartProbe \/ ClaimProbe \/ EndProbe \/ ProbeStays
    PROVE  IInv'
<1>1. /\ UnderWay /\ op \in Operations /\ op.result = None /\ Advance(op)
      /\ UNCHANGED <<outside, machine, evidence, owner, runtime, calls, changes, crashes>>
      /\ Step \in {"claim", "workspace", "probe", "claim-probe", "answer"}
  BY DEF IInv, TypeOK, Step, UnderWay, At, bounds, ClaimWorkspace, CreateWorkspace,
         StartProbe, ClaimProbe, EndProbe, ProbeStays
<1>2. /\ op' \in Operations /\ UnderWay' /\ op' # None
      /\ op'.step \in 1..Len(Path(op)) /\ Path(op)' = Path(op)
      /\ ~Switched /\ ~Switched'
      /\ At("workspace")' => At("claim")
      /\ At("claim-probe")' <=> At("probe")
      /\ At("answer")' <=> At("claim-probe")
      /\ op' = [op EXCEPT !.step = op'.step]
  BY <1>1, Forward DEF IInv, outside, Switched, At, UnderWay
<1>3. /\ claims' \subseteq {"workspace", "probe"} /\ slipped' \in BOOLEAN
      /\ workspace' \in BOOLEAN /\ probe' \in BOOLEAN /\ faults' \in Nat
  <2>1. /\ claims \subseteq {"workspace", "probe"} /\ slipped \in BOOLEAN
        /\ workspace \in BOOLEAN /\ probe \in BOOLEAN /\ faults \in Nat
    BY DEF IInv, TypeOK
  <2>2. CASE ClaimWorkspace \/ CreateWorkspace \/ StartProbe \/ ClaimProbe
    BY <2>1, <2>2 DEF ClaimWorkspace, CreateWorkspace, StartProbe, ClaimProbe, bounds
  <2>3. CASE EndProbe
    BY <2>1, <2>3 DEF EndProbe, ProbeEnds, bounds
  <2>4. CASE ProbeStays
    BY <2>1, <2>4 DEF ProbeStays, ProbeSlips, Fault
  <2> QED
    BY <2>2, <2>3, <2>4
<1>4. TypeOK'
  BY <1>1, <1>2, <1>3 DEF IInv, TypeOK, outside, machine, runtime
<1>5. Found' /\ Bound'
  <2>1. ~At(Finder) /\ ~At("match") /\ ~At("images")
    BY <1>1 DEF At, Finder
  <2> QED
    BY <1>1, <2>1, Kept DEF IInv, outside
<1>6. Served'
  BY <1>1, <1>2 DEF IInv, Served, runtime
<1>7. op # None /\ Recorded /\ op'.kind = op.kind
  BY <1>1, <1>2 DEF IInv, UnderWay, Operations
<1>8. CASE ClaimWorkspace
  <2>1. /\ claims' = claims \cup {"workspace"} /\ UNCHANGED <<workspace, probe, slipped>>
        /\ Step = "claim"
    BY <1>8 DEF ClaimWorkspace, At
  <2>2. op.kind = "check"
    BY <1>1, <2>1, RunPath DEF Step, IInv, TypeOK, Operations
  <2> QED
    BY <1>2, <1>7, <2>1, <2>2, <1>4, <1>5, <1>6 DEF IInv, Recorded, At
<1>9. CASE CreateWorkspace
  <2>1. workspace' = TRUE /\ UNCHANGED <<claims, probe, slipped>> /\ Step = "workspace"
    BY <1>9 DEF CreateWorkspace, At
  <2> QED
    BY <1>2, <1>7, <2>1, <1>4, <1>5, <1>6 DEF IInv, Recorded, At
<1>10. CASE StartProbe
  <2>1. probe' = TRUE /\ UNCHANGED <<claims, workspace, slipped>> /\ Step = "probe"
    BY <1>10 DEF StartProbe, At
  <2> QED
    BY <1>2, <1>7, <2>1, <1>4, <1>5, <1>6 DEF IInv, Recorded, At
<1>11. CASE ClaimProbe
  <2>1. /\ claims' = claims \cup {"probe"} /\ UNCHANGED <<workspace, probe, slipped>>
        /\ Step = "claim-probe"
    BY <1>11 DEF ClaimProbe, At
  <2> QED
    BY <1>2, <1>7, <2>1, <1>4, <1>5, <1>6 DEF IInv, Recorded, At
<1>12. CASE EndProbe
  <2>1. /\ probe' = FALSE /\ claims' = claims \ {"probe"} /\ UNCHANGED <<workspace, slipped>>
        /\ Step = "answer"
    BY <1>12 DEF EndProbe, ProbeEnds, At
  <2> QED
    BY <1>2, <1>7, <2>1, <1>4, <1>5, <1>6 DEF IInv, Recorded, At
<1>13. CASE ProbeStays
  <2>1. /\ claims' \in {claims, claims \ {"probe"}} /\ UNCHANGED workspace
        /\ slipped' = TRUE /\ Step = "answer"
    BY <1>13 DEF ProbeStays, ProbeSlips, At
  <2> QED
    BY <1>2, <1>7, <2>1, <1>4, <1>5, <1>6 DEF IInv, Recorded, At
<1> QED
  BY <1>8, <1>9, <1>10, <1>11, <1>12, <1>13

\* The newest check is what a run begins with.
LEMMA Beginning ==
    ASSUME IInv, BeginCheck \/ BeginRun
    PROVE  IInv'
<1>1. PICK kind \in {"check", "run"}, check \in Evidences \cup {None} :
        /\ Begin(kind, check)
        /\ kind = "run" => evidence # <<>> /\ check = evidence[Len(evidence)]
  <2>1. evidence # <<>> => evidence[Len(evidence)] \in Evidences
    BY DEF IInv, TypeOK
  <2> QED
    BY <2>1 DEF BeginCheck, BeginRun
<1> DEFINE o == [kind |-> kind, step |-> 0, resumed |-> FALSE, result |-> None,
                 source |-> None, image |-> None, boundAs |-> None,
                 found |-> None, seen |-> 0, check |-> check, began |-> Disturbances]
<1>2. /\ o \in Operations /\ o.result = None /\ o.step = 0 /\ Advance(o)
      /\ o.kind = kind /\ o.check = check
      /\ op = None /\ active = None /\ claims = {}
      /\ probe' = FALSE /\ slipped' = FALSE
      /\ UNCHANGED <<outside, machine, evidence, claims, owner, workspace, runtime,
                     changes, faults, crashes>>
  BY <1>1 DEF Begin, Admits, Operations, Disturbances, IInv, TypeOK
<1> HIDE DEF o
<1>3. /\ op' \in Operations /\ UnderWay' /\ Path(op)' = Path(o)
      /\ op' = [o EXCEPT !.step = op'.step]
      /\ op'.step \in 1..Len(Path(o)) /\ Step' = Path(o)[op'.step]
      /\ \A k \in 1..(op'.step - 1) : ~Applies(o.kind, Path(o)[k])
  BY <1>2, Onward DEF outside
<1>4. op'.kind = kind /\ op'.check = check
  BY <1>2, <1>3 DEF Operations
<1>5. ~Switched' /\ ~At("workspace")' /\ ~At("claim-probe")' /\ ~At("answer")'
  <2>1. \A s \in {"attest", "claim", "probe", "claim-probe"} : Applies(o.kind, s)
    BY DEF Applies
  <2>2. op'.step > 1 => op'.step - 1 \in 1..(op'.step - 1)
    BY <1>3, PathPairs, <1>2
  <2> QED
    BY <1>2, <1>3, <2>1, <2>2, PathPairs DEF Switched, At
<1>6. calls' \in Nat
  BY <1>1 DEF Begin, IInv, TypeOK
<1>7. TypeOK'
  BY <1>2, <1>3, <1>6 DEF IInv, TypeOK, outside, machine, runtime
<1>8. Found' /\ Bound'
  <2>1. Applies(o.kind, Finder) /\ Applies(o.kind, "match") /\ Applies(o.kind, "images")
    BY DEF Applies, Finder
  <2>2. Finder' = Finder
    BY <1>2 DEF Finder, Builds, outside
  <2> QED
    BY <1>1, <1>2, <1>3, <1>4, <2>1, <2>2 DEF Found, Bound
<1>9. Served'
  BY <1>2, <1>3, <1>5 DEF IInv, Served, runtime, Switched, At, Step, UnderWay
<1>10. Recorded'
  BY <1>2, <1>5 DEF IInv, Recorded
<1> QED
  BY <1>7, <1>8, <1>9, <1>10 DEF IInv

\* What a sweep leaves was there before, and stays on record.
LEMMA Sweeping ==
    ASSUME TypeOK, Recorded, NEW there \in BOOLEAN, there => probe,
           NEW whose \in {"check", "run"}, Sweeps(there, whose)
    PROVE  /\ claims' \subseteq claims /\ owner' \in {None, "check", "passed", "run"}
           /\ workspace' \in BOOLEAN /\ probe' \in BOOLEAN
           /\ workspace' => "workspace" \in claims'
           /\ probe' => probe /\ ("probe" \in claims => "probe" \in claims')
<1>1. PICK removed \in BOOLEAN :
        /\ workspace' = (workspace /\ ~removed)
        /\ probe' = (there /\ (whose = "check" \/ ~removed))
        /\ claims' = IF ~removed THEN claims ELSE IF probe' THEN claims \cap {"probe"} ELSE {}
  BY DEF Sweeps
<1>2. owner' \in {None, "check", "passed", "run"}
  BY DEF Sweeps, OwnedBy
<1>3. workspace \in BOOLEAN /\ (workspace => "workspace" \in claims)
  BY DEF TypeOK, Recorded
<1>4. CASE removed
  BY <1>1, <1>2, <1>3, <1>4
<1>5. CASE ~removed
  BY <1>1, <1>2, <1>3, <1>5
<1> QED
  BY <1>4, <1>5

\* An operation that is over, or none, and what is left is swept once more.
LEMMA Swept ==
    ASSUME IInv, ~UnderWay, op' = None \/ op' = op, "workspace" \in claims => slipped,
           Sweeps(probe, "run") \/ Sweeps(probe, "check"), UNCHANGED slipped
    PROVE  /\ claims' \subseteq {"workspace", "probe"}
           /\ owner' \in {None, "check", "passed", "run"}
           /\ workspace' \in BOOLEAN /\ probe' \in BOOLEAN
           /\ Recorded'
<1>1. TypeOK /\ Recorded /\ probe \in BOOLEAN /\ claims \subseteq {"workspace", "probe"}
  BY DEF IInv, TypeOK
<1>2. /\ claims' \subseteq claims /\ owner' \in {None, "check", "passed", "run"}
      /\ workspace' \in BOOLEAN /\ probe' \in BOOLEAN
      /\ workspace' => "workspace" \in claims'
      /\ probe' => probe /\ ("probe" \in claims => "probe" \in claims')
  <2>1. CASE Sweeps(probe, "run")
    BY <1>1, <2>1, Sweeping
  <2>2. CASE Sweeps(probe, "check")
    BY <1>1, <2>2, Sweeping
  <2> QED
    BY <2>1, <2>2
<1>3. ~At("claim-probe") /\ ~At("answer") /\ ~At("workspace")'
  BY DEF At, Step, UnderWay
<1>4. Recorded'
  BY <1>1, <1>2, <1>3 DEF Recorded
<1> QED
  BY <1>1, <1>2, <1>4

\* A verdict, a failure, and what is done after them.
LEMMA Concluding ==
    ASSUME IInv, BindPreflight \/ Fails \/ CleanUp \/ WorkspaceStays \/ CloseRun \/ CleanupRetry
    PROVE  IInv'
<1>1. CASE BindPreflight
  <2>1. /\ UnderWay /\ op \in Operations /\ Step = "bind" /\ op.kind = "check"
        /\ op.step \in 1..Len(Path(op)) /\ Path(op)[op.step] = "bind"
    BY <1>1, RunPath DEF BindPreflight, At, Step, UnderWay, IInv, TypeOK, Operations
  <2>2. op.found \in Contents
    <3>1. PICK l \in 1..(op.step - 1) : Path(op)[l] = Finder
      BY <2>1, CheckPath
    <3> QED
      BY <2>1, <3>1 DEF IInv, Found
  <2>3. [source |-> op.source, image |-> op.found,
         platform |-> PlatformFingerprint(ModelBytes),
         cluster |-> ClusterFingerprint(op.seen), content |-> ModelBytes,
         remaining |-> Remaining, began |-> op.began] \in Evidences
    BY <2>1, <2>2 DEF Evidences, Operations, PlatformFingerprint, ClusterFingerprint,
       ModelBytes, Remaining, IInv, TypeOK
  <2>4. evidence' \in Seq(Evidences)
    BY <1>1, <2>3 DEF BindPreflight, IInv, TypeOK
  <2> QED
    BY <1>1, <2>1, <2>4, Ending DEF BindPreflight, IInv, TypeOK, machine
<1>2. CASE Fails
  <2>1. /\ UnderWay /\ op \in Operations /\ op.result = None /\ active = None
    BY <1>2 DEF Fails, UnderWay, IInv, TypeOK, Served
  <2>2. /\ op' \in Operations /\ op'.result # None /\ op' # None /\ op'.kind = op.kind
    BY <1>2, <2>1, NoneAssumption DEF Fails, Ends, Operations
  <2>3. /\ ~UnderWay' /\ ~Switched' /\ ~At("workspace")'
        /\ ~At("claim-probe")' /\ ~At("answer")'
    BY <2>2 DEF UnderWay, Switched, At, Step
  <2>4. /\ serving' \in [Nodes -> Identities \cup {None}]
        /\ attested' \in Identities \cup {None}
        /\ serving' = [n \in Nodes |-> None]
    BY <1>2, <2>1 DEF Fails, IInv, TypeOK, Served
  <2>5. TypeOK'
    <3>1. claims' \subseteq {"workspace", "probe"} /\ probe' \in BOOLEAN /\ slipped' \in BOOLEAN
      BY <1>2 DEF Fails, ProbeEnds, ProbeSlips, IInv, TypeOK
    <3>2. faults' \in Nat
      BY <1>2 DEF Fails, Fault, IInv, TypeOK
    <3> QED
      BY <1>2, <2>2, <2>3, <2>4, <3>1, <3>2 DEF Fails, IInv, TypeOK, outside, machine
  <2>6. Served'
    BY <1>2, <2>1, <2>3, <2>4 DEF Fails, IInv, Served
  <2>7. Recorded'
    <3>1. /\ UNCHANGED workspace /\ Recorded /\ op # None
          /\ \/ Step \notin {"claim-probe", "answer"} /\ UNCHANGED <<probe, claims, slipped>>
             \/ ProbeEnds \/ ProbeSlips
      BY <1>2, <2>1 DEF Fails, IInv, UnderWay
    <3>2. CASE ProbeEnds
      BY <2>2, <2>3, <3>1, <3>2 DEF Recorded, ProbeEnds
    <3>3. CASE ProbeSlips
      BY <2>2, <2>3, <3>1, <3>3 DEF Recorded, ProbeSlips
    <3>4. CASE Step \notin {"claim-probe", "answer"} /\ UNCHANGED <<probe, claims, slipped>>
      <4>1. ~At("claim-probe") /\ ~At("answer")
        BY <3>4 DEF At
      <4> QED
        BY <2>2, <2>3, <3>1, <3>4, <4>1 DEF Recorded
    <3> QED
      BY <3>1, <3>2, <3>3, <3>4
  <2> QED
    BY <2>3, <2>5, <2>6, <2>7 DEF IInv, Found, Bound
<1>3. CASE CleanUp \/ WorkspaceStays
  <2>1. /\ op' = None /\ ~UnderWay' /\ ~Switched' /\ ~At("workspace")'
        /\ ~At("claim-probe")' /\ ~At("answer")'
        /\ op # None /\ ~Switched /\ ~At("claim-probe") /\ ~At("answer")
        /\ UNCHANGED <<outside, machine, evidence, probe, runtime, calls, changes, crashes>>
    BY <1>3 DEF CleanUp, WorkspaceStays, UnderWay, Switched, At, Step, bounds
  <2>2. TypeOK'
    <3>1. /\ claims' \subseteq {"workspace", "probe"} /\ slipped' \in BOOLEAN
          /\ owner' \in {None, "check", "passed", "run"} /\ workspace' \in BOOLEAN
          /\ faults' \in Nat
      <4>1. /\ claims \subseteq {"workspace", "probe"} /\ slipped \in BOOLEAN
            /\ workspace \in BOOLEAN /\ faults \in Nat
        BY DEF IInv, TypeOK
      <4>2. owner' \in {None, "check", "passed", "run"}
        <5>1. op \in Operations /\ OwnedBy(Owner(op))
          BY <1>3 DEF CleanUp, WorkspaceStays, IInv, TypeOK
        <5>2. Owner(op) \in {None, "check", "passed", "run"}
          BY <5>1 DEF Owner, Operations
        <5> QED
          BY <5>1, <5>2 DEF OwnedBy
      <4>3. CASE CleanUp
        BY <4>1, <4>2, <4>3 DEF CleanUp, bounds
      <4>4. CASE WorkspaceStays
        <5>1. claims' = claims /\ slipped' = TRUE /\ faults' = faults + 1
          BY <4>4 DEF WorkspaceStays, Fault
        <5>2. workspace' \in BOOLEAN
          BY <4>1, <4>4, Zenon DEF WorkspaceStays
        <5> QED
          BY <4>1, <4>2, <5>1, <5>2
      <4> QED
        BY <1>3, <4>3, <4>4
    <3> QED
      BY <2>1, <3>1 DEF IInv, TypeOK, outside, machine, runtime
  <2>3. Served'
    BY <2>1 DEF IInv, Served, runtime
  <2>4. Recorded'
    <3>1. CASE CleanUp
      BY <2>1, <3>1 DEF CleanUp, IInv, Recorded
    <3>2. CASE WorkspaceStays
      BY <2>1, <3>2 DEF WorkspaceStays, IInv, Recorded
    <3> QED
      BY <1>3, <3>1, <3>2
  <2> QED
    BY <2>1, <2>2, <2>3, <2>4 DEF IInv, Found, Bound
<1>4. CASE CloseRun \/ CleanupRetry
  <2>1. /\ op' = None /\ ~UnderWay /\ ~UnderWay' /\ ~Switched /\ ~Switched' /\ ~At("workspace")'
        /\ ~At("claim-probe")' /\ ~At("answer")' /\ ~At("claim-probe") /\ ~At("answer")
        /\ UNCHANGED <<outside, machine, evidence, slipped, runtime, bounds>>
    BY <1>4 DEF CloseRun, CleanupRetry, UnderWay, Switched, At, Step
  <2>2. "workspace" \in claims => slipped
    BY <1>4 DEF CloseRun, CleanupRetry, IInv, Recorded
  <2>3. /\ claims' \subseteq {"workspace", "probe"}
        /\ owner' \in {None, "check", "passed", "run"}
        /\ workspace' \in BOOLEAN /\ probe' \in BOOLEAN
        /\ Recorded'
    <3>1. CASE Sweeps(probe, "run") \/ Sweeps(probe, "check")
      BY <2>1, <2>2, <3>1, Swept
    <3>2. CASE UNCHANGED <<workspace, probe, claims>> /\ OwnedBy("run")
      BY <2>1, <2>2, <3>2 DEF IInv, TypeOK, Recorded, OwnedBy
    <3> QED
      BY <1>4, <3>1, <3>2 DEF CloseRun, CleanupRetry
  <2>4. TypeOK'
    BY <2>1, <2>3 DEF IInv, TypeOK, outside, machine, runtime, bounds
  <2>5. Served'
    BY <2>1 DEF IInv, Served, runtime
  <2> QED
    BY <2>1, <2>3, <2>4, <2>5 DEF IInv, Found, Bound
<1> QED
  BY <1>1, <1>2, <1>3, <1>4

\* What is bound to an operation at the last look is what its check found.
LEMMA Agreement ==
    ASSUME IInv, At("attest")
    PROVE  /\ UnderWay /\ op \in Operations /\ op.kind = "run" /\ evidence # <<>>
           /\ Identity(op) = Identity(evidence[Len(evidence)])
           /\ Identity(op) \in Identities
           /\ active = None /\ serving = [n \in Nodes |-> None]
<1>1. /\ UnderWay /\ op \in Operations /\ op.kind = "run" /\ evidence # <<>>
      /\ op.step \in 1..Len(Path(op)) /\ Path(op)[op.step] = "attest"
      /\ op.check = evidence[Len(evidence)] /\ op.check \in Evidences
  <2>1. /\ UnderWay /\ op \in Operations
        /\ op.step \in 1..Len(Path(op)) /\ Path(op)[op.step] = "attest"
    BY DEF At, Step, UnderWay, IInv, TypeOK
  <2>2. op.kind = "run"
    BY <2>1, CheckPath DEF Operations
  <2> QED
    BY <2>1, <2>2 DEF IInv, Bound, TypeOK
<1>2. PICK k, l \in 1..Len(Path(op)) : Path(op)[k] = "match" /\ Path(op)[l] = "images"
  BY <1>1, RunPath
<1>3. k \in 1..(op.step - 1) /\ l \in 1..(op.step - 1)
  BY <1>1, <1>2, RunPath
<1>4. op.source = op.check.source /\ op.image = op.check.image
  BY <1>1, <1>2, <1>3 DEF IInv, Bound
<1>5. Identity(op) \in Identities
  BY <1>1, <1>4 DEF Identity, Identities, Evidences
<1>6. active = None /\ serving = [n \in Nodes |-> None]
  BY <1>1 DEF IInv, Served, Switched, At
<1> QED
  BY <1>1, <1>4, <1>5, <1>6 DEF Identity

\* From the last look to what serves, and the end of that.
LEMMA Launching ==
    ASSUME IInv,
           \/ AttestNodes \/ Activate \/ Stop \/ BootFails
           \/ \E n \in Nodes : Launch(n) \/ RestartAfterBoot(n)
    PROVE  IInv'
<1>1. CASE AttestNodes
  <2>1. /\ UnderWay /\ op \in Operations /\ op.result = None /\ Advance(op)
        /\ Step = "attest" /\ Identity(op) \in Identities /\ active = None
        /\ UNCHANGED <<outside, machine, evidence, leavings, active, booting, serving, bounds>>
    BY <1>1, Agreement DEF AttestNodes, At, UnderWay
  <2>2. /\ op' \in Operations /\ UnderWay' /\ op' # None /\ op' = [op EXCEPT !.step = op'.step]
        /\ op'.step \in 1..Len(Path(op)) /\ Path(op)' = Path(op)
        /\ ~Switched /\ Switched' /\ ~At("workspace")'
        /\ ~At("claim-probe")' /\ ~At("claim-probe") /\ ~At("answer")
    BY <2>1, Forward DEF IInv, outside, Switched, At, UnderWay
  <2>3. TypeOK'
    BY <1>1, <2>1, <2>2 DEF AttestNodes, IInv, TypeOK, outside, machine, leavings, bounds
  <2>4. Found' /\ Bound'
    <3>1. ~At(Finder) /\ ~At("match") /\ ~At("images")
      BY <2>1 DEF At, Finder
    <3> QED
      BY <2>1, <3>1, Kept DEF IInv, outside
  <2>5. Served'
    <3>1. Identity(op') = Identity(op)
      BY <2>1, <2>2 DEF Identity, Operations
    <3> QED
      BY <1>1, <2>1, <2>2, <3>1, NoneAssumption DEF AttestNodes, IInv, Served
  <2>6. Recorded'
    <3>1. op'.kind = op.kind /\ op # None
      BY <2>1, <2>2 DEF Operations, UnderWay
    <3> QED
      BY <2>1, <2>2, <3>1 DEF IInv, Recorded, leavings
  <2> QED
    BY <2>3, <2>4, <2>5, <2>6 DEF IInv
<1>2. CASE \E n \in Nodes : Launch(n)
  <2>1. PICK n \in Nodes : Launch(n)
    BY <1>2
  <2>2. /\ Switched /\ UnderWay /\ active = None
        /\ UNCHANGED <<outside, machine, op, evidence, leavings, active, booting, attested, bounds>>
    BY <2>1 DEF Launch, Switched, At, Step, IInv, Served
  <2>3. attested = Identity(op) /\ attested \in Identities
    BY <2>2 DEF IInv, Served, TypeOK
  <2>4. Path(op)' = Path(op) /\ UnderWay' = UnderWay /\ Step' = Step /\ Finder' = Finder
    BY <2>2 DEF Path, Managed, Builds, UnderWay, Step, outside, Finder
  <2>5. serving' \in [Nodes -> Identities \cup {None}]
    BY <2>1, <2>3 DEF Launch, IInv, TypeOK
  <2>6. TypeOK'
    BY <2>2, <2>4, <2>5 DEF IInv, TypeOK, outside, machine, leavings, bounds
  <2> QED
    BY <2>2, <2>4, <2>6 DEF IInv, Found, Bound, Served, Recorded, Switched, At, leavings, bounds
<1>3. CASE Activate
  <2>1. /\ Switched /\ UnderWay /\ op \in Operations
        /\ UNCHANGED <<outside, machine, evidence, leavings, booting, attested, serving, bounds>>
        /\ attested = Identity(op) /\ attested # None
    BY <1>3 DEF Activate, Switched, At, Step, UnderWay, IInv, Served, TypeOK
  <2>2. /\ op' \in Operations /\ op' # None /\ op'.result # None /\ op'.kind = op.kind
    BY <1>3, <2>1, NoneAssumption DEF Activate, Ends, Operations
  <2>3. op.kind = "run"
    BY <2>1, CheckPath DEF Switched, At, Step, IInv, TypeOK, Operations
  <2>4. /\ ~UnderWay' /\ ~Switched' /\ ~At("workspace")'
        /\ ~At("claim-probe")' /\ ~At("answer")'
        /\ ~At("claim-probe") /\ ~At("answer") /\ op # None
    BY <2>1, <2>2 DEF UnderWay, Switched, At, Step
  <2>5. active' = attested /\ active' \in Identities
    BY <1>3, <2>1 DEF Activate, IInv, TypeOK
  <2>6. TypeOK'
    BY <2>1, <2>2, <2>4, <2>5 DEF IInv, TypeOK, outside, machine, leavings, bounds
  <2>7. Served'
    BY <2>1, <2>2, <2>3, <2>4, <2>5, NoneAssumption DEF IInv, Served
  <2>8. Recorded'
    BY <2>1, <2>2, <2>4 DEF IInv, Recorded, leavings
  <2> QED
    BY <2>4, <2>6, <2>7, <2>8 DEF IInv, Found, Bound
<1>4. CASE Stop \/ BootFails
  <2>1. /\ active # None /\ ~UnderWay
        /\ UNCHANGED <<outside, machine, op, evidence, slipped, bounds>>
        /\ active' = None /\ booting' = FALSE
        /\ serving' = [n \in Nodes |-> None] /\ attested' = None
        /\ Sweeps(probe, "run")
        /\ op # None => op.kind = "run"
    BY <1>4 DEF Stop, BootFails, IInv, Served
  <2>2. ~UnderWay' /\ Step' = Step /\ Step = "none" /\ ~Switched'
    BY <2>1 DEF UnderWay, Step, Switched, At
  <2>3. /\ claims' \subseteq {"workspace", "probe"}
        /\ owner' \in {None, "check", "passed", "run"}
        /\ workspace' \in BOOLEAN /\ probe' \in BOOLEAN
        /\ Recorded'
    <3>1. "workspace" \in claims => slipped
      BY <2>1 DEF IInv, Recorded
    <3> QED
      BY <2>1, <3>1, Swept
  <2>4. TypeOK'
    BY <2>1, <2>2, <2>3 DEF IInv, TypeOK, outside, machine, bounds
  <2> QED
    BY <2>1, <2>2, <2>3, <2>4 DEF IInv, Found, Bound, Served
<1>5. CASE \E n \in Nodes : RestartAfterBoot(n)
  <2>1. PICK n \in Nodes : RestartAfterBoot(n)
    BY <1>5
  <2>2. /\ booting /\ active # None /\ ~UnderWay /\ active \in Identities
        /\ UNCHANGED <<outside, tag, model, op, evidence, leavings, active, attested, bounds>>
    BY <2>1 DEF RestartAfterBoot, IInv, Served, TypeOK
  <2>3. ~UnderWay' /\ Step' = Step /\ Step = "none"
    BY <2>2 DEF UnderWay, Step
  <2>4. BootImage \in Contents
    BY <2>1, <2>2 DEF RestartAfterBoot, CanBoot, BootImage, IInv, TypeOK, Identities
  <2>5. /\ images' \in [Nodes -> SUBSET Contents]
        /\ serving' \in [Nodes -> Identities \cup {None}] /\ booting' \in BOOLEAN
    BY <2>1, <2>2, <2>4 DEF RestartAfterBoot, IInv, TypeOK, Identities
  <2>6. TypeOK'
    BY <2>2, <2>3, <2>5 DEF IInv, TypeOK, outside, leavings, bounds
  <2> QED
    BY <2>2, <2>3, <2>6 DEF IInv, Found, Bound, Served, Recorded, Switched, At, leavings, bounds
<1> QED
  BY <1>1, <1>2, <1>3, <1>4, <1>5

\* The daemon starts again: an operation resumes, or what it left is settled.
LEMMA Restarting ==
    ASSUME IInv, Restart
    PROVE  IInv'
<1>1. /\ crashes' = crashes + 1 /\ crashes' > 0 /\ crashes' \in Nat
      /\ UNCHANGED <<recipe, upstream, registry, binding, workers, foreign, roomy, machine,
                     calls, changes, faults>>
      /\ platform' \in {0, 1} /\ slipped' = TRUE
  BY DEF Restart, IInv, TypeOK
<1>2. PICK reboot \in BOOLEAN : IF UnderWay THEN Resumes(reboot) ELSE Reconciles(reboot)
  BY DEF Restart
<1>3. CASE UnderWay
  <2> DEFINE there == probe /\ ~reboot
             o == [op EXCEPT !.step = 0, !.resumed = TRUE, !.found = None]
  <2>1. /\ Sweeps(there, op.kind)
        /\ op' = None \/ Advance(o)
        /\ serving' = [n \in Nodes |-> None] /\ attested' = None
        /\ UNCHANGED <<evidence, active, booting>>
    BY <1>2, <1>3 DEF Resumes
  <2>2. op \in Operations /\ op.result = None /\ active = None
    BY <1>3 DEF UnderWay, IInv, TypeOK, Served
  <2>3. /\ o \in Operations /\ o.result = None /\ o.step = 0 /\ o.kind = op.kind
        /\ o.check = op.check
    BY <2>2 DEF Operations
  <2>6. /\ claims' \subseteq {"workspace", "probe"}
        /\ owner' \in {None, "check", "passed", "run"}
        /\ workspace' \in BOOLEAN /\ probe' \in BOOLEAN
        /\ workspace' => "workspace" \in claims'
    <3>1. /\ TypeOK /\ Recorded /\ there \in BOOLEAN /\ (there => probe)
          /\ op.kind \in {"check", "run"} /\ claims \subseteq {"workspace", "probe"}
      BY <2>2 DEF IInv, TypeOK, Operations
    <3> HIDE DEF there
    <3> QED
      BY <2>1, <3>1, Sweeping
  <2> HIDE DEF o
  <2>4. CASE op' = None
    <3>1. /\ ~UnderWay' /\ ~Switched' /\ ~At("workspace")'
          /\ ~At("claim-probe")' /\ ~At("answer")'
      BY <2>4 DEF UnderWay, Switched, At, Step
    <3>2. TypeOK'
      BY <1>1, <2>1, <2>6, <2>4, <3>1 DEF IInv, TypeOK, machine
    <3>3. Served'
      BY <2>1, <2>2, <2>4, <3>1 DEF IInv, Served
    <3>4. Recorded'
      BY <1>1, <2>6, <3>1 DEF Recorded
    <3> QED
      BY <3>1, <3>2, <3>3, <3>4 DEF IInv, Found, Bound
  <2>5. CASE Advance(o)
    <3>1. /\ op' \in Operations /\ UnderWay' /\ op' # None /\ Path(op)' = Path(o)
          /\ op' = [o EXCEPT !.step = op'.step]
          /\ op'.step \in 1..Len(Path(o)) /\ Step' = Path(o)[op'.step]
          /\ \A k \in 1..(op'.step - 1) : ~Applies(o.kind, Path(o)[k])
      BY <1>1, <2>3, <2>5, Onward DEF UnderWay
    <3>2. op'.kind = op.kind /\ op'.check = op.check
      BY <2>3, <3>1 DEF Operations
    <3>3. ~Switched' /\ ~At("workspace")' /\ ~At("claim-probe")' /\ ~At("answer")'
      <4>1. \A s \in {"attest", "claim", "probe", "claim-probe"} : Applies(o.kind, s)
        BY DEF Applies
      <4>2. op'.step > 1 => op'.step - 1 \in 1..(op'.step - 1)
        BY <2>3, <3>1, PathPairs
      <4> QED
        BY <2>3, <3>1, <4>1, <4>2, PathPairs DEF Switched, At
    <3>4. TypeOK'
      BY <1>1, <2>1, <2>6, <3>1 DEF IInv, TypeOK, machine
    <3>5. Found' /\ Bound'
      <4>1. Applies(o.kind, Finder) /\ Applies(o.kind, "match") /\ Applies(o.kind, "images")
        BY DEF Applies, Finder
      <4>2. Finder' = Finder
        BY <1>1 DEF Finder, Builds
      <4> QED
        BY <1>3, <2>1, <2>3, <3>1, <3>2, <4>1, <4>2 DEF IInv, Found, Bound
    <3>6. Served'
      BY <2>1, <2>2, <3>1, <3>3 DEF IInv, Served
    <3>7. Recorded'
      BY <1>1, <2>6, <3>3 DEF Recorded
    <3> QED
      BY <3>4, <3>5, <3>6, <3>7 DEF IInv
  <2> QED
    BY <2>1, <2>4, <2>5
<1>4. CASE ~UnderWay
  <2> DEFINE there == probe /\ ~reboot
             whose == IF op # None THEN Owner(op) ELSE owner
  <2>1. /\ op' = None
        /\ \/ Sweeps(there, IF whose = "run" THEN "run" ELSE "check")
           \/ probe' = there /\ UNCHANGED <<workspace, claims>> /\ OwnedBy(whose)
        /\ evidence' \in {evidence, SubSeq(evidence, 1, Len(evidence) - 1)}
        /\ \/ /\ serving' = [n \in Nodes |-> None]
              /\ booting' = (active # None)
           \/ UNCHANGED <<serving, booting>>
        /\ UNCHANGED <<active, attested>>
    BY <1>2, <1>4 DEF Reconciles
  <2>8. /\ claims' \subseteq {"workspace", "probe"}
        /\ owner' \in {None, "check", "passed", "run"}
        /\ workspace' \in BOOLEAN /\ probe' \in BOOLEAN
        /\ workspace' => "workspace" \in claims'
    <3>1. /\ TypeOK /\ Recorded /\ there \in BOOLEAN /\ (there => probe)
          /\ claims \subseteq {"workspace", "probe"}
          /\ whose \in {None, "check", "passed", "run"}
      BY DEF IInv, TypeOK, Operations, Owner
    <3>2. CASE Sweeps(there, IF whose = "run" THEN "run" ELSE "check")
      <4> DEFINE w == IF whose = "run" THEN "run" ELSE "check"
      <4>1. w \in {"check", "run"} /\ Sweeps(there, w)
        BY <3>2
      <4> HIDE DEF w, there
      <4> QED
        BY <3>1, <4>1, Sweeping
    <3>3. CASE probe' = there /\ UNCHANGED <<workspace, claims>> /\ OwnedBy(whose)
      BY <3>1, <3>3 DEF OwnedBy, TypeOK, Recorded
    <3> QED
      BY <2>1, <3>2, <3>3
  <2> HIDE DEF there, whose
  <2>2. /\ ~UnderWay' /\ ~Switched' /\ ~At("workspace")'
        /\ ~At("claim-probe")' /\ ~At("answer")'
        /\ ~Switched /\ ~At("claim-probe") /\ ~At("answer")
    BY <1>4, <2>1 DEF UnderWay, Switched, At, Step
  <2>3. evidence' \in Seq(Evidences)
    <3>1. evidence \in Seq(Evidences)
      BY DEF IInv, TypeOK
    <3>2. CASE evidence = <<>>
      <4>1. SubSeq(evidence, 1, Len(evidence) - 1) = <<>>
        BY <3>2
      <4> QED
        BY <2>1, <3>1, <3>2, <4>1
    <3>3. CASE evidence # <<>>
      <4>1. Len(evidence) - 1 \in 0..Len(evidence) /\ 1 \in 1..(Len(evidence) + 1)
        BY <3>1, <3>3
      <4>2. SubSeq(evidence, 1, Len(evidence) - 1) \in Seq(Evidences)
        BY <3>1, <4>1, SubSeqProperties
      <4> QED
        BY <2>1, <3>1, <4>2
    <3> QED
      BY <3>2, <3>3
  <2>4. /\ serving' \in [Nodes -> Identities \cup {None}] /\ booting' \in BOOLEAN
    BY <2>1 DEF IInv, TypeOK
  <2>5. TypeOK'
    BY <1>1, <2>1, <2>2, <2>3, <2>4, <2>8 DEF IInv, TypeOK, machine
  <2>6. Served'
    <3>1. UNCHANGED <<active, attested>> /\ Served
      BY <2>1 DEF IInv
    <3>2. CASE UNCHANGED <<serving, booting>>
      BY <2>1, <2>2, <3>1, <3>2 DEF Served
    <3>3. CASE serving' = [n \in Nodes |-> None] /\ booting' = (active # None)
      <4>1. booting' => active' # None
        BY <3>1, <3>3
      <4> QED
        BY <2>1, <2>2, <3>1, <3>3, <4>1, Zenon DEF Served
    <3> QED
      BY <2>1, <3>2, <3>3
  <2>7. Recorded'
    BY <1>1, <2>2, <2>8 DEF Recorded
  <2> QED
    BY <2>2, <2>5, <2>6, <2>7 DEF IInv, Found, Bound
<1> QED
  BY <1>3, <1>4

\* The world around the operations moves.
LEMMA Moving ==
    ASSUME IInv, World
    PROVE  IInv'
<1>1. /\ UNCHANGED <<recipe, op, evidence, leavings, runtime, calls, faults, crashes>>
      /\ changes' = changes + 1
  BY DEF World, Changes, MoveSource, MoveTag, ChangeCluster, Listen, UseDisk, RemoveImage,
         DamageModel, outside
<1>2. /\ upstream' \in Contents /\ registry' \in Contents /\ tag' \in Contents \cup {None}
      /\ images' \in [Nodes -> SUBSET Contents]
      /\ binding' \in Nat /\ platform' \in {0, 1} /\ model' \in {"whole", "damaged"}
  <2>1. CASE RemoveImage
    BY <2>1 DEF RemoveImage, IInv, TypeOK, outside
  <2>2. CASE MoveSource \/ MoveTag \/ ChangeCluster \/ Listen \/ UseDisk
    BY <2>2 DEF MoveSource, MoveTag, ChangeCluster, Listen, UseDisk, IInv, TypeOK, machine
  <2>3. CASE DamageModel
    BY <2>3 DEF DamageModel, IInv, TypeOK, outside
  <2> QED
    BY <2>1, <2>2, <2>3 DEF World
<1>3. Path(op)' = Path(op) /\ UnderWay' = UnderWay /\ Step' = Step /\ Finder' = Finder
  BY <1>1 DEF Path, Managed, Builds, UnderWay, Step, Finder
<1>4. TypeOK'
  BY <1>1, <1>2, <1>3 DEF IInv, TypeOK, leavings, runtime
<1> QED
  BY <1>1, <1>3, <1>4
     DEF IInv, Found, Bound, Served, Recorded, Switched, At, leavings, runtime

\* Every step of an operation, of the world, and every kill keeps the invariant.
LEMMA Inductive == IInv /\ [Next]_vars => IInv'
<1>1. ASSUME IInv, Next
      PROVE  IInv'
  BY <1>1, Beginning, Looking, Preparing, Leaving, Concluding, Launching, Restarting, Moving
     DEF Next
<1>2. ASSUME IInv, UNCHANGED vars
      PROVE  IInv'
  <2>1. Path(op)' = Path(op) /\ UnderWay' = UnderWay /\ Step' = Step /\ Finder' = Finder
    BY <1>2 DEF Path, Managed, Builds, UnderWay, Step, vars, Finder
  <2> QED
    BY <1>2, <2>1 DEF IInv, TypeOK, Found, Bound, Served, Recorded, Switched, At, vars
<1> QED
  BY <1>1, <1>2

\* The invariant holds of every reachable state: types, and what an operation
\* found, was bound to, serves and has on record.
THEOREM Invariance == Spec => []IInv
BY InitInv, Inductive, PTL DEF Spec

-----------------------------------------------------------------------------
(* The theorems *)

\* Every value is of its type.
THEOREM TypeCorrect == Spec => []TypeOK
<1>1. IInv => TypeOK
  BY DEF IInv
<1> QED
  BY <1>1, Invariance, PTL

\* A workspace is on record as long as it exists, whatever fails and whenever
\* the daemon is killed; a probe is off record only where its start was cut off,
\* its end failed or the daemon was killed; and what is left of an operation
\* that is over was left by one of these.
THEOREM LeavesNothingBehind == Spec => []NothingIsLeftBehind
<1>1. IInv => NothingIsLeftBehind
  <2> SUFFICES ASSUME IInv
               PROVE  NothingIsLeftBehind
    OBVIOUS
  <2>1. Recorded /\ claims \subseteq {"workspace", "probe"}
    BY DEF IInv, TypeOK
  <2>2. op = None => ~At("claim-probe") /\ ~At("answer")
    BY DEF At, Step, UnderWay
  <2>3. op = None /\ "workspace" \in claims => slipped
    BY <2>1 DEF Recorded
  <2>4. op = None /\ "probe" \in claims => slipped
    BY <2>1, <2>2 DEF Recorded
  <2> QED
    BY <2>1, <2>2, <2>3, <2>4 DEF Recorded, NothingIsLeftBehind
<1> QED
  BY <1>1, Invariance, PTL

\* What serves is withdrawn from every Spark at once.
LEMMA Withdrawing ==
    ASSUME IInv, UNCHANGED evidence, serving' = [n \in Nodes |-> None],
           attested' \in {attested, None}
    PROVE  Checked!Withdraw
<1>1. serving' = [n \in Nodes |-> IF n \in Nodes THEN None ELSE serving[n]]
  OBVIOUS
<1> QED
  BY <1>1 DEF Checked!Withdraw

\* A passing check, or the loss of its verdict, touches nothing that serves.
LEMMA Checking ==
    ASSUME TypeOK', UNCHANGED <<attested, serving>>
    PROVE  Checked!Check
<1>1. evidence' # <<>> => evidence'[Len(evidence')] \in Evidences
  BY DEF TypeOK
<1>2. evidence' # <<>> => Identity(evidence'[Len(evidence')]) \in Identities
  BY <1>1 DEF Identity, Identities, Evidences
<1> QED
  BY <1>2 DEF Checked!Check

\* Every Spark serves the commit and the content that the newest check found
\* and that was attested before the launch, the same on all of them, through
\* failures, kills and boots, for any number of contents and operations.  The
\* one exception is left out: a recipe of scripts that a boot restores though
\* the name of its image moved.
THEOREM ChecksImplementLaunches ==
    ASSUME MovedTags = FALSE
    PROVE  Spec => LaunchesWhatWasChecked
<1>1. Init => Checked!Init
  BY DEF Init, Checked!Init
<1>2. ASSUME IInv, [Next]_vars, IInv'
      PROVE  [Checked!Next]_(Checked!vars)
  <2>1. CASE UNCHANGED <<evidence, attested, serving>>
    BY <2>1 DEF Checked!vars
  <2>2. CASE BindPreflight
    BY <1>2, <2>2, Checking DEF BindPreflight, runtime, IInv, Checked!Next
  <2>3. CASE Fails
    <3>1. CASE Switched
      BY <1>2, <2>3, <3>1, Withdrawing DEF Fails, Checked!Next
    <3>2. CASE ~Switched
      BY <2>1, <2>3, <3>2 DEF Fails
    <3> QED
      BY <3>1, <3>2
  <2>4. CASE AttestNodes
    <3>1. /\ evidence # <<>> /\ Identity(op) = Identity(evidence[Len(evidence)])
          /\ Identity(op) \in Identities
          /\ serving = [n \in Nodes |-> None]
          /\ attested' = Identity(op) /\ UNCHANGED <<evidence, serving>>
      BY <1>2, <2>4, Agreement DEF AttestNodes
    <3>2. Checked!Idle
      BY <3>1 DEF Checked!Idle
    <3> QED
      BY <3>1, <3>2, NoneAssumption DEF Checked!Attest, Checked!Next
  <2>5. CASE \E n \in Nodes : Launch(n)
    <3>1. PICK n \in Nodes : Launch(n)
      BY <2>5
    <3>2. attested = Identity(op) /\ attested # None
      BY <1>2, <3>1 DEF Launch, IInv, Served
    <3>3. Checked!Launch(n)
      BY <3>1, <3>2 DEF Launch, Checked!Launch
    <3> QED
      BY <3>3 DEF Checked!Next
  <2>6. CASE \E n \in Nodes : RestartAfterBoot(n)
    <3>1. PICK n \in Nodes : RestartAfterBoot(n)
      BY <2>6
    <3>2. /\ active # None /\ attested = active /\ active \in Identities
          /\ BootImage = active.image /\ serving[n] = None
          /\ serving' = [serving EXCEPT ![n] = [active EXCEPT !.image = BootImage]]
          /\ UNCHANGED <<evidence, attested>>
      BY <1>2, <3>1 DEF RestartAfterBoot, IInv, TypeOK, Served
    <3>3. [active EXCEPT !.image = BootImage] = attested
      BY <3>2 DEF Identities
    <3>4. Checked!Launch(n)
      BY <3>2, <3>3 DEF Checked!Launch
    <3> QED
      BY <3>4 DEF Checked!Next
  <2>7. CASE Stop \/ BootFails
    BY <1>2, <2>7, Withdrawing DEF Stop, BootFails, Checked!Next
  <2>8. CASE Restart
    <3>1. PICK reboot \in BOOLEAN : IF UnderWay THEN Resumes(reboot) ELSE Reconciles(reboot)
      BY <2>8 DEF Restart
    <3>2. CASE UnderWay
      BY <1>2, <3>1, <3>2, Withdrawing DEF Resumes, Checked!Next
    <3>3. CASE ~UnderWay /\ active = None
      <4>1. serving = [n \in Nodes |-> None] /\ UNCHANGED attested
        BY <1>2, <3>1, <3>3 DEF Reconciles, IInv, Served, Switched, At, Step
      <4>2. serving' = serving
        BY <3>1, <3>3, <4>1, Zenon DEF Reconciles
      <4> QED
        BY <1>2, <4>1, <4>2, Checking DEF IInv, Checked!Next
    <3>4. CASE ~UnderWay /\ active # None
      <4>1. UNCHANGED <<evidence, attested>>
        BY <3>1, <3>4 DEF Reconciles
      <4>2. CASE reboot
        <5>1. serving' = [n \in Nodes |-> None]
          BY <3>1, <3>4, <4>2 DEF Reconciles
        <5> QED
          BY <1>2, <4>1, <5>1, Withdrawing DEF Checked!Next
      <4>3. CASE ~reboot
        BY <2>1, <3>1, <3>4, <4>1, <4>3 DEF Reconciles
      <4> QED
        BY <4>2, <4>3
    <3> QED
      BY <3>2, <3>3, <3>4
  <2>9. CASE BeginCheck \/ BeginRun
    BY <2>1, <2>9 DEF BeginCheck, BeginRun, Begin, runtime
  <2>10. CASE \/ Observe \/ ReadCluster \/ Inspect
              \/ ClaimWorkspace \/ CreateWorkspace \/ FetchSource
              \/ BuildForCheck \/ Reuse \/ BuildForRun
              \/ PrepareImage \/ PinImage \/ SendImage \/ PrepareModel
              \/ StartProbe \/ ClaimProbe \/ EndProbe
              \/ ProbeStays \/ CleanUp \/ WorkspaceStays \/ CloseRun \/ CleanupRetry
              \/ Activate \/ World
    BY <2>1, <2>10
       DEF Observe, ReadCluster, Inspect, ClaimWorkspace, CreateWorkspace, FetchSource,
           BuildForCheck, Reuse, BuildForRun, PrepareImage, PinImage, SendImage,
           PrepareModel, StartProbe, ClaimProbe, EndProbe, ProbeStays, CleanUp,
           WorkspaceStays, CloseRun, CleanupRetry, Activate, World, runtime
  <2>11. CASE UNCHANGED vars
    BY <2>1, <2>11 DEF vars
  <2> QED
    BY <1>2, <2>2, <2>3, <2>4, <2>5, <2>6, <2>7, <2>8, <2>9, <2>10, <2>11 DEF Next
<1> QED
  BY <1>1, <1>2, Invariance, PTL DEF Spec, LaunchesWhatWasChecked, Checked!Spec

-----------------------------------------------------------------------------
(* An unchanged machine: what a step achieved is still so at the end *)

Newest == evidence[Len(evidence)]

\* Nothing has changed and nothing has failed since.
Calm(began) == began = Disturbances

\* The steps an operation has taken.
Behind == {Path(op)[k] : k \in {i \in 1..(op.step - 1) : Applies(op.kind, Path(op)[i])}}

\* The step that binds an operation to its image.
Binder == IF op.kind = "check" THEN "image" ELSE IF Builds THEN "build" ELSE "pin"

\* What is true after a step, and stays true on an unchanged machine.
Effect(s) ==
    /\ s = "topology" => op.seen = binding
    /\ s = "source" /\ recipe.sourced => op.source = upstream
    /\ s = "inspect" => op.found = IF Managed THEN Pinned ELSE registry
    /\ s = "build" /\ op.kind = "check" => op.found = tag
    /\ s = "image" => op.image = op.found /\ op.found \in images[HeadNode]
    /\ s = Binder /\ op.kind = "run" =>
            op.image = op.check.image /\ op.image \in images[HeadNode]
    /\ s = "send" => op.image \in images[PeerNode]
    /\ s = "model" => model = "whole"
    /\ s = "capacity" => roomy
    /\ s = "accelerators" => recipe.nodes = 1 \/ workers = recipe.nodes - 1
    /\ s = "ports" => ~foreign
    /\ s = "answer" => ~probe

\* An operation began after the newest check, and nothing begins in the future.
Ordered ==
    /\ \A k \in 1..Len(evidence) : evidence[k].began <= Disturbances
    /\ op # None => op.began <= Disturbances /\ (evidence # <<>> => Newest.began <= op.began)

Tagged == tag # None => tag \in images[HeadNode]

\* No operation is at a step that it should have left out.
Fitting == UnderWay => Applies(op.kind, Step)

Learnt ==
    UnderWay /\ Calm(op.began) =>
        /\ ~op.resumed
        /\ op.source \in {None, upstream} /\ (op.source # None => recipe.sourced /\ ~Managed)
        /\ op.image # None => Binder \in Behind
        /\ \A s \in Behind : Effect(s)

\* Everything that the newest check established.
Reliable ==
    evidence # <<>> /\ Calm(Newest.began) =>
        /\ roomy /\ ~foreign /\ (recipe.nodes = 1 \/ workers = recipe.nodes - 1)
        /\ Newest.content = ModelBytes /\ Newest.platform = PlatformFingerprint(ModelBytes)
        /\ Newest.cluster = ClusterFingerprint(binding)
        /\ Newest.source = IF recipe.sourced /\ ~Managed THEN upstream ELSE None
        /\ ~Managed /\ probe => At("claim-probe") \/ At("answer")
        /\ ~Managed => \A n \in Members : Newest.image \in images[n]
        /\ Builds /\ ~(UnderWay /\ op.kind = "check") => tag = Newest.image
        /\ op # None /\ op.result = "failed" => op.kind = "run" /\ ~Managed /\ ~recipe.sourced

CInv == Ordered /\ Tagged /\ Fitting /\ Learnt /\ Reliable

\* What lies behind a check of scripts.
LEMMA ScriptCheckOrder ==
    ASSUME UnderWay, op.step \in 1..Len(Path(op)), Path(op) = ScriptCheck, op.kind = "check"
    PROVE  /\ Step \notin {"topology", "claim", "workspace", "source", "inspect", "build"} =>
                {"topology", "source", Finder} \subseteq Behind
           /\ Step \in {"inspect", "build"} => Behind \cap {"image", "send"} = {}
           /\ Step = "image" => Behind \cap {"image", "send"} = {}
           /\ Step \in {"send", "fabric", "probe", "bind"} => "image" \in Behind
           /\ Step \in {"fabric", "probe", "bind"} => (recipe.nodes = 2 => "send" \in Behind)
           /\ Step = "probe" => "answer" \notin Behind
           /\ Step = "bind" => {"capacity", "accelerators", "ports", "answer"} \subseteq Behind
           /\ Step \notin {"pin", "model", "match", "images", "verify", "attest", "launch"}
<1>1. Len(Path(op)) = 17 /\ op.step \in 1..17 /\ Step = ScriptCheck[op.step]
  BY DEF ScriptCheck, Step
<1>2. /\ Step \in {"inspect", "build"} => op.step < 7
      /\ Step = "image" => op.step = 8
      /\ Step = "probe" => op.step = 14
      /\ Step \in {"fabric", "probe", "bind"} => op.step > 12
      /\ Step \in {"send", "fabric", "probe", "bind"} => op.step > 8
      /\ Step = "bind" => op.step = 17
      /\ Step \notin {"topology", "claim", "workspace", "source", "inspect", "build"} => op.step > 6
      /\ Step \notin {"pin", "model", "match", "images", "verify", "attest", "launch"}
  BY <1>1 DEF ScriptCheck
<1>3. \A k \in 1..17 :
        /\ ScriptCheck[k] = "image" => k = 8
        /\ ScriptCheck[k] = "send" => k = 9
        /\ ScriptCheck[k] = "answer" => k = 16
  BY DEF ScriptCheck
<1>4. /\ ScriptCheck[1] = "topology" /\ ScriptCheck[4] = "source"
      /\ ScriptCheck[5] = "inspect" /\ ScriptCheck[6] = "build"
      /\ ScriptCheck[8] = "image" /\ ScriptCheck[9] = "send" /\ ScriptCheck[10] = "capacity"
      /\ ScriptCheck[11] = "accelerators" /\ ScriptCheck[12] = "ports"
      /\ ScriptCheck[16] = "answer"
  BY DEF ScriptCheck
<1> HIDE DEF ScriptCheck
<1>5. ASSUME NEW k \in 1..17, k < op.step, Applies(op.kind, ScriptCheck[k])
      PROVE  ScriptCheck[k] \in Behind
  BY <1>1, <1>5 DEF Behind
<1>6. ASSUME NEW s \in Behind
      PROVE  \E k \in 1..17 : k < op.step /\ ScriptCheck[k] = s
  BY <1>1 DEF Behind
<1>7. /\ \A s \in {"topology", "source", "image", "capacity", "accelerators", "ports", "answer",
                   Finder} : Applies(op.kind, s)
      /\ recipe.nodes = 2 => Applies(op.kind, "send")
  BY DEF Applies, Finder
<1> QED
  BY <1>1, <1>2, <1>3, <1>4, <1>5, <1>6, <1>7 DEF Finder

\* What lies behind a check of a container recipe.
LEMMA ManagedCheckOrder ==
    ASSUME UnderWay, op.step \in 1..Len(Path(op)), Path(op) = ManagedCheck, op.kind = "check", ~Builds
    PROVE  /\ Step # "topology" => "topology" \in Behind
           /\ Behind \subseteq {"topology", "inspect", "capacity", "accelerators", "ports"}
           /\ Step = "bind" => {"inspect", "capacity", "accelerators", "ports"} \subseteq Behind
           /\ Step \in {"topology", "inspect", "capacity", "accelerators", "ports", "bind"}
<1>1. Len(Path(op)) = 6 /\ op.step \in 1..6 /\ Step = ManagedCheck[op.step]
  BY DEF ManagedCheck, Step
<1>2. /\ ManagedCheck[1] = "topology" /\ ManagedCheck[2] = "inspect"
      /\ ManagedCheck[3] = "capacity" /\ ManagedCheck[4] = "accelerators"
      /\ ManagedCheck[5] = "ports" /\ ManagedCheck[6] = "bind"
  BY DEF ManagedCheck
<1> HIDE DEF ManagedCheck
<1>3. ASSUME NEW k \in 1..6, k < op.step, Applies(op.kind, ManagedCheck[k])
      PROVE  ManagedCheck[k] \in Behind
  BY <1>1, <1>3 DEF Behind
<1>4. ASSUME NEW s \in Behind
      PROVE  \E k \in 1..6 : k < op.step /\ ManagedCheck[k] = s
  BY <1>1 DEF Behind
<1>5. \A s \in {"topology", "inspect", "capacity", "accelerators", "ports"} : Applies(op.kind, s)
  BY DEF Applies
<1> QED
  BY <1>1, <1>2, <1>3, <1>4, <1>5

\* What lies behind a run of scripts.
LEMMA ScriptRunOrder ==
    ASSUME UnderWay, op.step \in 1..Len(Path(op)), Path(op) = ScriptRun, op.kind = "run"
    PROVE  /\ Step \notin {"pin", "topology"} => "topology" \in Behind
           /\ Step \notin {"pin", "topology", "source"} => "source" \in Behind
           /\ Step \notin {"pin", "topology", "source", "build"} => Binder \in Behind
           /\ Step = Binder => Behind \cap {Binder, "send"} = {}
           /\ Step \notin {"pin", "topology", "source", "build", "send"} =>
                (recipe.nodes = 2 /\ recipe.adapter # "registry" => "send" \in Behind)
           /\ Step = "verify" => "model" \in Behind
           /\ Step = "probe" => "answer" \notin Behind
           /\ Step \notin {"peers", "image", "accelerators", "capacity", "inspect", "bind"}
           /\ Behind \cap {"peers", "image", "accelerators", "capacity", "inspect"} = {}
<1>1. Len(Path(op)) = 16 /\ op.step \in 1..16 /\ Step = ScriptRun[op.step]
  BY DEF ScriptRun, Step
<1>2. /\ Step \notin {"pin", "topology"} => op.step > 2
      /\ Step \notin {"pin", "topology", "source"} => op.step > 3
      /\ Step \notin {"pin", "topology", "source", "build"} => op.step > 4
      /\ Step \notin {"pin", "topology", "source", "build", "send"} => op.step > 5
      /\ Step = "pin" => op.step = 1
      /\ Step = "build" => op.step = 4
      /\ Step = "verify" => op.step = 14
      /\ Step = "probe" => op.step = 11
      /\ Step \notin {"peers", "image", "accelerators", "capacity", "inspect", "bind"}
  BY <1>1 DEF ScriptRun
<1>3. \A k \in 1..16 :
        /\ ScriptRun[k] = "pin" => k = 1
        /\ ScriptRun[k] = "build" => k = 4
        /\ ScriptRun[k] = "send" => k = 5
        /\ ScriptRun[k] = "answer" => k = 13
        /\ ScriptRun[k] \notin {"peers", "image", "accelerators", "capacity", "inspect"}
  BY DEF ScriptRun
<1>4. /\ ScriptRun[1] = "pin" /\ ScriptRun[2] = "topology" /\ ScriptRun[3] = "source"
      /\ ScriptRun[4] = "build" /\ ScriptRun[5] = "send" /\ ScriptRun[6] = "model"
  BY DEF ScriptRun
<1> HIDE DEF ScriptRun
<1>5. ASSUME NEW k \in 1..16, k < op.step, Applies(op.kind, ScriptRun[k])
      PROVE  ScriptRun[k] \in Behind
  BY <1>1, <1>5 DEF Behind
<1>6. ASSUME NEW s \in Behind
      PROVE  \E k \in 1..16 : k < op.step /\ ScriptRun[k] = s
  BY <1>1 DEF Behind
<1>7. /\ Binder \in {"build", "pin"} /\ Applies(op.kind, Binder)
      /\ \A s \in {"topology", "source", "model"} : Applies(op.kind, s)
      /\ recipe.nodes = 2 /\ recipe.adapter # "registry" => Applies(op.kind, "send")
  BY DEF Applies, Binder
<1> QED
  BY <1>1, <1>2, <1>3, <1>4, <1>5, <1>6, <1>7

\* What lies behind a run of a container recipe.
LEMMA ManagedRunOrder ==
    ASSUME UnderWay, op.step \in 1..Len(Path(op)), Path(op) = ManagedRun, op.kind = "run", ~Builds
    PROVE  /\ Step # "topology" => "topology" \in Behind
           /\ Step \notin {"topology", "pin"} => "pin" \in Behind
           /\ Step = "pin" => Behind \cap {"pin", "send"} = {}
           /\ "image" \notin Behind
           /\ Step \in {"topology", "pin", "send", "images", "match", "ports", "attest", "launch"}
<1>1. Len(Path(op)) = 8 /\ op.step \in 1..8 /\ Step = ManagedRun[op.step]
  BY DEF ManagedRun, Step
<1>2. /\ ManagedRun[1] = "topology" /\ ManagedRun[2] = "pin" /\ ManagedRun[3] = "send"
      /\ ManagedRun[4] = "images" /\ ManagedRun[5] = "match" /\ ManagedRun[6] = "ports"
      /\ ManagedRun[7] = "attest" /\ ManagedRun[8] = "launch"
  BY DEF ManagedRun
<1> HIDE DEF ManagedRun
<1>3. ASSUME NEW k \in 1..8, k < op.step, Applies(op.kind, ManagedRun[k])
      PROVE  ManagedRun[k] \in Behind
  BY <1>1, <1>3 DEF Behind
<1>4. ASSUME NEW s \in Behind
      PROVE  \E k \in 1..8 : k < op.step /\ ManagedRun[k] = s
  BY <1>1 DEF Behind
<1>5. Applies(op.kind, "topology") /\ Applies(op.kind, "pin")
  BY DEF Applies
<1> QED
  BY <1>1, <1>2, <1>3, <1>4, <1>5

\* Which path an operation takes that was never resumed.
LEMMA FreshPath ==
    ASSUME op \in Operations, ~op.resumed
    PROVE  /\ op.kind = "check" => Path(op) = IF Managed THEN ManagedCheck ELSE ScriptCheck
           /\ op.kind = "run" => Path(op) = IF Managed THEN ManagedRun ELSE ScriptRun
           /\ op.kind \in {"check", "run"} /\ (Managed => ~Builds)
BY DEF Path, Operations, Managed, Builds

\* On an unchanged machine a step that is taken lies behind.
LEMMA Taken ==
    ASSUME IInv, UnderWay, UNCHANGED recipe, Applies(op.kind, Step),
           NEW o \in Operations, Advance(o), o.result = None,
           o.kind = op.kind, o.step = op.step, o.resumed = op.resumed
    PROVE  /\ Behind' = Behind \cup {Step} /\ Applies(op.kind, Step)'
           /\ op' \in Operations /\ UnderWay' /\ op' # None
           /\ op' = [o EXCEPT !.step = op'.step] /\ Binder' = Binder
           /\ At("claim-probe")' <=> At("probe")
           /\ At("answer")' <=> At("claim-probe")
<1> DEFINE P == Path(op)
<1>1. /\ op' \in Operations /\ UnderWay' /\ Path(op)' = P
      /\ op' = [o EXCEPT !.step = op'.step] /\ op'.step \in 1..Len(P)
      /\ \A k \in 1..(op'.step - 1) :
           k \in 1..(op.step - 1) \/ k = op.step \/ ~Applies(op.kind, P[k])
      /\ At("claim-probe")' <=> At("probe")
      /\ At("answer")' <=> At("claim-probe")
  BY Forward DEF IInv
<1>2. op \in Operations /\ op.step \in 1..Len(P) /\ op.result = None /\ Path(o) = P
  BY DEF IInv, TypeOK, UnderWay, Path
<1>3. /\ op'.step \in (op.step + 1)..Len(P) /\ Step' = P[op'.step] /\ Applies(op.kind, P[op'.step])
      /\ Len(P) \in Nat /\ op.step \in Nat /\ op'.step \in Nat /\ Step = P[op.step]
  BY <1>2, Onward, PathPairs DEF Step
<1>4. op'.kind = op.kind
  BY <1>1 DEF Operations
<1>5. \A s : Applies(op.kind, s)' <=> Applies(op.kind, s)
  BY <1>4 DEF Applies, Builds
<1>6. Behind' = {P[k] : k \in {i \in 1..(op'.step - 1) : Applies(op.kind, P[i])}}
  BY <1>1, <1>4, <1>5 DEF Behind
<1>7. {i \in 1..(op'.step - 1) : Applies(op.kind, P[i])}
        = {i \in 1..(op.step - 1) : Applies(op.kind, P[i])} \cup {op.step}
  <2>1. ASSUME NEW i \in 1..(op'.step - 1), Applies(op.kind, P[i])
        PROVE  i \in 1..(op.step - 1) \/ i = op.step
    BY <1>1, <2>1
  <2>2. op.step \in 1..(op'.step - 1) /\ 1..(op.step - 1) \subseteq 1..(op'.step - 1)
    BY <1>2, <1>3
  <2>3. Applies(op.kind, P[op.step])
    BY <1>3
  <2> HIDE DEF P
  <2> QED
    BY <2>1, <2>2, <2>3
<1>8. Behind' = Behind \cup {Step}
  BY <1>3, <1>6, <1>7 DEF Behind
<1>9. Applies(op.kind, Step)'
  BY <1>3, <1>4 DEF Applies, Builds
<1>10. Binder' = Binder
  BY <1>4 DEF Binder, Builds
<1> QED
  BY <1>1, <1>8, <1>9, <1>10 DEF UnderWay

\* What is true after a step stays true while nothing it speaks of changes.
LEMMA EffectStays ==
    ASSUME UNCHANGED outside, NEW s, Effect(s), op'.kind = op.kind, op'.check = op.check,
           s = "topology" => op'.seen \in {op.seen, binding},
           s = "source" => op'.source \in {op.source, upstream},
           s \in {"inspect", "build", "image"} => op'.found = op.found,
           s = "build" /\ op.kind = "check" => tag' = tag,
           s \in {"image", "send", Binder} => op'.image = op.image,
           images[HeadNode] \subseteq images'[HeadNode],
           images[PeerNode] \subseteq images'[PeerNode],
           model' \in {model, "whole"}, s = "answer" => (probe' => probe)
    PROVE  Effect(s)'
<1>1. /\ Binder' = Binder /\ Managed' = Managed
      /\ UNCHANGED <<recipe, upstream, registry, binding, workers, foreign, roomy>>
  BY DEF Binder, Builds, Managed, outside
<1>2. Binder \in {"image", "pin", "build"}
  BY DEF Binder
<1>3. /\ (s = "topology" => op.seen = binding)'
      /\ (s = "source" /\ recipe.sourced => op.source = upstream)'
      /\ (s = "model" => model = "whole")'
      /\ (s = "capacity" => roomy)'
      /\ (s = "accelerators" => recipe.nodes = 1 \/ workers = recipe.nodes - 1)'
      /\ (s = "ports" => ~foreign)'
      /\ (s = "answer" => ~probe)'
  BY <1>1 DEF Effect
<1>4. /\ (s = "inspect" => op.found = IF Managed THEN Pinned ELSE registry)'
      /\ (s = "build" /\ op.kind = "check" => op.found = tag)'
      /\ (s = "image" => op.image = op.found /\ op.found \in images[HeadNode])'
  BY <1>1 DEF Effect, Pinned
<1>5. /\ (s = Binder /\ op.kind = "run" =>
              op.image = op.check.image /\ op.image \in images[HeadNode])'
      /\ (s = "send" => op.image \in images[PeerNode])'
  BY <1>1, <1>2 DEF Effect, HeadNode, PeerNode
<1> QED
  BY <1>3, <1>4, <1>5 DEF Effect

\* A step of an operation that leaves what was learnt standing.
LEMMA Progressing ==
    ASSUME IInv, CInv, UnderWay, UNCHANGED <<outside, evidence, bounds>>,
           NEW o \in Operations, Advance(o), o.result = None,
           o.kind = op.kind, o.step = op.step, o.resumed = op.resumed, o.check = op.check,
           o.began = op.began,
           \A n \in Nodes : images[n] \subseteq images'[n],
           tag' # None => tag' \in images'[HeadNode],
           probe' => Step = "probe" \/ (probe /\ Step # "answer"),
           Builds /\ op.kind = "run" => tag' \in {tag, op.check.image},
           Calm(op.began) =>
               /\ o.source \in {None, upstream} /\ (o.source # None => recipe.sourced /\ ~Managed)
               /\ o.image = op.image \/ Step = Binder
               /\ \A s \in Behind \cup {Step} : Effect(s)'
    PROVE  CInv'
<1>1. op \in Operations /\ op.result = None /\ op # None
  BY DEF IInv, TypeOK, UnderWay
<1>2. /\ Disturbances' = Disturbances /\ Newest' = Newest
      /\ recipe' = recipe /\ Managed' = Managed /\ Builds' = Builds /\ Members' = Members
  BY DEF Disturbances, Newest, Managed, Builds, Members, outside, bounds
<1>3. /\ op' \in Operations /\ UnderWay' /\ op' # None
      /\ op' = [o EXCEPT !.step = op'.step]
      /\ At("claim-probe")' <=> At("probe")
      /\ At("answer")' <=> At("claim-probe")
  BY <1>2, Forward DEF IInv, UnderWay
<1>4. /\ op'.kind = op.kind /\ op'.began = op.began /\ op'.resumed = op.resumed
      /\ op'.result = None /\ op'.source = o.source /\ op'.image = o.image
  BY <1>3 DEF Operations
<1>5. Ordered'
  BY <1>1, <1>2, <1>3, <1>4 DEF CInv, Ordered
<1>6. Tagged'
  BY DEF Tagged
<1>7. /\ Behind' = Behind \cup {Step} /\ Applies(op.kind, Step)' /\ Binder' = Binder
  BY <1>2, Taken DEF CInv, Fitting
<1>8. Learnt'
  <2> SUFFICES ASSUME Calm(op.began)
               PROVE  Learnt'
    BY <1>2, <1>4 DEF Learnt, Calm
  <2>1. ~op.resumed /\ (op.image # None => Binder \in Behind)
    BY DEF CInv, Learnt
  <2>2. \A s \in Behind' : Effect(s)'
    BY <1>7
  <2>3. op'.image # None => Binder' \in Behind'
    BY <1>4, <1>7, <2>1
  <2>4. /\ op'.source \in {None, upstream'}
        /\ op'.source # None => recipe'.sourced /\ ~Managed'
    BY <1>2, <1>4 DEF outside
  <2> QED
    BY <1>4, <2>1, <2>2, <2>3, <2>4 DEF Learnt
<1>9. Reliable'
  <2> SUFFICES ASSUME evidence # <<>>, Calm(Newest.began)
               PROVE  Reliable'
    BY <1>2 DEF Reliable, Calm
  <2>1. ~Managed /\ probe' => At("claim-probe")' \/ At("answer")'
    BY <1>3 DEF CInv, Reliable, At
  <2>2. ~Managed => \A n \in Members : Newest.image \in images'[n]
    BY DEF CInv, Reliable, Members, Nodes
  <2>3. Builds /\ op.kind # "check" => tag' = Newest.image
    BY <1>1 DEF CInv, Reliable, IInv, Bound, Operations, Newest
  <2>4. PlatformFingerprint(ModelBytes)' = PlatformFingerprint(ModelBytes)
        /\ ClusterFingerprint(binding)' = ClusterFingerprint(binding)
    BY DEF PlatformFingerprint, ClusterFingerprint, ModelBytes, Managed, outside
  <2>5. op'.result # "failed"
    BY <1>4, NoneAssumption
  <2> QED
    BY <1>2, <1>3, <1>4, <2>1, <2>2, <2>3, <2>4, <2>5 DEF CInv, Reliable, outside, ModelBytes
<1> QED
  BY <1>5, <1>6, <1>7, <1>8, <1>9 DEF CInv, Fitting

\* Where nothing was disturbed since the newest check, every step finds what it
\* needs; only a recipe of scripts without a source cannot be attested.
LEMMA NothingMissing ==
    ASSUME IInv, CInv, UnderWay, evidence # <<>>, Calm(Newest.began)
    PROVE  /\ Can(Step) \/ (Step = "attest" /\ op.kind = "run" /\ ~Managed /\ ~recipe.sourced)
           /\ Step = "build" /\ op.kind = "run" => Reusable /\ Bindable(tag, "local")
<1>1. /\ op \in Operations /\ op # None /\ op.result = None
      /\ op.step \in 1..Len(Path(op)) /\ Newest \in Evidences
  BY DEF IInv, TypeOK, UnderWay, Newest
<1>2. Calm(op.began)
  <2>1. Disturbances \in Nat
    BY DEF Disturbances, IInv, TypeOK
  <2>2. Newest.began = Disturbances /\ op.began \in Nat
    BY <1>1 DEF Calm, Operations
  <2>3. op.began <= Disturbances /\ Newest.began <= op.began
    BY <1>1 DEF CInv, Ordered
  <2> QED
    BY <2>1, <2>2, <2>3 DEF Calm
<1>3. /\ ~op.resumed /\ Applies(op.kind, Step)
      /\ op.source \in {None, upstream} /\ (op.source # None => recipe.sourced /\ ~Managed)
      /\ op.image # None => Binder \in Behind
      /\ \A s \in Behind : Effect(s)
  BY <1>2 DEF CInv, Learnt, Fitting
<1>4. /\ roomy /\ ~foreign /\ (recipe.nodes = 1 \/ workers = recipe.nodes - 1)
      /\ Newest.content = ModelBytes /\ Newest.platform = PlatformFingerprint(ModelBytes)
      /\ Newest.cluster = ClusterFingerprint(binding)
      /\ Newest.source = IF recipe.sourced /\ ~Managed THEN upstream ELSE None
      /\ ~Managed /\ probe => At("claim-probe") \/ At("answer")
      /\ ~Managed => \A n \in Members : Newest.image \in images[n]
      /\ Builds /\ op.kind = "run" => tag = Newest.image
  BY <1>1 DEF CInv, Reliable
<1>5. op.kind = "run" => op.check = Newest
  BY DEF IInv, Bound, Newest
<1>6. "topology" \in Behind => Reachable /\ Accelerators
  BY <1>3, <1>4 DEF Effect, Reachable, Accelerators
<1>7. CASE op.kind = "check" /\ ~Managed
  <2>1. Path(op) = ScriptCheck
    BY <1>1, <1>3, <1>7, FreshPath
  <2>2. Binder = "image"
    BY <1>7 DEF Binder
  <2>3. Step \in {"peers", "send", "ports", "fabric", "accelerators"} => Reachable /\ Accelerators
    BY <1>1, <1>6, <1>7, <2>1, ScriptCheckOrder
  <2>4. Step = "peers" => registry = op.found
    BY <1>1, <1>3, <1>7, <2>1, ScriptCheckOrder DEF Finder, Applies, Effect, Builds
  <2>5. Step = "image" => op.image = None /\ (op.found \in images[HeadNode] \/ ~Builds)
    <3> SUFFICES ASSUME Step = "image", Builds
                 PROVE  op.image = None /\ op.found \in images[HeadNode]
      BY <1>1, <1>3, <1>7, <2>1, <2>2, ScriptCheckOrder
    <3>1. "build" \in Behind
      BY <1>1, <1>7, <2>1, ScriptCheckOrder DEF Finder
    <3>2. op.found = tag
      BY <1>3, <1>7, <3>1 DEF Effect
    <3>3. op.found \in Contents
      BY <1>1, <1>7, <2>1, <3>1 DEF IInv, Found, Finder, Behind
    <3> QED
      BY <1>1, <1>3, <1>7, <2>1, <2>2, <3>2, <3>3, ScriptCheckOrder, NoneAssumption DEF CInv, Tagged
  <2>6. Step \in {"send", "fabric", "probe"} => Holds(HeadNode)
    BY <1>1, <1>3, <1>7, <2>1, ScriptCheckOrder DEF Effect, Holds
  <2>7. Step = "fabric" => Holds(PeerNode)
    <3> SUFFICES ASSUME Step = "fabric"
                 PROVE  Holds(PeerNode)
      OBVIOUS
    <3>1. recipe.nodes = 2
      BY <1>3 DEF Applies
    <3> QED
      BY <1>1, <1>3, <1>7, <2>1, <3>1, ScriptCheckOrder DEF Effect, Holds
  <2>8. Step = "probe" => ~probe
    BY <1>4, <1>7 DEF At
  <2>9. Step = "source" /\ recipe.sourced => op.source \in {None, upstream}
    BY <1>3
  <2>10. /\ Step \notin {"pin", "model", "match", "images", "verify", "attest", "launch"}
         /\ Bindable(op.found, "local") \/ Step # "image"
    BY <1>1, <1>7, <2>1, <2>5, ScriptCheckOrder DEF Bindable
  <2>11. Step = "fabric" => \A n \in Members : Holds(n)
    BY <2>6, <2>7 DEF Members, Nodes
  <2> QED
    BY <1>4, <1>7, <2>3, <2>4, <2>5, <2>6, <2>8, <2>9, <2>10, <2>11 DEF Can
<1>8. CASE op.kind = "check" /\ Managed
  <2>1. Path(op) = ManagedCheck /\ ~Builds
    BY <1>1, <1>3, <1>8, FreshPath
  <2>2. /\ Step \in {"topology", "inspect", "capacity", "accelerators", "ports", "bind"}
        /\ Step # "topology" => Reachable /\ Accelerators
    BY <1>1, <1>6, <1>8, <2>1, ManagedCheckOrder
  <2> QED
    BY <1>4, <1>8, <2>2 DEF Can
<1>9. CASE op.kind = "run" /\ ~Managed
  <2>1. Path(op) = ScriptRun /\ Binder \in {"pin", "build"}
    BY <1>1, <1>3, <1>9, FreshPath DEF Binder
  <2>2. Step \notin {"pin", "topology"} => Reachable /\ Accelerators
    BY <1>1, <1>6, <1>9, <2>1, ScriptRunOrder
  <2>3. Step = Binder => op.image = None
    BY <1>1, <1>3, <1>9, <2>1, ScriptRunOrder
  <2>4. Step \notin {"pin", "topology", "source", "build"} =>
            op.image = op.check.image /\ op.image \in images[HeadNode]
    BY <1>1, <1>3, <1>9, <2>1, ScriptRunOrder DEF Effect
  <2>5. Step \notin {"pin", "topology", "source", "build", "send"} => \A n \in Members : Holds(n)
    BY <1>4, <1>5, <1>9, <2>4 DEF Holds
  <2>6. Step = "pin" => Binder = "pin"
    BY <1>3, <1>9 DEF Binder, Applies
  <2>7. Step = "build" => Binder = "build" /\ Builds
    BY <1>3, <1>9 DEF Binder, Applies
  <2>8. Step = "build" => Reusable /\ Bindable(tag, "local") /\ tag = op.check.image
    BY <1>4, <1>5, <1>9, <2>3, <2>7 DEF Reusable, Bindable
  <2>9. Step = "verify" => model = "whole"
    BY <1>1, <1>3, <1>9, <2>1, ScriptRunOrder DEF Effect
  <2>10. Step = "match" => op.source = op.check.source
    <3> SUFFICES ASSUME Step = "match"
                 PROVE  op.source = op.check.source
      OBVIOUS
    <3>1. "source" \in Behind
      BY <1>1, <1>9, <2>1, ScriptRunOrder
    <3>2. recipe.sourced => op.source = upstream
      BY <1>3, <3>1 DEF Effect
    <3> QED
      BY <1>3, <1>4, <1>5, <1>9, <3>2
  <2>11. Step = "match" => Matches(op)
    BY <1>4, <1>5, <1>9, <2>10 DEF Matches, CheckedModelBytes
  <2>12. Step = "probe" => ~probe
    BY <1>4, <1>9 DEF At
  <2>13. Step = "source" /\ recipe.sourced => op.source \in {None, upstream}
    BY <1>3
  <2>14. /\ Step \notin {"peers", "image", "accelerators", "capacity", "inspect", "bind"}
         /\ Step = "pin" => op.image = None
    BY <1>1, <1>9, <2>1, <2>3, <2>6, ScriptRunOrder
  <2>15. Step \in {"send", "images", "fabric", "attest", "probe"} => Holds(HeadNode)
    BY <2>4 DEF Holds
  <2> QED
    BY <1>4, <1>9, <2>2, <2>4, <2>5, <2>8, <2>9, <2>11, <2>12, <2>13, <2>14, <2>15
       DEF Can, Obtainable, Bindable
<1>10. CASE op.kind = "run" /\ Managed
  <2>1. Path(op) = ManagedRun /\ ~Builds /\ Binder = "pin"
    BY <1>1, <1>3, <1>10, FreshPath DEF Binder
  <2>2. Step # "topology" => Reachable /\ Accelerators
    BY <1>1, <1>6, <1>10, <2>1, ManagedRunOrder
  <2>3. Step = "pin" => op.image = None
    BY <1>1, <1>3, <1>10, <2>1, ManagedRunOrder
  <2>4. Step \notin {"topology", "pin"} => op.image = op.check.image /\ op.image \in images[HeadNode]
    BY <1>1, <1>3, <1>10, <2>1, ManagedRunOrder DEF Effect
  <2>5. Matches(op)
    BY <1>3, <1>4, <1>5, <1>10 DEF Matches, CheckedModelBytes
  <2>6. /\ Step \in {"topology", "pin", "send", "images", "match", "ports", "attest", "launch"}
        /\ recipe.adapter # "registry"
    BY <1>1, <1>10, <2>1, ManagedRunOrder DEF Managed
  <2> QED
    BY <1>4, <1>10, <2>2, <2>3, <2>4, <2>5, <2>6 DEF Can, Obtainable, Bindable, Holds
<1> QED
  BY <1>1, <1>7, <1>8, <1>9, <1>10, FreshPath, <1>3

\* Where an operation that was never resumed stands.
LEMMA Standing ==
    ASSUME IInv, CInv, UnderWay, Calm(op.began)
    PROVE  /\ \A s \in Behind : Applies(op.kind, s) /\ Effect(s)
           /\ op.source \in {None, upstream} /\ (op.source # None => recipe.sourced /\ ~Managed)
           /\ Applies(op.kind, Step)
           /\ op.kind = "check" /\ Step \in {"inspect", "build", "image"} =>
                Behind \cap {"image", "send"} = {}
           /\ Step = "image" => op.kind = "check"
           /\ op.kind = "run" /\ Step \in {"pin", "build"} =>
                Step = Binder /\ Behind \cap {Binder, "send", "image"} = {}
           /\ Step = "pin" => op.kind = "run"
           /\ Step = "probe" => "answer" \notin Behind
           /\ Step = "source" => ~Managed
<1>1. /\ op \in Operations /\ op # None /\ op.step \in 1..Len(Path(op))
      /\ ~op.resumed /\ Applies(op.kind, Step)
      /\ op.source \in {None, upstream} /\ (op.source # None => recipe.sourced /\ ~Managed)
      /\ \A s \in Behind : Effect(s)
  BY DEF IInv, TypeOK, UnderWay, CInv, Learnt, Fitting
<1>2. \A s \in Behind : Applies(op.kind, s)
  BY DEF Behind
<1>3. Step = "build" => Builds
  BY <1>1 DEF Applies
<1>4. Step = "pin" => ~Builds
  BY <1>1 DEF Applies
<1>5. CASE op.kind = "check" /\ ~Managed
  BY <1>1, <1>2, <1>5, FreshPath, ScriptCheckOrder
<1>6. CASE op.kind = "check" /\ Managed
  BY <1>1, <1>2, <1>6, FreshPath, ManagedCheckOrder
<1>7. CASE op.kind = "run" /\ ~Managed
  BY <1>1, <1>2, <1>3, <1>4, <1>7, FreshPath, ScriptRunOrder DEF Binder
<1>8. CASE op.kind = "run" /\ Managed
  BY <1>1, <1>2, <1>3, <1>4, <1>8, FreshPath, ManagedRunOrder DEF Binder
<1> QED
  BY <1>1, <1>5, <1>6, <1>7, <1>8, FreshPath

\* Steps that leave the operation's bindings and the machine alone.
LEMMA CalmObserving ==
    ASSUME IInv, CInv,
           \/ Observe \/ ReadCluster \/ ClaimWorkspace \/ CreateWorkspace \/ StartProbe
           \/ ClaimProbe \/ EndProbe \/ AttestNodes
    PROVE  CInv'
<1>1. /\ UnderWay /\ op \in Operations /\ op.result = None
      /\ UNCHANGED <<outside, machine, evidence, bounds>>
  BY DEF IInv, TypeOK, Step, UnderWay, At, Observe, ReadCluster,
         ClaimWorkspace, CreateWorkspace, StartProbe, ClaimProbe, EndProbe, AttestNodes
<1> DEFINE o == IF At("topology") THEN [op EXCEPT !.seen = binding] ELSE op
<1>2. /\ o \in Operations /\ o.result = None /\ o.kind = op.kind /\ o.step = op.step
      /\ o.resumed = op.resumed /\ o.check = op.check /\ o.began = op.began
      /\ o.source = op.source /\ o.image = op.image /\ o.found = op.found
      /\ o.seen \in {op.seen, binding} /\ (At("topology") => o.seen = binding)
      /\ Advance(o)
  BY <1>1 DEF IInv, TypeOK, Operations, At, Observe, ReadCluster,
     ClaimWorkspace, CreateWorkspace, StartProbe, ClaimProbe, EndProbe, AttestNodes
<1> HIDE DEF o
<1>3. /\ op' = [o EXCEPT !.step = op'.step] /\ op' \in Operations
  BY <1>1, <1>2, Forward DEF IInv, outside
<1>4. /\ op'.kind = op.kind /\ op'.check = op.check /\ op'.seen = o.seen
      /\ op'.source = op.source /\ op'.image = op.image /\ op'.found = op.found
  BY <1>2, <1>3 DEF Operations
<1>5. /\ probe' => Step = "probe" \/ (probe /\ Step # "answer")
      /\ Step = "answer" => ~probe'
      /\ Step = "probe" \/ (probe' => probe)
  BY DEF At, Observe, ReadCluster, ClaimWorkspace, CreateWorkspace, StartProbe, ClaimProbe,
         EndProbe, ProbeEnds, AttestNodes, leavings
<1>6. /\ Step \notin {"source", "inspect", "build", "image", "pin", "send", "model"}
      /\ Step \in {"capacity", "accelerators", "ports"} => Can(Step)
  BY DEF At, Observe, ReadCluster, ClaimWorkspace, CreateWorkspace, StartProbe, ClaimProbe,
         EndProbe, AttestNodes
<1>7. Step # Binder
  BY <1>6 DEF Binder
<1>8. ASSUME Calm(op.began), NEW s \in Behind \cup {Step}
      PROVE  Effect(s)'
  <2>1. CASE s \in Behind
    <3>1. Effect(s) /\ (Step = "probe" => s # "answer")
      BY <1>1, <1>8, <2>1, Standing
    <3> QED
      BY <1>1, <1>2, <1>4, <1>5, <3>1, EffectStays DEF machine
  <2>2. CASE s = Step
    <3>1. Binder' = Binder
      BY <1>1, <1>4 DEF Binder, Builds, outside
    <3> QED
      BY <1>1, <1>2, <1>4, <1>5, <1>6, <1>7, <2>2, <3>1
         DEF Effect, Can, Accelerators, outside, At
  <2> QED
    BY <2>1, <2>2
<1>9. Calm(op.began) =>
        o.source \in {None, upstream} /\ (o.source # None => recipe.sourced /\ ~Managed)
  BY <1>1, <1>2, Standing
<1> QED
  BY <1>1, <1>2, <1>5, <1>8, <1>9, Progressing DEF machine, CInv, Tagged

\* The step just taken has its effect, the earlier ones keep theirs.
LEMMA Preserved ==
    ASSUME IInv, CInv, UnderWay, UNCHANGED <<outside, evidence, leavings, bounds>>,
           op'.kind = op.kind, op'.check = op.check, op'.seen = op.seen,
           op'.source \in {op.source, upstream},
           op'.found = op.found \/ (op.kind = "check" /\ Step \in {"inspect", "build"}),
           tag' = tag \/ op.kind = "run" \/ Step = "build",
           op'.image = op.image \/ Step = "image" \/ (op.kind = "run" /\ Step \in {"pin", "build"}),
           \A n \in Nodes : images[n] \subseteq images'[n],
           model' \in {model, "whole"},
           Calm(op.began), NEW s \in Behind, s # Step
    PROVE  Effect(s)'
<1>1. /\ Effect(s) /\ Applies(op.kind, s) /\ Applies(op.kind, Step)
      /\ op.kind = "check" /\ Step \in {"inspect", "build", "image"} => s \notin {"image", "send"}
      /\ Step = "image" => op.kind = "check"
      /\ op.kind = "run" /\ Step \in {"pin", "build"} => s \notin {Binder, "send", "image"}
  BY Standing
<1>2. Step \in {"inspect", "build"} => s \notin {"inspect", "build"}
  BY <1>1 DEF Applies
<1>3. op.kind = "check" => Binder = "image"
  BY DEF Binder
<1>4. s \in {"inspect", "build", "image"} => op'.found = op.found
  BY <1>1, <1>2
<1>5. s \in {"image", "send", Binder} => op'.image = op.image
  BY <1>1, <1>3
<1>6. s = "build" /\ op.kind = "check" => tag' = tag
  BY <1>1, NoneAssumption DEF Binder
<1> QED
  BY <1>1, <1>4, <1>5, <1>6, EffectStays DEF leavings, Nodes

\* The source, the reference and the model.
LEMMA CalmFetching ==
    ASSUME IInv, CInv, Inspect \/ FetchSource \/ BuildForCheck \/ SendImage \/ PrepareModel
    PROVE  CInv'
<1>1. /\ UnderWay /\ op \in Operations /\ op.result = None
      /\ UNCHANGED <<outside, evidence, leavings, bounds>>
  BY DEF IInv, TypeOK, Step, UnderWay, At,
         Inspect, FetchSource, BuildForCheck, SendImage, PrepareModel
<1>2. ASSUME NEW o, Advance(o), o.kind = op.kind, o.step = op.step, o.resumed = op.resumed,
             o.check = op.check, o.began = op.began, o.image = op.image, o.seen = op.seen,
             o \in Operations, o.result = None,
             o.source \in {op.source, upstream}, o.source = op.source \/ recipe.sourced,
             o.source = op.source \/ Step = "source",
             o.found = op.found \/ (op.kind = "check" /\ Step \in {"inspect", "build"}),
             Step \in {"inspect", "source", "build", "send", "model"},
             Step = "source" /\ recipe.sourced => o.source = upstream,
             Step = "inspect" => o.found = IF Managed THEN Pinned ELSE registry,
             Step = "build" => op.kind = "check" /\ o.found = tag',
             tag' = tag \/ Step = "build",
             \A n \in Nodes : images[n] \subseteq images'[n],
             Step = "send" => op.image \in images'[PeerNode],
             Step = "model" => model' = "whole", model' \in {model, "whole"},
             tag' # None => tag' \in images'[HeadNode]
      PROVE  CInv'
  <2>1. op' = [o EXCEPT !.step = op'.step] /\ op' \in Operations
    BY <1>1, <1>2, Forward DEF IInv, outside
  <2>2. /\ op'.kind = op.kind /\ op'.check = op.check /\ op'.seen = op.seen
        /\ op'.source = o.source /\ op'.image = op.image /\ op'.found = o.found
    BY <1>2, <2>1 DEF Operations
  <2>3. ASSUME Calm(op.began)
        PROVE  /\ o.source \in {None, upstream} /\ (o.source # None => recipe.sourced /\ ~Managed)
               /\ \A s \in Behind \cup {Step} : Effect(s)'
    <3>1. /\ o.source \in {None, upstream} /\ (o.source # None => recipe.sourced /\ ~Managed)
      BY <1>1, <1>2, <2>3, Standing
    <3>2. ASSUME NEW s \in Behind, s # Step
          PROVE  Effect(s)'
      BY <1>1, <1>2, <2>2, <2>3, <3>2, Preserved
    <3>3. ASSUME NEW s, s = Step
          PROVE  Effect(s)'
      <4>1. /\ Binder' = Binder /\ Managed' = Managed
            /\ UNCHANGED <<recipe, upstream, registry>>
        BY <1>1, <2>2 DEF Binder, Builds, Managed, outside
      <4>2. s = Binder => op.kind # "run"
        BY <1>2, <3>3 DEF Binder
      <4> QED
        BY <1>2, <2>2, <3>3, <4>1, <4>2 DEF Effect, Pinned
    <3> QED
      BY <3>1, <3>2, <3>3
  <2>4. probe' => Step = "probe" \/ (probe /\ Step # "answer")
    BY <1>1, <1>2 DEF leavings
  <2>5. Builds /\ op.kind = "run" => tag' \in {tag, op.check.image}
    BY <1>2
  <2> QED
    BY <1>1, <1>2, <2>3, <2>4, <2>5, Progressing
<1>3. \A n \in Nodes : images[n] \in SUBSET Contents
  BY DEF IInv, TypeOK
<1>4. CASE Inspect
  <2> DEFINE found == IF Managed THEN Pinned ELSE registry
  <2>1. found \in Contents /\ Advance([op EXCEPT !.found = found]) /\ Step = "inspect"
    BY <1>4, ContentsAssumption DEF Inspect, At, IInv, TypeOK, Pinned
  <2> HIDE DEF found
  <2> DEFINE o == [op EXCEPT !.found = found]
  <2>2. /\ o \in Operations /\ o.kind = op.kind /\ o.step = op.step /\ o.resumed = op.resumed
        /\ o.check = op.check /\ o.began = op.began /\ o.image = op.image /\ o.seen = op.seen
        /\ o.result = None /\ o.source = op.source /\ o.found = found
    BY <1>1, <2>1 DEF Operations
  <2>3. op.kind = "check"
    <3>1. op.kind = "run" => Step # "inspect"
      BY <1>1, RunPath DEF Step, IInv, TypeOK
    <3> QED
      BY <1>1, <2>1, <3>1 DEF Operations
  <2>4. UNCHANGED <<tag, images, model>> /\ Tagged
    BY <1>4 DEF Inspect, machine, CInv
  <2> HIDE DEF o
  <2> QED
    BY <1>2, <2>1, <2>2, <2>3, <2>4 DEF o, found, Tagged
<1>5. CASE FetchSource
  <2> DEFINE o == IF recipe.sourced THEN [op EXCEPT !.source = upstream] ELSE op
  <2>1. /\ o \in Operations /\ o.kind = op.kind /\ o.step = op.step /\ o.resumed = op.resumed
        /\ o.check = op.check /\ o.began = op.began /\ o.image = op.image /\ o.seen = op.seen
        /\ o.result = None /\ o.found = op.found /\ o.source \in {op.source, upstream}
        /\ o.source = op.source \/ recipe.sourced
        /\ recipe.sourced => o.source = upstream
        /\ Advance(o) /\ Step = "source"
    BY <1>1, <1>5 DEF Operations, FetchSource, IInv, TypeOK, At
  <2>2. UNCHANGED <<tag, images, model>> /\ Tagged
    BY <1>5 DEF FetchSource, machine, CInv
  <2> HIDE DEF o
  <2> QED
    BY <1>2, <2>1, <2>2 DEF Tagged
<1>6. CASE BuildForCheck
  <2>1. PICK content \in Contents :
          /\ tag' = content
          /\ images' = [images EXCEPT ![HeadNode] = @ \cup {content}]
          /\ Advance([op EXCEPT !.found = content])
    BY <1>6 DEF BuildForCheck
  <2> DEFINE o == [op EXCEPT !.found = content]
  <2>2. /\ o \in Operations /\ o.kind = op.kind /\ o.step = op.step /\ o.resumed = op.resumed
        /\ o.check = op.check /\ o.began = op.began /\ o.image = op.image /\ o.seen = op.seen
        /\ o.result = None /\ o.source = op.source /\ o.found = content
    BY <1>1 DEF Operations
  <2>3. op.kind = "check" /\ Step = "build" /\ model' = model
    BY <1>6 DEF BuildForCheck, At
  <2>4. /\ \A n \in Nodes : images[n] \subseteq images'[n]
        /\ content \in images'[HeadNode]
    BY <2>1 DEF IInv, TypeOK, Nodes
  <2> HIDE DEF o
  <2> QED
    BY <1>2, <2>1, <2>2, <2>3, <2>4 DEF o
<1>7. CASE SendImage
  <2>1. /\ Step = "send" /\ Advance(op) /\ UNCHANGED <<tag, model>> /\ Tagged
        /\ images' = [images EXCEPT ![PeerNode] = @ \cup {op.image}]
    BY <1>7 DEF SendImage, At, CInv
  <2>2. /\ \A n \in Nodes : images[n] \subseteq images'[n]
        /\ op.image \in images'[PeerNode]
        /\ images[HeadNode] \subseteq images'[HeadNode]
    BY <2>1 DEF IInv, TypeOK, Nodes
  <2> QED
    BY <1>1, <1>2, <2>1, <2>2 DEF Tagged
<1>8. CASE PrepareModel
  <2>1. /\ Step = "model" /\ Advance(op) /\ UNCHANGED <<tag, images>> /\ Tagged
        /\ model' = "whole"
    BY <1>8 DEF PrepareModel, At, CInv
  <2> QED
    BY <1>1, <1>2, <2>1 DEF Tagged
<1> QED
  BY <1>4, <1>5, <1>6, <1>7, <1>8

\* The steps that bind an operation to its image.  On an unchanged machine a
\* run finds the image its check built, and binds to it.
LEMMA CalmBinding ==
    ASSUME IInv, CInv, PrepareImage \/ PinImage \/ Reuse \/ BuildForRun
    PROVE  CInv'
<1>1. /\ UnderWay /\ op \in Operations /\ op.result = None
      /\ UNCHANGED <<outside, model, evidence, leavings, bounds>>
      /\ Step \in {"image", "pin", "build"}
  BY DEF IInv, TypeOK, Step, UnderWay, At, PrepareImage, PinImage, Reuse, BuildForRun, machine
<1>2. /\ PrepareImage => op.kind = "check" /\ Step = "image" /\ op.found \in Contents
      /\ PinImage => op.kind = "run" /\ Step = "pin"
      /\ Reuse \/ BuildForRun => op.kind = "run" /\ Step = "build"
  <2>1. /\ op.kind = "check" => Step # "pin"
        /\ op.kind = "run" => Step # "image"
    BY <1>1, RunPath, CheckPath DEF Step, IInv, TypeOK
  <2>2. PrepareImage => op.found \in Contents
    <3> SUFFICES ASSUME PrepareImage
                 PROVE  op.found \in Contents
      OBVIOUS
    <3>1. /\ op.step \in 1..Len(Path(op)) /\ Path(op)[op.step] = "image"
          /\ op.kind = "check"
      BY <1>1, <2>1 DEF PrepareImage, At, Step, IInv, TypeOK, Operations
    <3>2. PICK l \in 1..(op.step - 1) : Path(op)[l] = Finder
      BY <3>1, CheckPath
    <3> QED
      BY <1>1, <3>1, <3>2 DEF IInv, Found
  <2> QED
    BY <1>1, <2>1, <2>2 DEF PrepareImage, PinImage, Reuse, BuildForRun, At, Operations
<1>3. ASSUME NEW content \in Contents, NEW name \in {"local", "manifest"},
             Advance(Bind(content, name)),
             tag' = tag \/ (Builds /\ op.kind = "run" /\ tag' = op.check.image),
             tag' # None => tag' \in images'[HeadNode],
             \A n \in Nodes : images[n] \subseteq images'[n],
             Calm(op.began) => content \in images'[HeadNode],
             content = IF op.kind = "check" THEN op.found ELSE op.check.image,
             op.kind = "check" => Step = "image",
             op.kind = "run" => Step \in {"pin", "build"}
      PROVE  CInv'
  <2> DEFINE o == Bind(content, name)
  <2>1. /\ o \in Operations /\ o.kind = op.kind /\ o.step = op.step /\ o.resumed = op.resumed
        /\ o.check = op.check /\ o.began = op.began /\ o.image = content /\ o.seen = op.seen
        /\ o.result = None /\ o.source = op.source /\ o.found = op.found /\ Advance(o)
    BY <1>1, <1>3 DEF Operations, Bind
  <2> HIDE DEF o
  <2>2. op' = [o EXCEPT !.step = op'.step] /\ op' \in Operations
    BY <1>1, <2>1, Forward DEF IInv, outside
  <2>3. /\ op'.kind = op.kind /\ op'.check = op.check /\ op'.seen = op.seen
        /\ op'.source = op.source /\ op'.image = content /\ op'.found = op.found
    BY <2>1, <2>2 DEF Operations
  <2>4. ASSUME Calm(op.began)
        PROVE  /\ o.source \in {None, upstream} /\ (o.source # None => recipe.sourced /\ ~Managed)
               /\ Step = Binder
               /\ \A s \in Behind \cup {Step} : Effect(s)'
    <3>1. /\ o.source \in {None, upstream} /\ (o.source # None => recipe.sourced /\ ~Managed)
          /\ op.kind = "run" => Step = Binder
      BY <1>1, <1>3, <2>1, <2>4, Standing
    <3>2. op.kind = "check" => Step = Binder
      BY <1>3 DEF Binder
    <3>3. ASSUME NEW s \in Behind, s # Step
          PROVE  Effect(s)'
      <4>1. tag' = tag \/ op.kind = "run"
        BY <1>3
      <4>2. op'.image = op.image \/ Step = "image" \/ (op.kind = "run" /\ Step \in {"pin", "build"})
        BY <1>1, <1>3 DEF Operations
      <4> QED
        BY <1>1, <1>3, <2>3, <2>4, <3>3, <4>1, <4>2, Preserved
    <3>4. ASSUME NEW s, s = Step
          PROVE  Effect(s)'
      <4>1. Binder' = Binder
        BY <1>1, <2>3 DEF Binder, Builds, outside
      <4>2. s \in {"image", "pin", "build"} /\ (s = "image" <=> op.kind = "check")
        BY <1>1, <1>3, <3>4 DEF Operations
      <4> QED
        BY <1>3, <2>3, <2>4, <4>1, <4>2 DEF Effect
    <3> QED
      BY <1>1, <3>1, <3>2, <3>3, <3>4 DEF Operations
  <2>5. probe' => Step = "probe" \/ (probe /\ Step # "answer")
    BY <1>1 DEF leavings
  <2> QED
    BY <1>1, <1>3, <2>1, <2>4, <2>5, Progressing
<1>4. \A n \in Nodes : images[n] \in SUBSET Contents
  BY DEF IInv, TypeOK
<1>5. ASSUME NEW content,
             images' = [images EXCEPT ![HeadNode] = @ \cup {content}]
      PROVE  /\ \A n \in Nodes : images[n] \subseteq images'[n]
             /\ content \in images'[HeadNode]
  BY <1>5 DEF IInv, TypeOK, Nodes
<1>6. op.kind = "run" => op.check.image \in Contents
  <2>1. op.kind = "run" => op.check \in Evidences
    BY <1>1 DEF IInv, Bound, TypeOK
  <2> QED
    BY <2>1 DEF Evidences
<1>7. CASE PrepareImage
  <2>1. /\ Advance(Bind(op.found, "local")) /\ tag' = tag
        /\ images' = [images EXCEPT ![HeadNode] = @ \cup {op.found}]
    BY <1>7 DEF PrepareImage
  <2>2. Tagged'
    BY <1>5, <2>1 DEF CInv, Tagged, Nodes
  <2>3. op.kind = "check" /\ Step = "image" /\ op.found \in Contents
    BY <1>2, <1>7
  <2> QED
    BY <1>3, <1>5, <2>1, <2>2, <2>3 DEF Tagged
<1>8. CASE PinImage
  <2> DEFINE name == IF Managed /\ ~op.resumed THEN "manifest" ELSE "local"
  <2>1. /\ Advance(Bind(op.check.image, name)) /\ tag' = tag
        /\ images' = [images EXCEPT ![HeadNode] = @ \cup {op.check.image}]
        /\ name \in {"local", "manifest"}
    BY <1>8 DEF PinImage
  <2> HIDE DEF name
  <2>2. Tagged'
    BY <1>5, <2>1 DEF CInv, Tagged, Nodes
  <2>3. op.kind = "run" /\ Step = "pin" /\ op.check.image \in Contents
    BY <1>2, <1>6, <1>8
  <2> QED
    BY <1>3, <1>5, <2>1, <2>2, <2>3 DEF Tagged
<1>9. ASSUME Ends("failed"), Reuse \/ BuildForRun, Tagged',
             ~(Reusable /\ Bindable(tag, "local"))
      PROVE  CInv'
  <2>1. /\ op' \in Operations /\ op' # None /\ op'.began = op.began
        /\ op'.result # None /\ ~UnderWay'
    BY <1>1, <1>9, NoneAssumption DEF Ends, Operations, UnderWay
  <2>2. /\ Disturbances' = Disturbances /\ Newest' = Newest /\ op # None
    BY <1>1 DEF Disturbances, Newest, bounds, UnderWay
  <2>3. ~(evidence # <<>> /\ Calm(Newest.began))
    BY <1>1, <1>2, <1>9, NothingMissing
  <2>4. Ordered'
    BY <1>1, <2>1, <2>2 DEF CInv, Ordered
  <2>5. Fitting' /\ Learnt' /\ Reliable'
    BY <1>1, <2>1, <2>2, <2>3 DEF Fitting, Learnt, Reliable, Calm
  <2> QED
    BY <1>9, <2>4, <2>5 DEF CInv
<1>10. CASE Reuse
  <2>1. /\ tag = op.check.image /\ op.kind = "run" /\ Step = "build" /\ Reusable
        /\ tag \in Contents /\ UNCHANGED <<tag, images>> /\ Tagged /\ tag # None
        /\ IF Bindable(tag, "local") THEN Advance(Bind(tag, "local")) ELSE Ends("failed")
    BY <1>2, <1>6, <1>10, NoneAssumption DEF Reuse, Reusable, machine, CInv
  <2>2. tag' # None => tag' \in images'[HeadNode]
    BY <2>1 DEF Tagged
  <2>3. CASE Bindable(tag, "local")
    BY <1>3, <2>1, <2>2, <2>3
  <2>4. CASE ~Bindable(tag, "local")
    BY <1>9, <1>10, <2>1, <2>2, <2>4 DEF Tagged
  <2> QED
    BY <2>3, <2>4
<1>11. CASE BuildForRun
  <2>1. PICK content \in Contents :
          /\ tag' = content
          /\ images' = [images EXCEPT ![HeadNode] = @ \cup {content}]
          /\ IF content = op.check.image /\ Bindable(content, "local")
             THEN Advance(Bind(content, "local")) ELSE Ends("failed")
    BY <1>11 DEF BuildForRun
  <2>2. op.kind = "run" /\ Step = "build" /\ ~Reusable
    BY <1>2, <1>11 DEF BuildForRun
  <2>3. Tagged'
    BY <1>5, <2>1 DEF Tagged
  <2>4. CASE content = op.check.image /\ Bindable(content, "local")
    <3>1. Builds
      BY <1>1, <2>2 DEF CInv, Fitting, Applies
    <3> QED
      BY <1>3, <1>5, <2>1, <2>2, <2>3, <2>4, <3>1 DEF Tagged
  <2>5. CASE Ends("failed")
    BY <1>9, <1>11, <2>2, <2>3, <2>5
  <2> QED
    BY <2>1, <2>4, <2>5
<1> QED
  BY <1>7, <1>8, <1>10, <1>11

\* A machine without a check has nothing to rely on.
LEMMA CalmInit == Init => CInv
<1> SUFFICES ASSUME Init
             PROVE  CInv
  OBVIOUS
<1>1. op = None /\ evidence = <<>> /\ tag = None /\ ~UnderWay
  BY DEF Init, UnderWay
<1>2. \A k \in 1..Len(evidence) : evidence[k].began <= Disturbances
  BY <1>1
<1> QED
  BY <1>1, <1>2 DEF CInv, Ordered, Tagged, Fitting, Learnt, Reliable

\* A number of disturbances is a number.
LEMMA Numbered ==
    ASSUME TypeOK
    PROVE  /\ Disturbances \in Nat
           /\ evidence # <<>> => Newest \in Evidences /\ Newest.began \in Nat
           /\ op # None => op \in Operations /\ op.began \in Nat
           /\ \A k \in 1..Len(evidence) : evidence[k].began \in Nat
<1>1. changes \in Nat /\ faults \in Nat /\ crashes \in Nat
  BY DEF TypeOK
<1>2. Disturbances \in Nat
  BY <1>1 DEF Disturbances
<1>3. evidence \in Seq(Evidences)
  BY DEF TypeOK
<1>4. \A k \in 1..Len(evidence) : evidence[k] \in Evidences
  BY <1>3
<1>5. evidence # <<>> => Len(evidence) \in 1..Len(evidence)
  BY <1>3
<1>6. evidence # <<>> => Newest \in Evidences
  BY <1>4, <1>5 DEF Newest
<1>7. op # None => op \in Operations
  BY DEF TypeOK
<1>8. \A e \in Evidences : e.began \in Nat
  BY DEF Evidences
<1>9. \A o \in Operations : o.began \in Nat
  BY DEF Operations
<1> QED
  BY <1>2, <1>4, <1>6, <1>7, <1>8, <1>9

\* An operation begins with nothing behind it.
LEMMA CalmBeginning ==
    ASSUME IInv, CInv, BeginCheck \/ BeginRun
    PROVE  CInv'
<1>1. PICK kind \in {"check", "run"}, check \in Evidences \cup {None} : Begin(kind, check)
  <2>1. evidence # <<>> => evidence[Len(evidence)] \in Evidences
    BY DEF IInv, TypeOK
  <2> QED
    BY <2>1 DEF BeginCheck, BeginRun
<1> DEFINE o == [kind |-> kind, step |-> 0, resumed |-> FALSE, result |-> None,
                 source |-> None, image |-> None, boundAs |-> None,
                 found |-> None, seen |-> 0, check |-> check, began |-> Disturbances]
<1>2. /\ o \in Operations /\ o.result = None /\ o.step = 0 /\ Advance(o) /\ ~o.resumed
      /\ o.kind = kind /\ o.source = None /\ o.image = None /\ o.began = Disturbances
      /\ op = None /\ claims = {} /\ probe' = FALSE
      /\ UNCHANGED <<outside, machine, evidence, runtime, changes, faults, crashes>>
  BY <1>1 DEF Begin, Admits, Operations, Disturbances, IInv, TypeOK
<1> HIDE DEF o
<1>3. /\ op' \in Operations /\ UnderWay' /\ Path(op)' = Path(o) /\ op' # None
      /\ op' = [o EXCEPT !.step = op'.step]
      /\ op'.step \in 1..Len(Path(o)) /\ Step' = Path(o)[op'.step]
      /\ Applies(o.kind, Step')
      /\ \A k \in 1..(op'.step - 1) : ~Applies(o.kind, Path(o)[k])
  BY <1>2, Onward DEF outside, UnderWay
<1>4. /\ op'.kind = kind /\ op'.began = Disturbances /\ ~op'.resumed /\ op'.result = None
      /\ op'.source = None /\ op'.image = None
  BY <1>2, <1>3 DEF Operations
<1>5. /\ Disturbances' = Disturbances /\ Disturbances \in Nat /\ Newest' = Newest
      /\ Managed' = Managed /\ Builds' = Builds /\ Members' = Members
      /\ PlatformFingerprint(ModelBytes)' = PlatformFingerprint(ModelBytes)
      /\ ClusterFingerprint(binding)' = ClusterFingerprint(binding)
      /\ ~UnderWay /\ Step = "none" /\ ~At("claim-probe") /\ ~At("answer")
  BY <1>2, Numbered DEF Disturbances, Newest, Managed, Builds, Members, PlatformFingerprint,
     ModelBytes, ClusterFingerprint, outside, IInv, UnderWay, Step, At
<1>6. \A s : Applies(op.kind, s)' <=> Applies(o.kind, s)
  BY <1>2, <1>4, <1>5 DEF Applies, outside
<1>7. Behind' = {}
  BY <1>3, <1>6 DEF Behind
<1>8. Ordered'
  BY <1>2, <1>4, <1>5, Numbered DEF CInv, Ordered, IInv, Newest
<1>9. Tagged' /\ Fitting'
  BY <1>2, <1>3, <1>6 DEF CInv, Tagged, Fitting, machine
<1>10. Learnt'
  BY <1>4, <1>7 DEF Learnt
<1>11. Reliable'
  <2> SUFFICES ASSUME evidence # <<>>, Calm(Newest.began)
               PROVE  Reliable'
    BY <1>2, <1>5 DEF Reliable, Calm
  <2>1. /\ roomy' /\ ~foreign' /\ (recipe.nodes = 1 \/ workers = recipe.nodes - 1)'
        /\ (~Managed => ~probe)'
    BY <1>2, <1>5 DEF CInv, Reliable, outside
  <2>2. /\ (Newest.content = ModelBytes /\ Newest.platform = PlatformFingerprint(ModelBytes))'
        /\ (Newest.cluster = ClusterFingerprint(binding))'
        /\ (Newest.source = IF recipe.sourced /\ ~Managed THEN upstream ELSE None)'
    BY <1>2, <1>5 DEF CInv, Reliable, outside, ModelBytes
  <2>3. /\ (~Managed => \A n \in Members : Newest.image \in images[n])'
        /\ (Builds => tag = Newest.image)'
    BY <1>2, <1>5 DEF CInv, Reliable, machine
  <2>4. op'.result # "failed"
    BY <1>4, NoneAssumption
  <2> QED
    BY <2>1, <2>2, <2>3, <2>4 DEF Reliable
<1> QED
  BY <1>8, <1>9, <1>10, <1>11 DEF CInv

\* A check that passes without a disturbance has looked at everything that its
\* evidence will be relied on for.
LEMMA CalmVerdict ==
    ASSUME IInv, CInv, BindPreflight, Calm(op.began)
    PROVE  /\ roomy /\ ~foreign /\ (recipe.nodes = 1 \/ workers = recipe.nodes - 1)
           /\ op.seen = binding
           /\ op.source = IF recipe.sourced /\ ~Managed THEN upstream ELSE None
           /\ ~Managed => ~probe /\ \A n \in Members : op.found \in images[n]
           /\ Builds => tag = op.found
<1>1. /\ UnderWay /\ op \in Operations /\ Step = "bind" /\ op.kind = "check"
      /\ op.step \in 1..Len(Path(op)) /\ ~op.resumed
      /\ \A s \in Behind : Effect(s)
      /\ op.source \in {None, upstream} /\ (op.source # None => recipe.sourced /\ ~Managed)
  BY RunPath DEF BindPreflight, At, Step, UnderWay, IInv, TypeOK, Operations, CInv, Learnt
<1>2. CASE Managed
  <2>1. {"topology", "inspect", "capacity", "accelerators", "ports"} \subseteq Behind /\ ~Builds
    BY <1>1, <1>2, FreshPath, ManagedCheckOrder
  <2> QED
    BY <1>1, <1>2, <2>1 DEF Effect
<1>3. CASE ~Managed
  <2>1. /\ {"topology", "source", "image", "capacity", "accelerators", "ports", "answer", Finder}
             \subseteq Behind
        /\ recipe.nodes = 2 => "send" \in Behind
    BY <1>1, <1>3, FreshPath, ScriptCheckOrder
  <2>2. /\ roomy /\ ~foreign /\ (recipe.nodes = 1 \/ workers = recipe.nodes - 1) /\ ~probe
        /\ op.seen = binding /\ (recipe.sourced => op.source = upstream)
        /\ op.image = op.found /\ op.found \in images[HeadNode]
        /\ recipe.nodes = 2 => op.image \in images[PeerNode]
        /\ Builds => op.found = tag
    BY <1>1, <2>1 DEF Effect, Finder
  <2> QED
    BY <1>1, <1>3, <2>2 DEF Members, Nodes
<1> QED
  BY <1>2, <1>3

\* Cleaning up starts no probe.
LEMMA NoProbe ==
    ASSUME IInv, CloseRun \/ CleanupRetry \/ Stop \/ BootFails
    PROVE  probe' => probe
<1>1. TypeOK /\ Recorded /\ probe \in BOOLEAN
  BY DEF IInv, TypeOK
<1>2. CASE Sweeps(probe, "run")
  BY <1>1, <1>2, Sweeping
<1>3. CASE Sweeps(probe, "check")
  BY <1>1, <1>3, Sweeping
<1> QED
  BY <1>2, <1>3 DEF CloseRun, CleanupRetry, Stop, BootFails

\* Verdicts and failures.
LEMMA CalmConcluding ==
    ASSUME IInv, CInv, IInv', BindPreflight \/ Fails \/ CleanUp \/ CloseRun \/ Activate
    PROVE  CInv'
<1>1. /\ op # None /\ op \in Operations /\ UNCHANGED <<outside, machine>>
      /\ ~UnderWay' /\ op' \in {None} \cup Operations
      /\ op' # None => op'.began = op.began /\ op'.kind = op.kind
      /\ op'.result = "failed" /\ op' # None => Fails
  <2>1. op # None /\ op \in Operations /\ UNCHANGED <<outside, machine>>
    BY DEF IInv, TypeOK, BindPreflight, Fails, CleanUp, CloseRun, Activate, Switched, At,
           Step, UnderWay
  <2>2. CASE CleanUp \/ CloseRun
    BY <2>1, <2>2 DEF CleanUp, CloseRun, UnderWay
  <2>3. ASSUME NEW result \in {"passed", "failed"}, Ends(result)
        PROVE  /\ op' \in Operations /\ op'.result = result /\ ~UnderWay'
               /\ op'.began = op.began /\ op'.kind = op.kind
    BY <2>1, <2>3, NoneAssumption DEF Ends, Operations, UnderWay
  <2> QED
    BY <2>1, <2>2, <2>3 DEF BindPreflight, Fails, Activate
<1>2. /\ Disturbances \in Nat /\ Managed' = Managed /\ Builds' = Builds /\ Members' = Members
      /\ PlatformFingerprint(ModelBytes)' = PlatformFingerprint(ModelBytes)
      /\ ClusterFingerprint(binding)' = ClusterFingerprint(binding)
  BY <1>1, Numbered DEF IInv, Managed, Builds, Members, PlatformFingerprint, ModelBytes,
     ClusterFingerprint, outside
<1>3. Tagged' /\ Fitting' /\ Learnt'
  BY <1>1 DEF CInv, Tagged, Fitting, Learnt, machine
<1>4. CASE BindPreflight
  <2> DEFINE e == [source |-> op.source, image |-> op.found,
                   platform |-> PlatformFingerprint(ModelBytes),
                   cluster |-> ClusterFingerprint(op.seen),
                   content |-> ModelBytes, remaining |-> Remaining, began |-> op.began]
  <2>1. evidence' = Append(evidence, e) /\ evidence \in Seq(Evidences) /\ Disturbances' = Disturbances
    BY <1>4 DEF BindPreflight, IInv, TypeOK, Disturbances, bounds
  <2>2. /\ e.began = op.began /\ e.source = op.source /\ e.image = op.found
        /\ e.platform = PlatformFingerprint(ModelBytes) /\ e.content = ModelBytes
        /\ e.cluster = ClusterFingerprint(op.seen)
    OBVIOUS
  <2> HIDE DEF e
  <2>3. /\ evidence' # <<>> /\ Newest' = e /\ Len(evidence') = Len(evidence) + 1
        /\ \A k \in 1..Len(evidence') :
             evidence'[k] = e \/ (k \in 1..Len(evidence) /\ evidence'[k] = evidence[k])
    BY <2>1 DEF Newest
  <2>4. Ordered'
    <3>1. op.began <= Disturbances /\ op.began <= op.began
      BY <1>1, Numbered DEF CInv, Ordered, IInv
    <3> QED
      BY <1>1, <2>1, <2>2, <2>3, <3>1 DEF CInv, Ordered
  <2>5. Reliable'
    <3> SUFFICES ASSUME Calm(op.began)
                 PROVE  Reliable'
      BY <2>1, <2>2, <2>3 DEF Reliable, Calm
    <3>1. /\ (roomy /\ ~foreign /\ (recipe.nodes = 1 \/ workers = recipe.nodes - 1))'
          /\ (Newest.cluster = ClusterFingerprint(binding))'
          /\ (Newest.source = IF recipe.sourced /\ ~Managed THEN upstream ELSE None)'
      BY <1>1, <1>2, <1>4, <2>2, <2>3, CalmVerdict DEF outside
    <3>2. /\ (Newest.content = ModelBytes /\ Newest.platform = PlatformFingerprint(ModelBytes))'
      BY <1>2, <2>2, <2>3 DEF ModelBytes
    <3>3. /\ (~Managed => ~probe)'
          /\ (~Managed => \A n \in Members : Newest.image \in images[n])'
          /\ (Builds => tag = Newest.image)'
      BY <1>1, <1>2, <1>4, <2>2, <2>3, CalmVerdict DEF machine, leavings, BindPreflight
    <3>4. ~(op' # None /\ op'.result = "failed")
      BY <1>1, <1>4, NoneAssumption DEF BindPreflight, Ends, Operations
    <3> QED
      BY <3>1, <3>2, <3>3, <3>4 DEF Reliable
  <2> QED
    BY <1>3, <2>4, <2>5 DEF CInv
<1>5. CASE Fails \/ CleanUp \/ CloseRun \/ Activate
  <2>1. /\ evidence' = evidence /\ Newest' = Newest
        /\ Disturbances' \in Nat /\ Disturbances <= Disturbances'
    <3>1. evidence' = evidence /\ UNCHANGED <<changes, crashes>> /\ faults' \in {faults, faults + 1}
      BY <1>5 DEF Fails, Fault, CleanUp, CloseRun, Activate, bounds
    <3>2. changes \in Nat /\ faults \in Nat /\ crashes \in Nat
      BY DEF IInv, TypeOK
    <3>3. changes' = changes /\ crashes' = crashes /\ (faults' = faults \/ faults' = faults + 1)
      BY <3>1
    <3>4. /\ changes' + faults' + crashes' \in Nat
          /\ changes + faults + crashes <= changes' + faults' + crashes'
      BY <3>2, <3>3
    <3> QED
      BY <3>1, <3>4 DEF Newest, Disturbances
  <2>2. Ordered'
    BY <1>1, <1>2, <2>1, Numbered DEF CInv, Ordered, IInv
  <2>3. Reliable'
    <3> SUFFICES ASSUME evidence # <<>>, Calm(Newest.began)', Newest.began \in Nat,
                        Newest.began <= Disturbances
                 PROVE  Reliable'
      <4>1. evidence # <<>> => Newest.began \in Nat /\ Newest.began <= Disturbances
        <5>1. evidence # <<>> => Len(evidence) \in 1..Len(evidence)
          BY DEF IInv, TypeOK
        <5> QED
          BY <5>1, Numbered DEF CInv, Ordered, Newest, IInv
      <4> QED
        BY <2>1, <4>1 DEF Reliable
    <3>1. Disturbances' = Disturbances /\ Calm(Newest.began)
      BY <1>2, <2>1 DEF Calm
    <3>2. ASSUME Fails
          PROVE  op.kind = "run" /\ ~Managed /\ ~recipe.sourced /\ ~Can(Step)
      <4>1. UnderWay /\ (Can(Step) => faults' = faults + 1) /\ UNCHANGED <<changes, crashes>>
        BY <3>2 DEF Fails, Fault
      <4>2. ~Can(Step)
        <5>1. changes \in Nat /\ faults \in Nat /\ crashes \in Nat
          BY DEF IInv, TypeOK
        <5> QED
          BY <3>1, <4>1, <5>1 DEF Disturbances
      <4> QED
        BY <3>1, <4>1, <4>2, NothingMissing
    <3>3. (~Managed => ~probe)'
      <4>1. ~Managed /\ probe => Step \in {"claim-probe", "answer"}
        BY <3>1 DEF CInv, Reliable, At
      <4>2. CASE Fails
        <5>1. ProbeEnds \/ (Step \notin {"claim-probe", "answer"} /\ UNCHANGED probe)
          BY <3>2, <4>2 DEF Fails
        <5> QED
          BY <1>2, <4>1, <5>1 DEF ProbeEnds
      <4>3. CASE CleanUp \/ CloseRun \/ Activate
        <5>1. (probe' => probe) /\ Step \in {"none", "launch"}
          BY <4>3, NoProbe DEF CleanUp, CloseRun, Activate, leavings, Switched, At, Step, UnderWay
        <5> QED
          BY <1>2, <4>1, <5>1
      <4> QED
        BY <1>5, <4>2, <4>3
    <3>4. /\ (roomy /\ ~foreign /\ (recipe.nodes = 1 \/ workers = recipe.nodes - 1))'
          /\ (Newest.content = ModelBytes /\ Newest.platform = PlatformFingerprint(ModelBytes))'
          /\ (Newest.cluster = ClusterFingerprint(binding))'
          /\ (Newest.source = IF recipe.sourced /\ ~Managed THEN upstream ELSE None)'
      BY <1>1, <1>2, <2>1, <3>1 DEF CInv, Reliable, outside, ModelBytes
    <3>5. (~Managed => \A n \in Members : Newest.image \in images[n])'
      BY <1>1, <1>2, <2>1, <3>1 DEF CInv, Reliable, machine
    <3>6. (Builds => tag = Newest.image)'
      <4>1. UnderWay => op.kind # "check"
        <5>1. CASE Fails
          BY <3>2, <5>1
        <5>2. CASE CleanUp \/ CloseRun
          BY <5>2 DEF CleanUp, CloseRun, UnderWay
        <5>3. CASE Activate
          <6>1. op.kind = "check" => ~Switched
            BY <1>1, CheckPath DEF Switched, At, Step, IInv, TypeOK
          <6> QED
            BY <5>3, <6>1 DEF Activate
        <5> QED
          BY <1>5, <5>1, <5>2, <5>3
      <4> QED
        BY <1>1, <1>2, <2>1, <3>1, <4>1 DEF CInv, Reliable, machine
    <3>7. (op # None /\ op.result = "failed" => op.kind = "run" /\ ~Managed /\ ~recipe.sourced)'
      BY <1>1, <1>2, <3>2 DEF outside
    <3> QED
      BY <3>3, <3>4, <3>5, <3>6, <3>7 DEF Reliable
  <2> QED
    BY <1>3, <2>2, <2>3 DEF CInv
<1> QED
  BY <1>4, <1>5

\* What serves says nothing about what was checked, and an image more does no
\* harm to anybody.
LEMMA CalmIdling ==
    ASSUME IInv, CInv, UNCHANGED <<outside, tag, model, op, evidence, bounds>>, probe' => probe,
           \A n \in Nodes : images[n] \subseteq images'[n]
    PROVE  CInv'
<1>1. /\ Path(op)' = Path(op) /\ UnderWay' = UnderWay /\ Step' = Step /\ Behind' = Behind
      /\ Binder' = Binder /\ Disturbances' = Disturbances /\ Newest' = Newest
      /\ Managed' = Managed /\ Builds' = Builds /\ Members' = Members
      /\ PlatformFingerprint(ModelBytes)' = PlatformFingerprint(ModelBytes)
      /\ ClusterFingerprint(binding)' = ClusterFingerprint(binding)
  BY DEF Path, Managed, Builds, UnderWay, Step, Behind, Applies, Binder, Disturbances, Newest,
     Members, PlatformFingerprint, ModelBytes, ClusterFingerprint, outside, bounds
<1>2. HeadNode \in Nodes /\ PeerNode \in Nodes /\ Members \subseteq Nodes
  BY DEF Nodes, Members
<1>3. Ordered' /\ Tagged'
  BY <1>1, <1>2 DEF CInv, Ordered, Tagged
<1>4. Fitting'
  BY <1>1 DEF CInv, Fitting, Applies, Builds, outside
<1>5. \A s : Effect(s) => Effect(s)'
  BY <1>1, <1>2 DEF Effect, outside
<1>6. Learnt'
  BY <1>1, <1>5 DEF CInv, Learnt, Calm, outside
<1>7. Reliable'
  <2> SUFFICES ASSUME evidence # <<>>, Calm(Newest.began)
               PROVE  Reliable'
    BY <1>1 DEF Reliable, Calm
  <2>1. /\ (roomy /\ ~foreign /\ (recipe.nodes = 1 \/ workers = recipe.nodes - 1))'
        /\ (Newest.content = ModelBytes /\ Newest.platform = PlatformFingerprint(ModelBytes))'
        /\ (Newest.cluster = ClusterFingerprint(binding))'
        /\ (Newest.source = IF recipe.sourced /\ ~Managed THEN upstream ELSE None)'
    BY <1>1 DEF CInv, Reliable, outside, ModelBytes
  <2>2. /\ (~Managed /\ probe => At("claim-probe") \/ At("answer"))'
        /\ (Builds /\ ~(UnderWay /\ op.kind = "check") => tag = Newest.image)'
        /\ (op # None /\ op.result = "failed" => op.kind = "run" /\ ~Managed /\ ~recipe.sourced)'
    BY <1>1 DEF CInv, Reliable, outside, At
  <2>3. (~Managed => \A n \in Members : Newest.image \in images[n])'
    BY <1>1, <1>2 DEF CInv, Reliable
  <2> QED
    BY <2>1, <2>2, <2>3 DEF Reliable
<1> QED
  BY <1>3, <1>4, <1>6, <1>7 DEF CInv

\* After a disturbance nothing is relied on until the next check.
LEMMA Disturbed ==
    ASSUME IInv, CInv, Disturbances' = Disturbances + 1, Tagged', Fitting',
           op' # None => op # None /\ op'.began = op.began /\ evidence' = evidence,
           \A k \in 1..Len(evidence') : k \in 1..Len(evidence) /\ evidence'[k] = evidence[k],
           evidence' # <<>> => Len(evidence') \in 1..Len(evidence')
    PROVE  CInv'
<1>1. /\ Disturbances \in Nat
      /\ \A k \in 1..Len(evidence) :
            evidence[k].began \in Nat /\ evidence[k].began <= Disturbances
      /\ op # None => op.began \in Nat /\ op.began <= Disturbances
  BY Numbered DEF IInv, CInv, Ordered
<1>2. \A k \in 1..Len(evidence') :
        evidence'[k].began <= Disturbances' /\ evidence'[k].began # Disturbances'
  BY <1>1
<1>3. op' # None => op'.began <= Disturbances' /\ op'.began # Disturbances'
  BY <1>1
<1>4. op' # None => (evidence # <<>> => Newest.began <= op.began) /\ Newest' = Newest
  BY DEF CInv, Ordered, Newest
<1>5. Ordered'
  BY <1>2, <1>3, <1>4 DEF Ordered
<1>6. Learnt'
  BY <1>3 DEF Learnt, Calm, UnderWay
<1>7. Reliable'
  BY <1>2 DEF Reliable, Calm, Newest
<1> QED
  BY <1>5, <1>6, <1>7 DEF CInv

\* An end of a probe or of a workspace that fails is a disturbance.
LEMMA CalmSlipping ==
    ASSUME IInv, CInv, ProbeStays \/ WorkspaceStays
    PROVE  CInv'
<1>1. /\ op \in Operations /\ op # None /\ Fault
      /\ UNCHANGED <<outside, machine, evidence, changes, crashes>>
  BY DEF ProbeStays, WorkspaceStays, At, Step, UnderWay, IInv, TypeOK
<1>2. Disturbances' = Disturbances + 1
  <2>1. changes \in Nat /\ faults \in Nat /\ crashes \in Nat
    BY DEF IInv, TypeOK
  <2>2. changes' = changes /\ crashes' = crashes /\ faults' = faults + 1
    BY <1>1 DEF Fault
  <2>3. changes' + faults' + crashes' = changes + faults + crashes + 1
    BY <2>1, <2>2
  <2> QED
    BY <2>3 DEF Disturbances
<1>3. Tagged'
  BY <1>1 DEF CInv, Tagged, machine
<1>4. evidence # <<>> => Len(evidence) \in 1..Len(evidence)
  BY DEF IInv, TypeOK
<1>5. CASE WorkspaceStays
  <2>1. op' = None
    BY <1>5 DEF WorkspaceStays
  <2> QED
    BY <1>1, <1>2, <1>3, <1>4, <2>1, Disturbed DEF Fitting, UnderWay
<1>6. CASE ProbeStays
  <2>1. UnderWay /\ op.result = None /\ Advance(op)
    BY <1>6 DEF ProbeStays, At, Step, UnderWay
  <2>2. /\ op' \in Operations /\ op' = [op EXCEPT !.step = op'.step]
        /\ Step' = Path(op)[op'.step] /\ Applies(op.kind, Path(op)[op'.step])
    BY <1>1, <2>1, Onward DEF outside
  <2>3. op'.began = op.began /\ op'.kind = op.kind
    BY <1>1, <2>2 DEF Operations
  <2>4. Fitting'
    BY <1>1, <2>2, <2>3 DEF Fitting, Applies, Builds, outside
  <2> QED
    BY <1>1, <1>2, <1>3, <1>4, <2>3, <2>4, Disturbed
<1> QED
  BY <1>5, <1>6

\* A sequence without its last element.
LEMMA WithoutLast ==
    ASSUME NEW S, NEW s \in Seq(S), s # <<>>,
           NEW t, t = SubSeq(s, 1, Len(s) - 1)
    PROVE  /\ \A k \in 1..Len(t) : k \in 1..Len(s) /\ t[k] = s[k]
           /\ t # <<>> => Len(t) \in 1..Len(t)
<1>1. Len(s) \in Nat /\ Len(s) >= 1 /\ \A k \in 1..Len(s) : s[k] \in S
  OBVIOUS
<1>2. Len(s) - 1 \in Int /\ 1 \in Int /\ \A k \in 1..(Len(s) - 1) : s[k] \in S
  BY <1>1
<1>3. /\ t \in Seq(S)
      /\ Len(t) = IF 1 <= Len(s) - 1 THEN (Len(s) - 1) - 1 + 1 ELSE 0
      /\ \A k \in 1..((Len(s) - 1) - 1 + 1) : t[k] = s[1 + k - 1]
  BY <1>2, SubSeqProperties
<1>4. Len(t) = Len(s) - 1
  <2>1. \A m, n \in Nat : n >= 1 /\ m = (IF 1 <= n - 1 THEN (n - 1) - 1 + 1 ELSE 0) => m = n - 1
    OBVIOUS
  <2>2. Len(t) \in Nat
    BY <1>3
  <2> QED
    BY <1>1, <1>3, <2>1, <2>2
<1>5. ASSUME NEW k \in 1..Len(t)
      PROVE  k \in 1..Len(s) /\ t[k] = s[k]
  <2>1. k \in 1..((Len(s) - 1) - 1 + 1) /\ 1 + k - 1 = k /\ k \in 1..Len(s)
    BY <1>1, <1>4
  <2> QED
    BY <1>3, <2>1
<1>6. t # <<>> => Len(t) \in 1..Len(t)
  BY <1>3
<1> QED
  BY <1>5, <1>6

\* A kill is a disturbance.
LEMMA CalmRestarting ==
    ASSUME IInv, CInv, Restart
    PROVE  CInv'
<1>1. /\ crashes' = crashes + 1 /\ UNCHANGED <<recipe, machine, changes, faults>>
  BY DEF Restart
<1>2. Disturbances' = Disturbances + 1
  <2>1. changes \in Nat /\ faults \in Nat /\ crashes \in Nat
    BY DEF IInv, TypeOK
  <2>2. changes' = changes /\ faults' = faults
    BY <1>1
  <2>3. changes' + faults' + crashes' = changes + faults + crashes + 1
    BY <1>1, <2>1, <2>2
  <2> QED
    BY <2>3 DEF Disturbances
<1>3. Tagged'
  BY <1>1 DEF CInv, Tagged, machine
<1>4. evidence \in Seq(Evidences) /\ (evidence # <<>> => Len(evidence) \in 1..Len(evidence))
  BY DEF IInv, TypeOK
<1>5. PICK reboot \in BOOLEAN : IF UnderWay THEN Resumes(reboot) ELSE Reconciles(reboot)
  BY DEF Restart
<1>6. CASE UnderWay
  <2> DEFINE o == [op EXCEPT !.step = 0, !.resumed = TRUE, !.found = None]
  <2>1. /\ evidence' = evidence
        /\ op' = None \/ Advance(o)
    BY <1>5, <1>6 DEF Resumes
  <2>2. /\ o \in Operations /\ o.result = None /\ o.began = op.began /\ op # None
    BY <1>6 DEF Operations, UnderWay, IInv, TypeOK
  <2> HIDE DEF o
  <2>3. CASE op' = None
    BY <1>2, <1>3, <1>4, <2>1, <2>3, Disturbed DEF Fitting, UnderWay
  <2>4. CASE Advance(o)
    <3>1. /\ op' \in Operations /\ op' = [o EXCEPT !.step = op'.step]
          /\ Step' = Path(o)[op'.step] /\ Applies(o.kind, Path(o)[op'.step])
      BY <1>1, <2>2, <2>4, Onward
    <3>2. op'.began = op.began /\ op'.kind = o.kind
      BY <2>2, <3>1 DEF Operations
    <3>3. Fitting'
      BY <1>1, <3>1, <3>2 DEF Fitting, Applies, Builds
    <3> QED
      BY <1>2, <1>3, <1>4, <2>1, <2>2, <3>2, <3>3, Disturbed
  <2> QED
    BY <2>1, <2>3, <2>4
<1>7. CASE ~UnderWay
  <2>1. /\ op' = None
        /\ evidence' \in {evidence, SubSeq(evidence, 1, Len(evidence) - 1)}
    BY <1>5, <1>7 DEF Reconciles
  <2>2. /\ \A k \in 1..Len(evidence') : k \in 1..Len(evidence) /\ evidence'[k] = evidence[k]
        /\ evidence' # <<>> => Len(evidence') \in 1..Len(evidence')
    <3>1. CASE evidence' = evidence
      BY <1>4, <3>1
    <3>2. CASE evidence' = SubSeq(evidence, 1, Len(evidence) - 1) /\ evidence # <<>>
      BY <1>4, <3>2, WithoutLast
    <3>3. evidence = <<>> => SubSeq(evidence, 1, Len(evidence) - 1) = <<>>
      OBVIOUS
    <3> QED
      BY <2>1, <3>1, <3>2, <3>3
  <2> QED
    BY <1>2, <1>3, <2>1, <2>2, Disturbed DEF Fitting, UnderWay
<1> QED
  BY <1>6, <1>7

\* So is everything that the world does.
LEMMA CalmMoving ==
    ASSUME IInv, CInv, World
    PROVE  CInv'
<1>1. UNCHANGED <<recipe, op, evidence, faults, crashes>> /\ changes' = changes + 1
  BY DEF World, Changes, MoveSource, MoveTag, ChangeCluster, Listen, UseDisk, RemoveImage,
     DamageModel, outside
<1>2. Disturbances' = Disturbances + 1
  <2>1. changes \in Nat /\ faults \in Nat /\ crashes \in Nat
    BY DEF IInv, TypeOK
  <2>2. faults' = faults /\ crashes' = crashes
    BY <1>1
  <2>3. changes' + faults' + crashes' = changes + faults + crashes + 1
    BY <1>1, <2>1, <2>2
  <2> QED
    BY <2>3 DEF Disturbances
<1>3. Fitting'
  BY <1>1 DEF CInv, Fitting, UnderWay, Step, Path, Managed, Applies, Builds
<1>4. Tagged'
  <2>1. CASE RemoveImage
    <3>1. PICK n \in Members, content \in Contents :
            /\ images' = [images EXCEPT ![n] = @ \ {content}]
            /\ tag' = IF n = HeadNode /\ tag = content THEN None ELSE tag
      BY <2>1 DEF RemoveImage
    <3>2. images \in [Nodes -> SUBSET Contents] /\ n \in Nodes /\ HeadNode \in Nodes
      BY DEF IInv, TypeOK, Members, Nodes
    <3>3. n # HeadNode => images'[HeadNode] = images[HeadNode]
      BY <3>1, <3>2
    <3>4. n = HeadNode => images'[HeadNode] = images[HeadNode] \ {content}
      BY <3>1, <3>2
    <3> QED
      BY <3>1, <3>3, <3>4 DEF CInv, Tagged
  <2>2. CASE ~RemoveImage
    <3>1. UNCHANGED <<tag, images>>
      BY <2>2 DEF World, MoveSource, MoveTag, ChangeCluster, Listen, UseDisk, DamageModel, machine
    <3> QED
      BY <3>1 DEF CInv, Tagged
  <2> QED
    BY <2>1, <2>2
<1>5. evidence # <<>> => Len(evidence) \in 1..Len(evidence)
  BY DEF IInv, TypeOK
<1> QED
  BY <1>1, <1>2, <1>3, <1>4, <1>5, Disturbed

\* Every step keeps what is relied on while nothing disturbs it.
LEMMA CalmInductive == IInv /\ IInv' /\ CInv /\ [Next]_vars => CInv'
<1> SUFFICES ASSUME IInv, IInv', CInv, [Next]_vars
             PROVE  CInv'
  OBVIOUS
<1>1. CASE \/ \E n \in Nodes : Launch(n) \/ RestartAfterBoot(n)
           \/ Stop \/ BootFails \/ CleanupRetry \/ UNCHANGED vars
  <2>1. UNCHANGED <<outside, tag, model, op, evidence, bounds>>
    BY <1>1 DEF Launch, RestartAfterBoot, Stop, BootFails, CleanupRetry, vars, outside, machine,
                bounds
  <2>3. probe' => probe
    <3>1. CASE Stop \/ BootFails \/ CleanupRetry
      BY <3>1, NoProbe
    <3>2. CASE \/ \E n \in Nodes : Launch(n) \/ RestartAfterBoot(n)
               \/ UNCHANGED vars
      BY <3>2 DEF Launch, RestartAfterBoot, vars, leavings
    <3> QED
      BY <1>1, <3>1, <3>2
  <2>2. \A n \in Nodes : images[n] \subseteq images'[n]
    <3>1. CASE \E n \in Nodes : RestartAfterBoot(n)
      BY <3>1 DEF RestartAfterBoot, IInv, TypeOK
    <3>2. CASE \/ \E n \in Nodes : Launch(n)
               \/ Stop \/ BootFails \/ CleanupRetry \/ UNCHANGED vars
      BY <3>2 DEF Launch, Stop, BootFails, CleanupRetry, vars, machine
    <3> QED
      BY <1>1, <3>1, <3>2
  <2> QED
    BY <2>1, <2>2, <2>3, CalmIdling
<1>2. CASE BeginCheck \/ BeginRun
  BY <1>2, CalmBeginning
<1>3. CASE BindPreflight \/ Fails \/ CleanUp \/ CloseRun \/ Activate
  BY <1>3, CalmConcluding
<1>4. CASE PrepareImage \/ PinImage \/ Reuse \/ BuildForRun
  BY <1>4, CalmBinding
<1>5. CASE Restart \/ World \/ ProbeStays \/ WorkspaceStays
  BY <1>5, CalmRestarting, CalmMoving, CalmSlipping
<1> QED
  BY <1>1, <1>2, <1>3, <1>4, <1>5, CalmObserving, CalmFetching DEF Next

\* A check that passed is an answer that holds: as long as nothing around the
\* operations changes and nothing is cut off, no later check fails and no run
\* of a recipe that can be attested.
THEOREM AnUnchangedMachineIsEnough == Spec => []AnUnchangedMachineRuns
<1>1. IInv /\ CInv => AnUnchangedMachineRuns
  <2> SUFFICES ASSUME IInv, CInv, op # None, op.result = "failed", evidence # <<>>,
                      Managed \/ recipe.sourced
               PROVE  Disturbances > Newest.began
    BY DEF AnUnchangedMachineRuns, Newest
  <2>1. Disturbances \in Nat /\ Newest.began \in Nat
    BY Numbered DEF IInv
  <2>2. Newest.began <= Disturbances
    <3>1. Len(evidence) \in 1..Len(evidence)
      BY DEF IInv, TypeOK
    <3> QED
      BY <3>1 DEF CInv, Ordered, Newest
  <2>3. ~Calm(Newest.began)
    BY DEF CInv, Reliable
  <2> QED
    BY <2>1, <2>2, <2>3 DEF Calm
<1>2. Spec => [](IInv /\ CInv)
  BY InitInv, Inductive, CalmInit, CalmInductive, PTL DEF Spec
<1> QED
  BY <1>1, <1>2, PTL
=============================================================================
