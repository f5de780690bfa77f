--------------------------- MODULE RecipeEvidence ---------------------------
(***************************************************************************)
(* From a check to a launch: what a check of a recipe finds and records,   *)
(* and how a run prepares the same content, finds it again and starts it   *)
(* on one Spark or on two (internal/api/local_recipes.go,                  *)
(* recipe_managed_lifecycle.go and the recipe_*_preflight.go files).       *)
(*                                                                         *)
(* A check and a run are sequences of steps, and the machine, the registry *)
(* and the source may change between any two of them.  A step observes the *)
(* world, or changes it; a step that does not find what it needs ends the  *)
(* operation, and so does one that is cut off.  The daemon may be killed   *)
(* at any step, alone or with the machine.                                 *)
(***************************************************************************)
EXTENDS Integers, Sequences

CONSTANTS
    Contents,       \* contents of an image; commits of a source
    Recipes,        \* the recipes to look at
    MaxCalls,       \* checks and runs
    MaxChanges,     \* changes of the world around the operations
    MaxFaults,      \* steps that fail for a passing reason
    MaxCrashes,     \* times the daemon is killed
    MovedTags,      \* a recipe of scripts is restored though its tag moved
    None

ASSUME ContentsAssumption == Contents \subseteq Nat \ {0} /\ 1 \in Contents

\* What a check found, and what is attested and started of it.
Identities == [source : Contents \cup {None}, image : Contents]
Evidences ==
    [source : Contents \cup {None}, image : Contents, platform : {0, 1} \X Nat,
     cluster : Nat, content : Nat, remaining : Nat, began : Nat]
Operations ==
    [kind : {"check", "run"}, step : Nat, resumed : BOOLEAN,
     result : {None, "passed", "failed"}, source : Contents \cup {None},
     image : Contents \cup {None}, boundAs : {None, "local", "manifest"},
     found : Contents \cup {None}, seen : Nat, check : Evidences \cup {None}, began : Nat]

ASSUME NoneAssumption ==
    /\ None \notin {"passed", "failed"} /\ None \notin Contents
    /\ None \notin Identities /\ None \notin Operations

VARIABLES
    recipe,         \* the recipe; it does not change
    upstream,       \* the commit its source reference names
    registry,       \* the content its image reference names in the registry
    tag,            \* the content the reference names on the head
    images,         \* node -> contents on its disk
    binding,        \* number of changes of the cluster's identity
    workers,        \* enrolled workers
    platform,       \* driver and accelerators of this boot
    foreign,        \* somebody else listens on a port of the recipe
    roomy,          \* the disk has room for what is missing
    model,          \* the snapshot on the head: "whole" or "damaged"
    op,             \* the operation under way
    evidence,       \* the checks that passed, oldest first
    claims,         \* what an operation has on record as its own
    owner,          \* the operation that is over and has them: a check, one that passed, a run
    workspace,      \* the check's checkout exists
    probe,          \* the contract probe of the newest operation runs
    active,         \* the operation that runs, with what it is bound to
    booting,        \* the active recipe is being restored after a boot
    attested,       \* history: what was attested before the launch
    serving,        \* node -> what its container runs
    slipped,        \* history: the daemon was killed under the newest operation, or
                    \* its probe's start, its probe's end or a removal failed
    calls, changes, faults, crashes

outside == <<recipe, upstream, registry, binding, workers, platform, foreign, roomy>>
machine == <<tag, images, model>>
runtime == <<active, booting, attested, serving>>
leavings == <<claims, owner, workspace, probe, slipped>>
bounds == <<calls, changes, faults, crashes>>
vars == <<recipe, upstream, registry, tag, images, binding, workers, platform, foreign,
          roomy, model, op, evidence, claims, owner, workspace, probe, active, booting,
          attested, serving, slipped, calls, changes, faults, crashes>>

HeadNode == "head"
PeerNode == "peer"
Nodes == {HeadNode, PeerNode}
Members == IF recipe.nodes = 2 THEN Nodes ELSE {HeadNode}
Pinned == 1     \* the content a container recipe names by its digest

Managed == recipe.adapter = "managed"
Builds == recipe.adapter = "build"

-----------------------------------------------------------------------------
(* The steps *)

FaultyScriptCheck ==
    <<"topology", "workspace", "claim", "source", "inspect", "build", "peers",
      "image", "send", "capacity", "accelerators", "ports", "fabric",
      "probe", "claim-probe", "answer", "bind">>

\* The workspace is on record before it exists.
ScriptCheck ==
    <<"topology", "claim", "workspace", "source", "inspect", "build", "peers",
      "image", "send", "capacity", "accelerators", "ports", "fabric",
      "probe", "claim-probe", "answer", "bind">>
ManagedCheck ==
    <<"topology", "inspect", "capacity", "accelerators", "ports", "bind">>
ScriptRun ==
    <<"pin", "topology", "source", "build", "send", "model", "match", "images",
      "ports", "fabric", "probe", "claim-probe", "answer", "verify", "attest", "launch">>
ManagedRun ==
    <<"topology", "pin", "send", "images", "match", "ports", "attest", "launch">>

\* An image is built or comes from the registry; only a run that builds once
\* sends what it prepared, and a container recipe always does.
Applies(kind, step) ==
    /\ step \in {"inspect", "pin"} => ~Builds
    /\ step = "build" => Builds
    /\ step = "peers" => recipe.adapter = "registry"
    /\ step \in {"peers", "send", "fabric"} => recipe.nodes = 2
    /\ step = "send" /\ kind = "run" => recipe.adapter # "registry"

\* A restart resumes every interrupted operation along the path of scripts.
Path(o) ==
    LET scripts == ~Managed \/ o.resumed
    IN IF o.kind = "check" THEN IF scripts THEN ScriptCheck ELSE ManagedCheck
       ELSE IF scripts THEN ScriptRun ELSE ManagedRun

UnderWay == op # None /\ op.result = None
Step == IF UnderWay THEN Path(op)[op.step] ELSE "none"
At(step) == Step = step

\* After "attest" the engine that served before is stopped.
Switched == At("launch")

\* On to the next step of the path that applies.
Advance(o) ==
    \E next \in (o.step + 1)..Len(Path(o)) :
        /\ Applies(o.kind, Path(o)[next])
        /\ \A n \in (o.step + 1)..(next - 1) : ~Applies(o.kind, Path(o)[n])
        /\ op' = [o EXCEPT !.step = next]
Ends(result) == op' = [op EXCEPT !.result = result]

-----------------------------------------------------------------------------
(* What steps compare *)

\* The connections of an operation go where the Sparks were when it looked.
Reachable == recipe.nodes = 1 \/ op.seen = binding

\* Telemetry comes from every enrolled Spark and is matched with the selected ones.
Accelerators == recipe.nodes = 1 \/ (Reachable /\ workers = recipe.nodes - 1)

\* The memory a node needs follows from the size of the model.
PlatformFingerprint(bytes) == <<platform, bytes>>

\* One container on one Spark does not look at the cluster.
ClusterFingerprint(seen) == IF Managed /\ recipe.nodes = 1 THEN 0 ELSE seen

ModelBytes == 1
Remaining == IF model = "whole" THEN 0 ELSE ModelBytes

\* The size of the content, not what of it was missing when it was checked.
FaultyCheckedModelBytes(e) == e.remaining
CheckedModelBytes(e) == e.content

FaultyMatches(o) ==
    /\ o.check.platform = PlatformFingerprint(CheckedModelBytes(o.check))
    /\ o.check.cluster = ClusterFingerprint(binding)

\* What was prepared is what was checked, on the machine that was checked.
Matches(o) ==
    /\ o.source = o.check.source
    /\ o.check.platform = PlatformFingerprint(CheckedModelBytes(o.check))
    /\ o.check.cluster = ClusterFingerprint(binding)

\* An operation is bound to one image, under one name of it.
Bindable(content, name) ==
    \/ op.image = None
    \/ op.image = content /\ op.boundAs = name
Bind(content, name) == [op EXCEPT !.image = content, !.boundAs = name]

\* A content is on the disk, or there is room to bring it.
Obtainable(content) == content \in images[HeadNode] \/ roomy

Holds(n) == op.image \in images[n]

\* What a step has to find.
Can(step) ==
    /\ step = "source" /\ recipe.sourced => op.source \in {None, upstream}
    /\ step \in {"peers", "send", "ports", "fabric"} => Reachable
    /\ step \in {"accelerators", "match"} => Accelerators
    /\ step = "peers" => registry = op.found
    /\ step = "image" =>
        /\ Bindable(op.found, "local")
        /\ op.found \in images[HeadNode] \/ (~Builds /\ roomy)
    /\ step = "pin" =>
        /\ Obtainable(op.check.image)
        /\ Bindable(op.check.image, IF Managed /\ ~op.resumed THEN "manifest" ELSE "local")
    /\ step = "send" => Holds(HeadNode)
    /\ step = "build" => roomy \/ (op.kind = "run" /\ tag = op.check.image)
    /\ step = "capacity" => roomy
    /\ step = "ports" => ~foreign
    /\ step = "fabric" => \A n \in Members : Holds(n)
    /\ step = "probe" => ~probe /\ ~Managed /\ Holds(HeadNode)
    /\ step = "model" => model = "whole" \/ roomy
    /\ step = "verify" => model = "whole"
    /\ step = "match" => Matches(op)
    /\ step = "images" =>
        /\ op.image = op.check.image /\ Holds(HeadNode)
        /\ recipe.adapter = "registry" => Reachable /\ \A n \in Members : Holds(n)
    /\ step = "attest" /\ ~Managed =>
        recipe.sourced /\ Reachable /\ \A n \in Members : Holds(n)

-----------------------------------------------------------------------------
Init ==
    /\ recipe \in Recipes
    /\ upstream = 1 /\ registry = 1 /\ tag = None
    /\ images = [n \in Nodes |-> {}]
    /\ binding = 0 /\ workers = recipe.nodes - 1 /\ platform = 0
    /\ foreign = FALSE /\ roomy = TRUE /\ model = "whole"
    /\ op = None /\ evidence = <<>>
    /\ claims = {} /\ owner = None /\ workspace = FALSE /\ probe = FALSE /\ slipped = FALSE
    /\ active = None /\ booting = FALSE /\ attested = None
    /\ serving = [n \in Nodes |-> None]
    /\ calls = 0 /\ changes = 0 /\ faults = 0 /\ crashes = 0

\* Everything that could change what a check found.
Disturbances == changes + faults + crashes

\* A step or a removal fails for a passing reason.
Fault == faults < MaxFaults /\ faults' = faults + 1

\* The journal admits one operation, and none while something is left to clean.
Admits == op = None /\ active = None /\ claims = {}

\* A probe has the name of its operation; one that is on no record is in nobody's way.
Begin(kind, check) ==
    /\ Admits
    /\ calls < MaxCalls /\ calls' = calls + 1
    /\ Advance([kind |-> kind, step |-> 0, resumed |-> FALSE, result |-> None,
                source |-> None, image |-> None, boundAs |-> None,
                found |-> None, seen |-> 0, check |-> check, began |-> Disturbances])
    /\ probe' = FALSE /\ slipped' = FALSE
    /\ UNCHANGED <<outside, machine, evidence, claims, owner, workspace, runtime,
                   changes, faults, crashes>>

BeginCheck == Begin("check", None)

\* A run is bound to the newest check that passed.
BeginRun == evidence # <<>> /\ Begin("run", evidence[Len(evidence)])

-----------------------------------------------------------------------------
(* Steps that only look *)

Observe ==
    /\ Step \in {"peers", "capacity", "accelerators", "ports", "fabric",
                 "match", "images", "verify"}
    /\ Can(Step)
    /\ Advance(op)
    /\ UNCHANGED <<outside, machine, evidence, leavings, runtime, bounds>>

ReadCluster ==
    /\ At("topology")
    /\ Advance([op EXCEPT !.seen = binding])
    /\ UNCHANGED <<outside, machine, evidence, leavings, runtime, bounds>>

\* The digest the registry gives for the reference.
Inspect ==
    /\ At("inspect")
    /\ Advance([op EXCEPT !.found = IF Managed THEN Pinned ELSE registry])
    /\ UNCHANGED <<outside, machine, evidence, leavings, runtime, bounds>>

-----------------------------------------------------------------------------
(* Steps that prepare *)

ClaimWorkspace ==
    /\ At("claim")
    /\ claims' = claims \cup {"workspace"}
    /\ Advance(op)
    /\ UNCHANGED <<outside, machine, evidence, owner, workspace, probe, slipped, runtime, bounds>>

CreateWorkspace ==
    /\ At("workspace")
    /\ workspace' = TRUE
    /\ Advance(op)
    /\ UNCHANGED <<outside, machine, evidence, claims, owner, probe, slipped, runtime, bounds>>

\* The commit that was fetched is bound to the operation once.
FetchSource ==
    /\ At("source") /\ Can("source")
    /\ Advance(IF recipe.sourced THEN [op EXCEPT !.source = upstream] ELSE op)
    /\ UNCHANGED <<outside, machine, evidence, leavings, runtime, bounds>>

\* A check builds and names what came out.
BuildForCheck ==
    /\ At("build") /\ op.kind = "check" /\ Can("build")
    /\ \E content \in Contents :
        /\ tag' = content
        /\ images' = [images EXCEPT ![HeadNode] = @ \cup {content}]
        /\ Advance([op EXCEPT !.found = content])
    /\ UNCHANGED <<outside, model, evidence, leavings, runtime, bounds>>

\* Only the content that was checked is reused without building it again.
Reusable == tag = op.check.image

Reuse ==
    /\ At("build") /\ op.kind = "run" /\ Reusable
    /\ IF Bindable(tag, "local") THEN Advance(Bind(tag, "local")) ELSE Ends("failed")
    /\ UNCHANGED <<outside, machine, evidence, leavings, runtime, bounds>>

\* Another build has to give the content that was checked.
BuildForRun ==
    /\ At("build") /\ op.kind = "run" /\ ~Reusable /\ Can("build")
    /\ \E content \in Contents :
        /\ tag' = content
        /\ images' = [images EXCEPT ![HeadNode] = @ \cup {content}]
        /\ IF content = op.check.image /\ Bindable(content, "local")
           THEN Advance(Bind(content, "local")) ELSE Ends("failed")
    /\ UNCHANGED <<outside, model, evidence, leavings, runtime, bounds>>

\* A check brings the content it found and binds itself to it.
PrepareImage ==
    /\ At("image") /\ Can("image")
    /\ images' = [images EXCEPT ![HeadNode] = @ \cup {op.found}]
    /\ Advance(Bind(op.found, "local"))
    /\ UNCHANGED <<outside, tag, model, evidence, leavings, runtime, bounds>>

\* A run brings the content of the check by its digest.
PinImage ==
    /\ At("pin") /\ Can("pin")
    /\ images' = [images EXCEPT ![HeadNode] = @ \cup {op.check.image}]
    /\ Advance(Bind(op.check.image, IF Managed /\ ~op.resumed THEN "manifest" ELSE "local"))
    /\ UNCHANGED <<outside, tag, model, evidence, leavings, runtime, bounds>>

\* The other Spark gets the content itself and not its name.
SendImage ==
    /\ At("send") /\ Can("send")
    /\ images' = [images EXCEPT ![PeerNode] = @ \cup {op.image}]
    /\ Advance(op)
    /\ UNCHANGED <<outside, tag, model, evidence, leavings, runtime, bounds>>

\* The snapshot is verified, or repaired by a download.
PrepareModel ==
    /\ At("model") /\ Can("model")
    /\ model' = "whole"
    /\ Advance(op)
    /\ UNCHANGED <<outside, tag, images, evidence, leavings, runtime, bounds>>

-----------------------------------------------------------------------------
(* The probe of the runtime's contract: run, claimed, asked and removed *)

StartProbe ==
    /\ At("probe") /\ Can("probe")
    /\ probe' = TRUE
    /\ Advance(op)
    /\ UNCHANGED <<outside, machine, evidence, claims, owner, workspace, slipped, runtime, bounds>>

ClaimProbe ==
    /\ At("claim-probe")
    /\ claims' = claims \cup {"probe"}
    /\ Advance(op)
    /\ UNCHANGED <<outside, machine, evidence, owner, workspace, probe, slipped, runtime, bounds>>

ProbeEnds == probe' = FALSE /\ claims' = claims \ {"probe"} /\ UNCHANGED slipped

\* A start that is cut off may leave a container.  The error of a removal is not
\* looked at, and one that cannot be inspected counts as gone; the save that
\* gives up the claim may fail as well.
ProbeSlips ==
    /\ probe' \in BOOLEAN /\ claims' \in {claims, claims \ {"probe"}}
    /\ slipped' = TRUE

EndProbe ==
    /\ At("answer")
    /\ ProbeEnds
    /\ Advance(op)
    /\ UNCHANGED <<outside, machine, evidence, owner, workspace, runtime, bounds>>

\* The operation goes on without the end of its probe.
ProbeStays ==
    /\ At("answer") /\ Fault
    /\ ProbeSlips
    /\ Advance(op)
    /\ UNCHANGED <<outside, machine, evidence, owner, workspace, runtime, calls, changes, crashes>>

-----------------------------------------------------------------------------
(* Endings *)

\* The evidence is bound to the machine as the check saw it.
BindPreflight ==
    /\ At("bind")
    /\ Ends("passed")
    /\ evidence' = Append(evidence,
           [source |-> op.source, image |-> op.found,
            platform |-> PlatformFingerprint(ModelBytes),
            cluster |-> ClusterFingerprint(op.seen),
            content |-> ModelBytes, remaining |-> Remaining, began |-> op.began])
    /\ UNCHANGED <<outside, machine, leavings, runtime, bounds>>

\* A step fails: it does not find what it needs, or it is cut off.  A probe
\* that runs is removed, and what was launched is rolled back.
Fails ==
    /\ UnderWay
    /\ IF Can(Step) THEN Fault ELSE UNCHANGED faults
    /\ Ends("failed")
    /\ \/ Step \notin {"claim-probe", "answer"} /\ UNCHANGED <<probe, claims, slipped>>
       \/ Step \in {"claim-probe", "answer"} /\ ProbeEnds
       \/ Step \in {"probe", "claim-probe", "answer"} /\ Can(Step) /\ ProbeSlips
    /\ IF Switched
       THEN serving' = [n \in Nodes |-> None] /\ attested' = None
       ELSE UNCHANGED <<serving, attested>>
    /\ UNCHANGED <<outside, machine, evidence, owner, workspace, active, booting,
                   calls, changes, crashes>>

\* What is left when an operation is over, and whose it is.
Owner(o) == IF o.kind = "check" /\ o.result = "passed" THEN "passed" ELSE o.kind
OwnedBy(whose) == owner' = IF claims' = {} THEN None ELSE whose

\* What is on record is removed and then given up as far as it is gone.  A
\* check's probe is not looked for, and what cannot be removed stays on record.
Sweeps(there, whose) ==
    /\ \E removed \in BOOLEAN :
        /\ workspace' = (workspace /\ ~removed)
        /\ probe' = (there /\ (whose = "check" \/ ~removed))
        /\ claims' = IF ~removed THEN claims
                     ELSE IF probe' THEN claims \cap {"probe"} ELSE {}
    /\ OwnedBy(whose)

\* What a check deferred runs after its last transition.
CleanUp ==
    /\ op # None /\ op.result # None /\ op.kind = "check"
    /\ workspace' = FALSE /\ claims' = claims \ {"workspace"}
    /\ OwnedBy(Owner(op))
    /\ op' = None
    /\ UNCHANGED <<outside, machine, evidence, probe, slipped, runtime, bounds>>

\* The workspace cannot be removed, or the save that gives up its claim fails.
WorkspaceStays ==
    /\ op # None /\ op.result # None /\ op.kind = "check" /\ "workspace" \in claims
    /\ Fault
    /\ workspace' \in {workspace, FALSE} /\ UNCHANGED claims
    /\ OwnedBy(Owner(op))
    /\ slipped' = TRUE
    /\ op' = None
    /\ UNCHANGED <<outside, machine, evidence, probe, runtime, calls, changes, crashes>>

\* A run that failed looks for what it has on record; one that passed keeps it.
CloseRun ==
    /\ op # None /\ op.result # None /\ op.kind = "run"
    /\ IF op.result = "failed" THEN Sweeps(probe, "run")
       ELSE UNCHANGED <<workspace, probe, claims>> /\ OwnedBy("run")
    /\ op' = None
    /\ UNCHANGED <<outside, machine, evidence, slipped, runtime, bounds>>

\* The owner asks for another try, which an operation that passed does not have.
CleanupRetry ==
    /\ op = None /\ active = None /\ owner \in {"check", "run"}
    /\ Sweeps(probe, owner)
    /\ UNCHANGED <<outside, machine, op, evidence, slipped, runtime, bounds>>

Identity(o) == [source |-> o.source, image |-> o.image]

\* The last look before the engine that serves is stopped.
AttestNodes ==
    /\ At("attest") /\ Can("attest")
    /\ attested' = Identity(op)
    /\ Advance(op)
    /\ UNCHANGED <<outside, machine, evidence, leavings, active, booting, serving, bounds>>

\* Workers start before the head; a node without the content cannot start.
Launch(n) ==
    /\ Switched
    /\ n \in Members /\ serving[n] = None /\ Holds(n) /\ Reachable
    /\ n = HeadNode => \A m \in Members \ {HeadNode} : serving[m] # None
    /\ serving' = [serving EXCEPT ![n] = Identity(op)]
    /\ UNCHANGED <<outside, machine, op, evidence, leavings, active, booting, attested, bounds>>

Activate ==
    /\ Switched /\ \A n \in Members : serving[n] # None
    /\ active' = Identity(op)
    /\ Ends("passed")
    /\ UNCHANGED <<outside, machine, evidence, leavings, booting, attested, serving, bounds>>

Stop ==
    /\ active # None /\ op = None
    /\ active' = None /\ booting' = FALSE
    /\ serving' = [n \in Nodes |-> None] /\ attested' = None
    /\ Sweeps(probe, "run")
    /\ UNCHANGED <<outside, machine, op, evidence, slipped, bounds>>

-----------------------------------------------------------------------------
(* The daemon is killed *)

\* An interrupted check or preparation starts again under its bindings, unless
\* something of it cannot be removed; what was launching is rolled back.
Resumes(reboot) ==
    /\ Sweeps(probe /\ ~reboot, op.kind)
    /\ IF Switched \/ claims' # {} THEN op' = None
       ELSE Advance([op EXCEPT !.step = 0, !.resumed = TRUE, !.found = None])
    /\ serving' = [n \in Nodes |-> None] /\ attested' = None
    /\ UNCHANGED <<evidence, active, booting>>

\* What an operation that is over left is removed, but not under an active run.
\* A check whose leftovers are still on record loses its verdict with them.
Reconciles(reboot) ==
    LET there == probe /\ ~reboot
        whose == IF op # None THEN Owner(op) ELSE owner
    IN /\ op' = None
       /\ IF active = None /\ claims # {}
          THEN /\ Sweeps(there, IF whose = "run" THEN "run" ELSE "check")
               /\ evidence' = IF whose = "passed" THEN SubSeq(evidence, 1, Len(evidence) - 1)
                              ELSE evidence
          ELSE /\ probe' = there /\ UNCHANGED <<workspace, claims, evidence>>
               /\ OwnedBy(whose)
       /\ IF reboot
          THEN /\ serving' = [n \in Nodes |-> None]
               /\ booting' = (active # None)
          ELSE UNCHANGED <<serving, booting>>
       /\ UNCHANGED <<active, attested>>

\* With the machine its containers are gone, and its driver may be another.
Restart ==
    /\ crashes < MaxCrashes /\ crashes' = crashes + 1
    /\ \E reboot \in BOOLEAN :
        /\ IF UnderWay THEN Resumes(reboot) ELSE Reconciles(reboot)
        /\ platform' \in IF reboot THEN {platform, 1 - platform} ELSE {platform}
    /\ slipped' = TRUE
    /\ UNCHANGED <<recipe, upstream, registry, binding, workers, foreign, roomy, machine,
                   calls, changes, faults>>

\* A recipe of scripts starts again under its own reference: what it names now
\* in the registry, or on the head, which alone has the name of what it built.
BootImage ==
    IF Managed THEN active.image ELSE IF Builds THEN tag ELSE registry

CanBoot(n) ==
    /\ Managed => BootImage \in images[n]
    /\ Builds => n = HeadNode /\ tag # None

\* The active recipe is started again after a boot, node by node.
RestartAfterBoot(n) ==
    /\ booting /\ n \in Members /\ serving[n] = None
    /\ n = HeadNode => \A m \in Members \ {HeadNode} : serving[m] # None
    /\ CanBoot(n)
    /\ MovedTags \/ BootImage = active.image
    /\ images' = [images EXCEPT ![n] = @ \cup {BootImage}]
    /\ serving' = [serving EXCEPT ![n] = [active EXCEPT !.image = BootImage]]
    /\ booting' = \E m \in Members : serving'[m] = None
    /\ UNCHANGED <<outside, tag, model, op, evidence, leavings, active, attested, bounds>>

\* A node that cannot start ends the recovery and the run.
BootFails ==
    /\ booting /\ \E n \in Members : serving[n] = None /\ ~CanBoot(n)
    /\ active' = None /\ booting' = FALSE
    /\ serving' = [n \in Nodes |-> None] /\ attested' = None
    /\ Sweeps(probe, "run")
    /\ UNCHANGED <<outside, machine, op, evidence, slipped, bounds>>

-----------------------------------------------------------------------------
(* The world around the operations *)

Changes == changes < MaxChanges /\ changes' = changes + 1

MoveSource ==
    /\ recipe.sourced /\ upstream' \in Contents \ {upstream}
    /\ UNCHANGED <<recipe, registry, binding, workers, platform, foreign, roomy, machine>>

MoveTag ==
    /\ recipe.adapter = "registry" /\ registry' \in Contents \ {registry}
    /\ UNCHANGED <<recipe, upstream, binding, workers, platform, foreign, roomy, machine>>

\* Sparks are bound to other addresses, or one more is enrolled.
ChangeCluster ==
    /\ binding' = binding + 1
    /\ workers' \in {workers, recipe.nodes}
    /\ UNCHANGED <<recipe, upstream, registry, platform, foreign, roomy, machine>>

Listen ==
    /\ foreign' = ~foreign
    /\ UNCHANGED <<recipe, upstream, registry, binding, workers, platform, roomy, machine>>

UseDisk ==
    /\ roomy' = ~roomy
    /\ UNCHANGED <<recipe, upstream, registry, binding, workers, platform, foreign, machine>>

RemoveImage ==
    /\ \E n \in Members, content \in Contents :
        /\ content \in images[n]
        /\ images' = [images EXCEPT ![n] = @ \ {content}]
        /\ tag' = IF n = HeadNode /\ tag = content THEN None ELSE tag
    /\ UNCHANGED <<outside, model>>

DamageModel ==
    /\ model = "whole" /\ model' = "damaged"
    /\ UNCHANGED <<outside, tag, images>>

World ==
    /\ Changes
    /\ \/ MoveSource \/ MoveTag \/ ChangeCluster \/ Listen \/ UseDisk
       \/ RemoveImage \/ DamageModel
    /\ UNCHANGED <<op, evidence, leavings, runtime, calls, faults, crashes>>

Next ==
    \/ BeginCheck \/ BeginRun
    \/ Observe \/ ReadCluster \/ Inspect
    \/ ClaimWorkspace \/ CreateWorkspace \/ FetchSource
    \/ BuildForCheck \/ Reuse \/ BuildForRun \/ PrepareImage \/ PinImage \/ SendImage
    \/ PrepareModel \/ StartProbe \/ ClaimProbe \/ EndProbe \/ ProbeStays
    \/ BindPreflight \/ Fails \/ CleanUp \/ WorkspaceStays \/ CloseRun \/ CleanupRetry
    \/ AttestNodes \/ Activate \/ Stop \/ Restart \/ BootFails
    \/ \E n \in Nodes : Launch(n) \/ RestartAfterBoot(n)
    \/ World

Spec == Init /\ [][Next]_vars

-----------------------------------------------------------------------------
(* Properties *)

TypeOK ==
    /\ upstream \in Contents /\ registry \in Contents /\ tag \in Contents \cup {None}
    /\ images \in [Nodes -> SUBSET Contents]
    /\ binding \in Nat /\ platform \in {0, 1} /\ model \in {"whole", "damaged"}
    /\ op \in Operations \cup {None}
    /\ UnderWay => op.step \in 1..Len(Path(op))
    /\ evidence \in Seq(Evidences)
    /\ claims \subseteq {"workspace", "probe"} /\ owner \in {None, "check", "passed", "run"}
    /\ workspace \in BOOLEAN /\ probe \in BOOLEAN /\ slipped \in BOOLEAN
    /\ active \in Identities \cup {None} /\ booting \in BOOLEAN
    /\ attested \in Identities \cup {None}
    /\ serving \in [Nodes -> Identities \cup {None}]
    /\ calls \in Nat /\ changes \in Nat /\ faults \in Nat /\ crashes \in Nat

\* The preparation keeps what it promises: only what the newest check found is
\* attested, and only what is attested starts, on every Spark the same.
Checked == INSTANCE CheckedLaunch WITH
    Nothing <- None,
    checked <- IF evidence = <<>> THEN None ELSE Identity(evidence[Len(evidence)])
LaunchesWhatWasChecked == Checked!Spec

\* A check that passed is an answer that holds: as long as nothing around the
\* operations changes, every later check passes and every run starts.  A recipe
\* of scripts without a source is the exception, which cannot be attested.
AnUnchangedMachineRuns ==
    op # None /\ op.result = "failed" /\ evidence # <<>> /\ (Managed \/ recipe.sourced) =>
        Disturbances > evidence[Len(evidence)].began

\* Nothing stays behind that nobody knows of.  A workspace is on record as long
\* as it exists, whatever fails or is killed, and so is a probe but between its
\* start and its claim, or when its start was cut off, its end failed or the
\* daemon was killed; what an operation under which nothing of that happened
\* had on record is gone and given up when it is over.
NothingIsLeftBehind ==
    /\ workspace => "workspace" \in claims
    /\ probe => "probe" \in claims \/ At("claim-probe") \/ slipped
    /\ op = None /\ (workspace \/ probe \/ claims # {}) => slipped

\* After a boot a recipe runs the image it was bound to.
BootKeepsTheImage ==
    active # None => \A n \in Nodes : serving[n] # None => serving[n].image = active.image
=============================================================================
