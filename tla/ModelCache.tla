----------------------------- MODULE ModelCache -----------------------------
(* The files of one model repository: downloads of the Models page, each     *)
(* done by a helper container that outlives the daemon; the preparation of a *)
(* recipe, which stages, certifies and exchanges the repository and spreads  *)
(* it to a peer; cleanup of what no recipe needs; the read-only view in the  *)
(* Models folder; and the import of the cache of an older release.           *)
EXTENDS Naturals, FiniteSets

CONSTANTS
    Revs, Wanted, Latest,   \* revisions; the recipe's; what "main" resolves to
    None,
    Distributed,            \* the recipe runs on two Sparks
    MaxJobs, MaxOps, MaxRestarts  \* bounds: downloads, preparations, restarts

ASSUME RevisionAssumption ==
    /\ {Wanted, Latest} \subseteq Revs /\ None \notin Revs
    /\ Distributed \in BOOLEAN /\ {MaxJobs, MaxOps, MaxRestarts} \subseteq Nat

Places == {"final", "promo", "backup", "down", "legacy",
           "peer", "peer-stage", "peer-backup"}

VARIABLES
    tree,       \* place -> the repository there
    cert,       \* place -> the content of Wanted its manifest was made from
    jobs,       \* download jobs of this daemon process
    helper,     \* the helper container of the repository
    record,     \* the durable download record (state.json)
    op,         \* the recipe operation in progress
    saved,      \* the recipe is in the library
    pending,    \* what a cleanup listed and has not removed yet
    view,       \* the entry of the Models folder
    boot,       \* the import before the daemon starts
    restarts,
    had,        \* history: revisions that were whole and not removed on request
    crossed     \* history: how two of the above met, or were cut

vars == <<tree, cert, jobs, helper, record, op, saved, pending, view, boot,
          restarts, had, crossed>>
files == <<tree, cert, view, had>>
others == <<saved, pending, boot, restarts>>

-----------------------------------------------------------------------------
(* A repository: per revision, what its snapshot holds; the revisions with   *)
(* unfinished blobs; refs/main; the revisions marked complete.               *)
AllFiles == {"whole", "bad"}   \* "bad": every file, of the right size

Empty == [snap |-> [r \in Revs |-> "none"], loose |-> {}, main |-> None, marks |-> {}]

Fuller(old, new) ==
    IF old \in AllFiles \/ new = "none" THEN old
    ELSE IF new \in AllFiles THEN new ELSE "part"

\* Absent files are added, existing ones stay.
Merge(old, new) ==
    [snap |-> [r \in Revs |-> Fuller(old.snap[r], new.snap[r])],
     loose |-> old.loose \cup new.loose,
     main |-> IF old.main # None THEN old.main ELSE new.main,
     marks |-> old.marks \cup new.marks]

\* Files that differ are replaced too.
Overlay(old, new) ==
    [Merge(old, new) EXCEPT
        !.snap = [r \in Revs |-> Fuller(new.snap[r], old.snap[r])],
        !.main = IF new.main # None THEN new.main ELSE old.main]

\* Fault: a marker or unfinished blobs are not looked at.
FaultyComplete(t) == t.main # None /\ t.snap[t.main] # "none"

\* modelCacheComplete: without a marker, no unfinished blob of any revision.
Complete(t) ==
    /\ t.main # None /\ t.snap[t.main] # "none"
    /\ t.main \in t.marks \/ t.loose = {}

\* recipeSnapshotComplete: the same for the revision of a recipe.
Installed(t) == t.snap[Wanted] # "none" /\ (Wanted \in t.marks \/ t.loose = {})

\* Every file is hashed again and compared with the manifest.
Verified(place) == cert[place] # "none" /\ cert[place] = tree[place].snap[Wanted]

Whole(t) == {r \in Revs : t.snap[r] = "whole"}

-----------------------------------------------------------------------------
NoJob == [pc |-> "none", rev |-> None, told |-> FALSE]
JobIds == 1..MaxJobs
NoHelper == [job |-> 0, rev |-> None, torn |-> FALSE]
NoRecord == [phase |-> "none", rev |-> None]
NoView == [rev |-> None, content |-> "none"]
Downloading(rev) == [phase |-> "downloading", rev |-> rev]

Resolved(rev) == IF rev = None THEN Latest ELSE rev
HelperUp == helper.rev # None
ActiveJobs == {j \in JobIds : jobs[j].pc \in {"begun", "running", "answered", "marked"}}
Answered == {j \in JobIds : jobs[j].pc = "answered"}
Busy == op.pc # "idle"
\* The recipe may read the repository it was promised.
Promised == op.pc \in {"certified", "peer", "peer-moved", "spread", "prepared", "running"}
Exchanging == op.pc \in {"promoting", "filled", "moved"}

\* Another revision of which the download staging has a marker or some files.
HalfStaged == {r \in Revs \ {Wanted} :
    LET down == tree["down"]
    IN down.snap[r] # "whole" /\ (r \in down.marks \/ down.snap[r] # "none")}

Cross(ways) == crossed' = crossed \cup ways
Put(place, t) == tree' = [tree EXCEPT ![place] = t]
Final == tree["final"]

Init ==
    /\ \E old \in {Empty,
                   [Empty EXCEPT !.snap[Latest] = "whole", !.main = Latest],
                   [Empty EXCEPT !.snap[Latest] = "whole", !.main = Latest,
                                 !.marks = {Latest}]} :
          /\ tree = [p \in Places |-> IF p = "legacy" THEN old ELSE Empty]
          /\ had = Whole(old)
    /\ cert = [p \in {"final", "down", "peer"} |-> "none"]
    /\ jobs = [j \in JobIds |-> NoJob] /\ helper = NoHelper /\ record = NoRecord
    /\ op = [pc |-> "idle", evidence |-> "none", tries |-> 0]
    /\ saved = TRUE /\ pending = {} /\ view = NoView
    /\ boot = "import" /\ restarts = 0 /\ crossed = {}

-----------------------------------------------------------------------------
(* Import of the older cache, once, before the daemon starts (modelcache).   *)
\* The walk is lexical: markers, blobs and refs before the snapshots.
ImportBegins ==
    /\ boot = "import" /\ boot' = "snapshots"
    /\ LET old == tree["legacy"]
       IN Put("final", [Final EXCEPT !.marks = @ \cup old.marks, !.loose = @ \cup old.loose,
                                     !.main = IF @ = None THEN old.main ELSE @])
    /\ UNCHANGED <<cert, jobs, helper, record, op, saved, pending, view, restarts, had, crossed>>

ImportEnds ==
    /\ boot = "snapshots" /\ boot' = "up"
    /\ Put("final", Merge(Final, tree["legacy"]))
    /\ UNCHANGED <<cert, jobs, helper, record, op, saved, pending, view, restarts, had, crossed>>

\* Killed on the way, it starts again; existing equal files are kept.
ImportCut ==
    /\ boot = "snapshots" /\ restarts < MaxRestarts
    /\ restarts' = restarts + 1 /\ boot' = "import"
    /\ \E reached \in {Final, Merge(Final, [tree["legacy"] EXCEPT !.snap =
                                    [r \in Revs |-> IF @[r] = "none" THEN "none" ELSE "part"]])} :
          Put("final", reached)
    /\ UNCHANGED <<cert, jobs, helper, record, op, saved, pending, view, had, crossed>>

-----------------------------------------------------------------------------
(* The Models page                                                           *)
\* The handler finds no active job of the repository, then creates one.
Ask(rev) ==
    /\ boot = "up" /\ ActiveJobs = {}
    /\ \E j \in JobIds :
          /\ jobs[j].pc = "none" /\ \A i \in 1..(j - 1) : jobs[i].pc # "none"
          /\ jobs' = [jobs EXCEPT ![j] = [NoJob EXCEPT !.pc = "asked", !.rev = rev]]
    /\ UNCHANGED <<files, helper, record, op, others, crossed>>

Create(j) ==
    /\ jobs[j].pc = "asked"
    /\ jobs' = [jobs EXCEPT ![j].pc = "begun"]
    /\ record' = Downloading(jobs[j].rev)
    /\ Cross(IF ActiveJobs # {} THEN {"two-jobs"} ELSE {})
    /\ UNCHANGED <<files, helper, op, others>>

\* The helper of a former process, or of the other job, is removed first.
HelperStarts(j) ==
    /\ jobs[j].pc = "begun" /\ ~jobs[j].told
    /\ jobs' = [jobs EXCEPT ![j].pc = "running"]
    /\ helper' = [job |-> j, rev |-> Resolved(jobs[j].rev), torn |-> FALSE]
    /\ Cross(IF Exchanging THEN {"exchange"} ELSE {})
    /\ Put("final", IF jobs[j].rev = None THEN [Final EXCEPT !.main = Latest] ELSE Final)
    /\ UNCHANGED <<cert, view, had, record, op, others>>

\* Between two files there is no unfinished blob.
HelperWrites ==
    /\ HelperUp /\ Final.snap[helper.rev] \in {"none", "part"}
    /\ \E between \in BOOLEAN :
          Put("final", [Final EXCEPT
                !.snap[helper.rev] = "part",
                !.loose = IF between THEN @ \ {helper.rev} ELSE @ \cup {helper.rev}])
          /\ Cross(IF between THEN {"between"} ELSE {})
    /\ UNCHANGED <<cert, view, had, jobs, helper, record, op, others>>

\* What was moved away under it, or written by another through the same
\* inode, is not what it thinks it wrote.
HelperFinishes ==
    /\ HelperUp
    /\ \E got \in {"whole"} \cup (IF helper.torn THEN {"part"} ELSE {})
                            \cup (IF "shared" \in crossed THEN {"bad"} ELSE {}) :
          /\ Put("final", [Final EXCEPT !.snap[helper.rev] =
                                IF @ \in AllFiles /\ ~helper.torn THEN @ ELSE got,
                                        !.loose = @ \ {helper.rev}])
          /\ had' = had \cup Whole(tree'["final"])
    /\ jobs' = IF helper.job # 0 /\ jobs[helper.job].pc = "running"
               THEN [jobs EXCEPT ![helper.job].pc = "answered"] ELSE jobs
    /\ helper' = NoHelper
    /\ UNCHANGED <<cert, view, record, op, others, crossed>>

HelperFails ==
    /\ HelperUp /\ helper' = NoHelper
    /\ UNCHANGED <<files, jobs, record, op, others, crossed>>

\* observeModelDownload: an end removes the record, a failure stays on it.
Ends(j, failed) ==
    /\ jobs' = [jobs EXCEPT ![j].pc = "ended"]
    /\ record' = IF failed THEN [phase |-> "error", rev |-> jobs[j].rev] ELSE NoRecord

JobFails(j) ==
    /\ jobs[j].pc = "running" /\ helper.job # j /\ ~jobs[j].told
    /\ Ends(j, TRUE)
    /\ UNCHANGED <<files, helper, op, others, crossed>>

\* The job gives up after ninety minutes; nobody removes the helper.
JobTimesOut(j) ==
    /\ jobs[j].pc = "running" /\ helper.job = j
    /\ Ends(j, TRUE)
    /\ helper' = [helper EXCEPT !.job = 0]
    /\ Cross({"timed-out"})
    /\ UNCHANGED <<files, op, others>>

\* A tick of progress is what the record says next.
JobTicks(j) ==
    /\ jobs[j].pc = "running" /\ record' = Downloading(jobs[j].rev)
    /\ UNCHANGED <<files, jobs, helper, op, others, crossed>>

\* The revision asked for, or what refs/main says now, is marked and shown.
JobMarks(j) ==
    /\ jobs[j].pc = "answered"
    /\ LET rev == IF jobs[j].rev # None THEN jobs[j].rev ELSE Final.main
       IN IF rev = None \/ Final.snap[rev] = "none"
          THEN Ends(j, TRUE) /\ UNCHANGED tree
          ELSE /\ Put("final", [Final EXCEPT !.main = rev, !.marks = @ \cup {rev}])
               /\ jobs' = [jobs EXCEPT ![j].pc = "marked"]
               /\ UNCHANGED record
    /\ UNCHANGED <<cert, view, had, helper, op, others, crossed>>

\* The Models folder shows what is complete; an entry is made anew only when
\* its revision changes.
Reconciled ==
    IF ~Complete(Final) THEN NoView
    ELSE IF view.rev = Final.main THEN view
    ELSE [rev |-> Final.main, content |-> Final.snap[Final.main]]

Scan ==
    /\ boot = "up" /\ view' = Reconciled
    /\ UNCHANGED <<tree, cert, had, jobs, helper, record, op, others, crossed>>

JobSucceeds(j) ==
    /\ jobs[j].pc = "marked" /\ view' = Reconciled
    /\ Ends(j, FALSE)
    /\ UNCHANGED <<tree, cert, had, helper, op, others, crossed>>

Cancel(j) ==
    /\ j \in ActiveJobs /\ ~jobs[j].told
    /\ jobs' = [jobs EXCEPT ![j].told = TRUE]
    /\ UNCHANGED <<files, helper, record, op, others, crossed>>

\* The helper is removed by its name, whoever started it.
JobCancelled(j) ==
    /\ jobs[j].told /\ jobs[j].pc \in {"begun", "running", "answered"}
    /\ Ends(j, FALSE)
    /\ helper' = NoHelper
    /\ UNCHANGED <<files, op, others, crossed>>

\* Refused while a download is active, not while a recipe is prepared from it.
Uninstall ==
    /\ boot = "up" /\ ActiveJobs = {}
    /\ Put("final", Empty) /\ view' = NoView
    /\ had' = {}
    /\ Cross((IF Promised \/ Exchanging THEN {"removed"} ELSE {})
             \cup (IF HelperUp THEN {"torn"} ELSE {})
             \cup (IF HalfStaged # {} THEN {"half-staged"} ELSE {}))
    /\ helper' = IF HelperUp THEN [helper EXCEPT !.torn = TRUE] ELSE helper
    /\ UNCHANGED <<cert, jobs, record, op, others>>

-----------------------------------------------------------------------------
(* The preparation of a recipe                                               *)
At(pc) == op.pc = pc
Goes(pc) == op' = [op EXCEPT !.pc = pc]
Certified(content) == op' = [op EXCEPT !.pc = "certified", !.evidence = content]

OpBegins ==
    /\ boot = "up" /\ saved /\ At("idle") /\ op.tries < MaxOps
    /\ op' = [pc |-> "inspecting", evidence |-> "none", tries |-> op.tries + 1]
    /\ Cross(IF pending # {} THEN {"stale-list"} ELSE {})
    /\ UNCHANGED <<files, jobs, helper, record, others>>

\* Nothing interrupts the two renames of an exchange but the end of the daemon.
OpFails ==
    /\ op.pc \notin {"idle", "running", "moved"} /\ Goes("idle")
    /\ UNCHANGED <<files, jobs, helper, record, others, crossed>>

OpReuses ==
    /\ At("inspecting") /\ Verified("final")
    /\ Certified(cert["final"])
    /\ UNCHANGED <<files, jobs, helper, record, others, crossed>>

\* Fault: the inventory of the Hub is not compared.
FaultyOpAdopts ==
    /\ At("inspecting") /\ ~Verified("final") /\ Installed(Final)
    /\ cert' = [cert EXCEPT !["final"] = Final.snap[Wanted]]
    /\ Certified(Final.snap[Wanted])
    /\ UNCHANGED <<tree, view, had, jobs, helper, record, others, crossed>>

\* A snapshot that is all there, by the inventory of the Hub, is certified as
\* it is; sizes are compared.
OpAdopts ==
    /\ At("inspecting") /\ ~Verified("final") /\ Installed(Final)
    /\ Final.snap[Wanted] \in AllFiles
    /\ cert' = [cert EXCEPT !["final"] = Final.snap[Wanted]]
    /\ Certified(Final.snap[Wanted])
    /\ UNCHANGED <<tree, view, had, jobs, helper, record, others, crossed>>

\* Staging starts from what there is, by hard links, markers and blobs first.
OpStages ==
    /\ At("inspecting") /\ ~Verified("final")
    /\ ~(Installed(Final) /\ Final.snap[Wanted] \in AllFiles)
    /\ Goes("seeding")
    /\ Put("down", [tree["down"] EXCEPT
            !.marks = @ \cup Final.marks, !.loose = @ \cup Final.loose,
            !.main = IF @ = None THEN Final.main ELSE @])
    /\ Cross(IF Final.loose # {} /\ HelperUp THEN {"shared"} ELSE {})
    /\ UNCHANGED <<cert, view, had, jobs, helper, record, others>>

OpSeeds ==
    /\ At("seeding") /\ Goes("seeded")
    /\ Put("down", Merge(tree["down"], Final))
    /\ UNCHANGED <<cert, view, had, jobs, helper, record, others, crossed>>

\* A verified download of an earlier attempt is promoted as it is.
OpResumes ==
    /\ At("seeded") /\ Verified("down")
    /\ op' = [op EXCEPT !.pc = "promoting", !.evidence = cert["down"]]
    /\ UNCHANGED <<files, jobs, helper, record, others, crossed>>

OpDownloads ==
    /\ At("seeded") /\ ~Verified("down")
    /\ tree["down"].snap[Wanted] \notin AllFiles
    /\ \E between \in BOOLEAN :
          Put("down", [tree["down"] EXCEPT
            !.snap[Wanted] = "part",
            !.loose = IF between THEN @ \ {Wanted} ELSE @ \cup {Wanted}])
    /\ UNCHANGED <<cert, view, had, jobs, helper, record, op, others, crossed>>

\* The download command succeeds; its files are hashed into a manifest.
OpCertifies ==
    /\ At("seeded") /\ ~Verified("down")
    /\ \E got \in {"whole"} \cup (IF "shared" \in crossed THEN {"bad"} ELSE {}) :
          LET full == [tree["down"] EXCEPT !.snap[Wanted] = Fuller(@, got),
                                           !.loose = @ \ {Wanted}]
          IN /\ Put("down", full)
             /\ cert' = [cert EXCEPT !["down"] = full.snap[Wanted]]
             /\ op' = [op EXCEPT !.pc = "promoting", !.evidence = full.snap[Wanted]]
    /\ UNCHANGED <<view, had, jobs, helper, record, others, crossed>>

\* Fault: what is cached beside the recipe's revision is not carried over.
FaultyOpFills ==
    /\ At("promoting")
    /\ LET filled == Overlay(tree["promo"], tree["down"])
       IN filled.snap[Wanted] = op.evidence /\ Put("promo", filled)
    /\ Goes("filled")
    /\ Cross(IF HelperUp THEN {"exchange"} ELSE {})
    /\ UNCHANGED <<cert, view, had, jobs, helper, record, others>>

\* The promotion staging: what the repository has and staging has not, then
\* the download over it; and the revision is hashed once more.
OpFills ==
    /\ At("promoting")
    /\ LET filled == Overlay(Merge(tree["promo"], Final), tree["down"])
       IN filled.snap[Wanted] = op.evidence /\ Put("promo", filled)
    /\ Goes("filled")
    /\ Cross(IF HelperUp THEN {"exchange"} ELSE {})
    /\ UNCHANGED <<cert, view, had, jobs, helper, record, others>>

\* The staging has to be there; an older backup goes first.
OpMovesOut ==
    /\ At("filled") /\ tree["promo"] # Empty /\ Goes("moved")
    /\ tree' = [tree EXCEPT !["backup"] = Final, !["final"] = Empty]
    /\ helper' = IF HelperUp THEN [helper EXCEPT !.torn = TRUE] ELSE helper
    /\ UNCHANGED <<cert, view, had, jobs, record, others, crossed>>

OpMovesIn ==
    /\ At("moved") /\ tree["promo"] # Empty /\ Goes("exchanged")
    /\ tree' = [tree EXCEPT !["final"] = tree["promo"], !["promo"] = Empty]
    /\ had' = had \cup Whole(tree["promo"])
    /\ UNCHANGED <<cert, view, jobs, helper, record, others, crossed>>

\* The second rename fails: the first is taken back.
OpMovesBack ==
    /\ At("moved") /\ Goes("idle")
    /\ tree' = [tree EXCEPT !["final"] = tree["backup"], !["backup"] = Empty]
    /\ UNCHANGED <<cert, view, had, jobs, helper, record, others, crossed>>

OpRecords ==
    /\ At("exchanged") /\ Goes("recorded")
    /\ Put("backup", Empty) /\ cert' = [cert EXCEPT !["final"] = op.evidence]
    /\ UNCHANGED <<view, had, jobs, helper, record, others, crossed>>

OpDropsStaging ==
    /\ At("recorded") /\ Goes("certified")
    /\ Put("down", Empty) /\ cert' = [cert EXCEPT !["down"] = "none"]
    /\ UNCHANGED <<view, had, jobs, helper, record, others, crossed>>

-----------------------------------------------------------------------------
(* The peer: its snapshot is hashed against the manifest, else the whole     *)
(* repository is sent to a staging there and exchanged.                      *)
PeerHas == tree["peer"].snap[Wanted] = op.evidence

PeerMatches ==
    /\ At("certified") /\ (Distributed => PeerHas)
    /\ Goes("spread")
    /\ UNCHANGED <<files, jobs, helper, record, others, crossed>>

PeerReceives ==
    /\ At("certified") /\ Distributed /\ ~PeerHas
    /\ LET sent == Overlay(tree["peer-stage"], Final)
       IN sent.snap[Wanted] = op.evidence /\ Put("peer-stage", sent)
    /\ Goes("peer")
    /\ UNCHANGED <<cert, view, had, jobs, helper, record, others, crossed>>

\* A transfer that breaks leaves what came for the next attempt.
PeerReceivesPart ==
    /\ At("certified") /\ Distributed /\ ~PeerHas
    /\ Put("peer-stage", Merge(tree["peer-stage"],
            [Final EXCEPT !.snap = [r \in Revs |-> IF @[r] = "none" THEN "none" ELSE "part"]]))
    /\ Goes("idle")
    /\ UNCHANGED <<cert, view, had, jobs, helper, record, others, crossed>>

PeerMovesOut ==
    /\ At("peer") /\ Goes("peer-moved")
    /\ tree' = [tree EXCEPT !["peer-backup"] = tree["peer"], !["peer"] = Empty]
    /\ UNCHANGED <<cert, view, had, jobs, helper, record, others, crossed>>

PeerMovesIn ==
    /\ At("peer-moved") /\ Goes("spread")
    /\ tree' = [tree EXCEPT !["peer"] = tree["peer-stage"], !["peer-stage"] = Empty,
                            !["peer-backup"] = Empty]
    /\ cert' = [cert EXCEPT !["peer"] = cert["final"]]
    /\ UNCHANGED <<view, had, jobs, helper, record, others, crossed>>

\* The last look before the switch: the manifest is the one that was hashed,
\* the files have its sizes, the peer's hash is remembered.
SizesFit ==
    \/ cert["final"] # "none" /\ cert["final"] = Final.snap[Wanted]
    \/ {cert["final"], Final.snap[Wanted]} \subseteq AllFiles

OpPrepares ==
    /\ At("spread") /\ SizesFit /\ cert["final"] = op.evidence
    /\ Goes("prepared")
    /\ UNCHANGED <<files, jobs, helper, record, others, crossed>>

OpRuns ==
    /\ At("prepared") /\ Goes("running")
    /\ UNCHANGED <<files, jobs, helper, record, others, crossed>>

OpStops ==
    /\ At("running") /\ Goes("idle")
    /\ UNCHANGED <<files, jobs, helper, record, others, crossed>>

-----------------------------------------------------------------------------
(* Cleanup, and the library of recipes                                       *)
DeleteRecipe ==
    /\ saved /\ ~Busy /\ boot = "up" /\ saved' = FALSE
    /\ UNCHANGED <<files, jobs, helper, record, op, pending, boot, restarts, crossed>>

SaveRecipe ==
    /\ ~saved /\ saved' = TRUE
    /\ UNCHANGED <<files, jobs, helper, record, op, pending, boot, restarts, crossed>>

Protected == saved \/ Busy

\* Everything is old enough whenever that is possible: time may pass.
Collectable ==
    {p \in {"promo", "backup", "down"} : tree[p] # Empty}
    \cup (IF cert["final"] # "none" /\ Final.main # Wanted THEN {"final"} ELSE {})

GCLists ==
    /\ boot = "up" /\ pending = {} /\ ~Protected
    /\ pending' = Collectable
    /\ UNCHANGED <<files, jobs, helper, record, op, saved, boot, restarts, crossed>>

\* Of the repository only the recipe's revision goes, with its manifest; the
\* marker of the revision stays, and a job that has its files will write one.
GCRemoves(place) ==
    /\ place \in pending /\ pending' = pending \ {place}
    /\ IF place = "final"
       THEN /\ Put("final", [Final EXCEPT !.snap[Wanted] = "none"])
            /\ cert' = [cert EXCEPT !["final"] = "none"]
            /\ had' = had \ {Wanted}
       ELSE /\ Put(place, Empty)
            /\ cert' = IF place = "down" THEN [cert EXCEPT !["down"] = "none"] ELSE cert
            /\ UNCHANGED had
    /\ Cross((IF (place = "final" /\ Wanted \in Final.marks) \/ Answered # {}
              THEN {"marker-left"} ELSE {})
             \cup (IF place \in {"promo", "backup"} /\ Whole(tree[place]) \ Whole(Final) # {}
                   THEN {"collected"} ELSE {}))
    /\ UNCHANGED <<view, jobs, helper, record, op, saved, boot, restarts>>

-----------------------------------------------------------------------------
(* The daemon dies. The helper goes on; a download on record starts again,   *)
(* a preparation has failed, a recipe that runs is left running.             *)
\* Fault: downloads are not taken up.
FaultyTakenUp == [j \in JobIds |-> NoJob]

TakenUp ==
    [j \in JobIds |-> IF j = 1 /\ record.phase = "downloading"
                      THEN [NoJob EXCEPT !.pc = "begun", !.rev = record.rev] ELSE NoJob]

Cut(t) == Merge(t, [Final EXCEPT !.snap =
                [r \in Revs |-> IF @[r] = "none" THEN "none" ELSE "part"]])

Restart ==
    /\ boot = "up" /\ restarts < MaxRestarts /\ restarts' = restarts + 1
    /\ jobs' = TakenUp
    /\ helper' = [helper EXCEPT !.job = 0]
    /\ op' = IF At("running") THEN op ELSE [op EXCEPT !.pc = "idle"]
    /\ pending' = {}
    /\ tree' = IF At("seeding") THEN [tree EXCEPT !["down"] = Cut(@)] ELSE tree
    /\ UNCHANGED <<cert, view, had, record, saved, boot, crossed>>

JobStep(j) ==
    \/ Create(j) \/ HelperStarts(j) \/ JobFails(j) \/ JobMarks(j) \/ JobSucceeds(j)
    \/ JobCancelled(j) \/ JobTimesOut(j)

HelperEnds == HelperFinishes \/ HelperFails

ImportStep == ImportBegins \/ ImportEnds \/ ImportCut

PreparationStep ==
    \/ OpBegins \/ OpFails \/ OpReuses \/ OpAdopts \/ OpStages \/ OpSeeds
    \/ OpResumes \/ OpDownloads \/ OpCertifies \/ OpFills \/ OpMovesOut
    \/ OpMovesIn \/ OpMovesBack \/ OpRecords \/ OpDropsStaging
    \/ PeerMatches \/ PeerReceives \/ PeerReceivesPart \/ PeerMovesOut
    \/ PeerMovesIn \/ OpPrepares \/ OpRuns \/ OpStops

Next ==
    \/ ImportStep
    \/ \E rev \in {None, Wanted} : Ask(rev)
    \/ \E j \in JobIds : JobStep(j) \/ JobTicks(j) \/ Cancel(j)
    \/ HelperWrites \/ HelperEnds
    \/ Scan \/ Uninstall
    \/ PreparationStep
    \/ DeleteRecipe \/ SaveRecipe \/ GCLists
    \/ \E place \in Places : GCRemoves(place)
    \/ Restart

Spec == Init /\ [][Next]_vars

-----------------------------------------------------------------------------
Apart(ways) == crossed \cap ways = {}

\* A recipe runs on a revision every file of which was verified, here and on
\* the peer, whatever was staged, adopted, cut off, removed or left behind by
\* earlier attempts (runRecipeModelDownload, distributeRecipeModel,
\* revalidateRecipeBeforeSwitch); unless the Models page took it away meanwhile.
RunsOnVerifiedContent ==
    op.pc \in {"prepared", "running"} /\ Apart({"removed", "shared", "exchange", "stale-list"}) =>
        /\ Final.snap[Wanted] = "whole"
        /\ (Distributed => tree["peer"].snap[Wanted] = "whole")

\* What is marked complete is whole, and what is shown for want of unfinished
\* blobs is too, unless a download was stopped between two files or a cleanup
\* met a marker (modelCacheComplete, markModelRevisionComplete).
ShownIsWhole ==
    boot = "up" /\ Apart({"exchange", "half-staged", "marker-left", "shared", "torn"}) =>
        /\ \A r \in Final.marks : Final.snap[r] \in {"none", "whole"}
        /\ Complete(Final) /\ Apart({"between"}) => Final.snap[Final.main] = "whole"

\* A revision that was once whole is whole in the repository, or in what its
\* exchange left beside it, until somebody uninstalls it or it is collected.
NothingIsLost ==
    Apart({"exchange", "collected", "shared"}) /\ boot = "up" =>
        had \subseteq Whole(Final) \cup Whole(tree["promo"]) \cup Whole(tree["backup"])

\* Whatever happens to the job, its helper and the daemon, a download leaves
\* the list of downloads in progress (startModelDownloadRecovery).
DownloadsSettle == record.phase = "downloading" ~> record.phase # "downloading"
=============================================================================
