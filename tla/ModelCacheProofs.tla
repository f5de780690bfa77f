-------------------------- MODULE ModelCacheProofs --------------------------
(***************************************************************************)
(* Proofs about ModelCache: a recipe runs on verified content, what is     *)
(* marked and shown is whole, and nothing that was once whole is lost.     *)
(***************************************************************************)
EXTENDS ModelCache, TLAPS

-----------------------------------------------------------------------------
(* The invariant *)

Contents == {"none", "part", "whole", "bad"}
Sound == {"none", "whole", "bad"}
Asked == {None, Wanted}
Names == {None, Latest, Wanted}
Repos == [snap : [Revs -> Contents], loose : SUBSET Revs, main : Names, marks : SUBSET Revs]
Jobs == [pc : {"none", "asked", "begun", "running", "answered", "marked", "ended"},
         rev : Asked, told : BOOLEAN]
Phases == {"idle", "inspecting", "seeding", "seeded", "promoting", "filled", "moved",
           "exchanged", "recorded", "certified", "peer", "peer-moved", "spread",
           "prepared", "running"}

Typed ==
    /\ tree \in [Places -> Repos]
    /\ cert \in [{"final", "down", "peer"} -> Sound]
    /\ jobs \in [JobIds -> Jobs]
    /\ helper \in [job : JobIds \cup {0}, rev : Names, torn : BOOLEAN]
    /\ record \in [phase : {"none", "downloading", "error"}, rev : Asked]
    /\ op \in [pc : Phases, evidence : Sound, tries : Nat]
    /\ pending \subseteq {"final", "promo", "backup", "down"}
    /\ boot \in {"import", "snapshots", "up"} /\ restarts \in Nat /\ had \subseteq Revs

\* A helper works for the job that waits for it, or for nobody.
Helped ==
    /\ helper.rev = None => helper = NoHelper
    /\ helper.job # 0 => /\ jobs[helper.job].pc = "running"
                         /\ helper.rev = Resolved(jobs[helper.job].rev)

\* Before the daemon starts there is only the import of a whole older cache.
Importing ==
    LET old == tree["legacy"]
    IN boot # "up" =>
        /\ jobs = [j \in JobIds |-> NoJob] /\ helper = NoHelper
        /\ op.pc = "idle" /\ pending = {}
        /\ \A p \in {"promo", "backup", "down"} : tree[p] = Empty
        /\ \A r \in Revs : old.snap[r] \in {"none", "whole"}
        /\ old.marks \subseteq Whole(old) /\ old.loose = {} /\ had = Whole(old)
        /\ \A r \in Revs : Final.snap[r] \in {"none", "part"}
        /\ \A r \in Revs : Final.snap[r] = "part" => r \in Whole(old)
        /\ Final.marks \subseteq old.marks /\ Final.loose = {}

\* No file has the right size and other content.
Sincere(t) == \A r \in Revs : t.snap[r] # "bad"

Honest ==
    "shared" \notin crossed =>
        /\ \A p \in Places : Sincere(tree[p])
        /\ \A p \in {"final", "down", "peer"} : cert[p] # "bad"
        /\ op.evidence # "bad"

\* What a preparation goes by after it has looked.
Evident ==
    /\ op.pc \notin {"idle", "inspecting", "seeding", "seeded"} => op.evidence \in AllFiles
    /\ op.pc \in {"peer", "peer-moved"} => tree["peer-stage"].snap[Wanted] = op.evidence
    /\ op.pc \in {"spread", "prepared", "running"} /\ Distributed => PeerHas
    /\ Busy /\ "stale-list" \notin crossed => pending = {}

\* An exchange without a helper.
Exchanged ==
    "exchange" \notin crossed =>
        /\ helper.torn => \A r \in Revs : Final.snap[r] \notin AllFiles
        /\ op.pc \in {"filled", "moved"} => ~HelperUp
        /\ op.pc = "moved" => Final = Empty
        /\ op.pc \in {"filled", "moved"} /\ tree["promo"] # Empty =>
                tree["promo"].snap[Wanted] = op.evidence

Kept ==
    Apart({"exchange", "collected", "shared"}) /\ boot = "up" =>
        /\ had \subseteq Whole(Final) \cup Whole(tree["promo"])
        /\ op.pc = "moved" => had \subseteq Whole(tree["promo"])

MarkWays == {"exchange", "half-staged", "marker-left", "shared", "torn"}

\* The repository, wherever it is at the moment.
Standing == IF op.pc = "moved" THEN tree["backup"] ELSE Final

Filled ==
    Apart({"exchange", "shared"}) /\ op.pc \in {"filled", "moved"} /\ tree["promo"] # Empty =>
        /\ op.pc = "filled" => Whole(Final) \subseteq Whole(tree["promo"])
        /\ op.pc = "moved" => Whole(tree["backup"]) \subseteq Whole(tree["promo"])
        /\ Apart(MarkWays) /\ (\E j \in Answered : jobs[j].rev = None) =>
                tree["promo"].main # None

Marked ==
    Apart(MarkWays) /\ boot = "up" =>
        /\ ~helper.torn
        /\ Standing.marks \subseteq Whole(Standing)
        /\ tree["promo"].marks \subseteq Whole(tree["promo"])
        /\ \A j \in Answered :
            /\ Resolved(jobs[j].rev) \in Whole(Standing)
            /\ jobs[j].rev = None => Standing.main \in Whole(Standing)
        /\ helper.job # 0 /\ jobs[helper.job].rev = None =>
                Final.main = Latest \/ (Final.main = Wanted /\ Wanted \in Final.marks)

Seeded == {"seeded", "promoting", "filled", "moved"}

\* What a staging has of other revisions.
Staged ==
    Apart(MarkWays) /\ boot = "up" =>
        \A r \in tree["down"].marks \ {Wanted} :
            r \in Whole(tree["down"]) \cup (IF op.pc \in Seeded THEN {} ELSE Whole(Final))

Unfinished(t) == {r \in Revs : t.snap[r] = "part"}

Loose ==
    Apart(MarkWays \cup {"between"}) /\ boot = "up" =>
        /\ Unfinished(Standing) \subseteq Standing.loose
        /\ Unfinished(tree["promo"]) \subseteq tree["promo"].loose
        /\ Unfinished(tree["down"]) \ {Wanted} \subseteq
             tree["down"].loose \cup (IF op.pc \in Seeded THEN {} ELSE Whole(Final))

IInv ==
    /\ Typed /\ Helped /\ Importing /\ Honest /\ Evident /\ RunsOnVerifiedContent
    /\ Exchanged /\ Kept /\ Filled /\ Marked /\ Staged /\ Loose

-----------------------------------------------------------------------------
(* Repositories *)

\* What one file becomes.
LEMMA FullerFacts ==
    ASSUME NEW x \in Contents, NEW y \in Contents
    PROVE  /\ Fuller(x, y) \in Contents
           /\ Fuller(x, y) \in AllFiles <=> x \in AllFiles \/ y \in AllFiles
           /\ Fuller(x, y) = "bad" => "bad" \in {x, y}
           /\ Fuller(x, y) = "part" => "part" \in {x, y} /\ x \notin AllFiles /\ y \notin AllFiles
           /\ x \in AllFiles => Fuller(x, y) = x
BY DEF Fuller, Contents, AllFiles

\* An absent repository.
LEMMA EmptyFacts ==
    /\ Empty \in Repos /\ Empty.main = None /\ Empty.marks = {} /\ Empty.loose = {}
    /\ \A r \in Revs : Empty.snap[r] = "none"
    /\ Whole(Empty) = {} /\ Unfinished(Empty) = {}
BY DEF Empty, Repos, Names, Contents, Whole, Unfinished

\* Two repositories put together, absent files only.
LEMMA Merged ==
    ASSUME NEW s \in Repos, NEW t \in Repos
    PROVE  /\ Merge(s, t) \in Repos
           /\ \A r \in Revs : Merge(s, t).snap[r] = Fuller(s.snap[r], t.snap[r])
           /\ Merge(s, t).marks = s.marks \cup t.marks
           /\ Merge(s, t).loose = s.loose \cup t.loose
           /\ Merge(s, t).main = IF s.main # None THEN s.main ELSE t.main
           /\ Whole(Merge(s, t)) \subseteq Whole(s) \cup Whole(t)
           /\ Unfinished(Merge(s, t)) \subseteq
                (Unfinished(s) \cup Unfinished(t)) \ (Whole(s) \cup Whole(t))
<1> DEFINE u == Merge(s, t)
<1>1. \A r \in Revs : s.snap[r] \in Contents /\ t.snap[r] \in Contents
  BY DEF Repos
<1>2. u = [snap |-> [r \in Revs |-> Fuller(s.snap[r], t.snap[r])], loose |-> s.loose \cup t.loose,
           main |-> IF s.main # None THEN s.main ELSE t.main, marks |-> s.marks \cup t.marks]
  BY DEF Merge
<1>3. \A r \in Revs : u.snap[r] = Fuller(s.snap[r], t.snap[r])
  BY <1>2
<1>4. /\ u.marks = s.marks \cup t.marks /\ u.loose = s.loose \cup t.loose
      /\ u.main = IF s.main # None THEN s.main ELSE t.main
  BY <1>2
<1>5. u \in Repos
  BY <1>1, <1>2, FullerFacts DEF Repos
<1> HIDE DEF u
<1>6. Whole(u) \subseteq Whole(s) \cup Whole(t)
  BY <1>1, <1>3, FullerFacts DEF Whole, AllFiles, Contents, Fuller
<1>7. Unfinished(u) \subseteq (Unfinished(s) \cup Unfinished(t)) \ (Whole(s) \cup Whole(t))
  <2> SUFFICES ASSUME NEW r \in Revs, u.snap[r] = "part"
               PROVE  r \in (Unfinished(s) \cup Unfinished(t)) \ (Whole(s) \cup Whole(t))
    BY DEF Unfinished
  <2>1. Fuller(s.snap[r], t.snap[r]) = "part"
    BY <1>3
  <2> QED
    BY <1>1, <2>1, FullerFacts DEF Unfinished, Whole, AllFiles
<1> QED
  BY <1>3, <1>4, <1>5, <1>6, <1>7 DEF u

\* The same with the second over the first.
LEMMA Overlaid ==
    ASSUME NEW s \in Repos, NEW t \in Repos
    PROVE  /\ Overlay(s, t) \in Repos
           /\ \A r \in Revs : Overlay(s, t).snap[r] = Fuller(t.snap[r], s.snap[r])
           /\ Overlay(s, t).marks = s.marks \cup t.marks
           /\ Overlay(s, t).loose = s.loose \cup t.loose
           /\ Overlay(s, t).main = IF t.main # None THEN t.main ELSE s.main
           /\ Unfinished(Overlay(s, t)) \subseteq
                (Unfinished(s) \cup Unfinished(t)) \ (Whole(s) \cup Whole(t))
<1> DEFINE u == Overlay(s, t)
<1>1. \A r \in Revs : s.snap[r] \in Contents /\ t.snap[r] \in Contents
  BY DEF Repos
<1>2. u = [snap |-> [r \in Revs |-> Fuller(t.snap[r], s.snap[r])], loose |-> s.loose \cup t.loose,
           main |-> IF t.main # None THEN t.main ELSE s.main, marks |-> s.marks \cup t.marks]
  <2> DEFINE m == Merge(s, t)
             over == [r \in Revs |-> Fuller(t.snap[r], s.snap[r])]
             name == IF t.main # None THEN t.main ELSE s.main
  <2>1. u = [m EXCEPT !.snap = over, !.main = name]
    BY DEF Overlay
  <2>2. m \in Repos /\ m.marks = s.marks \cup t.marks /\ m.loose = s.loose \cup t.loose
    BY Merged
  <2> HIDE DEF m, over, name
  <2>3. u = [snap |-> over, loose |-> m.loose, main |-> name, marks |-> m.marks]
    BY <2>1, <2>2 DEF Repos
  <2> QED
    BY <2>2, <2>3 DEF over, name
<1>3. \A r \in Revs : u.snap[r] = Fuller(t.snap[r], s.snap[r])
  BY <1>2
<1>4. /\ u.marks = s.marks \cup t.marks /\ u.loose = s.loose \cup t.loose
      /\ u.main = IF t.main # None THEN t.main ELSE s.main
  BY <1>2
<1>5. u \in Repos
  BY <1>1, <1>2, FullerFacts DEF Repos
<1> HIDE DEF u
<1>6. Unfinished(u) \subseteq (Unfinished(s) \cup Unfinished(t)) \ (Whole(s) \cup Whole(t))
  <2> SUFFICES ASSUME NEW r \in Revs, u.snap[r] = "part"
               PROVE  r \in (Unfinished(s) \cup Unfinished(t)) \ (Whole(s) \cup Whole(t))
    BY DEF Unfinished
  <2>1. Fuller(t.snap[r], s.snap[r]) = "part"
    BY <1>3
  <2> QED
    BY <1>1, <2>1, FullerFacts DEF Unfinished, Whole, AllFiles
<1> QED
  BY <1>3, <1>4, <1>5, <1>6 DEF u

\* Without content of the right size that is wrong, nothing whole gets lost.
LEMMA SincereWhole ==
    ASSUME NEW s \in Repos, NEW t \in Repos, Sincere(s), Sincere(t)
    PROVE  /\ Sincere(Merge(s, t)) /\ Whole(Merge(s, t)) = Whole(s) \cup Whole(t)
           /\ Sincere(Overlay(s, t)) /\ Whole(Overlay(s, t)) = Whole(s) \cup Whole(t)
<1>1. \A r \in Revs : /\ s.snap[r] \in Contents /\ t.snap[r] \in Contents
                       /\ s.snap[r] # "bad" /\ t.snap[r] # "bad"
  BY DEF Repos, Sincere
<1>2. \A x, y \in Contents \ {"bad"} :
        Fuller(x, y) # "bad" /\ (Fuller(x, y) = "whole" <=> x = "whole" \/ y = "whole")
  BY DEF Fuller, Contents, AllFiles
<1>3. Sincere(Merge(s, t)) /\ Whole(Merge(s, t)) = Whole(s) \cup Whole(t)
  BY <1>1, <1>2, Merged DEF Sincere, Whole
<1>4. Sincere(Overlay(s, t)) /\ Whole(Overlay(s, t)) = Whole(s) \cup Whole(t)
  BY <1>1, <1>2, Overlaid DEF Sincere, Whole
<1> QED
  BY <1>3, <1>4

-----------------------------------------------------------------------------
(* What several steps have in common *)

\* The shape of the state, from the invariant.
LEMMA Types ==
    ASSUME IInv
    PROVE  /\ \A p \in Places : tree[p] \in Repos
           /\ \A j \in JobIds : jobs[j] \in Jobs
           /\ Wanted \in Revs /\ Latest \in Revs /\ None \notin Revs
           /\ 0 \notin JobIds /\ Final \in Repos
           /\ \A p \in {"final", "down", "peer"} : cert[p] \in Sound
           /\ op.evidence \in Sound /\ op.pc \in Phases /\ op.tries \in Nat
           /\ op = [pc |-> op.pc, evidence |-> op.evidence, tries |-> op.tries]
           /\ helper = [job |-> helper.job, rev |-> helper.rev, torn |-> helper.torn]
           /\ helper.rev \in Names /\ helper.torn \in BOOLEAN
BY RevisionAssumption DEF IInv, Typed, Places, JobIds, Final

\* Before the daemon is up there is nothing but the import.
LEMMA Early ==
    ASSUME IInv, boot # "up"
    PROVE  /\ \A j \in JobIds : jobs[j] = NoJob
           /\ helper = NoHelper /\ op.pc = "idle" /\ pending = {}
BY DEF IInv, Importing

\* The preparation goes on and the repository stays as it is.
LEMMA Around ==
    ASSUME IInv, Typed', boot = "up", boot' = "up", UNCHANGED <<jobs, helper, had>>,
           crossed \subseteq crossed',
           \A p \in {"final", "promo"} : tree'[p] = tree[p],
           tree'["backup"] = tree["backup"] \/ op'.pc # "moved",
           op' = op \/ (op.pc # "moved" /\ op'.pc \notin {"filled", "moved"})
    PROVE  Helped' /\ Importing' /\ Exchanged' /\ Kept' /\ Filled' /\ Marked'
<1>1. Final' = Final /\ Standing' = Standing /\ Answered' = Answered
  BY DEF Final, Standing, Answered
<1>2. \A ways : Apart(ways)' => Apart(ways)
  BY DEF Apart
<1>3. tree'["promo"] = tree["promo"]
  OBVIOUS
<1>4. Helped' /\ Importing'
  BY DEF IInv, Helped, Importing
<1>5. Filled'
  BY <1>1, <1>2, <1>3 DEF IInv, Filled, Whole
<1>6. Exchanged'
  BY <1>1, <1>3 DEF IInv, Exchanged, HelperUp
<1>7. Kept'
  BY <1>1, <1>2, <1>3 DEF IInv, Kept, Whole
<1>8. Marked'
  BY <1>1, <1>2, <1>3 DEF IInv, Marked, Whole
<1> QED
  BY <1>4, <1>5, <1>6, <1>7, <1>8

\* The download staging stays as it is, too.
LEMMA Aside ==
    ASSUME IInv, boot = "up", crossed \subseteq crossed',
           \A p \in {"final", "promo", "down"} : tree'[p] = tree[p],
           op.pc # "moved", op'.pc # "moved", op'.pc \in Seeded => op.pc \in Seeded
    PROVE  Staged' /\ Loose'
<1>1. Final' = Final /\ Standing' = Final /\ Standing = Final
  BY DEF Final, Standing
<1>2. Apart(MarkWays)' => Apart(MarkWays)
  BY DEF Apart
<1>3. Apart(MarkWays \cup {"between"})' => Apart(MarkWays \cup {"between"})
  BY DEF Apart
<1>4. tree'["promo"] = tree["promo"] /\ tree'["down"] = tree["down"]
  OBVIOUS
<1>5. Staged'
  BY <1>1, <1>2, <1>4 DEF IInv, Staged, Whole
<1>6. Loose'
  BY <1>1, <1>3, <1>4 DEF IInv, Loose, Whole, Unfinished
<1> QED
  BY <1>5, <1>6

\* A request, or an end of a job or a helper, touches no file.
LEMMA Requests ==
    ASSUME IInv, Typed', Helped', UNCHANGED <<tree, cert, had, op, boot>>,
           crossed \subseteq crossed', Busy => pending' \subseteq pending,
           boot # "up" => UNCHANGED <<jobs, helper, pending>>,
           helper' = NoHelper \/ (helper'.torn = helper.torn /\ helper'.rev = helper.rev
                                  /\ helper'.job \in {0, helper.job}),
           \A j \in JobIds : jobs[j].pc \in {"running", "answered"} => jobs'[j].rev = jobs[j].rev,
           Answered' \subseteq Answered
    PROVE  IInv'
<1>1. Final' = Final /\ Standing' = Standing
  BY DEF Final, Standing
<1>2. \A ways : Apart(ways)' => Apart(ways)
  BY DEF Apart
<1>3. helper'.torn => helper.torn
  <2>1. CASE helper' = NoHelper
    <3>1. helper'.torn = FALSE
      BY <2>1 DEF NoHelper
    <3> QED
      BY <3>1
  <2>2. CASE helper'.torn = helper.torn
    BY <2>2
  <2> QED
    BY <2>1, <2>2
<1>4. HelperUp' => HelperUp
  BY DEF HelperUp, NoHelper
<1>5. helper'.job # 0 => helper.job # 0 /\ helper'.job = helper.job /\ jobs'[helper'.job].rev = jobs[helper.job].rev
  BY DEF NoHelper, IInv, Helped, Typed
<1>6. \A j \in Answered' : j \in Answered /\ j \in JobIds /\ jobs'[j].rev = jobs[j].rev
  BY DEF Answered
<1>7. Importing'
  BY <1>1 DEF IInv, Importing, Whole
<1>8. Honest'
  BY DEF IInv, Honest, Sincere
<1>9. Evident'
  BY DEF IInv, Evident, Busy, PeerHas
<1>10. RunsOnVerifiedContent'
  BY <1>1, <1>2 DEF IInv, RunsOnVerifiedContent
<1>11. Exchanged'
  BY <1>1, <1>3, <1>4 DEF IInv, Exchanged
<1>12. Kept'
  BY <1>1, <1>2 DEF IInv, Kept, Whole
<1>13. Filled'
  BY <1>1, <1>2, <1>6 DEF IInv, Filled, Whole
<1>14. Marked'
  BY <1>1, <1>2, <1>3, <1>5, <1>6 DEF IInv, Marked, Whole
<1>15. Staged' /\ Loose'
  BY <1>1, <1>2 DEF IInv, Staged, Loose, Whole, Unfinished
<1> QED
  BY <1>7, <1>8, <1>9, <1>10, <1>11, <1>12, <1>13, <1>14, <1>15 DEF IInv

-----------------------------------------------------------------------------
(* The Models page and the end of helpers *)

\* A download is asked for, begins, or is cancelled.
LEMMA Asking ==
    ASSUME IInv, (\E rev \in Asked : Ask(rev)) \/ (\E j \in JobIds : Create(j) \/ Cancel(j))
    PROVE  IInv'
<1>1. boot = "up" /\ boot' = boot
  <2>1. ASSUME boot # "up"
        PROVE  FALSE
    <3>1. \A j \in JobIds : jobs[j].pc = "none"
      BY <2>1, Early DEF NoJob
    <3> QED
      BY <2>1, <3>1 DEF Ask, Create, Cancel, ActiveJobs
  <2> QED
    BY <2>1 DEF Ask, Create, Cancel, others
<1>2. PICK j \in JobIds : \E r \in Jobs :
        /\ jobs' = [jobs EXCEPT ![j] = r]
        /\ \/ r.pc \in {"asked", "begun"} /\ jobs[j].pc \in {"none", "asked"}
           \/ r.pc = jobs[j].pc /\ r.rev = jobs[j].rev
  <2> DEFINE Taken(j, r) == \/ r.pc \in {"asked", "begun"} /\ jobs[j].pc \in {"none", "asked"}
                            \/ r.pc = jobs[j].pc /\ r.rev = jobs[j].rev
  <2>1. ASSUME NEW rev \in Asked, Ask(rev)
        PROVE  \E j \in JobIds : \E r \in Jobs : jobs' = [jobs EXCEPT ![j] = r] /\ Taken(j, r)
    <3> DEFINE r == [NoJob EXCEPT !.pc = "asked", !.rev = rev]
    <3>1. r \in Jobs /\ r.pc = "asked"
      BY DEF NoJob, Jobs
    <3>2. PICK j \in JobIds : jobs[j].pc = "none" /\ jobs' = [jobs EXCEPT ![j] = r]
      BY <2>1 DEF Ask
    <3> HIDE DEF r
    <3> QED
      BY <3>1, <3>2
  <2>2. ASSUME NEW j \in JobIds, Create(j)
        PROVE  \E r \in Jobs : jobs' = [jobs EXCEPT ![j] = r] /\ Taken(j, r)
    <3> DEFINE r == [jobs[j] EXCEPT !.pc = "begun"]
    <3>1. r \in Jobs /\ r.pc = "begun"
      BY Types DEF Jobs
    <3>2. jobs[j].pc = "asked" /\ jobs' = [jobs EXCEPT ![j] = r]
      BY <2>2 DEF Create
    <3> HIDE DEF r
    <3> QED
      BY <3>1, <3>2
  <2>3. ASSUME NEW j \in JobIds, Cancel(j)
        PROVE  \E r \in Jobs : jobs' = [jobs EXCEPT ![j] = r] /\ Taken(j, r)
    <3> DEFINE r == [jobs[j] EXCEPT !.told = TRUE]
    <3>1. r \in Jobs /\ r.pc = jobs[j].pc /\ r.rev = jobs[j].rev
      BY Types DEF Jobs
    <3>2. jobs' = [jobs EXCEPT ![j] = r]
      BY <2>3 DEF Cancel
    <3> HIDE DEF r
    <3> QED
      BY <3>1, <3>2
  <2> HIDE DEF Taken
  <2>4. \E j \in JobIds : \E r \in Jobs : jobs' = [jobs EXCEPT ![j] = r] /\ Taken(j, r)
    BY <2>1, <2>2, <2>3
  <2> QED
    BY <2>4 DEF Taken
<1>3. PICK r \in Jobs :
        /\ jobs' = [jobs EXCEPT ![j] = r]
        /\ \/ r.pc \in {"asked", "begun"} /\ jobs[j].pc \in {"none", "asked"}
           \/ r.pc = jobs[j].pc /\ r.rev = jobs[j].rev
  BY <1>2
<1>4. /\ jobs' \in [JobIds -> Jobs]
      /\ \A k \in JobIds : jobs[k].pc \in {"running", "answered"} =>
            jobs'[k].pc = jobs[k].pc /\ jobs'[k].rev = jobs[k].rev
      /\ Answered' \subseteq Answered
  BY <1>3 DEF IInv, Typed, Answered
<1>5. UNCHANGED <<tree, cert, had, op, helper, pending, restarts>> /\ crossed \subseteq crossed'
  BY DEF Ask, Create, Cancel, files, others, Cross
<1>6. record' \in [phase : {"none", "downloading", "error"}, rev : Asked]
  <2>1. ASSUME NEW k \in JobIds, Create(k)
        PROVE  record' \in [phase : {"none", "downloading", "error"}, rev : Asked]
    BY <2>1, Types DEF Create, Downloading, Jobs
  <2> QED
    BY <2>1 DEF IInv, Typed, Ask, Cancel
<1>7. Typed' /\ Helped'
  BY <1>1, <1>4, <1>5, <1>6 DEF IInv, Typed, Helped
<1> QED
  BY <1>1, <1>4, <1>5, <1>7, Requests

\* A job ends, or ticks; its helper may be removed, or left to itself.
LEMMA Ending ==
    ASSUME IInv, NEW j \in JobIds,
           \/ JobFails(j) \/ JobTimesOut(j) \/ JobTicks(j) \/ JobCancelled(j)
           \/ JobSucceeds(j)
    PROVE  IInv'
<1> DEFINE r == [jobs[j] EXCEPT !.pc = "ended"]
<1>1. boot = "up" /\ boot' = boot
  <2>1. ASSUME boot # "up"
        PROVE  FALSE
    <3>1. jobs[j].pc = "none"
      BY <2>1, Early DEF NoJob
    <3> QED
      BY <3>1 DEF JobFails, JobTimesOut, JobTicks, JobCancelled, JobSucceeds
  <2> QED
    BY <2>1 DEF JobFails, JobTimesOut, JobTicks, JobCancelled, JobSucceeds, others
<1>2. r \in Jobs /\ r.pc = "ended" /\ r.rev = jobs[j].rev
  BY Types DEF Jobs
<1>3. jobs' = jobs \/ jobs' = [jobs EXCEPT ![j] = r]
  BY DEF JobFails, JobTimesOut, JobTicks, JobCancelled, JobSucceeds, Ends
<1> HIDE DEF r
<1>4. /\ jobs' \in [JobIds -> Jobs]
      /\ \A k \in JobIds : jobs'[k].rev = jobs[k].rev /\ (k # j => jobs'[k].pc = jobs[k].pc)
      /\ Answered' \subseteq Answered
  BY <1>2, <1>3 DEF IInv, Typed, Answered
<1>5. UNCHANGED <<tree, cert, had, op, pending, restarts>> /\ crossed \subseteq crossed'
  BY DEF JobFails, JobTimesOut, JobTicks, JobCancelled, JobSucceeds, files, others, Cross
<1>6. record' \in [phase : {"none", "downloading", "error"}, rev : Asked]
  BY Types DEF IInv, Typed, JobFails, JobTimesOut, JobTicks, JobCancelled, JobSucceeds, Ends,
               Downloading, NoRecord, Jobs, Asked
<1>7. /\ helper' \in [job : JobIds \cup {0}, rev : Names, torn : BOOLEAN]
      /\ helper' = NoHelper \/ (helper'.torn = helper.torn /\ helper'.rev = helper.rev
                                /\ helper'.job \in {0, helper.job})
      /\ helper'.rev = None => helper' = NoHelper
  <2>1. CASE helper' = NoHelper
    BY <2>1 DEF NoHelper, Names
  <2>2. CASE helper' = helper
    BY <2>2 DEF IInv, Typed, Helped
  <2>3. CASE helper' = [helper EXCEPT !.job = 0] /\ helper.job = j
    <3>1. helper' = [job |-> 0, rev |-> helper.rev, torn |-> helper.torn]
      BY <2>3, Types
    <3>2. helper.rev # None
      BY <2>3, Types DEF IInv, Helped, NoHelper
    <3> QED
      BY <3>1, <3>2, Types
  <2> QED
    BY <2>1, <2>2, <2>3 DEF JobFails, JobTimesOut, JobTicks, JobCancelled, JobSucceeds
<1>8. helper'.job # 0 => helper'.job = helper.job /\ (helper'.job # j \/ jobs' = jobs)
  <2>1. CASE helper' = NoHelper
    BY <2>1 DEF NoHelper
  <2>2. CASE helper' = helper /\ (jobs' = jobs \/ helper.job # j)
    BY <2>2
  <2>3. CASE JobTimesOut(j)
    BY <2>3, Types DEF JobTimesOut
  <2>4. ASSUME JobSucceeds(j), helper.job = j, j # 0
        PROVE  FALSE
    BY <2>4 DEF JobSucceeds, IInv, Helped
  <2> QED
    BY <2>1, <2>2, <2>3, <2>4, Types DEF JobFails, JobTicks, JobCancelled, JobSucceeds
<1>9. Typed'
  BY <1>1, <1>4, <1>5, <1>6, <1>7 DEF IInv, Typed
<1>10. Helped'
  BY <1>4, <1>7, <1>8 DEF IInv, Helped, NoHelper, Typed, Resolved
<1> QED
  BY <1>1, <1>4, <1>5, <1>7, <1>9, <1>10, Requests

\* A helper fails, the folder is looked through, the library changes, or a
\* cleanup lists what it will remove.
LEMMA Listing ==
    ASSUME IInv, HelperFails \/ Scan \/ DeleteRecipe \/ SaveRecipe \/ GCLists
    PROVE  IInv'
<1>1. /\ UNCHANGED <<tree, cert, had, op, boot, jobs, record, restarts>>
      /\ crossed \subseteq crossed'
  BY DEF HelperFails, Scan, DeleteRecipe, SaveRecipe, GCLists, files, others
<1>2. Answered' = Answered
  BY <1>1 DEF Answered
<1>3. helper' = NoHelper \/ helper' = helper
  BY DEF HelperFails, Scan, DeleteRecipe, SaveRecipe, GCLists
<1>4. boot # "up" => UNCHANGED <<helper, pending>>
  <2> SUFFICES ASSUME boot # "up"
               PROVE  UNCHANGED <<helper, pending>>
    OBVIOUS
  <2>1. helper = NoHelper
    BY Early
  <2> QED
    BY <1>3, <2>1 DEF HelperFails, Scan, DeleteRecipe, SaveRecipe, GCLists, others, HelperUp
<1>5. /\ pending' \subseteq {"final", "promo", "backup", "down"}
      /\ Busy => pending' \subseteq pending
  BY DEF IInv, Typed, HelperFails, Scan, DeleteRecipe, SaveRecipe, GCLists, others, Protected,
         Collectable
<1>6. helper' \in [job : JobIds \cup {0}, rev : Names, torn : BOOLEAN]
  <2>1. NoHelper \in [job : JobIds \cup {0}, rev : Names, torn : BOOLEAN]
    BY DEF NoHelper, Names
  <2>2. helper \in [job : JobIds \cup {0}, rev : Names, torn : BOOLEAN]
    BY DEF IInv, Typed
  <2> QED
    BY <1>3, <2>1, <2>2
<1>7. Typed'
  BY <1>1, <1>5, <1>6 DEF IInv, Typed
<1>8. Helped'
  BY <1>1, <1>3 DEF IInv, Helped, NoHelper
<1> QED
  BY <1>1, <1>2, <1>3, <1>4, <1>5, <1>7, <1>8, Requests

-----------------------------------------------------------------------------
(* The preparation looks, and goes on *)

\* What the preparation is after a step.
LEMMA Going ==
    ASSUME IInv, NEW pc \in Phases, Goes(pc)
    PROVE  /\ op' \in [pc : Phases, evidence : Sound, tries : Nat]
           /\ op'.pc = pc /\ op'.evidence = op.evidence
BY Types DEF Goes

\* A step that changes no file and little but the place of the preparation.
LEMMA Proceeding ==
    ASSUME IInv, boot = "up", UNCHANGED <<tree, view, had, jobs, helper, record, saved, boot, restarts>>,
           pending' \subseteq pending, crossed \subseteq crossed',
           op' \in [pc : Phases, evidence : Sound, tries : Nat],
           cert' \in [{"final", "down", "peer"} -> Sound],
           op.pc # "moved", op'.pc \notin {"filled", "moved"}, op'.pc \in Seeded => op.pc \in Seeded,
           Honest', Evident', RunsOnVerifiedContent'
    PROVE  IInv'
<1>1. Typed'
  BY DEF IInv, Typed
<1>2. Helped' /\ Importing' /\ Exchanged' /\ Kept' /\ Filled' /\ Marked'
  BY <1>1, Around
<1>3. Staged' /\ Loose'
  BY Aside
<1> QED
  BY <1>1, <1>2, <1>3 DEF IInv

\* A preparation fails, is stopped, or goes on to the peer, the last look and
\* the launch.
LEMMA Passing ==
    ASSUME IInv, OpFails \/ PeerMatches \/ OpPrepares \/ OpRuns \/ OpStops
    PROVE  IInv'
<1>1. boot = "up"
  BY Early DEF OpFails, PeerMatches, OpPrepares, OpRuns, OpStops, At
<1>2. UNCHANGED <<tree, cert, view, had, jobs, helper, record, saved, pending, boot, restarts, crossed>>
  BY DEF OpFails, PeerMatches, OpPrepares, OpRuns, OpStops, files, others
<1>3. \E pc \in {"idle", "spread", "prepared", "running"} : Goes(pc)
  BY DEF OpFails, PeerMatches, OpPrepares, OpRuns, OpStops
<1>4. /\ op' \in [pc : Phases, evidence : Sound, tries : Nat] /\ op'.evidence = op.evidence
      /\ op'.pc \in {"idle", "spread", "prepared", "running"} /\ op.pc # "moved"
      /\ op'.pc = "spread" => op.pc = "certified" /\ (Distributed => PeerHas)
      /\ op'.pc = "prepared" => op.pc = "spread" /\ SizesFit /\ cert["final"] = op.evidence
      /\ op'.pc = "running" => op.pc = "prepared"
  BY <1>3, Going DEF OpFails, PeerMatches, OpPrepares, OpRuns, OpStops, At, Phases, Goes
<1>5. Evident'
  BY <1>2, <1>4 DEF IInv, Evident, PeerHas, Busy
<1>6. RunsOnVerifiedContent'
  <2> SUFFICES ASSUME op'.pc \in {"prepared", "running"},
                      Apart({"removed", "shared", "exchange", "stale-list"})
               PROVE  /\ Final.snap[Wanted] = "whole"
                      /\ Distributed => tree["peer"].snap[Wanted] = "whole"
    BY <1>2 DEF RunsOnVerifiedContent, Final, Apart
  <2>1. CASE op.pc = "prepared"
    BY <2>1 DEF IInv, RunsOnVerifiedContent
  <2>2. CASE op.pc = "spread" /\ SizesFit /\ cert["final"] = op.evidence
    <3>1. op.evidence = "whole"
      BY <2>2 DEF IInv, Honest, Evident, AllFiles, Apart
    <3>2. Final.snap[Wanted] # "bad"
      BY Types DEF IInv, Honest, Sincere, Apart, Final, Places
    <3>3. Final.snap[Wanted] = "whole"
      BY <2>2, <3>1, <3>2 DEF SizesFit, AllFiles
    <3> QED
      BY <2>2, <3>1, <3>3 DEF IInv, Evident, PeerHas
  <2> QED
    BY <1>4, <2>1, <2>2
<1> QED
  <2>1. Honest'
    BY <1>2, <1>4 DEF IInv, Honest, Sincere
  <2>2. cert' \in [{"final", "down", "peer"} -> Sound]
    BY <1>2 DEF IInv, Typed
  <2> QED
    BY <1>1, <1>2, <1>4, <1>5, <1>6, <2>1, <2>2, Proceeding DEF Seeded

\* A preparation begins, and finds what it needs on the disk.
LEMMA Finding ==
    ASSUME IInv, OpBegins \/ OpReuses \/ OpAdopts \/ OpResumes
    PROVE  IInv'
<1>1. boot = "up"
  BY Early DEF OpBegins, OpReuses, OpAdopts, OpResumes, At
<1>2. /\ UNCHANGED <<tree, view, had, jobs, helper, record, saved, pending, boot, restarts>>
      /\ crossed \subseteq crossed'
  BY DEF OpBegins, OpReuses, OpAdopts, OpResumes, files, others, Cross
<1>3. /\ Final.snap[Wanted] \in Contents /\ Final = tree["final"] /\ "final" \in Places
      /\ cert["final"] \in Sound /\ cert["down"] \in Sound
  BY Types DEF Repos, Final, Places
<1>4. CASE OpBegins
  <2>1. /\ op' = [pc |-> "inspecting", evidence |-> "none", tries |-> op.tries + 1]
        /\ UNCHANGED cert /\ op.pc = "idle"
    BY <1>4 DEF OpBegins, At, files
  <2>2. /\ op' \in [pc : Phases, evidence : Sound, tries : Nat]
        /\ op'.pc = "inspecting" /\ op'.evidence = "none"
    BY <2>1, Types DEF Phases, Sound
  <2>3. Honest'
    BY <1>2, <2>1, <2>2 DEF IInv, Honest, Sincere
  <2>4. "stale-list" \notin crossed' => pending' = {}
    BY <1>2, <1>4 DEF OpBegins, Cross
  <2>5. Evident' /\ RunsOnVerifiedContent'
    BY <2>2, <2>4 DEF Evident, RunsOnVerifiedContent
  <2>6. cert' \in [{"final", "down", "peer"} -> Sound]
    BY <2>1 DEF IInv, Typed
  <2> QED
    BY <1>1, <1>2, <2>1, <2>2, <2>3, <2>5, <2>6, Proceeding DEF Seeded
<1>5. CASE OpReuses \/ OpAdopts
  <2> DEFINE found == IF OpReuses THEN cert["final"] ELSE Final.snap[Wanted]
  <2>1. /\ op.pc = "inspecting" /\ found \in AllFiles /\ found = Final.snap[Wanted]
        /\ op' = [op EXCEPT !.pc = "certified", !.evidence = found]
        /\ cert' = cert \/ cert' = [cert EXCEPT !["final"] = found]
        /\ crossed' = crossed
    BY <1>3, <1>5 DEF OpReuses, OpAdopts, At, Certified, files, Verified, Sound, AllFiles
  <2> HIDE DEF found
  <2>2. /\ op' \in [pc : Phases, evidence : Sound, tries : Nat]
        /\ op'.pc = "certified" /\ op'.evidence = found
    BY <2>1, Types DEF Phases, Sound, AllFiles
  <2>3. cert' \in [{"final", "down", "peer"} -> Sound]
    BY <2>1 DEF IInv, Typed, Sound, AllFiles
  <2>4. Honest'
    <3> SUFFICES ASSUME "shared" \notin crossed
                 PROVE  /\ \A p \in Places : Sincere(tree[p])
                        /\ \A p \in {"final", "down", "peer"} : cert'[p] # "bad"
                        /\ op'.evidence # "bad"
      BY <1>2, <2>1 DEF Honest, Sincere
    <3>1. found # "bad"
      BY <1>3, <2>1, Types DEF IInv, Honest, Sincere
    <3> QED
      BY <2>1, <2>2, <3>1 DEF IInv, Honest, Typed
  <2>5. Evident' /\ RunsOnVerifiedContent'
    BY <1>2, <2>1, <2>2 DEF IInv, Evident, RunsOnVerifiedContent, Busy
  <2> QED
    BY <1>1, <1>2, <2>1, <2>2, <2>3, <2>4, <2>5, Proceeding DEF Seeded
<1>6. CASE OpResumes
  <2>1. /\ op.pc = "seeded" /\ cert["down"] \in AllFiles /\ UNCHANGED <<cert, crossed>>
        /\ op' = [op EXCEPT !.pc = "promoting", !.evidence = cert["down"]]
    BY <1>3, <1>6 DEF OpResumes, At, files, Verified, Sound, AllFiles
  <2>2. /\ op' \in [pc : Phases, evidence : Sound, tries : Nat]
        /\ op'.pc = "promoting" /\ op'.evidence = cert["down"]
    BY <1>3, <2>1, Types DEF Phases
  <2>3. Honest'
    BY <1>2, <2>1, <2>2 DEF IInv, Honest, Sincere
  <2>4. Evident' /\ RunsOnVerifiedContent'
    BY <1>2, <2>1, <2>2 DEF IInv, Evident, RunsOnVerifiedContent, Busy
  <2>5. cert' \in [{"final", "down", "peer"} -> Sound]
    BY <2>1 DEF IInv, Typed
  <2> QED
    BY <1>1, <1>2, <2>1, <2>2, <2>3, <2>4, <2>5, Proceeding DEF Seeded
<1> QED
  BY <1>4, <1>5, <1>6

-----------------------------------------------------------------------------
(* The download staging *)

\* What Staged and Loose say of a staging.
StagedIn(t, pc) ==
    \A r \in t.marks \ {Wanted} :
        r \in Whole(t) \cup (IF pc \in Seeded THEN {} ELSE Whole(Final))
LooseIn(t, pc) ==
    Unfinished(t) \ {Wanted} \subseteq t.loose \cup (IF pc \in Seeded THEN {} ELSE Whole(Final))

\* A step that changes the download staging alone.
LEMMA Below ==
    ASSUME IInv, boot = "up", NEW t \in Repos, tree' = [tree EXCEPT !["down"] = t],
           UNCHANGED <<had, jobs, helper, record, boot, restarts>>,
           pending' \subseteq pending, crossed \subseteq crossed',
           op' \in [pc : Phases, evidence : Sound, tries : Nat],
           cert' \in [{"final", "down", "peer"} -> Sound],
           op' = op \/ (op.pc # "moved" /\ op'.pc \notin {"filled", "moved"}),
           Apart(MarkWays)' => StagedIn(t, op'.pc),
           Apart(MarkWays \cup {"between"})' => LooseIn(t, op'.pc),
           Honest', Evident', RunsOnVerifiedContent'
    PROVE  IInv'
<1>1. /\ tree' \in [Places -> Repos] /\ tree'["down"] = t
      /\ \A p \in {"final", "promo", "backup"} : tree'[p] = tree[p]
  BY DEF IInv, Typed, Places
<1>2. Typed'
  BY <1>1 DEF IInv, Typed
<1>3. Helped' /\ Importing' /\ Exchanged' /\ Kept' /\ Filled' /\ Marked'
  BY <1>1, <1>2, Around
<1>4. Final' = Final /\ Standing' = Standing /\ tree'["promo"] = tree["promo"]
  BY <1>1 DEF Final, Standing
<1>5. Staged'
  BY <1>1, <1>4 DEF Staged, StagedIn, Whole
<1>6. Apart(MarkWays \cup {"between"})' => Apart(MarkWays \cup {"between"})
  BY DEF Apart
<1>7. Loose'
  BY <1>1, <1>4, <1>6 DEF IInv, Loose, LooseIn, Whole, Unfinished
<1> QED
  BY <1>2, <1>3, <1>5, <1>7 DEF IInv

\* What the staging is, and what the steps of the download find.
LEMMA Download ==
    ASSUME IInv, OpStages \/ OpSeeds \/ OpDownloads \/ OpCertifies \/ OpDropsStaging
    PROVE  /\ boot = "up" /\ UNCHANGED <<had, jobs, helper, record, pending, boot, restarts>>
           /\ crossed \subseteq crossed' /\ Final \in Repos /\ tree["down"] \in Repos
           /\ Apart(MarkWays)' => Apart(MarkWays) /\ "shared" \notin crossed
           /\ Apart(MarkWays \cup {"between"})' => Apart(MarkWays \cup {"between"})
           /\ op.pc \in {"inspecting", "seeding", "seeded", "recorded"} /\ Standing = Final
<1>1. op.pc \in {"inspecting", "seeding", "seeded", "recorded"}
  BY DEF OpStages, OpSeeds, OpDownloads, OpCertifies, OpDropsStaging, At
<1>2. boot = "up"
  BY <1>1, Early
<1>3. /\ UNCHANGED <<had, jobs, helper, record, pending, boot, restarts>>
      /\ crossed \subseteq crossed'
  BY DEF OpStages, OpSeeds, OpDownloads, OpCertifies, OpDropsStaging, others, Cross
<1>4. Final \in Repos /\ tree["down"] \in Repos
  BY Types DEF Places
<1> QED
  BY <1>1, <1>2, <1>3, <1>4 DEF Apart, MarkWays, Standing

\* The honesty of the download staging is that of what is put there.
LEMMA HonestBelow ==
    ASSUME IInv, NEW t \in Repos, tree' = [tree EXCEPT !["down"] = t], crossed \subseteq crossed',
           "shared" \notin crossed =>
                /\ Sincere(t) /\ op'.evidence # "bad"
                /\ cert' = cert \/ (\E c \in Sound \ {"bad"} : cert' = [cert EXCEPT !["down"] = c])
    PROVE  Honest'
<1> SUFFICES ASSUME "shared" \notin crossed
             PROVE  /\ \A p \in Places : Sincere(tree'[p])
                    /\ \A p \in {"final", "down", "peer"} : cert'[p] # "bad"
                    /\ op'.evidence # "bad"
  BY DEF Honest, Sincere
<1>1. \A p \in Places : Sincere(tree'[p])
  BY DEF IInv, Honest, Typed
<1>2. \A p \in {"final", "down", "peer"} : cert'[p] # "bad"
  BY DEF IInv, Honest, Typed
<1> QED
  BY <1>1, <1>2

\* Staging begins with the markers and blobs of the repository, and goes on
\* with its snapshots.
LEMMA Staging ==
    ASSUME IInv, OpStages \/ OpSeeds
    PROVE  IInv'
<1> DEFINE d == tree["down"]
           first == [d EXCEPT !.marks = @ \cup Final.marks, !.loose = @ \cup Final.loose,
                              !.main = IF @ = None THEN Final.main ELSE @]
<1>1. /\ boot = "up" /\ UNCHANGED <<had, jobs, helper, record, pending, boot, restarts>>
      /\ crossed \subseteq crossed' /\ Final \in Repos /\ d \in Repos /\ Standing = Final
      /\ Apart(MarkWays)' => Apart(MarkWays) /\ "shared" \notin crossed
      /\ Apart(MarkWays \cup {"between"})' => Apart(MarkWays \cup {"between"})
  BY Download
<1>2. UNCHANGED cert
  BY DEF OpStages, OpSeeds
<1>3. cert' \in [{"final", "down", "peer"} -> Sound]
  BY <1>2 DEF IInv, Typed
<1>4. "shared" \notin crossed => Sincere(d) /\ Sincere(Final) /\ op.evidence # "bad"
  BY DEF IInv, Honest, Final, Places
<1> HIDE DEF d
<1>5. CASE OpStages
  <2>1. op.pc = "inspecting" /\ Goes("seeding")
    BY <1>5 DEF OpStages, At
  <2>2. /\ op' \in [pc : Phases, evidence : Sound, tries : Nat] /\ op'.pc = "seeding"
        /\ op'.evidence = op.evidence
    BY <2>1, Going DEF Phases
  <2>3. /\ first \in Repos /\ first.marks = d.marks \cup Final.marks
        /\ first.loose = d.loose \cup Final.loose /\ first.snap = d.snap
    BY <1>1 DEF Repos
  <2>4. tree' = [tree EXCEPT !["down"] = first]
    BY <1>5 DEF OpStages, Put, d
  <2> HIDE DEF first
  <2>5. Whole(first) = Whole(d) /\ Unfinished(first) = Unfinished(d) /\ (Sincere(d) => Sincere(first))
    BY <2>3 DEF Whole, Unfinished, Sincere
  <2>6. Apart(MarkWays)' => StagedIn(first, op'.pc)
    BY <1>1, <2>1, <2>2, <2>3, <2>5 DEF IInv, Staged, Marked, StagedIn, Seeded, d
  <2>7. Apart(MarkWays \cup {"between"})' => LooseIn(first, op'.pc)
    BY <1>1, <2>1, <2>2, <2>3, <2>5 DEF IInv, Loose, LooseIn, Seeded, d
  <2>8. Honest'
    BY <1>1, <1>2, <1>4, <2>2, <2>3, <2>4, <2>5, HonestBelow
  <2>9. Evident' /\ RunsOnVerifiedContent'
    BY <1>1, <2>1, <2>2 DEF IInv, Evident, RunsOnVerifiedContent, Busy
  <2> QED
    BY <1>1, <1>3, <2>1, <2>2, <2>3, <2>4, <2>6, <2>7, <2>8, <2>9, Below
<1>6. CASE OpSeeds
  <2> DEFINE m == Merge(d, Final)
  <2>1. op.pc = "seeding" /\ Goes("seeded")
    BY <1>6 DEF OpSeeds, At
  <2>2. /\ op' \in [pc : Phases, evidence : Sound, tries : Nat] /\ op'.pc = "seeded"
        /\ op'.evidence = op.evidence
    BY <2>1, Going DEF Phases
  <2>3. /\ m \in Repos /\ m.marks = d.marks \cup Final.marks
        /\ m.loose = d.loose \cup Final.loose
        /\ Unfinished(m) \subseteq (Unfinished(d) \cup Unfinished(Final)) \ (Whole(d) \cup Whole(Final))
    BY <1>1, Merged
  <2>4. tree' = [tree EXCEPT !["down"] = m]
    BY <1>6 DEF OpSeeds, Put, d
  <2>5. "shared" \notin crossed => Sincere(m) /\ Whole(m) = Whole(d) \cup Whole(Final)
    BY <1>1, <1>4, SincereWhole
  <2> HIDE DEF m
  <2>6. Apart(MarkWays)' => StagedIn(m, op'.pc)
    BY <1>1, <2>1, <2>2, <2>3, <2>5 DEF IInv, Staged, Marked, StagedIn, Seeded, d
  <2>7. Apart(MarkWays \cup {"between"})' => LooseIn(m, op'.pc)
    BY <1>1, <2>1, <2>2, <2>3 DEF IInv, Loose, LooseIn, Seeded, d
  <2>8. Honest'
    BY <1>1, <1>2, <1>4, <2>2, <2>3, <2>4, <2>5, HonestBelow
  <2>9. Evident' /\ RunsOnVerifiedContent'
    BY <1>1, <2>1, <2>2 DEF IInv, Evident, RunsOnVerifiedContent, Busy
  <2> QED
    BY <1>1, <1>3, <2>1, <2>2, <2>3, <2>4, <2>6, <2>7, <2>8, <2>9, Below
<1> QED
  BY <1>5, <1>6

\* The download of the recipe's revision touches that revision only.
LEMMA Fetching ==
    ASSUME IInv, OpDownloads \/ OpCertifies
    PROVE  IInv'
<1> DEFINE d == tree["down"]
<1>1. /\ boot = "up" /\ UNCHANGED <<had, jobs, helper, record, pending, boot, restarts>>
      /\ crossed \subseteq crossed' /\ d \in Repos
      /\ Apart(MarkWays)' => Apart(MarkWays) /\ "shared" \notin crossed
      /\ Apart(MarkWays \cup {"between"})' => Apart(MarkWays \cup {"between"})
  BY Download
<1>2. op.pc = "seeded" /\ op'.pc \in {"seeded", "promoting"} /\ crossed' = crossed
  <2>1. CASE OpDownloads
    BY <2>1 DEF OpDownloads, At
  <2>2. CASE OpCertifies
    BY <2>2, Types DEF OpCertifies, At
  <2> QED
    BY <2>1, <2>2
<1>3. "shared" \notin crossed => Sincere(d) /\ op.evidence # "bad"
  BY DEF IInv, Honest, Places
<1>4. PICK x \in Contents, u \in SUBSET Revs :
        /\ tree' = [tree EXCEPT !["down"] = [d EXCEPT !.snap[Wanted] = x, !.loose = u]]
        /\ u \ {Wanted} = d.loose \ {Wanted}
        /\ "shared" \notin crossed => x # "bad"
        /\ \/ op' = op /\ cert' = cert
           \/ /\ x \in AllFiles /\ op'.pc = "promoting"
              /\ op' = [op EXCEPT !.pc = "promoting", !.evidence = x]
              /\ cert' = [cert EXCEPT !["down"] = x]
  <2>1. CASE OpDownloads
    <3>1. PICK between \in BOOLEAN :
            tree' = [tree EXCEPT !["down"] = [d EXCEPT !.snap[Wanted] = "part",
                        !.loose = IF between THEN @ \ {Wanted} ELSE @ \cup {Wanted}]]
      BY <2>1 DEF OpDownloads, Put
    <3> DEFINE u == IF between THEN d.loose \ {Wanted} ELSE d.loose \cup {Wanted}
    <3>2. u \in SUBSET Revs /\ u \ {Wanted} = d.loose \ {Wanted}
      BY <1>1, Types DEF Repos
    <3>3. tree' = [tree EXCEPT !["down"] = [d EXCEPT !.snap[Wanted] = "part", !.loose = u]]
      BY <3>1
    <3>4. "part" \in Contents /\ op' = op /\ cert' = cert
      BY <2>1 DEF OpDownloads, Contents
    <3> HIDE DEF u, d
    <3> QED
      BY <3>2, <3>3, <3>4
  <2>2. CASE OpCertifies
    <3>1. PICK got \in {"whole"} \cup (IF "shared" \in crossed THEN {"bad"} ELSE {}) :
            LET full == [d EXCEPT !.snap[Wanted] = Fuller(@, got), !.loose = @ \ {Wanted}]
            IN /\ tree' = [tree EXCEPT !["down"] = full]
               /\ cert' = [cert EXCEPT !["down"] = full.snap[Wanted]]
               /\ op' = [op EXCEPT !.pc = "promoting", !.evidence = full.snap[Wanted]]
      BY <2>2 DEF OpCertifies, Put
    <3> DEFINE x == Fuller(d.snap[Wanted], got)
               u == d.loose \ {Wanted}
               full == [d EXCEPT !.snap[Wanted] = x, !.loose = u]
    <3>2. got \in Contents /\ got \in AllFiles /\ ("shared" \notin crossed => got # "bad")
      BY DEF Contents, AllFiles
    <3>3. d.snap[Wanted] \in Contents /\ ("shared" \notin crossed => d.snap[Wanted] # "bad")
      BY <1>1, <1>3, Types DEF Repos, Sincere
    <3>4. x \in Contents /\ x \in AllFiles /\ ("shared" \notin crossed => x # "bad")
      BY <3>2, <3>3, FullerFacts DEF Fuller
    <3>5. u \in SUBSET Revs /\ u \ {Wanted} = d.loose \ {Wanted}
      BY <1>1, Types DEF Repos
    <3>6. /\ tree' = [tree EXCEPT !["down"] = full]
          /\ cert' = [cert EXCEPT !["down"] = full.snap[Wanted]]
          /\ op' = [op EXCEPT !.pc = "promoting", !.evidence = full.snap[Wanted]]
      BY <3>1
    <3>7. full.snap[Wanted] = x
      BY <1>1, Types DEF Repos
    <3>8. op'.pc = "promoting"
      BY <3>6, Types
    <3> HIDE DEF x, u, d
    <3> QED
      BY <3>4, <3>5, <3>6, <3>7, <3>8
  <2> QED
    BY <2>1, <2>2
<1> DEFINE t == [d EXCEPT !.snap[Wanted] = x, !.loose = u]
<1> HIDE DEF d
<1>5. /\ t \in Repos /\ t.marks = d.marks /\ t.loose = u
      /\ \A r \in Revs : t.snap[r] = IF r = Wanted THEN x ELSE d.snap[r]
  BY <1>1, <1>4, Types DEF Repos
<1>6. tree' = [tree EXCEPT !["down"] = t]
  BY <1>4
<1> HIDE DEF t
<1>7. /\ Whole(t) \ {Wanted} = Whole(d) \ {Wanted} /\ Unfinished(t) \ {Wanted} = Unfinished(d) \ {Wanted}
      /\ "shared" \notin crossed => Sincere(t)
  BY <1>3, <1>4, <1>5 DEF Whole, Unfinished, Sincere
<1>8. Apart(MarkWays)' => StagedIn(t, op'.pc)
  BY <1>1, <1>2, <1>5, <1>7 DEF IInv, Staged, StagedIn, Seeded, d
<1>9. Apart(MarkWays \cup {"between"})' => LooseIn(t, op'.pc)
  BY <1>1, <1>2, <1>4, <1>5, <1>7 DEF IInv, Loose, LooseIn, Seeded, d
<1>10. /\ op' \in [pc : Phases, evidence : Sound, tries : Nat]
       /\ cert' \in [{"final", "down", "peer"} -> Sound]
       /\ op'.pc = "promoting" => op'.evidence \in AllFiles
  <2>1. op \in [pc : Phases, evidence : Sound, tries : Nat] /\ cert \in [{"final", "down", "peer"} -> Sound]
    BY DEF IInv, Typed
  <2>2. CASE op' = op /\ cert' = cert
    BY <1>2, <2>1, <2>2
  <2>3. CASE /\ x \in AllFiles /\ op' = [op EXCEPT !.pc = "promoting", !.evidence = x]
             /\ cert' = [cert EXCEPT !["down"] = x]
    <3>1. x \in Sound /\ "promoting" \in Phases
      BY <2>3 DEF Sound, AllFiles, Phases
    <3>2. cert' \in [{"final", "down", "peer"} -> Sound]
      BY <2>1, <2>3, <3>1
    <3>3. op' \in [pc : Phases, evidence : Sound, tries : Nat] /\ op'.evidence = x
      BY <2>1, <2>3, <3>1
    <3> QED
      BY <2>3, <3>2, <3>3
  <2> QED
    BY <1>4, <2>2, <2>3
<1>11. Honest'
  <2>1. op' = op \/ op'.evidence = x
    BY <1>4, Types
  <2>2. x \in AllFiles => x \in Sound
    BY DEF AllFiles, Sound
  <2> QED
    BY <1>1, <1>2, <1>3, <1>4, <1>5, <1>6, <1>7, <2>1, <2>2, HonestBelow
<1>12. Evident' /\ RunsOnVerifiedContent'
  BY <1>1, <1>2, <1>10 DEF IInv, Evident, RunsOnVerifiedContent, Busy
<1> QED
  BY <1>1, <1>2, <1>5, <1>6, <1>8, <1>9, <1>10, <1>11, <1>12, Below

\* The download staging is dropped when the exchange is on record.
LEMMA Dropping ==
    ASSUME IInv, OpDropsStaging
    PROVE  IInv'
<1>1. /\ boot = "up" /\ UNCHANGED <<had, jobs, helper, record, pending, boot, restarts, crossed>>
      /\ op.pc = "recorded" /\ Goes("certified") /\ cert' = [cert EXCEPT !["down"] = "none"]
      /\ tree' = [tree EXCEPT !["down"] = Empty]
  BY Download DEF OpDropsStaging, At, Put, others
<1>2. /\ op' \in [pc : Phases, evidence : Sound, tries : Nat] /\ op'.pc = "certified"
      /\ op'.evidence = op.evidence
  BY <1>1, Going DEF Phases
<1>3. StagedIn(Empty, op'.pc) /\ LooseIn(Empty, op'.pc)
  BY EmptyFacts DEF StagedIn, LooseIn
<1>4. "none" \in Sound \ {"bad"} /\ cert' \in [{"final", "down", "peer"} -> Sound]
  BY <1>1 DEF IInv, Typed, Sound
<1>5. Honest'
  BY <1>1, <1>2, <1>4, EmptyFacts, HonestBelow DEF IInv, Honest, Sincere
<1>6. Evident' /\ RunsOnVerifiedContent'
  BY <1>1, <1>2 DEF IInv, Evident, RunsOnVerifiedContent, Busy
<1> QED
  BY <1>1, <1>2, <1>3, <1>4, <1>5, <1>6, EmptyFacts, Below

-----------------------------------------------------------------------------
(* The exchange *)

\* What the steps of an exchange have in common.
LEMMA Exchange ==
    ASSUME IInv, OpFills \/ OpMovesOut \/ OpMovesIn \/ OpMovesBack
    PROVE  /\ boot = "up" /\ UNCHANGED <<cert, jobs, record, pending, boot, restarts>>
           /\ crossed \subseteq crossed' /\ \A ways : Apart(ways)' => Apart(ways)
           /\ op' \in [pc : Phases, evidence : Sound, tries : Nat] /\ op'.evidence = op.evidence
           /\ op.pc \in {"promoting", "filled", "moved"}
           /\ op'.pc \in {"idle", "filled", "moved", "exchanged"}
           /\ Answered' = Answered /\ \A p \in Places : tree[p] \in Repos
           /\ {"final", "promo", "backup", "down", "legacy"} \subseteq Places /\ Final = tree["final"]
           /\ \A r \in Revs : Empty.snap[r] = "none"
           /\ Empty \in Repos /\ Empty.marks = {} /\ Whole(Empty) = {} /\ Unfinished(Empty) = {}
<1>1. op.pc \in {"promoting", "filled", "moved"}
  BY DEF OpFills, OpMovesOut, OpMovesIn, OpMovesBack, At
<1>2. \E pc \in {"idle", "filled", "moved", "exchanged"} : Goes(pc)
  BY DEF OpFills, OpMovesOut, OpMovesIn, OpMovesBack
<1>3. /\ op' \in [pc : Phases, evidence : Sound, tries : Nat] /\ op'.evidence = op.evidence
      /\ op'.pc \in {"idle", "filled", "moved", "exchanged"}
  BY <1>2, Going DEF Phases
<1>4. UNCHANGED <<cert, jobs, record, pending, boot, restarts>> /\ crossed \subseteq crossed'
  BY DEF OpFills, OpMovesOut, OpMovesIn, OpMovesBack, others, Cross
<1>5. \A p \in Places : tree[p] \in Repos
  BY Types
<1>6. boot = "up"
  BY <1>1, Early
<1>7. (\A ways : Apart(ways)' => Apart(ways)) /\ Answered' = Answered
  BY <1>4 DEF Apart, Answered
<1> QED
  BY <1>1, <1>3, <1>4, <1>5, <1>6, <1>7, EmptyFacts DEF Places, Final

\* While there is no exchange with a helper there is no helper in an exchange.
LEMMA Helperless ==
    ASSUME IInv, op.pc \in {"filled", "moved"}, "exchange" \notin crossed
    PROVE  helper = NoHelper /\ ~helper.torn /\ helper.job = 0 /\ ~HelperUp
<1>1. helper = NoHelper /\ ~HelperUp
  BY DEF IInv, Exchanged, HelperUp, Helped
<1> QED
  BY <1>1 DEF NoHelper

\* The rest of the invariant, for a step of an exchange.
LEMMA Surrounding ==
    ASSUME IInv, OpFills \/ OpMovesOut \/ OpMovesIn \/ OpMovesBack,
           tree' \in [Places -> Repos], had' \subseteq Revs,
           tree'["down"] = tree["down"], \A p \in {"peer", "peer-stage"} : tree'[p] = tree[p],
           helper' \in [job : JobIds \cup {0}, rev : Names, torn : BOOLEAN],
           helper'.job = helper.job, helper'.rev = helper.rev,
           helper.rev = None => helper' = helper,
           "shared" \notin crossed => \A p \in Places : Sincere(tree'[p])
    PROVE  Typed' /\ Helped' /\ Importing' /\ Honest' /\ Evident' /\ RunsOnVerifiedContent'
<1>1. Typed'
  BY Exchange DEF IInv, Typed
<1>2. Helped' /\ Importing'
  BY Exchange DEF IInv, Helped, Importing
<1>3. Honest'
  BY Exchange DEF IInv, Honest
<1>4. Evident' /\ RunsOnVerifiedContent'
  BY Exchange DEF IInv, Evident, RunsOnVerifiedContent, Busy
<1> QED
  BY <1>1, <1>2, <1>3, <1>4

\* The promotion staging is filled: all of the repository and all of the
\* download.
LEMMA Filling ==
    ASSUME IInv, OpFills
    PROVE  IInv'
<1> DEFINE promo == tree["promo"]
           down == tree["down"]
           m == Merge(promo, Final)
           f == Overlay(m, down)
<1>1. /\ op.pc = "promoting" /\ tree' = [tree EXCEPT !["promo"] = f] /\ op'.pc = "filled"
      /\ f.snap[Wanted] = op.evidence /\ UNCHANGED <<had, helper>>
      /\ HelperUp => "exchange" \in crossed'
  <2>1. Goes("filled")
    BY DEF OpFills
  <2>2. op'.pc = "filled"
    BY <2>1, Going DEF Phases
  <2> QED
    BY <2>2 DEF OpFills, At, Put, Cross
<1>2. promo \in Repos /\ down \in Repos /\ Final \in Repos
  BY Exchange
<1>3. "shared" \notin crossed =>
        Sincere(promo) /\ Sincere(down) /\ Sincere(Final) /\ op.evidence # "bad"
  BY Exchange DEF IInv, Honest
<1>4. op.evidence \in AllFiles
  BY <1>1 DEF IInv, Evident
<1> HIDE DEF promo, down
<1>5. /\ m \in Repos /\ m.marks = promo.marks \cup Final.marks /\ m.loose = promo.loose \cup Final.loose
      /\ m.main = IF promo.main # None THEN promo.main ELSE Final.main
      /\ Unfinished(m) \subseteq Unfinished(promo) \cup Unfinished(Final)
      /\ "shared" \notin crossed => Sincere(m) /\ Whole(m) = Whole(promo) \cup Whole(Final)
  BY <1>2, <1>3, Merged, SincereWhole
<1> HIDE DEF m
<1>6. /\ f \in Repos /\ f.marks = m.marks \cup down.marks /\ f.loose = m.loose \cup down.loose
      /\ f.main = IF down.main # None THEN down.main ELSE m.main
      /\ Unfinished(f) \subseteq Unfinished(m) \cup Unfinished(down)
      /\ "shared" \notin crossed => Sincere(f) /\ Whole(f) = Whole(m) \cup Whole(down)
  <2>1. /\ f \in Repos /\ f.marks = m.marks \cup down.marks /\ f.loose = m.loose \cup down.loose
        /\ f.main = IF down.main # None THEN down.main ELSE m.main
        /\ Unfinished(f) \subseteq Unfinished(m) \cup Unfinished(down)
    BY <1>2, <1>5, Overlaid
  <2>2. ASSUME "shared" \notin crossed
        PROVE  Sincere(f) /\ Whole(f) = Whole(m) \cup Whole(down)
    BY <1>2, <1>3, <1>5, <2>2, SincereWhole
  <2> HIDE DEF f
  <2> QED
    BY <2>1, <2>2
<1> HIDE DEF f
<1>7. /\ tree'["promo"] = f /\ \A p \in Places \ {"promo"} : tree'[p] = tree[p]
      /\ tree' \in [Places -> Repos]
  BY <1>1, <1>6 DEF IInv, Typed, Places
<1>8. Final' = Final /\ Standing = Final /\ Standing' = Final
  BY <1>1, <1>7, Exchange DEF Final, Standing
<1>9. Typed' /\ Helped' /\ Importing' /\ Honest' /\ Evident' /\ RunsOnVerifiedContent'
  <2>1. "shared" \notin crossed => \A p \in Places : Sincere(tree'[p])
    BY <1>6, <1>7 DEF IInv, Honest
  <2>2. /\ helper' \in [job : JobIds \cup {0}, rev : Names, torn : BOOLEAN] /\ helper' = helper
        /\ had' \subseteq Revs
    BY <1>1 DEF IInv, Typed
  <2>3. tree'["down"] = tree["down"] /\ \A p \in {"peer", "peer-stage"} : tree'[p] = tree[p]
    BY <1>7 DEF Places
  <2> QED
    BY <1>7, <2>1, <2>2, <2>3, Surrounding
<1>10. Exchanged'
  BY <1>1, <1>7, <1>8, Exchange DEF IInv, Exchanged, HelperUp
<1>11. Kept'
  <2> SUFFICES ASSUME Apart({"exchange", "collected", "shared"})
               PROVE  had \subseteq Whole(Final) \cup Whole(f)
    BY <1>1, <1>7, <1>8, Exchange DEF Kept, Whole
  <2>1. had \subseteq Whole(Final) \cup Whole(promo)
    BY Exchange DEF IInv, Kept, promo
  <2>2. Whole(promo) \subseteq Whole(f)
    BY <1>5, <1>6 DEF Apart
  <2> QED
    BY <2>1, <2>2
<1>12. ASSUME Apart(MarkWays)
       PROVE  /\ Final.marks \subseteq Whole(Final) /\ promo.marks \subseteq Whole(promo)
              /\ down.marks \ {Wanted} \subseteq Whole(down)
              /\ Whole(f) = Whole(promo) \cup Whole(Final) \cup Whole(down) /\ Wanted \in Whole(f)
              /\ \A j \in Answered : jobs[j].rev = None => Final.main # None
  <2>1. "shared" \notin crossed
    BY <1>12 DEF Apart, MarkWays
  <2>2. Final.marks \subseteq Whole(Final) /\ promo.marks \subseteq Whole(promo)
    BY <1>8, <1>12, Exchange DEF IInv, Marked, promo
  <2>3. down.marks \ {Wanted} \subseteq Whole(down)
    BY <1>1, <1>12, Exchange DEF IInv, Staged, Seeded, down
  <2>4. Wanted \in Whole(f)
    BY <1>1, <1>3, <1>4, <2>1, Types DEF AllFiles, Whole
  <2>5. \A j \in Answered : jobs[j].rev = None => Final.main \in Whole(Final)
    BY <1>8, <1>12, Exchange DEF IInv, Marked
  <2> QED
    BY <1>5, <1>6, <2>1, <2>2, <2>3, <2>4, <2>5, Types DEF Whole
<1>13. Filled'
  <2>1. ASSUME Apart(MarkWays), NEW j \in Answered, jobs[j].rev = None
        PROVE  f.main # None
    BY <1>5, <1>6, <1>12, <2>1
  <2> QED
    BY <1>1, <1>5, <1>6, <1>7, <1>8, <2>1, Exchange DEF Filled, Apart
<1>14. Marked'
  <2> SUFFICES ASSUME Apart(MarkWays)
               PROVE  /\ ~helper.torn /\ Final.marks \subseteq Whole(Final)
                      /\ f.marks \subseteq Whole(f)
                      /\ \A j \in Answered : /\ Resolved(jobs[j].rev) \in Whole(Final)
                                             /\ jobs[j].rev = None => Final.main \in Whole(Final)
                      /\ helper.job # 0 /\ jobs[helper.job].rev = None =>
                            Final.main = Latest \/ (Final.main = Wanted /\ Wanted \in Final.marks)
    BY <1>1, <1>7, <1>8, Exchange DEF Marked, Whole
  <2> QED
    BY <1>5, <1>6, <1>8, <1>12, Exchange DEF IInv, Marked
<1>15. Staged'
  BY <1>1, <1>7, Exchange DEF IInv, Staged, Seeded, Whole, Places
<1>16. Loose'
  <2> SUFFICES ASSUME Apart(MarkWays \cup {"between"})
               PROVE  /\ Unfinished(Final) \subseteq Final.loose /\ Unfinished(f) \subseteq f.loose
                      /\ Unfinished(down) \ {Wanted} \subseteq down.loose
    <3>1. tree'["down"] = down
      BY <1>7 DEF Places, down
    <3> QED
      BY <1>1, <1>7, <1>8, <3>1, Exchange DEF Loose, Unfinished
  <2>1. /\ Unfinished(Final) \subseteq Final.loose /\ Unfinished(promo) \subseteq promo.loose
        /\ Unfinished(down) \ {Wanted} \subseteq down.loose
    BY <1>1, <1>8, Exchange DEF IInv, Loose, Seeded, promo, down
  <2>2. Wanted \notin Unfinished(f)
    BY <1>1, <1>4 DEF Unfinished, AllFiles
  <2> QED
    BY <1>5, <1>6, <2>1, <2>2
<1> QED
  BY <1>9, <1>10, <1>11, <1>13, <1>14, <1>15, <1>16 DEF IInv

\* The repository goes aside, until the staging takes its place.
LEMMA MovingOut ==
    ASSUME IInv, OpMovesOut
    PROVE  IInv'
<1>1. /\ op.pc = "filled" /\ tree["promo"] # Empty /\ op'.pc = "moved" /\ UNCHANGED <<had, crossed>>
      /\ tree' = [tree EXCEPT !["backup"] = Final, !["final"] = Empty]
      /\ helper' = IF HelperUp THEN [helper EXCEPT !.torn = TRUE] ELSE helper
  <2>1. Goes("moved")
    BY DEF OpMovesOut
  <2>2. op'.pc = "moved"
    BY <2>1, Going DEF Phases
  <2> QED
    BY <2>2 DEF OpMovesOut, At
<1>2. /\ tree'["final"] = Empty /\ tree'["backup"] = Final /\ tree' \in [Places -> Repos]
      /\ \A p \in {"promo", "down", "peer", "peer-stage"} : tree'[p] = tree[p]
  BY <1>1, Exchange DEF IInv, Typed, Places
<1>3. Final' = Empty /\ Standing = Final /\ Standing' = Final
  BY <1>1, <1>2 DEF Final, Standing
<1>4. /\ helper' \in [job : JobIds \cup {0}, rev : Names, torn : BOOLEAN]
      /\ helper'.job = helper.job /\ helper'.rev = helper.rev /\ (helper.rev = None => helper' = helper)
      /\ ~HelperUp => helper' = helper
  <2>1. helper \in [job : JobIds \cup {0}, rev : Names, torn : BOOLEAN]
    BY DEF IInv, Typed
  <2> QED
    BY <1>1, <2>1 DEF HelperUp
<1>5. "shared" \notin crossed => \A p \in Places : Sincere(tree'[p])
  BY <1>1, Exchange DEF IInv, Honest, Typed, Sincere
<1>6. Typed' /\ Helped' /\ Importing' /\ Honest' /\ Evident' /\ RunsOnVerifiedContent'
  <2>1. had' \subseteq Revs
    BY <1>1 DEF IInv, Typed
  <2> QED
    BY <1>2, <1>4, <1>5, <2>1, Surrounding
<1>7. "exchange" \notin crossed => helper' = helper /\ ~helper.torn /\ helper.job = 0 /\ ~HelperUp /\ ~HelperUp'
  BY <1>1, <1>4, Helperless DEF HelperUp
<1>8. Exchanged'
  BY <1>1, <1>2, <1>3, <1>7, Exchange DEF IInv, Exchanged
<1>9. Kept'
  BY <1>1, <1>2, <1>3, Exchange DEF IInv, Kept, Filled, Apart, Whole
<1>10. Filled'
  BY <1>1, <1>2, <1>3, Exchange DEF IInv, Filled, Apart, Whole
<1>11. Marked'
  BY <1>1, <1>2, <1>3, <1>7, Exchange DEF IInv, Marked, Whole, Apart, MarkWays
<1>12. Staged' /\ Loose'
  BY <1>1, <1>2, <1>3, Exchange DEF IInv, Staged, Loose, Seeded, Whole, Unfinished
<1> QED
  BY <1>6, <1>8, <1>9, <1>10, <1>11, <1>12 DEF IInv

\* The staging takes the place of the repository, with what was promised.
LEMMA MovingIn ==
    ASSUME IInv, OpMovesIn
    PROVE  IInv'
<1> DEFINE promo == tree["promo"]
<1>1. /\ op.pc = "moved" /\ promo # Empty /\ op'.pc = "exchanged" /\ UNCHANGED <<helper, crossed>>
      /\ tree' = [tree EXCEPT !["final"] = promo, !["promo"] = Empty]
      /\ had' = had \cup Whole(promo)
  <2>1. Goes("exchanged")
    BY DEF OpMovesIn
  <2>2. op'.pc = "exchanged"
    BY <2>1, Going DEF Phases
  <2> QED
    BY <2>2 DEF OpMovesIn, At
<1>2. promo \in Repos
  BY Exchange
<1>3. /\ tree'["final"] = promo /\ tree'["promo"] = Empty /\ tree' \in [Places -> Repos]
      /\ \A p \in {"backup", "down", "peer", "peer-stage"} : tree'[p] = tree[p]
  BY <1>1, <1>2, Exchange DEF IInv, Typed, Places
<1>4. Final' = promo /\ Standing = tree["backup"] /\ Standing' = promo
  BY <1>1, <1>3 DEF Final, Standing
<1>5. "shared" \notin crossed => (\A p \in Places : Sincere(tree'[p])) /\ op.evidence # "bad"
  BY <1>1, Exchange DEF IInv, Honest, Typed, Sincere
<1>6. Typed' /\ Helped' /\ Importing' /\ Honest' /\ Evident' /\ RunsOnVerifiedContent'
  <2>1. had' \subseteq Revs
    BY <1>1 DEF IInv, Typed, Whole
  <2>2. helper' \in [job : JobIds \cup {0}, rev : Names, torn : BOOLEAN] /\ helper' = helper
    BY <1>1 DEF IInv, Typed
  <2> QED
    BY <1>3, <1>5, <2>1, <2>2, Surrounding
<1>7. "exchange" \notin crossed => ~helper.torn /\ helper.job = 0
  BY <1>1, Helperless
<1>8. Exchanged'
  BY <1>1, <1>7, Exchange DEF Exchanged
<1>9. Kept'
  <2> SUFFICES ASSUME Apart({"exchange", "collected", "shared"})
               PROVE  had \cup Whole(promo) \subseteq Whole(promo)
    BY <1>1, <1>3, <1>4, Exchange DEF Kept, Whole
  <2> QED
    BY <1>1, Exchange DEF IInv, Kept
<1>10. Filled'
  BY <1>1 DEF Filled
<1>11. Marked'
  <2> SUFFICES ASSUME Apart(MarkWays)
               PROVE  /\ ~helper.torn /\ promo.marks \subseteq Whole(promo) /\ helper.job = 0
                      /\ \A j \in Answered : /\ Resolved(jobs[j].rev) \in Whole(promo)
                                             /\ jobs[j].rev = None => promo.main \in Whole(promo)
    BY <1>1, <1>3, <1>4, Exchange DEF Marked, Whole
  <2>1. Apart({"exchange", "shared"}) /\ "exchange" \notin crossed /\ "shared" \notin crossed
    BY DEF Apart, MarkWays
  <2>2. ~helper.torn /\ helper.job = 0 /\ promo.marks \subseteq Whole(promo)
    BY <1>7, <2>1, Exchange DEF IInv, Marked
  <2>3. Whole(tree["backup"]) \subseteq Whole(promo)
    BY <1>1, <2>1 DEF IInv, Filled
  <2>4. Wanted \in Whole(promo)
    BY <1>1, <1>5, <2>1, Types DEF IInv, Exchanged, Evident, AllFiles, Whole
  <2>5. ASSUME NEW j \in Answered
        PROVE  /\ Resolved(jobs[j].rev) \in Whole(promo)
               /\ jobs[j].rev = None => promo.main \in Whole(promo)
    <3>1. Resolved(jobs[j].rev) \in Whole(tree["backup"])
      BY <1>4, Exchange DEF IInv, Marked
    <3>2. ASSUME jobs[j].rev = None
          PROVE  promo.main \in Whole(promo)
      <4>1. promo.main # None
        BY <1>1, <2>1, <3>2 DEF IInv, Filled
      <4>2. promo.main \in {Latest, Wanted}
        BY <1>2, <4>1 DEF Repos, Names
      <4>3. Latest \in Whole(promo)
        BY <2>3, <3>1, <3>2 DEF Resolved
      <4> QED
        BY <2>4, <4>2, <4>3
    <3> QED
      BY <2>3, <3>1, <3>2
  <2> QED
    BY <2>2, <2>5
<1>12. Staged'
  BY <1>1, <1>3, Exchange DEF IInv, Staged, Seeded, Whole
<1>13. Loose'
  BY <1>1, <1>3, <1>4, Exchange DEF IInv, Loose, Seeded, Unfinished
<1> QED
  BY <1>6, <1>8, <1>9, <1>10, <1>11, <1>12, <1>13 DEF IInv

\* The second rename fails, and the repository is what it was.
LEMMA MovingBack ==
    ASSUME IInv, OpMovesBack
    PROVE  IInv'
<1>1. /\ op.pc = "moved" /\ op'.pc = "idle" /\ UNCHANGED <<had, helper, crossed>>
      /\ tree' = [tree EXCEPT !["final"] = tree["backup"], !["backup"] = Empty]
  <2>1. Goes("idle")
    BY DEF OpMovesBack
  <2>2. op'.pc = "idle"
    BY <2>1, Going DEF Phases
  <2> QED
    BY <2>2 DEF OpMovesBack, At
<1>2. /\ tree'["final"] = tree["backup"] /\ tree' \in [Places -> Repos]
      /\ \A p \in {"promo", "down", "peer", "peer-stage"} : tree'[p] = tree[p]
  BY <1>1, Exchange DEF IInv, Typed, Places
<1>3. Final' = tree["backup"] /\ Standing = tree["backup"] /\ Standing' = tree["backup"]
  BY <1>1, <1>2 DEF Final, Standing
<1>4. "shared" \notin crossed => \A p \in Places : Sincere(tree'[p])
  BY <1>1, Exchange DEF IInv, Honest, Typed, Sincere
<1>5. Typed' /\ Helped' /\ Importing' /\ Honest' /\ Evident' /\ RunsOnVerifiedContent'
  <2>1. had' \subseteq Revs
    BY <1>1 DEF IInv, Typed
  <2>2. helper' \in [job : JobIds \cup {0}, rev : Names, torn : BOOLEAN] /\ helper' = helper
    BY <1>1 DEF IInv, Typed
  <2> QED
    BY <1>2, <1>4, <2>1, <2>2, Surrounding
<1>6. "exchange" \notin crossed => ~helper.torn /\ helper.job = 0
  BY <1>1, Helperless
<1>7. Exchanged'
  BY <1>1, <1>6, Exchange DEF Exchanged
<1>8. Kept'
  <2> SUFFICES ASSUME Apart({"exchange", "collected", "shared"})
               PROVE  had \subseteq Whole(tree["promo"])
    BY <1>1, <1>2, Exchange DEF Kept, Whole
  <2> QED
    BY <1>1, Exchange DEF IInv, Kept
<1>9. Filled'
  BY <1>1 DEF Filled
<1>10. Marked'
  BY <1>1, <1>2, <1>3, <1>6, Exchange DEF IInv, Marked, Whole, Apart, MarkWays
<1>11. Staged' /\ Loose'
  BY <1>1, <1>2, <1>3, Exchange DEF IInv, Staged, Loose, Seeded, Whole, Unfinished
<1> QED
  BY <1>5, <1>7, <1>8, <1>9, <1>10, <1>11 DEF IInv

\* The exchange is put on record, and what was there before goes.
LEMMA Recording ==
    ASSUME IInv, OpRecords
    PROVE  IInv'
<1>1. /\ op.pc = "exchanged" /\ boot = "up" /\ op'.pc = "recorded" /\ op'.evidence = op.evidence
      /\ op' \in [pc : Phases, evidence : Sound, tries : Nat]
      /\ UNCHANGED <<had, jobs, helper, record, pending, boot, restarts, crossed>>
      /\ tree' = [tree EXCEPT !["backup"] = Empty] /\ cert' = [cert EXCEPT !["final"] = op.evidence]
  <2>1. Goes("recorded") /\ op.pc = "exchanged"
    BY DEF OpRecords, At
  <2>2. /\ op'.pc = "recorded" /\ op'.evidence = op.evidence
        /\ op' \in [pc : Phases, evidence : Sound, tries : Nat]
    BY <2>1, Going DEF Phases
  <2>3. boot = "up"
    BY <2>1, Early
  <2> QED
    BY <2>1, <2>2, <2>3 DEF OpRecords, others, Put
<1>2. /\ tree' \in [Places -> Repos]
      /\ \A p \in {"final", "promo", "down", "peer", "peer-stage"} : tree'[p] = tree[p]
  BY <1>1, EmptyFacts DEF IInv, Typed, Places
<1>3. cert' \in [{"final", "down", "peer"} -> Sound]
  BY <1>1, Types DEF IInv, Typed
<1>4. Typed'
  BY <1>1, <1>2, <1>3 DEF IInv, Typed
<1>5. Helped' /\ Importing' /\ Exchanged' /\ Kept' /\ Filled' /\ Marked'
  BY <1>1, <1>2, <1>4, Around
<1>6. Staged' /\ Loose'
  BY <1>1, <1>2, Aside DEF Seeded
<1>7. Honest'
  BY <1>1, EmptyFacts DEF IInv, Honest, Typed, Sincere
<1>8. Evident' /\ RunsOnVerifiedContent'
  BY <1>1 DEF IInv, Evident, RunsOnVerifiedContent, Busy
<1> QED
  BY <1>4, <1>5, <1>6, <1>7, <1>8 DEF IInv

-----------------------------------------------------------------------------
(* The helper, and the marker of its download *)

\* What holds after a step that changes the repository alone.
LEMMA Within ==
    ASSUME IInv, boot = "up", NEW t \in Repos, tree' = [tree EXCEPT !["final"] = t],
           UNCHANGED <<op, boot, restarts>>, crossed \subseteq crossed', pending' \subseteq pending,
           jobs' \in [JobIds -> Jobs], cert' = cert \/ cert' = [cert EXCEPT !["final"] = "none"],
           helper' \in [job : JobIds \cup {0}, rev : Names, torn : BOOLEAN],
           record' \in [phase : {"none", "downloading", "error"}, rev : Asked], had' \subseteq Revs,
           "shared" \notin crossed => Sincere(t)
    PROVE  /\ Typed' /\ Importing' /\ Honest' /\ Evident' /\ Final' = t
           /\ \A p \in {"promo", "backup", "down", "peer", "peer-stage"} : tree'[p] = tree[p]
           /\ \A ways : Apart(ways)' => Apart(ways)
           /\ Standing' = IF op.pc = "moved" THEN tree["backup"] ELSE t
<1>1. /\ tree' \in [Places -> Repos] /\ tree'["final"] = t
      /\ \A p \in {"promo", "backup", "down", "peer", "peer-stage"} : tree'[p] = tree[p]
  BY DEF IInv, Typed, Places
<1>2. cert' \in [{"final", "down", "peer"} -> Sound]
  BY DEF IInv, Typed, Sound
<1>3. Typed' /\ Importing'
  BY <1>1, <1>2 DEF IInv, Typed, Importing
<1>4. Honest'
  BY DEF IInv, Honest, Typed
<1>5. Evident'
  BY <1>1 DEF IInv, Evident, PeerHas, Busy
<1> QED
  BY <1>1, <1>3, <1>4, <1>5 DEF Final, Standing, Apart

\* A helper starts: its name for the revision is the newest, where it was
\* asked for the newest.
LEMMA Starting ==
    ASSUME IInv, NEW j \in JobIds, HelperStarts(j)
    PROVE  IInv'
<1> DEFINE r == [jobs[j] EXCEPT !.pc = "running"]
           t == IF jobs[j].rev = None THEN [Final EXCEPT !.main = Latest] ELSE Final
<1>1. boot = "up"
  BY Early DEF HelperStarts, NoJob
<1>2. jobs[j] \in Jobs /\ Final \in Repos
  BY Types
<1>3. r \in Jobs /\ r.pc = "running" /\ r.rev = jobs[j].rev
  BY <1>2 DEF Jobs
<1>4. /\ t \in Repos /\ t.snap = Final.snap /\ t.loose = Final.loose /\ t.marks = Final.marks
      /\ t.main = IF jobs[j].rev = None THEN Latest ELSE Final.main
  BY <1>2, Types DEF Repos, Names
<1>5. /\ jobs[j].pc = "begun" /\ jobs' = [jobs EXCEPT ![j] = r] /\ tree' = [tree EXCEPT !["final"] = t]
      /\ helper' = [job |-> j, rev |-> Resolved(jobs[j].rev), torn |-> FALSE]
      /\ UNCHANGED <<cert, had, record, op, pending, boot, restarts>>
      /\ crossed \subseteq crossed' /\ (Exchanging => "exchange" \in crossed')
  BY DEF HelperStarts, Put, others, Cross
<1> HIDE DEF r, t
<1>6. Resolved(jobs[j].rev) \in Names /\ Resolved(jobs[j].rev) # None
  BY <1>2, Types DEF Resolved, Jobs, Asked, Names
<1>7. helper' \in [job : JobIds \cup {0}, rev : Names, torn : BOOLEAN]
  BY <1>5, <1>6
<1>8. /\ jobs' \in [JobIds -> Jobs] /\ jobs'[j] = r
      /\ \A i \in JobIds \ {j} : jobs'[i] = jobs[i]
  BY <1>3, <1>5 DEF IInv, Typed
<1>9. Answered' = Answered /\ \A i \in Answered : jobs'[i] = jobs[i]
  BY <1>3, <1>5, <1>8 DEF Answered
<1>10. /\ Whole(t) = Whole(Final) /\ Unfinished(t) = Unfinished(Final)
       /\ "shared" \notin crossed => Sincere(t)
  BY <1>4 DEF Whole, Unfinished, IInv, Honest, Sincere, Final, Places
<1>11. /\ Typed' /\ Importing' /\ Honest' /\ Evident' /\ Final' = t
       /\ \A p \in {"promo", "backup", "down", "peer", "peer-stage"} : tree'[p] = tree[p]
       /\ \A ways : Apart(ways)' => Apart(ways)
       /\ Standing' = IF op.pc = "moved" THEN tree["backup"] ELSE t
  <2>1. /\ had' \subseteq Revs
        /\ record' \in [phase : {"none", "downloading", "error"}, rev : Asked]
    BY <1>5 DEF IInv, Typed
  <2> QED
    BY <1>1, <1>4, <1>5, <1>7, <1>8, <1>10, <2>1, Within
<1>12. Helped'
  BY <1>3, <1>5, <1>6, <1>8 DEF Helped
<1>13. RunsOnVerifiedContent'
  BY <1>4, <1>5, <1>11 DEF IInv, RunsOnVerifiedContent
<1>14. "exchange" \notin crossed' => op.pc \notin {"promoting", "filled", "moved"} /\ Standing = Final
  BY <1>5 DEF Exchanging, Standing
<1>15. Exchanged' /\ Filled'
  BY <1>5, <1>14 DEF Exchanged, Filled, Apart
<1>16. Kept'
  <2> SUFFICES ASSUME Apart({"exchange", "collected", "shared"})', "exchange" \notin crossed'
               PROVE  had \subseteq Whole(t) \cup Whole(tree["promo"])
    BY <1>5, <1>11, <1>14 DEF Kept, Apart, Whole
  <2> QED
    BY <1>1, <1>10, <1>11 DEF IInv, Kept
<1>17. Marked'
  <2> SUFFICES ASSUME Apart(MarkWays), "exchange" \notin crossed'
               PROVE  /\ t.marks \subseteq Whole(t) /\ tree["promo"].marks \subseteq Whole(tree["promo"])
                      /\ \A i \in Answered : /\ Resolved(jobs[i].rev) \in Whole(t)
                                             /\ jobs[i].rev = None => t.main \in Whole(t)
                      /\ jobs[j].rev = None => t.main = Latest
    BY <1>3, <1>5, <1>8, <1>9, <1>11, <1>14 DEF Marked, Whole, Apart, MarkWays
  <2>1. /\ Final.marks \subseteq Whole(Final) /\ tree["promo"].marks \subseteq Whole(tree["promo"])
        /\ \A i \in Answered : /\ Resolved(jobs[i].rev) \in Whole(Final)
                               /\ jobs[i].rev = None => Final.main \in Whole(Final)
    BY <1>1, <1>14 DEF IInv, Marked
  <2> QED
    BY <1>4, <1>10, <2>1 DEF Resolved
<1>18. Staged' /\ Loose'
  <2>1. Staged'
    BY <1>1, <1>5, <1>10, <1>11 DEF IInv, Staged, Whole
  <2>2. Loose'
    <3> SUFFICES ASSUME Apart(MarkWays \cup {"between"}), "exchange" \notin crossed'
                 PROVE  /\ Unfinished(t) \subseteq t.loose
                        /\ Unfinished(tree["promo"]) \subseteq tree["promo"].loose
                        /\ Unfinished(tree["down"]) \ {Wanted} \subseteq
                             tree["down"].loose \cup (IF op.pc \in Seeded THEN {} ELSE Whole(t))
      BY <1>5, <1>11, <1>14 DEF Loose, Unfinished, Whole, Apart, MarkWays
    <3> QED
      BY <1>1, <1>4, <1>10, <1>14 DEF IInv, Loose
  <2> QED
    BY <2>1, <2>2
<1> QED
  BY <1>11, <1>12, <1>13, <1>15, <1>16, <1>17, <1>18 DEF IInv

\* A helper writes: its revision is unfinished, and has blobs to show for it
\* except between two files.
LEMMA Writing ==
    ASSUME IInv, HelperWrites
    PROVE  IInv'
<1> DEFINE h == helper.rev
<1>1. boot = "up" /\ HelperUp
  BY Early DEF HelperWrites, HelperUp, NoHelper
<1>2. h \in Revs /\ Final \in Repos /\ Final.snap[h] \in {"none", "part"}
  BY Types DEF HelperWrites, HelperUp, Names
<1>3. PICK between \in BOOLEAN :
        /\ tree' = [tree EXCEPT !["final"] = [Final EXCEPT !.snap[h] = "part",
                        !.loose = IF between THEN @ \ {h} ELSE @ \cup {h}]]
        /\ crossed' = crossed \cup (IF between THEN {"between"} ELSE {})
  BY DEF HelperWrites, Put, Cross
<1> DEFINE u == IF between THEN Final.loose \ {h} ELSE Final.loose \cup {h}
           t == [Final EXCEPT !.snap[h] = "part", !.loose = u]
<1>4. tree' = [tree EXCEPT !["final"] = t]
  BY <1>3
<1>5. /\ UNCHANGED <<cert, had, jobs, helper, record, op, pending, boot, restarts>>
      /\ crossed \subseteq crossed' /\ (between => "between" \in crossed')
  BY <1>3 DEF HelperWrites, others
<1>6. u \subseteq Revs /\ (~between => u = Final.loose \cup {h})
  BY <1>2 DEF Repos
<1> HIDE DEF u
<1>7. /\ t \in Repos /\ t.marks = Final.marks /\ t.loose = u /\ t.main = Final.main
      /\ \A r \in Revs : t.snap[r] = IF r = h THEN "part" ELSE Final.snap[r]
  BY <1>2, <1>6 DEF Repos, Contents
<1> HIDE DEF t, h
<1>8. /\ Whole(t) = Whole(Final) /\ Unfinished(t) = Unfinished(Final) \cup {h}
      /\ \A r \in Revs : t.snap[r] \in AllFiles <=> Final.snap[r] \in AllFiles
      /\ "shared" \notin crossed => Sincere(t)
  BY <1>2, <1>7 DEF Whole, Unfinished, IInv, Honest, Sincere, Final, Places, AllFiles
<1>9. /\ Typed' /\ Importing' /\ Honest' /\ Evident' /\ Final' = t
      /\ \A p \in {"promo", "backup", "down", "peer", "peer-stage"} : tree'[p] = tree[p]
      /\ \A ways : Apart(ways)' => Apart(ways)
      /\ Standing' = IF op.pc = "moved" THEN tree["backup"] ELSE t
  <2>1. /\ had' \subseteq Revs /\ jobs' \in [JobIds -> Jobs]
        /\ record' \in [phase : {"none", "downloading", "error"}, rev : Asked]
        /\ helper' \in [job : JobIds \cup {0}, rev : Names, torn : BOOLEAN]
    BY <1>5 DEF IInv, Typed
  <2> QED
    BY <1>1, <1>4, <1>5, <1>7, <1>8, <2>1, Within
<1>10. Helped'
  BY <1>5 DEF IInv, Helped
<1>11. RunsOnVerifiedContent'
  <2> SUFFICES ASSUME op.pc \in {"prepared", "running"},
                      Apart({"removed", "shared", "exchange", "stale-list"})
               PROVE  /\ t.snap[Wanted] = "whole"
                      /\ Distributed => tree["peer"].snap[Wanted] = "whole"
    BY <1>5, <1>9 DEF RunsOnVerifiedContent
  <2>1. /\ Final.snap[Wanted] = "whole" /\ (Distributed => tree["peer"].snap[Wanted] = "whole")
    BY DEF IInv, RunsOnVerifiedContent
  <2> QED
    BY <1>2, <1>7, <2>1, Types DEF h
<1>12. "exchange" \notin crossed' => op.pc \notin {"filled", "moved"} /\ Standing = Final
  BY <1>1, <1>5 DEF IInv, Exchanged, Standing
<1>13. Exchanged'
  BY <1>5, <1>8, <1>9, <1>12 DEF IInv, Exchanged
<1>14. Filled'
  BY <1>5, <1>12 DEF Filled, Apart
<1>15. Kept'
  <2> SUFFICES ASSUME Apart({"exchange", "collected", "shared"})', "exchange" \notin crossed'
               PROVE  had \subseteq Whole(t) \cup Whole(tree["promo"])
    BY <1>5, <1>9, <1>12 DEF Kept, Apart, Whole
  <2> QED
    BY <1>1, <1>8, <1>9 DEF IInv, Kept
<1>16. Marked'
  <2> SUFFICES ASSUME Apart(MarkWays), "exchange" \notin crossed'
               PROVE  /\ ~helper.torn
                      /\ t.marks \subseteq Whole(t) /\ tree["promo"].marks \subseteq Whole(tree["promo"])
                      /\ \A i \in Answered : /\ Resolved(jobs[i].rev) \in Whole(t)
                                             /\ jobs[i].rev = None => t.main \in Whole(t)
                      /\ helper.job # 0 /\ jobs[helper.job].rev = None =>
                            t.main = Latest \/ (t.main = Wanted /\ Wanted \in t.marks)
    BY <1>5, <1>9, <1>12 DEF Marked, Whole, Apart, MarkWays, Answered
  <2> QED
    BY <1>1, <1>7, <1>8, <1>12 DEF IInv, Marked
<1>17. Staged'
  BY <1>1, <1>5, <1>8, <1>9 DEF IInv, Staged, Whole
<1>18. Loose'
  <2> SUFFICES ASSUME Apart(MarkWays \cup {"between"}), "exchange" \notin crossed', ~between
               PROVE  /\ Unfinished(t) \subseteq t.loose
                      /\ Unfinished(tree["promo"]) \subseteq tree["promo"].loose
                      /\ Unfinished(tree["down"]) \ {Wanted} \subseteq
                           tree["down"].loose \cup (IF op.pc \in Seeded THEN {} ELSE Whole(t))
    BY <1>5, <1>9, <1>12 DEF Loose, Unfinished, Whole, Apart, MarkWays
  <2> QED
    BY <1>1, <1>6, <1>7, <1>8, <1>12 DEF IInv, Loose
<1> QED
  BY <1>9, <1>10, <1>11, <1>13, <1>14, <1>15, <1>16, <1>17, <1>18 DEF IInv

\* A helper finishes: its revision is whole, and nothing else has changed,
\* unless files were taken from under it or shared with another.
LEMMA Finishing ==
    ASSUME IInv, HelperFinishes
    PROVE  IInv'
<1> DEFINE h == helper.rev
           j == helper.job
<1>1. boot = "up" /\ HelperUp
  BY Early DEF HelperFinishes, HelperUp, NoHelper
<1>2. h \in Revs /\ Final \in Repos /\ Final.snap \in [Revs -> Contents]
  BY <1>1, Types DEF HelperUp, Names, Repos
<1>3. PICK got \in {"whole"} \cup (IF helper.torn THEN {"part"} ELSE {})
                            \cup (IF "shared" \in crossed THEN {"bad"} ELSE {}) :
        tree' = [tree EXCEPT !["final"] = [Final EXCEPT
                    !.snap[h] = IF @ \in AllFiles /\ ~helper.torn THEN @ ELSE got,
                    !.loose = @ \ {h}]]
  BY DEF HelperFinishes, Put
<1> DEFINE x == IF Final.snap[h] \in AllFiles /\ ~helper.torn THEN Final.snap[h] ELSE got
           t == [Final EXCEPT !.snap[h] = x, !.loose = Final.loose \ {h}]
<1>4. tree' = [tree EXCEPT !["final"] = t]
  BY <1>3
<1>5. /\ UNCHANGED <<cert, record, op, pending, boot, restarts, crossed>> /\ helper' = NoHelper
      /\ jobs' = IF j # 0 /\ jobs[j].pc = "running" THEN [jobs EXCEPT ![j].pc = "answered"] ELSE jobs
  BY DEF HelperFinishes, others
<1>6. /\ x \in Contents /\ ("shared" \notin crossed => Final.snap[h] # "bad" /\ x # "bad")
      /\ ~helper.torn /\ "shared" \notin crossed => x = "whole"
  <2>1. "shared" \notin crossed => Final.snap[h] # "bad"
    BY <1>2 DEF IInv, Honest, Sincere, Final, Places
  <2> QED
    BY <1>2, <2>1 DEF Contents, AllFiles
<1> HIDE DEF x
<1>7. /\ t \in Repos /\ t.marks = Final.marks /\ t.loose = Final.loose \ {h} /\ t.main = Final.main
      /\ \A r \in Revs : t.snap[r] = IF r = h THEN x ELSE Final.snap[r]
  BY <1>2, <1>6 DEF Repos
<1> HIDE DEF t, h
<1>8. "shared" \notin crossed => Sincere(t)
  BY <1>2, <1>6, <1>7 DEF IInv, Honest, Sincere, Final, Places
<1>9. ~helper.torn /\ "shared" \notin crossed =>
        Whole(t) = Whole(Final) \cup {h} /\ Unfinished(t) = Unfinished(Final) \ {h}
  BY <1>2, <1>6, <1>7 DEF Whole, Unfinished
<1>10. "exchange" \notin crossed =>
        /\ op.pc \notin {"filled", "moved"} /\ Standing = Final
        /\ helper.torn => Whole(Final) = {}
  BY <1>1 DEF IInv, Exchanged, Standing, Whole, AllFiles
<1>11. "exchange" \notin crossed /\ "shared" \notin crossed => Whole(Final) \subseteq Whole(t)
  BY <1>9, <1>10, Types
<1>12. had' = had \cup Whole(t)
  <2>1. tree'["final"] = t
    BY <1>4 DEF IInv, Typed, Places
  <2> QED
    BY <2>1 DEF HelperFinishes
<1>13. /\ jobs' \in [JobIds -> Jobs] /\ \A i \in JobIds : jobs'[i].rev = jobs[i].rev
       /\ \A i \in Answered' : i \in Answered \/ (i = j /\ j # 0)
  <2>1. CASE j # 0
    <3>1. j \in JobIds /\ jobs[j] \in Jobs
      BY <2>1, Types DEF IInv, Typed
    <3>2. [jobs[j] EXCEPT !.pc = "answered"] \in Jobs /\ [jobs[j] EXCEPT !.pc = "answered"].rev = jobs[j].rev
      BY <3>1 DEF Jobs
    <3> QED
      BY <1>5, <3>1, <3>2 DEF IInv, Typed, Answered
  <2>2. CASE j = 0
    BY <1>5, <2>2 DEF IInv, Typed, Answered
  <2> QED
    BY <2>1, <2>2
<1>14. j # 0 => j \in JobIds /\ h = Resolved(jobs[j].rev)
  BY DEF IInv, Helped, Typed, h
<1>15. /\ Typed' /\ Importing' /\ Honest' /\ Evident' /\ Final' = t
       /\ \A p \in {"promo", "backup", "down", "peer", "peer-stage"} : tree'[p] = tree[p]
       /\ Standing' = IF op.pc = "moved" THEN tree["backup"] ELSE t
  <2>1. /\ had' \subseteq Revs
        /\ record' \in [phase : {"none", "downloading", "error"}, rev : Asked]
        /\ helper' \in [job : JobIds \cup {0}, rev : Names, torn : BOOLEAN]
    BY <1>5, <1>12 DEF IInv, Typed, Whole, NoHelper, Names
  <2> QED
    BY <1>1, <1>4, <1>5, <1>7, <1>8, <1>13, <2>1, Within
<1>16. helper'.job = 0 /\ ~helper'.torn /\ helper'.rev = None /\ ~HelperUp'
  BY <1>5 DEF NoHelper, HelperUp
<1>17. Helped'
  BY <1>5, <1>16 DEF Helped
<1>18. RunsOnVerifiedContent'
  <2> SUFFICES ASSUME op.pc \in {"prepared", "running"},
                      Apart({"removed", "shared", "exchange", "stale-list"})
               PROVE  /\ t.snap[Wanted] = "whole"
                      /\ Distributed => tree["peer"].snap[Wanted] = "whole"
    BY <1>5, <1>15 DEF RunsOnVerifiedContent, Apart
  <2>1. /\ Final.snap[Wanted] = "whole" /\ (Distributed => tree["peer"].snap[Wanted] = "whole")
    BY DEF IInv, RunsOnVerifiedContent
  <2>2. Wanted \in Whole(t)
    BY <1>11, <2>1, Types DEF Apart, Whole
  <2> QED
    BY <2>1, <2>2 DEF Whole
<1>19. Exchanged'
  BY <1>5, <1>10, <1>16 DEF Exchanged
<1>20. Filled'
  BY <1>5, <1>10 DEF Filled, Apart
<1>21. Kept'
  <2> SUFFICES ASSUME Apart({"exchange", "collected", "shared"})
               PROVE  had \cup Whole(t) \subseteq Whole(t) \cup Whole(tree["promo"])
    BY <1>5, <1>10, <1>12, <1>15 DEF Kept, Apart, Whole
  <2> QED
    BY <1>1, <1>11 DEF IInv, Kept, Apart
<1>22. Marked'
  <2> SUFFICES ASSUME Apart(MarkWays)
               PROVE  /\ t.marks \subseteq Whole(t) /\ tree["promo"].marks \subseteq Whole(tree["promo"])
                      /\ \A i \in Answered' : /\ Resolved(jobs[i].rev) \in Whole(t)
                                              /\ jobs[i].rev = None => t.main \in Whole(t)
    <3>1. Apart(MarkWays)' => Apart(MarkWays)
      BY <1>5 DEF Apart
    <3>2. Apart(MarkWays) => Standing' = t
      BY <1>10, <1>15 DEF Apart, MarkWays
    <3>3. \A i \in Answered' : jobs'[i].rev = jobs[i].rev
      BY <1>13 DEF Answered
    <3> QED
      BY <1>15, <1>16, <3>1, <3>2, <3>3 DEF Marked, Whole
  <2>1. "exchange" \notin crossed /\ "shared" \notin crossed /\ Standing = Final
    BY <1>10 DEF Apart, MarkWays
  <2>2. /\ ~helper.torn
        /\ Final.marks \subseteq Whole(Final) /\ tree["promo"].marks \subseteq Whole(tree["promo"])
        /\ \A i \in Answered : /\ Resolved(jobs[i].rev) \in Whole(Final)
                               /\ jobs[i].rev = None => Final.main \in Whole(Final)
        /\ j # 0 /\ jobs[j].rev = None => Final.main = Latest \/ (Final.main = Wanted /\ Wanted \in Final.marks)
    BY <1>1, <2>1 DEF IInv, Marked
  <2>3. Whole(t) = Whole(Final) \cup {h}
    BY <1>9, <2>1, <2>2
  <2>4. ASSUME j # 0
        PROVE  /\ Resolved(jobs[j].rev) \in Whole(t)
               /\ jobs[j].rev = None => t.main \in Whole(t)
    BY <1>7, <1>14, <2>2, <2>3, <2>4 DEF Resolved
  <2> QED
    BY <1>7, <1>13, <2>2, <2>3, <2>4
<1>23. Staged'
  BY <1>1, <1>5, <1>11, <1>15 DEF IInv, Staged, Whole, Apart, MarkWays
<1>24. Loose'
  <2> SUFFICES ASSUME Apart(MarkWays \cup {"between"})
               PROVE  /\ Unfinished(t) \subseteq t.loose
                      /\ Unfinished(tree["promo"]) \subseteq tree["promo"].loose
                      /\ Unfinished(tree["down"]) \ {Wanted} \subseteq
                           tree["down"].loose \cup (IF op.pc \in Seeded THEN {} ELSE Whole(t))
    <3>1. Apart(MarkWays \cup {"between"})' => Apart(MarkWays \cup {"between"})
      BY <1>5 DEF Apart
    <3>2. Apart(MarkWays \cup {"between"}) => Standing' = t
      BY <1>10, <1>15 DEF Apart, MarkWays
    <3> QED
      BY <1>5, <1>15, <3>1, <3>2 DEF Loose, Unfinished, Whole
  <2>1. "exchange" \notin crossed /\ "shared" \notin crossed /\ Standing = Final /\ Apart(MarkWays)
    BY <1>10 DEF Apart, MarkWays
  <2>2. ~helper.torn
    BY <1>1, <2>1 DEF IInv, Marked
  <2> QED
    BY <1>1, <1>7, <1>9, <2>1, <2>2 DEF IInv, Loose
<1> QED
  BY <1>15, <1>17, <1>18, <1>19, <1>20, <1>21, <1>22, <1>23, <1>24 DEF IInv

\* A job that has its files marks the revision, which is whole; or ends for
\* want of files.
LEMMA Marking ==
    ASSUME IInv, NEW j \in JobIds, JobMarks(j)
    PROVE  IInv'
<1> DEFINE rev == IF jobs[j].rev # None THEN jobs[j].rev ELSE Final.main
           fails == rev = None \/ Final.snap[rev] = "none"
           ended == [jobs[j] EXCEPT !.pc = "ended"]
           done == [jobs[j] EXCEPT !.pc = "marked"]
           t == [Final EXCEPT !.main = rev, !.marks = @ \cup {rev}]
<1>1. boot = "up" /\ jobs[j].pc = "answered" /\ j \in Answered
  BY Early DEF JobMarks, NoJob, Answered
<1>2. jobs[j] \in Jobs /\ Final \in Repos /\ rev \in Names
  BY Types DEF Jobs, Asked, Repos, Names
<1>3. /\ UNCHANGED <<cert, had, helper, op, pending, boot, restarts, crossed>>
      /\ \/ fails /\ Ends(j, TRUE) /\ UNCHANGED tree
         \/ /\ ~fails /\ tree' = [tree EXCEPT !["final"] = t] /\ record' = record
            /\ jobs' = [jobs EXCEPT ![j] = done]
  BY DEF JobMarks, others, Put
<1>4. helper.job # j
  BY <1>1, Types DEF IInv, Helped
<1>5. CASE fails /\ Ends(j, TRUE) /\ UNCHANGED tree
  <2>1. ended \in Jobs /\ ended.pc = "ended" /\ ended.rev = jobs[j].rev
    BY <1>2 DEF Jobs
  <2>2. jobs' = [jobs EXCEPT ![j] = ended] /\ record' = [phase |-> "error", rev |-> jobs[j].rev]
    BY <1>5 DEF Ends
  <2> HIDE DEF ended
  <2>3. /\ jobs' \in [JobIds -> Jobs] /\ \A i \in JobIds : jobs'[i].rev = jobs[i].rev
        /\ \A i \in JobIds \ {j} : jobs'[i] = jobs[i]
        /\ Answered' \subseteq Answered
    BY <2>1, <2>2 DEF IInv, Typed, Answered
  <2>4. record' \in [phase : {"none", "downloading", "error"}, rev : Asked]
    BY <1>2, <2>2 DEF Jobs
  <2>5. Typed'
    BY <1>3, <1>5, <2>3, <2>4 DEF IInv, Typed
  <2>6. Helped'
    BY <1>3, <1>4, <2>3 DEF IInv, Helped, Typed
  <2> QED
    BY <1>1, <1>3, <1>5, <2>3, <2>5, <2>6, Requests
<1>6. CASE /\ ~fails /\ tree' = [tree EXCEPT !["final"] = t] /\ record' = record
           /\ jobs' = [jobs EXCEPT ![j] = done]
  <2>1. rev \in Revs /\ rev \in {Latest, Wanted} /\ Final.snap[rev] # "none"
    BY <1>2, <1>6, Types DEF Names
  <2>2. done \in Jobs /\ done.pc = "marked" /\ done.rev = jobs[j].rev
    BY <1>2 DEF Jobs
  <2>3. jobs[j].rev = None => rev = Final.main
    OBVIOUS
  <2>4. jobs[j].rev # None => rev = Resolved(jobs[j].rev)
    BY DEF Resolved
  <2> HIDE DEF done, rev
  <2>5. /\ t \in Repos /\ t.marks = Final.marks \cup {rev} /\ t.loose = Final.loose /\ t.main = rev
        /\ t.snap = Final.snap
    BY <1>2, <2>1 DEF Repos
  <2> HIDE DEF t
  <2>6. /\ Whole(t) = Whole(Final) /\ Unfinished(t) = Unfinished(Final)
        /\ "shared" \notin crossed => Sincere(t)
    BY <2>5 DEF Whole, Unfinished, IInv, Honest, Sincere, Final, Places
  <2>7. /\ jobs' \in [JobIds -> Jobs] /\ \A i \in JobIds : jobs'[i].rev = jobs[i].rev
        /\ \A i \in JobIds \ {j} : jobs'[i] = jobs[i]
        /\ Answered' \subseteq Answered
    BY <1>6, <2>2 DEF IInv, Typed, Answered
  <2>8. /\ Typed' /\ Importing' /\ Honest' /\ Evident' /\ Final' = t
        /\ \A p \in {"promo", "backup", "down", "peer", "peer-stage"} : tree'[p] = tree[p]
        /\ Standing' = IF op.pc = "moved" THEN tree["backup"] ELSE t
    <3>1. /\ had' \subseteq Revs
          /\ record' \in [phase : {"none", "downloading", "error"}, rev : Asked]
          /\ helper' \in [job : JobIds \cup {0}, rev : Names, torn : BOOLEAN]
      BY <1>3, <1>6 DEF IInv, Typed
    <3> QED
      BY <1>1, <1>3, <1>6, <2>5, <2>6, <2>7, <3>1, Within
  <2>9. Helped'
    BY <1>3, <1>4, <2>7 DEF IInv, Helped, Typed
  <2>10. RunsOnVerifiedContent'
    BY <1>3, <2>5, <2>8 DEF IInv, RunsOnVerifiedContent, Apart
  <2>11. "exchange" \notin crossed => op.pc # "moved" /\ Standing = Final
    BY <2>1, EmptyFacts DEF IInv, Exchanged, Standing
  <2>12. Exchanged'
    BY <1>3, <2>5, <2>8, <2>11 DEF IInv, Exchanged, HelperUp
  <2>13. Filled'
    BY <1>3, <2>6, <2>7, <2>8, <2>11 DEF IInv, Filled, Apart, Whole, Answered
  <2>14. Kept'
    BY <1>3, <2>6, <2>8 DEF IInv, Kept, Apart, Whole
  <2>15. Marked'
    <3> SUFFICES ASSUME Apart(MarkWays)
                 PROVE  /\ ~helper.torn
                        /\ t.marks \subseteq Whole(t) /\ tree["promo"].marks \subseteq Whole(tree["promo"])
                        /\ \A i \in Answered : /\ Resolved(jobs[i].rev) \in Whole(t)
                                               /\ jobs[i].rev = None => t.main \in Whole(t)
                        /\ helper.job # 0 /\ jobs[helper.job].rev = None =>
                              t.main = Latest \/ (t.main = Wanted /\ Wanted \in t.marks)
      <4>1. Apart(MarkWays)' => Apart(MarkWays)
        BY <1>3 DEF Apart
      <4>2. Apart(MarkWays) => Standing' = t
        BY <2>8, <2>11 DEF Apart, MarkWays
      <4>3. \A i \in Answered' : i \in Answered /\ jobs'[i].rev = jobs[i].rev
        BY <2>7 DEF Answered
      <4>4. helper'.job # 0 => helper' = helper /\ jobs'[helper'.job].rev = jobs[helper.job].rev
        BY <1>3, <2>7 DEF IInv, Typed
      <4> QED
        BY <1>3, <2>8, <4>1, <4>2, <4>3, <4>4 DEF Marked, Whole
    <3>1. Standing = Final
      BY <2>11 DEF Apart, MarkWays
    <3>2. rev \in Whole(Final)
      BY <1>1, <2>3, <2>4, <3>1 DEF IInv, Marked
    <3>3. /\ ~helper.torn /\ Final.marks \subseteq Whole(Final)
          /\ tree["promo"].marks \subseteq Whole(tree["promo"])
          /\ \A i \in Answered : Resolved(jobs[i].rev) \in Whole(Final)
      BY <1>1, <3>1 DEF IInv, Marked
    <3> QED
      BY <2>1, <2>5, <2>6, <3>2, <3>3
  <2>16. Staged'
    BY <1>3, <2>6, <2>8 DEF IInv, Staged, Apart, Whole
  <2>17. Loose'
    <3> SUFFICES ASSUME Apart(MarkWays \cup {"between"})
                 PROVE  /\ Unfinished(t) \subseteq t.loose
                        /\ Unfinished(tree["promo"]) \subseteq tree["promo"].loose
                        /\ Unfinished(tree["down"]) \ {Wanted} \subseteq
                             tree["down"].loose \cup (IF op.pc \in Seeded THEN {} ELSE Whole(t))
      <4>1. Apart(MarkWays \cup {"between"})' => Apart(MarkWays \cup {"between"})
        BY <1>3 DEF Apart
      <4>2. Apart(MarkWays \cup {"between"}) => Standing' = t
        BY <2>8, <2>11 DEF Apart, MarkWays
      <4> QED
        BY <1>3, <2>8, <4>1, <4>2 DEF Loose, Unfinished, Whole
    <3>1. Standing = Final
      BY <2>11 DEF Apart, MarkWays
    <3> QED
      BY <1>1, <2>5, <2>6, <3>1 DEF IInv, Loose
  <2> QED
    BY <2>8, <2>9, <2>10, <2>12, <2>13, <2>14, <2>15, <2>16, <2>17 DEF IInv
<1> QED
  BY <1>3, <1>5, <1>6

\* An uninstall empties the repository, whatever works on it.
LEMMA Uninstalling ==
    ASSUME IInv, Uninstall
    PROVE  IInv'
<1>1. /\ boot = "up" /\ ActiveJobs = {} /\ tree' = [tree EXCEPT !["final"] = Empty] /\ had' = {}
      /\ helper' = IF HelperUp THEN [helper EXCEPT !.torn = TRUE] ELSE helper
      /\ UNCHANGED <<cert, jobs, record, op, pending, boot, restarts>>
      /\ crossed \subseteq crossed' /\ (Promised => "removed" \in crossed')
      /\ (HelperUp => "torn" \in crossed') /\ (HalfStaged # {} => "half-staged" \in crossed')
  BY DEF Uninstall, Put, others, Cross
<1>2. Answered = {} /\ Answered' = {} /\ helper.job = 0
  <2>1. \A j \in JobIds : jobs[j].pc \notin {"running", "answered"}
    BY <1>1 DEF ActiveJobs
  <2>2. helper.job \in JobIds \cup {0}
    BY DEF IInv, Typed
  <2> QED
    BY <1>1, <2>1, <2>2 DEF Answered, IInv, Helped
<1>3. /\ helper' \in [job : JobIds \cup {0}, rev : Names, torn : BOOLEAN]
      /\ helper'.job = helper.job /\ helper'.rev = helper.rev /\ (HelperUp' <=> HelperUp)
      /\ ~HelperUp => helper' = helper
  <2>1. helper \in [job : JobIds \cup {0}, rev : Names, torn : BOOLEAN]
    BY DEF IInv, Typed
  <2> QED
    BY <1>1, <2>1 DEF HelperUp
<1>4. /\ Typed' /\ Importing' /\ Honest' /\ Evident' /\ Final' = Empty
      /\ \A p \in {"promo", "backup", "down", "peer", "peer-stage"} : tree'[p] = tree[p]
      /\ \A ways : Apart(ways)' => Apart(ways)
      /\ Standing' = IF op.pc = "moved" THEN tree["backup"] ELSE Empty
  <2>1. /\ jobs' \in [JobIds -> Jobs] /\ had' \subseteq Revs
        /\ record' \in [phase : {"none", "downloading", "error"}, rev : Asked]
    BY <1>1 DEF IInv, Typed
  <2>2. Sincere(Empty)
    BY EmptyFacts DEF Sincere
  <2> QED
    BY <1>1, <1>3, <2>1, <2>2, EmptyFacts, Within
<1>5. Helped'
  BY <1>2, <1>3 DEF IInv, Helped, HelperUp
<1>6. RunsOnVerifiedContent'
  BY <1>1 DEF RunsOnVerifiedContent, Promised, Apart
<1>7. Exchanged'
  <2>1. \A r \in Revs : Empty.snap[r] \notin AllFiles
    BY EmptyFacts DEF AllFiles
  <2> QED
    BY <1>1, <1>3, <1>4, <2>1 DEF IInv, Exchanged
<1>8. Kept'
  BY <1>1 DEF Kept
<1>9. Filled'
  BY <1>1, <1>2, <1>4, EmptyFacts DEF IInv, Filled, Apart, Whole
<1>10. Marked'
  <2> SUFFICES ASSUME Apart(MarkWays), ~HelperUp
               PROVE  /\ ~helper.torn /\ Standing'.marks \subseteq Whole(Standing)'
                      /\ tree["promo"].marks \subseteq Whole(tree["promo"])
    BY <1>1, <1>2, <1>3, <1>4 DEF Marked, Apart, MarkWays, Whole
  <2>1. /\ ~helper.torn /\ Standing.marks \subseteq Whole(Standing)
        /\ tree["promo"].marks \subseteq Whole(tree["promo"])
    BY <1>1 DEF IInv, Marked
  <2>2. Standing' = Standing \/ Standing' = Empty
    BY <1>4 DEF Standing
  <2> QED
    BY <2>1, <2>2, EmptyFacts DEF Whole
<1>11. "half-staged" \notin crossed' =>
        \A r \in Revs \ {Wanted} : tree["down"].snap[r] = "whole" \/
            (r \notin tree["down"].marks /\ tree["down"].snap[r] = "none")
  BY <1>1 DEF HalfStaged
<1>12. Staged'
  BY <1>4, <1>11, Types DEF Staged, Apart, MarkWays, Whole, Places, Repos
<1>13. Loose'
  <2> SUFFICES ASSUME Apart(MarkWays \cup {"between"}), "half-staged" \notin crossed'
               PROVE  /\ Unfinished(Standing)' \subseteq Standing'.loose
                      /\ Unfinished(tree["promo"]) \subseteq tree["promo"].loose
                      /\ Unfinished(tree["down"]) \ {Wanted} = {}
    BY <1>4 DEF Loose, Apart, MarkWays, Unfinished
  <2>1. /\ Unfinished(Standing) \subseteq Standing.loose
        /\ Unfinished(tree["promo"]) \subseteq tree["promo"].loose
    BY <1>1 DEF IInv, Loose
  <2>2. Standing' = Standing \/ Standing' = Empty
    BY <1>4 DEF Standing
  <2>3. Unfinished(Standing)' \subseteq Standing'.loose
    BY <2>1, <2>2, EmptyFacts DEF Unfinished
  <2>4. Unfinished(tree["down"]) \ {Wanted} = {}
    BY <1>11 DEF Unfinished
  <2> QED
    BY <2>1, <2>3, <2>4
<1> QED
  BY <1>4, <1>5, <1>6, <1>7, <1>8, <1>9, <1>10, <1>12, <1>13 DEF IInv

-----------------------------------------------------------------------------
(* Cleanup and restart *)

\* What a cleanup removes has been listed, and is there no more.
LEMMA Collecting ==
    ASSUME IInv, NEW place \in Places, GCRemoves(place)
    PROVE  IInv'
<1>1. /\ boot = "up" /\ place \in pending /\ pending' = pending \ {place}
      /\ UNCHANGED <<jobs, helper, record, op, boot, restarts>> /\ crossed \subseteq crossed'
  BY Early DEF GCRemoves, Cross
<1>2. /\ (place = "final" /\ Wanted \in Final.marks) \/ Answered # {} => "marker-left" \in crossed'
      /\ place \in {"promo", "backup"} /\ Whole(tree[place]) \ Whole(Final) # {} => "collected" \in crossed'
  BY DEF GCRemoves, Cross
<1>3. Busy => "stale-list" \in crossed /\ "stale-list" \in crossed'
  BY <1>1 DEF IInv, Evident
<1>4. RunsOnVerifiedContent'
  BY <1>1, <1>3 DEF RunsOnVerifiedContent, Busy, Apart
<1>5. Evident'
  <2>1. /\ tree'["peer-stage"] = tree["peer-stage"] /\ tree'["peer"] = tree["peer"]
    BY <1>1 DEF GCRemoves, Put, IInv, Typed, Places
  <2> QED
    BY <1>1, <1>3, <2>1 DEF IInv, Evident, PeerHas, Busy
<1>6. \A ways : Apart(ways)' => Apart(ways)
  BY <1>1 DEF Apart
<1>7. Helped' /\ Importing'
  BY <1>1 DEF IInv, Helped, Importing
<1>8. Answered' = Answered /\ (HelperUp' <=> HelperUp)
  BY <1>1 DEF Answered, HelperUp
<1>9. place \in {"final", "promo", "backup", "down"}
  BY <1>1 DEF IInv, Typed
<1>10. CASE place = "down"
  <2>1. /\ tree' = [tree EXCEPT !["down"] = Empty] /\ UNCHANGED had
        /\ cert' = [cert EXCEPT !["down"] = "none"]
    BY <1>10 DEF GCRemoves, Put
  <2>2. "none" \in Sound \ {"bad"} /\ cert' \in [{"final", "down", "peer"} -> Sound]
    BY <2>1 DEF IInv, Typed, Sound
  <2>3. op' \in [pc : Phases, evidence : Sound, tries : Nat]
    BY <1>1 DEF IInv, Typed
  <2>4. Honest'
    BY <1>1, <2>1, <2>2, EmptyFacts, HonestBelow DEF IInv, Honest, Sincere
  <2>5. StagedIn(Empty, op'.pc) /\ LooseIn(Empty, op'.pc)
    BY EmptyFacts DEF StagedIn, LooseIn
  <2> QED
    BY <1>1, <1>4, <1>5, <2>1, <2>2, <2>3, <2>4, <2>5, EmptyFacts, Below
<1>11. CASE place \in {"promo", "backup"}
  <2>1. /\ tree' = [tree EXCEPT ![place] = Empty] /\ UNCHANGED <<had, cert>>
    BY <1>11 DEF GCRemoves, Put
  <2>2. /\ tree' \in [Places -> Repos] /\ tree'[place] = Empty
        /\ \A p \in {"promo", "backup", "final", "down"} : p # place => tree'[p] = tree[p]
    BY <1>11, <2>1, EmptyFacts DEF IInv, Typed, Places
  <2>3. Final' = Final /\ tree'["down"] = tree["down"]
    BY <1>11, <2>2 DEF Final
  <2>4. Standing' = Standing \/ (op.pc = "moved" /\ Standing' = Empty)
    BY <1>1, <1>11, <2>2, <2>3 DEF Standing
  <2>5. tree'["promo"] = tree["promo"] \/ tree'["promo"] = Empty
    BY <1>11, <2>2
  <2>6. Typed'
    BY <1>1, <2>1, <2>2 DEF IInv, Typed
  <2>7. Honest'
    BY <1>1, <2>1, EmptyFacts DEF IInv, Honest, Typed, Sincere
  <2>8. Exchanged'
    BY <1>1, <1>8, <2>3, <2>5 DEF IInv, Exchanged
  <2>9. Kept'
    <3> SUFFICES ASSUME Apart({"exchange", "collected", "shared"})', Apart({"exchange", "collected", "shared"})
                 PROVE  /\ had \subseteq Whole(Final) \cup Whole(tree["promo"])'
                        /\ op.pc = "moved" => had \subseteq Whole(tree["promo"])'
      BY <1>1, <1>6, <2>1, <2>3 DEF Kept, Whole
    <3>1. /\ had \subseteq Whole(Final) \cup Whole(tree["promo"])
          /\ op.pc = "moved" => had \subseteq Whole(tree["promo"])
      BY <1>1 DEF IInv, Kept
    <3>2. op.pc = "moved" => Whole(Final) = {}
      BY EmptyFacts DEF IInv, Exchanged, Apart
    <3>3. CASE place = "promo"
      <4>1. Whole(tree["promo"]) \subseteq Whole(Final)
        BY <1>2, <3>3 DEF Apart
      <4>2. Whole(tree["promo"])' = {}
        BY <2>2, <3>3, EmptyFacts DEF Whole
      <4> QED
        BY <3>1, <3>2, <4>1, <4>2
    <3>4. CASE place = "backup"
      <4>1. Whole(tree["promo"])' = Whole(tree["promo"])
        BY <2>2, <3>4 DEF Whole
      <4> QED
        BY <3>1, <4>1
    <3> QED
      BY <1>11, <3>3, <3>4
  <2>10. Filled'
    <3> SUFFICES ASSUME Apart({"exchange", "shared"}), op.pc \in {"filled", "moved"}, tree'["promo"] # Empty
                 PROVE  /\ op.pc = "filled" => Whole(Final) \subseteq Whole(tree["promo"])
                        /\ op.pc = "moved" => Whole(tree["backup"])' \subseteq Whole(tree["promo"])
                        /\ Apart(MarkWays) /\ (\E j \in Answered : jobs[j].rev = None) =>
                                tree["promo"].main # None
      BY <1>1, <1>6, <1>8, <2>3, <2>5 DEF Filled, Whole
    <3>1. tree["promo"] # Empty /\ place = "backup"
      BY <1>11, <2>2
    <3>2. Whole(tree["backup"])' = {}
      BY <2>2, <3>1, EmptyFacts DEF Whole
    <3> QED
      BY <3>1, <3>2 DEF IInv, Filled
  <2>11. Marked'
    <3> SUFFICES ASSUME Apart(MarkWays), Answered = {}
                 PROVE  /\ ~helper.torn /\ Standing'.marks \subseteq Whole(Standing)'
                        /\ tree'["promo"].marks \subseteq Whole(tree["promo"])'
                        /\ helper.job # 0 /\ jobs[helper.job].rev = None =>
                              Final.main = Latest \/ (Final.main = Wanted /\ Wanted \in Final.marks)
      <4>1. Apart(MarkWays)' => Answered = {} /\ Apart(MarkWays)
        BY <1>2, <1>6 DEF Apart, MarkWays
      <4> QED
        BY <1>1, <1>8, <2>3, <4>1 DEF Marked
    <3>1. /\ ~helper.torn /\ Standing.marks \subseteq Whole(Standing)
          /\ tree["promo"].marks \subseteq Whole(tree["promo"])
          /\ helper.job # 0 /\ jobs[helper.job].rev = None =>
                Final.main = Latest \/ (Final.main = Wanted /\ Wanted \in Final.marks)
      BY <1>1 DEF IInv, Marked
    <3>2. Standing'.marks \subseteq Whole(Standing)'
      BY <2>4, <3>1, EmptyFacts DEF Whole
    <3>3. tree'["promo"].marks \subseteq Whole(tree["promo"])'
      BY <2>5, <3>1, EmptyFacts DEF Whole
    <3> QED
      BY <3>1, <3>2, <3>3
  <2>12. Staged'
    BY <1>1, <1>6, <2>3 DEF IInv, Staged, Whole
  <2>13. Loose'
    <3> SUFFICES ASSUME Apart(MarkWays \cup {"between"})
                 PROVE  /\ Unfinished(Standing)' \subseteq Standing'.loose
                        /\ Unfinished(tree["promo"])' \subseteq tree'["promo"].loose
                        /\ Unfinished(tree["down"]) \ {Wanted} \subseteq
                             tree["down"].loose \cup (IF op.pc \in Seeded THEN {} ELSE Whole(Final))
      BY <1>1, <1>6, <2>3 DEF Loose, Unfinished, Whole
    <3>1. /\ Unfinished(Standing) \subseteq Standing.loose
          /\ Unfinished(tree["promo"]) \subseteq tree["promo"].loose
          /\ Unfinished(tree["down"]) \ {Wanted} \subseteq
               tree["down"].loose \cup (IF op.pc \in Seeded THEN {} ELSE Whole(Final))
      BY <1>1 DEF IInv, Loose
    <3>2. Unfinished(Standing)' \subseteq Standing'.loose
      BY <2>4, <3>1, EmptyFacts DEF Unfinished
    <3>3. Unfinished(tree["promo"])' \subseteq tree'["promo"].loose
      BY <2>5, <3>1, EmptyFacts DEF Unfinished
    <3> QED
      BY <3>1, <3>2, <3>3
  <2> QED
    BY <1>4, <1>5, <1>7, <2>6, <2>7, <2>8, <2>9, <2>10, <2>11, <2>12, <2>13 DEF IInv
<1>12. CASE place = "final"
  <2> DEFINE t == [Final EXCEPT !.snap[Wanted] = "none"]
  <2>1. /\ tree' = [tree EXCEPT !["final"] = t] /\ cert' = [cert EXCEPT !["final"] = "none"]
        /\ had' = had \ {Wanted}
    BY <1>12 DEF GCRemoves, Put
  <2>2. /\ t \in Repos /\ t.marks = Final.marks /\ t.loose = Final.loose /\ t.main = Final.main
        /\ \A r \in Revs : t.snap[r] = IF r = Wanted THEN "none" ELSE Final.snap[r]
    BY Types DEF Repos, Contents
  <2>3. Final = Empty => t = Empty
    <3> DEFINE none == [r \in Revs |-> "none"]
    <3>1. [none EXCEPT ![Wanted] = "none"] = none
      OBVIOUS
    <3>2. Empty = [snap |-> none, loose |-> {}, main |-> None, marks |-> {}]
      BY DEF Empty
    <3> HIDE DEF none
    <3>3. Empty.snap = none /\ [Empty EXCEPT !.snap = none] = Empty
      BY <3>2
    <3> QED
      BY <3>1, <3>3
  <2> HIDE DEF t
  <2>4. /\ Whole(t) = Whole(Final) \ {Wanted} /\ Unfinished(t) = Unfinished(Final) \ {Wanted}
        /\ \A r \in Revs : t.snap[r] \in AllFiles => Final.snap[r] \in AllFiles
        /\ "shared" \notin crossed => Sincere(t)
    BY <2>2 DEF Whole, Unfinished, AllFiles, IInv, Honest, Sincere, Final, Places
  <2>5. /\ Typed' /\ Honest' /\ Final' = t
        /\ \A p \in {"promo", "backup", "down", "peer", "peer-stage"} : tree'[p] = tree[p]
        /\ Standing' = IF op.pc = "moved" THEN tree["backup"] ELSE t
    <3>1. /\ had' \subseteq Revs /\ jobs' \in [JobIds -> Jobs]
          /\ record' \in [phase : {"none", "downloading", "error"}, rev : Asked]
          /\ helper' \in [job : JobIds \cup {0}, rev : Names, torn : BOOLEAN]
      BY <1>1, <2>1 DEF IInv, Typed
    <3> QED
      BY <1>1, <2>1, <2>2, <2>4, <3>1, Within
  <2>6. Exchanged'
    BY <1>1, <1>8, <2>3, <2>4, <2>5 DEF IInv, Exchanged
  <2>7. Kept'
    BY <1>1, <1>6, <2>1, <2>4, <2>5 DEF IInv, Kept, Whole
  <2>8. Filled'
    BY <1>1, <1>6, <1>8, <2>4, <2>5 DEF IInv, Filled, Whole
  <2>9. Marked'
    <3> SUFFICES ASSUME Apart(MarkWays), Answered = {}, Wanted \notin Final.marks
                 PROVE  /\ ~helper.torn /\ Standing'.marks \subseteq Whole(Standing)'
                        /\ tree["promo"].marks \subseteq Whole(tree["promo"])
                        /\ helper.job # 0 /\ jobs[helper.job].rev = None =>
                              Final.main = Latest \/ (Final.main = Wanted /\ Wanted \in Final.marks)
      <4>1. Apart(MarkWays)' => Answered = {} /\ Wanted \notin Final.marks /\ Apart(MarkWays)
        BY <1>2, <1>6, <1>12 DEF Apart, MarkWays
      <4> QED
        BY <1>1, <1>8, <2>2, <2>5, <4>1 DEF Marked, Whole
    <3>1. /\ ~helper.torn /\ Standing.marks \subseteq Whole(Standing)
          /\ tree["promo"].marks \subseteq Whole(tree["promo"])
          /\ helper.job # 0 /\ jobs[helper.job].rev = None =>
                Final.main = Latest \/ (Final.main = Wanted /\ Wanted \in Final.marks)
      BY <1>1 DEF IInv, Marked
    <3>2. Standing'.marks \subseteq Whole(Standing)'
      BY <2>2, <2>4, <2>5, <3>1 DEF Whole, Standing
    <3> QED
      BY <3>1, <3>2
  <2>10. Staged'
    BY <1>1, <1>6, <2>4, <2>5 DEF IInv, Staged, Whole
  <2>11. Loose'
    <3> SUFFICES ASSUME Apart(MarkWays \cup {"between"})
                 PROVE  /\ Unfinished(Standing)' \subseteq Standing'.loose
                        /\ Unfinished(tree["promo"]) \subseteq tree["promo"].loose
                        /\ Unfinished(tree["down"]) \ {Wanted} \subseteq
                             tree["down"].loose \cup (IF op.pc \in Seeded THEN {} ELSE Whole(t))
      BY <1>1, <1>6, <2>5 DEF Loose, Unfinished, Whole
    <3>1. /\ Unfinished(Standing) \subseteq Standing.loose
          /\ Unfinished(tree["promo"]) \subseteq tree["promo"].loose
          /\ Unfinished(tree["down"]) \ {Wanted} \subseteq
               tree["down"].loose \cup (IF op.pc \in Seeded THEN {} ELSE Whole(Final))
      BY <1>1 DEF IInv, Loose
    <3>2. Unfinished(Standing)' \subseteq Standing'.loose
      BY <2>2, <2>4, <2>5, <3>1 DEF Unfinished, Standing
    <3> QED
      BY <2>4, <3>1, <3>2
  <2> QED
    BY <1>4, <1>5, <1>7, <2>5, <2>6, <2>7, <2>8, <2>9, <2>10, <2>11 DEF IInv
<1> QED
  BY <1>9, <1>10, <1>11, <1>12

-----------------------------------------------------------------------------
(* The peer *)

\* What a transfer that was cut brought: some files, none of them whole.
LEMMA Parted ==
    ASSUME NEW t \in Repos
    PROVE  LET part == [t EXCEPT !.snap = [r \in Revs |-> IF @[r] = "none" THEN "none" ELSE "part"]]
           IN /\ part \in Repos /\ Sincere(part) /\ Whole(part) = {}
              /\ part.marks = t.marks /\ part.loose = t.loose /\ part.main = t.main
              /\ \A r \in Revs : part.snap[r] = IF t.snap[r] = "none" THEN "none" ELSE "part"
<1> DEFINE snap == [r \in Revs |-> IF t.snap[r] = "none" THEN "none" ELSE "part"]
           part == [t EXCEPT !.snap = [r \in Revs |-> IF @[r] = "none" THEN "none" ELSE "part"]]
<1>1. snap \in [Revs -> Contents] /\ \A r \in Revs : snap[r] \in {"none", "part"}
  BY DEF Contents
<1>2. part = [t EXCEPT !.snap = snap]
  OBVIOUS
<1> HIDE DEF snap, part
<1>3. /\ part \in Repos /\ part.snap = snap /\ part.marks = t.marks /\ part.loose = t.loose
      /\ part.main = t.main
  BY <1>1, <1>2 DEF Repos
<1>4. Sincere(part) /\ Whole(part) = {}
  BY <1>1, <1>3 DEF Sincere, Whole
<1>5. \A r \in Revs : part.snap[r] = IF t.snap[r] = "none" THEN "none" ELSE "part"
  BY <1>3 DEF snap
<1> QED
  BY <1>3, <1>4, <1>5 DEF part

\* The way to the peer leaves the repository of the head alone.
LEMMA Spreading ==
    ASSUME IInv, PeerReceives \/ PeerReceivesPart \/ PeerMovesOut \/ PeerMovesIn
    PROVE  IInv'
<1>1. boot = "up" /\ op.pc \in {"certified", "peer", "peer-moved"}
  BY Early DEF PeerReceives, PeerReceivesPart, PeerMovesOut, PeerMovesIn, At
<1>2. /\ UNCHANGED <<view, had, jobs, helper, record, saved, pending, boot, restarts, crossed>>
      /\ \A p \in {"final", "promo", "backup", "down", "legacy"} : tree'[p] = tree[p]
  BY DEF PeerReceives, PeerReceivesPart, PeerMovesOut, PeerMovesIn, others, Put, Typed, IInv, Places
<1>3. \E pc \in {"idle", "peer", "peer-moved", "spread"} : Goes(pc)
  BY DEF PeerReceives, PeerReceivesPart, PeerMovesOut, PeerMovesIn
<1>4. /\ op' \in [pc : Phases, evidence : Sound, tries : Nat] /\ op'.evidence = op.evidence
      /\ op'.pc \in {"idle", "peer", "peer-moved", "spread"}
  BY <1>3, Going DEF Phases
<1>5. /\ Final \in Repos /\ Final = tree["final"] /\ \A p \in Places : tree[p] \in Repos
      /\ {"final", "peer", "peer-stage", "peer-backup", "legacy"} \subseteq Places
  BY Types DEF Final, Places
<1>6. /\ tree' \in [Places -> Repos]
      /\ (\A p \in Places : Sincere(tree[p])) => \A p \in Places : Sincere(tree'[p])
      /\ op'.pc = "peer" => tree'["peer-stage"].snap[Wanted] = op.evidence
      /\ op'.pc = "peer-moved" => /\ op.pc = "peer" /\ tree'["peer-stage"] = tree["peer-stage"]
      /\ op'.pc = "spread" => op.pc = "peer-moved" /\ tree'["peer"] = tree["peer-stage"]
  <2>1. CASE PeerReceives
    <3> DEFINE sent == Overlay(tree["peer-stage"], Final)
    <3>1. sent \in Repos /\ (Sincere(tree["peer-stage"]) /\ Sincere(Final) => Sincere(sent))
      BY <1>5, Overlaid, SincereWhole
    <3>2. tree' = [tree EXCEPT !["peer-stage"] = sent] /\ sent.snap[Wanted] = op.evidence /\ Goes("peer")
      BY <2>1 DEF PeerReceives, Put
    <3>3. op'.pc = "peer"
      BY <3>2, Going DEF Phases
    <3> HIDE DEF sent
    <3> QED
      BY <1>5, <3>1, <3>2, <3>3 DEF IInv, Typed
  <2>2. CASE PeerReceivesPart
    <3> DEFINE part == [Final EXCEPT !.snap = [r \in Revs |-> IF @[r] = "none" THEN "none" ELSE "part"]]
               came == Merge(tree["peer-stage"], part)
    <3>1. part \in Repos /\ Sincere(part)
      BY <1>5, Parted
    <3>2. tree' = [tree EXCEPT !["peer-stage"] = came] /\ Goes("idle")
      BY <2>2 DEF PeerReceivesPart, Put
    <3> HIDE DEF part
    <3>3. came \in Repos /\ (Sincere(tree["peer-stage"]) => Sincere(came))
      BY <1>5, <3>1, Merged, SincereWhole
    <3>4. op'.pc = "idle"
      BY <3>2, Going DEF Phases
    <3> HIDE DEF came
    <3> QED
      BY <1>5, <3>2, <3>3, <3>4 DEF IInv, Typed
  <2>3. CASE PeerMovesOut
    <3>1. op.pc = "peer" /\ op'.pc = "peer-moved"
      BY <2>3, Going DEF PeerMovesOut, At, Phases
    <3>2. tree' = [tree EXCEPT !["peer-backup"] = tree["peer"], !["peer"] = Empty]
      BY <2>3 DEF PeerMovesOut
    <3> QED
      BY <1>5, <3>1, <3>2, EmptyFacts DEF IInv, Typed, Sincere
  <2>4. CASE PeerMovesIn
    <3>1. op.pc = "peer-moved" /\ op'.pc = "spread"
      BY <2>4, Going DEF PeerMovesIn, At, Phases
    <3>2. tree' = [tree EXCEPT !["peer"] = tree["peer-stage"], !["peer-stage"] = Empty,
                               !["peer-backup"] = Empty]
      BY <2>4 DEF PeerMovesIn
    <3> QED
      BY <1>5, <3>1, <3>2, EmptyFacts DEF IInv, Typed, Sincere
  <2> QED
    BY <2>1, <2>2, <2>3, <2>4
<1>7. /\ cert' \in [{"final", "down", "peer"} -> Sound]
      /\ (\A p \in {"final", "down", "peer"} : cert[p] # "bad") =>
            \A p \in {"final", "down", "peer"} : cert'[p] # "bad"
  BY DEF PeerReceives, PeerReceivesPart, PeerMovesOut, PeerMovesIn, IInv, Typed
<1>8. Typed'
  BY <1>2, <1>4, <1>6, <1>7 DEF IInv, Typed
<1>9. Helped' /\ Importing' /\ Exchanged' /\ Kept' /\ Filled' /\ Marked'
  BY <1>1, <1>2, <1>4, <1>8, Around
<1>10. Staged' /\ Loose'
  BY <1>1, <1>2, <1>4, Aside DEF Seeded
<1>11. Honest'
  BY <1>2, <1>4, <1>6, <1>7 DEF IInv, Honest
<1>12. Evident'
  BY <1>1, <1>2, <1>4, <1>6 DEF IInv, Evident, PeerHas, Busy
<1>13. RunsOnVerifiedContent'
  BY <1>4 DEF RunsOnVerifiedContent
<1> QED
  BY <1>8, <1>9, <1>10, <1>11, <1>12, <1>13 DEF IInv

-----------------------------------------------------------------------------
(* Restart *)

\* What a repository is after a copy that was cut.
LEMMA Shortened ==
    ASSUME NEW s \in Repos, NEW t \in Repos
    PROVE  LET c == Merge(s, [t EXCEPT !.snap =
                            [r \in Revs |-> IF @[r] = "none" THEN "none" ELSE "part"]])
           IN /\ c \in Repos /\ c.marks = s.marks \cup t.marks /\ c.loose = s.loose \cup t.loose
              /\ c.main = IF s.main # None THEN s.main ELSE t.main
              /\ \A r \in Revs : c.snap[r] \in {s.snap[r], "part"}
              /\ \A r \in Revs : c.snap[r] # "none" => s.snap[r] # "none" \/ t.snap[r] # "none"
              /\ Whole(c) = Whole(s) /\ (Sincere(s) => Sincere(c))
              /\ Unfinished(c) \subseteq Unfinished(s) \cup {r \in Revs : t.snap[r] # "none"}
<1> DEFINE part == [t EXCEPT !.snap = [r \in Revs |-> IF @[r] = "none" THEN "none" ELSE "part"]]
           c == Merge(s, part)
<1>1. /\ part \in Repos /\ part.marks = t.marks /\ part.loose = t.loose /\ part.main = t.main
      /\ \A r \in Revs : part.snap[r] = IF t.snap[r] = "none" THEN "none" ELSE "part"
  BY Parted
<1> HIDE DEF part
<1>2. /\ c \in Repos /\ c.marks = s.marks \cup t.marks /\ c.loose = s.loose \cup t.loose
      /\ c.main = IF s.main # None THEN s.main ELSE t.main
      /\ \A r \in Revs : c.snap[r] = Fuller(s.snap[r], part.snap[r])
  BY <1>1, Merged
<1> HIDE DEF c
<1>3. \A r \in Revs :
        /\ c.snap[r] \in {s.snap[r], "part"}
        /\ c.snap[r] = "part" /\ s.snap[r] # "part" => t.snap[r] # "none"
        /\ s.snap[r] = "whole" => c.snap[r] = "whole"
  BY <1>1, <1>2 DEF Fuller, AllFiles
<1>4. /\ Whole(c) = Whole(s) /\ (Sincere(s) => Sincere(c))
      /\ Unfinished(c) \subseteq Unfinished(s) \cup {r \in Revs : t.snap[r] # "none"}
  BY <1>3 DEF Whole, Sincere, Unfinished
<1>5. \A r \in Revs : c.snap[r] # "none" => s.snap[r] # "none" \/ t.snap[r] # "none"
  BY <1>3
<1> QED
  BY <1>2, <1>3, <1>4, <1>5 DEF c, part

\* After a restart the preparation has failed, unless the recipe runs; the
\* helper works for nobody, and at most the download on record begins again.
LEMMA Restarting ==
    ASSUME IInv, Restart
    PROVE  IInv'
<1> DEFINE down == tree["down"]
           cut == Cut(down)
<1>1. /\ boot = "up" /\ restarts' = restarts + 1 /\ jobs' = TakenUp
      /\ helper' = [helper EXCEPT !.job = 0] /\ pending' = {}
      /\ op' = IF op.pc = "running" THEN op ELSE [op EXCEPT !.pc = "idle"]
      /\ tree' = IF op.pc = "seeding" THEN [tree EXCEPT !["down"] = cut] ELSE tree
      /\ UNCHANGED <<cert, had, record, boot, crossed>>
  BY DEF Restart, At
<1>2. down \in Repos /\ Final \in Repos /\ {"final", "promo", "backup", "down"} \subseteq Places
  BY Types DEF Places
<1>3. /\ cut \in Repos /\ cut.marks = down.marks \cup Final.marks
      /\ cut.loose = down.loose \cup Final.loose /\ Whole(cut) = Whole(down)
      /\ Sincere(down) => Sincere(cut)
      /\ Unfinished(cut) \subseteq Unfinished(down) \cup {r \in Revs : Final.snap[r] # "none"}
  BY <1>2, Shortened DEF Cut
<1> HIDE DEF cut, down
<1>4. /\ tree' \in [Places -> Repos] /\ \A p \in Places \ {"down"} : tree'[p] = tree[p]
      /\ tree'["down"] = IF op.pc = "seeding" THEN cut ELSE down
  BY <1>1, <1>2, <1>3 DEF IInv, Typed, down
<1>5. /\ op' \in [pc : Phases, evidence : Sound, tries : Nat] /\ op'.evidence = op.evidence
      /\ op'.pc = IF op.pc = "running" THEN "running" ELSE "idle"
  BY <1>1, Types DEF Phases
<1>6. /\ helper' \in [job : JobIds \cup {0}, rev : Names, torn : BOOLEAN]
      /\ helper'.job = 0 /\ helper'.torn = helper.torn /\ helper'.rev = helper.rev
      /\ helper = NoHelper => helper' = NoHelper
  <2>1. helper' = [job |-> 0, rev |-> helper.rev, torn |-> helper.torn]
    BY <1>1, Types
  <2>2. helper' \in [job : JobIds \cup {0}, rev : Names, torn : BOOLEAN]
    BY <2>1, Types
  <2>3. helper'.job = 0 /\ helper'.torn = helper.torn /\ helper'.rev = helper.rev
    BY <2>1
  <2>4. helper = NoHelper => helper' = NoHelper
    BY <2>1 DEF NoHelper
  <2> QED
    BY <2>2, <2>3, <2>4
<1>7. jobs' \in [JobIds -> Jobs] /\ Answered' = {}
  <2> DEFINE again == [NoJob EXCEPT !.pc = "begun", !.rev = record.rev]
  <2>1. record.rev \in Asked
    BY DEF IInv, Typed
  <2>2. again \in Jobs /\ again.pc = "begun" /\ NoJob \in Jobs /\ NoJob.pc = "none"
    BY <2>1 DEF NoJob, Jobs, Asked
  <2>3. jobs' = [j \in JobIds |-> IF j = 1 /\ record.phase = "downloading" THEN again ELSE NoJob]
    BY <1>1 DEF TakenUp
  <2> HIDE DEF again
  <2> QED
    BY <2>2, <2>3 DEF Answered
<1>8. Typed'
  BY <1>1, <1>4, <1>5, <1>6, <1>7 DEF IInv, Typed
<1>9. Final' = Final /\ Standing' = Final /\ tree'["promo"] = tree["promo"]
  BY <1>2, <1>4, <1>5 DEF Final, Standing
<1>10. (\A ways : Apart(ways)' => Apart(ways)) /\ boot' = "up"
  BY <1>1 DEF Apart
<1>11. Helped' /\ Importing'
  BY <1>1, <1>6 DEF IInv, Helped, Importing
<1>12. Honest'
  BY <1>1, <1>3, <1>4, <1>5 DEF IInv, Honest, down, Places
<1>13. Evident' /\ RunsOnVerifiedContent'
  <2>1. tree'["peer"] = tree["peer"]
    BY <1>4 DEF Places
  <2> QED
    BY <1>1, <1>5, <1>9, <1>10, <2>1 DEF IInv, Evident, RunsOnVerifiedContent, PeerHas, Busy
<1>14. Exchanged' /\ Filled'
  BY <1>1, <1>5, <1>6, <1>9 DEF IInv, Exchanged, Filled
<1>15. Kept'
  BY <1>1, <1>5, <1>9, <1>10 DEF IInv, Kept, Whole
<1>16. ASSUME Apart(MarkWays)
       PROVE  /\ ~helper.torn /\ Final.marks \subseteq Whole(Final)
              /\ tree["promo"].marks \subseteq Whole(tree["promo"])
  <2>1. /\ ~helper.torn /\ Standing.marks \subseteq Whole(Standing)
        /\ tree["promo"].marks \subseteq Whole(tree["promo"])
    BY <1>1, <1>16 DEF IInv, Marked
  <2>2. Final = Standing \/ Final = Empty
    BY <1>16 DEF IInv, Exchanged, Standing, Apart, MarkWays
  <2> QED
    BY <2>1, <2>2, EmptyFacts
<1>17. Marked'
  BY <1>6, <1>7, <1>9, <1>10, <1>16 DEF Marked, Whole
<1>18. Staged'
  <2> SUFFICES ASSUME Apart(MarkWays), NEW r \in tree'["down"].marks \ {Wanted}
               PROVE  r \in Whole(tree["down"])' \cup Whole(Final)
    BY <1>5, <1>9, <1>10 DEF Staged, Seeded, Whole
  <2>1. down.marks \ {Wanted} \subseteq Whole(down) \cup Whole(Final)
    BY <1>1 DEF IInv, Staged, down
  <2>2. Whole(tree["down"])' = Whole(down)
    BY <1>3, <1>4 DEF Whole
  <2> QED
    BY <1>3, <1>4, <1>16, <2>1, <2>2
<1>19. Loose'
  <2> SUFFICES ASSUME Apart(MarkWays \cup {"between"})
               PROVE  /\ Unfinished(Final) \subseteq Final.loose
                      /\ Unfinished(tree["promo"]) \subseteq tree["promo"].loose
                      /\ Unfinished(tree["down"])' \ {Wanted} \subseteq tree'["down"].loose \cup Whole(Final)
    BY <1>5, <1>9, <1>10 DEF Loose, Seeded, Unfinished, Whole
  <2>1. /\ Unfinished(Standing) \subseteq Standing.loose
        /\ Unfinished(tree["promo"]) \subseteq tree["promo"].loose
        /\ Unfinished(down) \ {Wanted} \subseteq down.loose \cup Whole(Final)
    BY <1>1 DEF IInv, Loose, down
  <2>2. Final = Standing \/ Final = Empty
    BY DEF IInv, Exchanged, Standing, Apart, MarkWays
  <2>3. Unfinished(Final) \subseteq Final.loose
    BY <2>1, <2>2, EmptyFacts
  <2>4. {r \in Revs : Final.snap[r] # "none"} \subseteq Unfinished(Final) \cup Whole(Final)
    <3>1. \A r \in Revs : Final.snap[r] \in Contents \ {"bad"}
      BY <1>2 DEF IInv, Honest, Sincere, Final, Apart, MarkWays, Repos
    <3> QED
      BY <3>1 DEF Contents, Unfinished, Whole
  <2>5. Unfinished(tree["down"])' = Unfinished(tree'["down"])
    BY DEF Unfinished
  <2> QED
    BY <1>3, <1>4, <2>1, <2>3, <2>4, <2>5
<1> QED
  BY <1>8, <1>11, <1>12, <1>13, <1>14, <1>15, <1>17, <1>18, <1>19 DEF IInv

-----------------------------------------------------------------------------
(* The import of an older cache *)

\* Cut or complete, an import brings nothing that the older cache has not.
LEMMA Imports ==
    ASSUME IInv, ImportStep
    PROVE  IInv'
<1> DEFINE old == tree["legacy"]
           merged == Merge(Final, old)
           cut == Merge(Final, [old EXCEPT !.snap =
                            [r \in Revs |-> IF @[r] = "none" THEN "none" ELSE "part"]])
           named == [Final EXCEPT !.marks = @ \cup old.marks, !.loose = @ \cup old.loose,
                                  !.main = IF @ = None THEN old.main ELSE @]
<1>1. /\ boot # "up" /\ UNCHANGED <<cert, jobs, helper, record, op, pending, had, crossed>>
      /\ restarts' \in Nat
  BY DEF ImportStep, ImportBegins, ImportEnds, ImportCut, IInv, Typed
<1>2. \E t \in {named, merged, Final, cut} :
        /\ tree' = [tree EXCEPT !["final"] = t]
        /\ boot' \in {"import", "snapshots", "up"} /\ (boot' = "up" => t = merged)
  BY DEF ImportStep, ImportBegins, ImportEnds, ImportCut, Put
<1>3. Final \in Repos /\ old \in Repos /\ Final = tree["final"]
  BY Types DEF Places, Final
<1>4. /\ jobs = [j \in JobIds |-> NoJob] /\ helper = NoHelper /\ op.pc = "idle" /\ pending = {}
      /\ \A p \in {"promo", "backup", "down"} : tree[p] = Empty
      /\ \A r \in Revs : old.snap[r] \in {"none", "whole"}
      /\ old.marks \subseteq Whole(old) /\ old.loose = {} /\ had = Whole(old)
      /\ \A r \in Revs : Final.snap[r] \in {"none", "part"}
      /\ \A r \in Revs : Final.snap[r] = "part" => r \in Whole(old)
      /\ Final.marks \subseteq old.marks /\ Final.loose = {}
  BY <1>1 DEF IInv, Importing
<1> DEFINE Fits(t) == /\ t \in Repos /\ t.marks \subseteq old.marks /\ t.loose = {}
                      /\ \A r \in Revs : t.snap[r] \in {"none", "part"}
                      /\ \A r \in Revs : t.snap[r] = "part" => r \in Whole(old)
<1>5. Fits(Final)
  BY <1>3, <1>4
<1>6. Fits(named)
  <2>1. /\ named \in Repos /\ named.marks = Final.marks \cup old.marks
        /\ named.loose = Final.loose \cup old.loose /\ named.snap = Final.snap
    BY <1>3 DEF Repos
  <2> HIDE DEF named, old
  <2> QED
    BY <1>4, <2>1
<1>7. Fits(cut)
  <2>1. /\ cut \in Repos /\ cut.marks = Final.marks \cup old.marks /\ cut.loose = Final.loose \cup old.loose
        /\ \A r \in Revs : cut.snap[r] \in {Final.snap[r], "part"}
        /\ \A r \in Revs : cut.snap[r] # "none" => Final.snap[r] # "none" \/ old.snap[r] # "none"
    BY <1>3, Shortened
  <2> HIDE DEF cut, old
  <2> QED
    BY <1>4, <2>1 DEF Whole
<1>8. /\ merged \in Repos /\ merged.marks \subseteq old.marks /\ merged.loose = {}
      /\ Whole(merged) = Whole(old) /\ Unfinished(merged) = {} /\ Sincere(merged)
  <2>1. Sincere(Final) /\ Sincere(old) /\ Whole(Final) = {}
    BY <1>4 DEF Sincere, Whole
  <2>2. /\ merged \in Repos /\ merged.marks = Final.marks \cup old.marks
        /\ merged.loose = Final.loose \cup old.loose
        /\ Unfinished(merged) \subseteq (Unfinished(Final) \cup Unfinished(old)) \ (Whole(Final) \cup Whole(old))
    BY <1>3, Merged
  <2>3. Sincere(merged) /\ Whole(merged) = Whole(Final) \cup Whole(old)
    BY <1>3, <2>1, SincereWhole
  <2>4. Unfinished(Final) \subseteq Whole(old) /\ Unfinished(old) = {}
    BY <1>4 DEF Unfinished
  <2> HIDE DEF merged, old
  <2> QED
    BY <1>4, <2>1, <2>2, <2>3, <2>4
<1> HIDE DEF named, merged, cut, old
<1>9. PICK t \in {named, merged, Final, cut} :
        /\ tree' = [tree EXCEPT !["final"] = t]
        /\ boot' \in {"import", "snapshots", "up"} /\ (boot' = "up" => t = merged)
        /\ boot' # "up" => Fits(t)
  <2>1. ASSUME ImportEnds
        PROVE  tree' = [tree EXCEPT !["final"] = merged] /\ boot' = "up"
    BY <2>1 DEF ImportEnds, Put, merged, old
  <2>2. ASSUME ImportBegins
        PROVE  tree' = [tree EXCEPT !["final"] = named] /\ boot' = "snapshots"
    BY <2>2 DEF ImportBegins, Put, named, old
  <2>3. ASSUME ImportCut
        PROVE  /\ \E t \in {Final, cut} : tree' = [tree EXCEPT !["final"] = t]
               /\ boot' = "import"
    BY <2>3 DEF ImportCut, Put, cut, old
  <2> QED
    BY <1>5, <1>6, <1>7, <2>1, <2>2, <2>3 DEF ImportStep
<1>10. /\ t \in Repos /\ t.marks \subseteq Whole(old) /\ Sincere(t)
  BY <1>4, <1>5, <1>6, <1>7, <1>8 DEF Sincere
<1>11. /\ tree' \in [Places -> Repos] /\ tree'["final"] = t /\ Final' = t
       /\ \A p \in Places \ {"final"} : tree'[p] = tree[p]
       /\ tree'["legacy"] = old /\ \A p \in {"promo", "backup", "down"} : tree'[p] = Empty
       /\ Standing' = t
  BY <1>1, <1>4, <1>9, <1>10 DEF IInv, Typed, Places, Final, Standing, old
<1>12. Typed'
  BY <1>1, <1>9, <1>11 DEF IInv, Typed
<1>13. helper.job = 0 /\ ~helper.torn /\ Answered' = {}
  BY <1>1, <1>4 DEF NoHelper, Answered, NoJob
<1>14. Helped' /\ Exchanged' /\ Filled'
  BY <1>1, <1>4, <1>13 DEF IInv, Helped, Exchanged, Filled
<1>15. Importing'
  BY <1>1, <1>4, <1>9, <1>11 DEF Importing, Whole
<1>16. Honest'
  BY <1>1, <1>10, <1>11 DEF IInv, Honest
<1>17. Evident' /\ RunsOnVerifiedContent'
  BY <1>1, <1>4 DEF Evident, RunsOnVerifiedContent, Busy
<1>18. boot' = "up" => t = merged
  BY <1>9
<1>19. Kept'
  BY <1>1, <1>4, <1>8, <1>11, <1>18 DEF Kept, Whole
<1>20. Marked'
  BY <1>1, <1>8, <1>10, <1>11, <1>13, <1>18, EmptyFacts DEF Marked, Whole
<1>21. Staged' /\ Loose'
  BY <1>8, <1>11, <1>18, EmptyFacts DEF Staged, Loose, Unfinished
<1> QED
  BY <1>12, <1>14, <1>15, <1>16, <1>17, <1>19, <1>20, <1>21 DEF IInv

-----------------------------------------------------------------------------
(* The theorems *)

\* A machine starts with the cache of an older release, or with none.
LEMMA InitInv ==
    ASSUME Init
    PROVE  IInv
<1> DEFINE bare == [Empty EXCEPT !.snap[Latest] = "whole", !.main = Latest]
           marked == [Empty EXCEPT !.snap[Latest] = "whole", !.main = Latest, !.marks = {Latest}]
<1>1. Wanted \in Revs /\ Latest \in Revs /\ None \notin Revs
  BY RevisionAssumption
<1>2. PICK old \in {Empty, bare, marked} :
        /\ tree = [p \in Places |-> IF p = "legacy" THEN old ELSE Empty]
        /\ had = Whole(old)
  BY DEF Init
<1>3. /\ bare \in Repos /\ bare.marks = {} /\ bare.loose = {}
      /\ \A r \in Revs : bare.snap[r] = IF r = Latest THEN "whole" ELSE "none"
  BY <1>1 DEF Empty, Repos, Names, Contents
<1>4. /\ marked \in Repos /\ marked.marks = {Latest} /\ marked.loose = {}
      /\ \A r \in Revs : marked.snap[r] = IF r = Latest THEN "whole" ELSE "none"
  BY <1>1 DEF Empty, Repos, Names, Contents
<1> HIDE DEF bare, marked
<1>5. /\ old \in Repos /\ old.marks \subseteq Whole(old) /\ old.loose = {} /\ Sincere(old)
      /\ \A r \in Revs : old.snap[r] \in {"none", "whole"}
  BY <1>1, <1>2, <1>3, <1>4, EmptyFacts DEF Whole, Sincere
<1>6. /\ tree \in [Places -> Repos] /\ tree["legacy"] = old
      /\ \A p \in Places \ {"legacy"} : tree[p] = Empty
      /\ {"final", "promo", "backup", "down"} \subseteq Places \ {"legacy"}
      /\ Final = Empty /\ Standing = Empty
  BY <1>2, <1>5, EmptyFacts DEF Places, Init, Final, Standing
<1>7. /\ cert \in [{"final", "down", "peer"} -> Sound] /\ \A p \in {"final", "down", "peer"} : cert[p] = "none"
      /\ jobs = [j \in JobIds |-> NoJob] /\ helper = NoHelper /\ record = NoRecord
      /\ op = [pc |-> "idle", evidence |-> "none", tries |-> 0]
      /\ pending = {} /\ boot = "import" /\ restarts = 0 /\ crossed = {}
  BY DEF Init, Sound
<1>8. Typed
  <2>1. jobs \in [JobIds -> Jobs]
    BY <1>7 DEF NoJob, Jobs, Asked
  <2>2. helper \in [job : JobIds \cup {0}, rev : Names, torn : BOOLEAN]
    BY <1>7 DEF NoHelper, Names
  <2>3. record \in [phase : {"none", "downloading", "error"}, rev : Asked]
    BY <1>7 DEF NoRecord, Asked
  <2>4. op \in [pc : Phases, evidence : Sound, tries : Nat]
    BY <1>7 DEF Phases, Sound
  <2>5. had \subseteq Revs
    BY <1>2 DEF Whole
  <2> QED
    BY <1>6, <1>7, <2>1, <2>2, <2>3, <2>4, <2>5 DEF Typed
<1>9. helper.job = 0 /\ ~helper.torn
  BY <1>7 DEF NoHelper
<1>10. Helped /\ Exchanged /\ Filled /\ Evident /\ RunsOnVerifiedContent
  BY <1>7, <1>9 DEF Helped, Exchanged, Filled, Evident, RunsOnVerifiedContent, Busy
<1>11. Importing
  BY <1>2, <1>5, <1>6, <1>7, EmptyFacts DEF Importing
<1>12. Honest
  BY <1>5, <1>6, <1>7, EmptyFacts DEF Honest, Sincere
<1>13. Kept /\ Marked /\ Staged /\ Loose
  BY <1>7 DEF Kept, Marked, Staged, Loose
<1> QED
  BY <1>8, <1>10, <1>11, <1>12, <1>13 DEF IInv

\* Every step of the machine preserves the invariant.
LEMMA Inductive ==
    ASSUME IInv, [Next]_vars
    PROVE  IInv'
<1>1. CASE ImportStep
  BY <1>1, Imports
<1>2. ASSUME NEW rev \in {None, Wanted}, Ask(rev)
      PROVE  IInv'
  BY <1>2, Asking DEF Asked
<1>3. ASSUME NEW j \in JobIds, JobStep(j) \/ JobTicks(j) \/ Cancel(j)
      PROVE  IInv'
  <2>1. CASE Create(j) \/ Cancel(j)
    BY <2>1, Asking
  <2>2. CASE HelperStarts(j)
    BY <2>2, Starting
  <2>3. CASE JobFails(j) \/ JobTimesOut(j) \/ JobTicks(j) \/ JobCancelled(j) \/ JobSucceeds(j)
    BY <2>3, Ending
  <2>4. CASE JobMarks(j)
    BY <2>4, Marking
  <2> QED
    BY <1>3, <2>1, <2>2, <2>3, <2>4 DEF JobStep
<1>4. CASE HelperWrites \/ HelperEnds
  BY <1>4, Writing, Finishing, Listing DEF HelperEnds
<1>5. CASE Scan \/ DeleteRecipe \/ SaveRecipe \/ GCLists
  BY <1>5, Listing
<1>6. CASE Uninstall
  BY <1>6, Uninstalling
<1>7. CASE PreparationStep
  <2>1. CASE OpBegins \/ OpReuses \/ OpAdopts \/ OpResumes
    BY <2>1, Finding
  <2>2. CASE OpFails \/ PeerMatches \/ OpPrepares \/ OpRuns \/ OpStops
    BY <2>2, Passing
  <2>3. CASE OpStages \/ OpSeeds
    BY <2>3, Staging
  <2>4. CASE OpDownloads \/ OpCertifies
    BY <2>4, Fetching
  <2>5. CASE OpFills
    BY <2>5, Filling
  <2>6. CASE OpMovesOut
    BY <2>6, MovingOut
  <2>7. CASE OpMovesIn
    BY <2>7, MovingIn
  <2>8. CASE OpMovesBack
    BY <2>8, MovingBack
  <2>9. CASE OpRecords
    BY <2>9, Recording
  <2>10. CASE OpDropsStaging
    BY <2>10, Dropping
  <2>11. CASE PeerReceives \/ PeerReceivesPart \/ PeerMovesOut \/ PeerMovesIn
    BY <2>11, Spreading
  <2> QED
    BY <1>7, <2>1, <2>2, <2>3, <2>4, <2>5, <2>6, <2>7, <2>8, <2>9, <2>10, <2>11 DEF PreparationStep
<1>8. ASSUME NEW place \in Places, GCRemoves(place)
      PROVE  IInv'
  BY <1>8, Collecting
<1>9. CASE Restart
  BY <1>9, Restarting
<1>10. CASE UNCHANGED vars
  <2>1. UNCHANGED <<tree, cert, jobs, helper, record, op, pending, boot, restarts, had, crossed>>
    BY <1>10 DEF vars
  <2>2. Typed'
    BY <2>1 DEF IInv, Typed
  <2>3. Helped'
    BY <2>1 DEF IInv, Helped
  <2>4. Answered' \subseteq Answered
    BY <2>1 DEF Answered
  <2>5. helper'.job \in {0, helper.job}
    BY <2>1
  <2> QED
    BY <2>1, <2>2, <2>3, <2>4, <2>5, Requests
<1> QED
  BY <1>1, <1>2, <1>3, <1>4, <1>5, <1>6, <1>7, <1>8, <1>9, <1>10 DEF Next

\* The inductive invariant holds throughout.
THEOREM Invariance == Spec => []IInv
<1>1. Init => IInv
  BY InitInv
<1>2. IInv /\ [Next]_vars => IInv'
  BY Inductive
<1> QED
  BY <1>1, <1>2, PTL DEF Spec

\* A recipe runs on a revision every file of which was verified, here and on
\* the peer (runRecipeModelDownload, distributeRecipeModel,
\* revalidateRecipeBeforeSwitch), unless an uninstall, a download through the
\* same blobs or into the exchange, or an old cleanup list came between.
THEOREM VerifiedContent == Spec => []RunsOnVerifiedContent
<1>1. IInv => RunsOnVerifiedContent
  BY DEF IInv
<1> QED
  BY <1>1, Invariance, PTL

\* What a name in the repository leads to is marked, or has no unfinished
\* blobs; either way it is whole.
LEMMA Shown ==
    ASSUME IInv
    PROVE  ShownIsWhole
<1> SUFFICES ASSUME boot = "up", Apart({"exchange", "half-staged", "marker-left", "shared", "torn"})
             PROVE  /\ \A r \in Final.marks : Final.snap[r] \in {"none", "whole"}
                    /\ Complete(Final) /\ Apart({"between"}) => Final.snap[Final.main] = "whole"
  BY DEF ShownIsWhole
<1>1. Apart(MarkWays) /\ "exchange" \notin crossed /\ "shared" \notin crossed
  BY DEF MarkWays, Apart
<1>2. Final \in Repos
  BY Types
<1>3. Final = Standing \/ Final = Empty
  BY <1>1 DEF IInv, Exchanged, Standing
<1>4. Final.marks \subseteq Whole(Final)
  BY <1>1, <1>3, EmptyFacts DEF IInv, Marked
<1>5. ASSUME Complete(Final), Apart({"between"})
      PROVE  Final.snap[Final.main] = "whole"
  <2>1. /\ Final.main \in Revs /\ Final.snap[Final.main] \in Contents /\ Final.snap[Final.main] # "none"
        /\ Final.main \in Final.marks \/ Final.loose = {}
    BY <1>2, <1>5, Types DEF Complete, Repos, Names
  <2>2. Final.snap[Final.main] # "bad"
    BY <1>1, <2>1 DEF IInv, Honest, Sincere, Final, Places
  <2>3. Unfinished(Final) \subseteq Final.loose
    <3>1. Apart(MarkWays \cup {"between"})
      BY <1>1, <1>5 DEF Apart
    <3> QED
      BY <1>3, <3>1, EmptyFacts DEF IInv, Loose
  <2>4. CASE Final.main \in Final.marks
    BY <1>4, <2>4 DEF Whole
  <2>5. CASE Final.loose = {}
    BY <2>1, <2>2, <2>3, <2>5 DEF Unfinished, Contents
  <2> QED
    BY <2>1, <2>4, <2>5
<1>6. \A r \in Final.marks : Final.snap[r] \in {"none", "whole"}
  BY <1>4 DEF Whole
<1> QED
  BY <1>5, <1>6

\* What is marked complete, or is shown for want of unfinished blobs, is whole
\* (modelCacheComplete, markModelRevisionComplete), except in the ways named
\* by the property.
THEOREM ShownModelsAreWhole == Spec => []ShownIsWhole
<1>1. IInv => ShownIsWhole
  BY Shown
<1> QED
  BY <1>1, Invariance, PTL

\* A revision that was whole is in the repository, or in what an exchange left
\* beside it, through every restart and every failure of its two renames
\* (atomicallyPromoteRecipeRepository), until it is uninstalled or collected.
THEOREM NothingWholeIsLost == Spec => []NothingIsLost
<1>1. IInv => NothingIsLost
  BY DEF IInv, Kept, NothingIsLost
<1> QED
  BY <1>1, Invariance, PTL

=============================================================================
