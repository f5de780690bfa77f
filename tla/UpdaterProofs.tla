---------------------------- MODULE UpdaterProofs ----------------------------
(***************************************************************************)
(* Proofs about Updater: what is installed is what was verified, a         *)
(* reported update is installed and kept, and a reported rollback brought  *)
(* the kept packages back.                                                 *)
(***************************************************************************)
EXTENDS Updater, WellFoundedInduction, TLAPS

-----------------------------------------------------------------------------
(* Versions *)

\* A non-empty set of numbers has a least one, a bounded one a greatest one.
LEMMA LeastNumber ==
    ASSUME NEW T, T \subseteq Nat, T # {}
    PROVE  \E x \in T : \A y \in T : x <= y
<1>1. PICK x \in T : \A y \in T : ~(<<y, x>> \in OpToRel(<, Nat))
  BY NatLessThanWellFounded, WFMin
<1>2. \A y \in T : ~(y < x)
  BY <1>1 DEF OpToRel
<1>3. \A y \in T : x <= y
  BY <1>2
<1> QED
  BY <1>3

\* A set of numbers that is bounded and not empty has a greatest one.
LEMMA GreatestNumber ==
    ASSUME NEW r \in Nat, NEW T, T \subseteq 0..r, T # {}
    PROVE  \E x \in T : \A y \in T : y <= x
<1> DEFINE U == {n \in Nat : r - n \in T}
<1>1. PICK q \in T : TRUE
  OBVIOUS
<1>2. r - q \in U
  BY <1>1
<1>3. PICK u \in U : \A v \in U : u <= v
  BY <1>2, LeastNumber
<1>4. \A y \in T : y <= r - u
  <2> SUFFICES ASSUME NEW y \in T
               PROVE  y <= r - u
    OBVIOUS
  <2>1. y \in 0..r /\ u \in Nat /\ r - (r - y) = y
    BY <1>3
  <2>2. r - y \in U
    BY <2>1
  <2>3. u <= r - y
    BY <1>3, <2>2
  <2> QED
    BY <2>1, <2>3
<1> QED
  BY <1>3, <1>4

\* A package has a version in every release, not above the release; the
\* orchestrator has the release's own.
LEMMA Version ==
    ASSUME NEW p \in Packages, NEW r \in Releases
    PROVE  /\ VersionIn(p, r) \in Releases /\ VersionIn(p, r) <= r
           /\ VersionIn("orchestrator", r) = r
<1>1. r \in Nat /\ 1 \in 1..r /\ r \in 1..r /\ 1..r \subseteq Releases
  BY UpdaterAssumption DEF Releases
<1>2. ASSUME NEW q \in Packages
      PROVE  /\ VersionIn(q, r) \in {x \in 1..r : x = 1 \/ q = "orchestrator" \/ q \in Changes[x]}
             /\ \A o \in {x \in 1..r : x = 1 \/ q = "orchestrator" \/ q \in Changes[x]} :
                    o <= VersionIn(q, r)
  <2> DEFINE From == {x \in 1..r : x = 1 \/ q = "orchestrator" \/ q \in Changes[x]}
  <2>1. From \subseteq 0..r /\ From # {}
    BY <1>1
  <2>2. \E x \in From : \A y \in From : y <= x
    BY <1>1, <2>1, GreatestNumber
  <2>3. VersionIn(q, r) = CHOOSE x \in From : \A y \in From : y <= x
    BY <1>1 DEF VersionIn
  <2> HIDE DEF From
  <2> QED
    BY <2>2, <2>3 DEF From
<1>3. VersionIn("orchestrator", r) = r
  <2>1. "orchestrator" \in Packages
    BY DEF Packages
  <2> QED
    BY <1>1, <1>2, <2>1
<1> QED
  BY <1>1, <1>2, <1>3

\* Before the first refresh APT's lists are empty.
LEMMA NoVersion == \A p \in Packages : VersionIn(p, 0) = 0
BY DEF VersionIn

-----------------------------------------------------------------------------
(* The invariant *)

Versions == 0..MaxRelease
Working == Applies \cup {"check"}
Verified == {"snapshot", "download", "capture", "install"}
Changed == {"probe", "retain", "undo", "reprobe"}

Jobs ==
    [kind : {"none", "ended"} \cup Working,
     step : {"none", "refresh", "resolve"} \cup Verified \cup Changed,
     channel : Channels, switches : Nat, target : Versions, pkgs : SUBSET Packages,
     before : [Packages -> Versions], mirrored : BOOLEAN, staged : [Packages -> Versions],
     rollback : [Packages -> Versions], keeps : BOOLEAN,
     snapshot : [engine : {"none", "ready"}, op : {"none", "running"}],
     outcome : {"none", "checked", "failed", "updated", "rolled_back", "rolled_back_unserved",
                "no_generation", "rollback_failed", "not_retained", "killed"}]

States ==
    [state : {"idle", "checking", "installing", "available", "failed", "updated",
              "reboot_required"},
     version : Versions, available : Versions, reboot : BOOLEAN, boot : Nat]

Typed ==
    /\ TypeOK
    /\ job \in Jobs /\ status \in States /\ boot \in Nat \ {0}
    /\ switches \in Nat /\ kills \in Nat
    /\ setting \subseteq [to : Channels, from : Channels]

\* The lists were published once, and a channel never offers less again.
ListsWerePublished == \A c \in Channels : lists[c] <= published[c]

\* The job counts switches and may have missed some.
SwitchesAreCounted == job.switches <= switches

Open == job.kind \in Working
OutcomeIsLast == job.outcome # "none" => job.kind = "ended"

\* Between the verification and the end of the installation.
VerifiedIsOffered ==
    Open /\ job.step \in Verified =>
        /\ job.kind \in Applies /\ job.before = installed
        /\ Undisturbed => /\ Upgrades = job.pkgs /\ status.available = lists[suite]
                          /\ lists[suite] \in Releases

StagedIsOffered ==
    Open /\ job.step \in {"capture", "install"} /\ Undisturbed =>
        \A p \in job.pkgs : job.staged[p] = VersionIn(p, lists[suite])

\* After the installation.
InstalledIsStaged ==
    Open /\ job.step \in {"probe", "retain"} /\ Undisturbed =>
        \A p \in job.pkgs : installed[p] = job.staged[p] /\ installed[p] > job.before[p]

\* The generation to go back to.
KeptIsWhatWas ==
    Open /\ job.mirrored =>
        /\ job.step \in Changed \cup (Verified \ {"snapshot"})
        /\ \A p \in job.pkgs : job.before[p] \in Releases /\ job.rollback[p] = job.before[p]
        /\ job.step = "reprobe" => \A p \in job.pkgs : installed[p] = job.before[p]

IInv ==
    /\ Typed /\ ListsWerePublished /\ SwitchesAreCounted /\ OutcomeIsLast
    /\ VerifiedIsOffered /\ StagedIsOffered /\ InstalledIsStaged /\ KeptIsWhatWas
    /\ UpdatedIsInstalledAndKept /\ RollbackRestoresWhatWasKept

-----------------------------------------------------------------------------
(* What steps write *)

\* A document that is written notes the boot a restart is asked in.
LEMMA WrittenDocument ==
    ASSUME Typed, NEW s \in States, s.boot # 0 => s.reboot
    PROVE  /\ Written(s) \in States
           /\ Written(s).reboot <=> Written(s).boot # 0
           /\ Written(s).available = s.available
BY DEF Written, States, Typed

\* The status document stays well formed when its state is written.
LEMMA StatusWritten ==
    ASSUME Typed,
           NEW state \in {"idle", "checking", "installing", "available", "failed", "updated",
                          "reboot_required"}
    PROVE  /\ StatusOf(state) \in States
           /\ StatusOf(state).reboot <=> StatusOf(state).boot # 0
<1> DEFINE s == [status EXCEPT !.state = state]
<1>1. s \in States /\ (s.boot # 0 => s.reboot)
  BY DEF Typed, TypeOK, States
<1> HIDE DEF s
<1>2. Written(s) \in States /\ (Written(s).reboot <=> Written(s).boot # 0)
  BY <1>1, WrittenDocument
<1> QED
  BY <1>2 DEF StatusOf, s

\* A job that ends forgets what it did, or keeps it for its report.
LEMMA EndedJob ==
    ASSUME Typed, SwitchesAreCounted, NEW outcome, End(outcome),
           outcome \in {"checked", "failed", "updated", "rolled_back", "rolled_back_unserved",
                        "no_generation", "rollback_failed", "not_retained", "killed"}
    PROVE  /\ job' \in Jobs /\ job'.kind = "ended" /\ job'.outcome = outcome
           /\ job'.switches \in 0..switches
           /\ work' \in Workloads
           /\ outcome \in {"updated", "rolled_back", "rolled_back_unserved"} =>
                /\ job'.pkgs = job.pkgs /\ job'.before = job.before
                /\ job'.mirrored = job.mirrored /\ job'.channel = job.channel
                /\ job'.switches = job.switches
<1>1. work' \in Workloads
  BY DEF End, Quiet, Workloads
<1>2. /\ [p \in Packages |-> 0] \in [Packages -> Versions]
      /\ NoJob.snapshot \in [engine : {"none", "ready"}, op : {"none", "running"}]
      /\ 0 \in Versions
  BY UpdaterAssumption DEF Versions, NoJob
<1>3. NoJob \in Jobs /\ NoJob.switches = 0
  BY <1>2 DEF NoJob, Jobs, Nothing, Channels
<1>4. CASE outcome \in {"updated", "rolled_back", "rolled_back_unserved"}
  <2>1. job' = [job EXCEPT !.kind = "ended", !.step = "none", !.outcome = outcome,
                           !.target = 0, !.staged = Nothing, !.rollback = Nothing,
                           !.snapshot = NoJob.snapshot]
    BY <1>4 DEF End
  <2>2. job \in Jobs /\ job.switches \in 0..switches
    BY DEF Typed, Jobs, SwitchesAreCounted
  <2>3. /\ job' \in Jobs /\ job'.kind = "ended" /\ job'.outcome = outcome
        /\ job'.pkgs = job.pkgs /\ job'.before = job.before
        /\ job'.mirrored = job.mirrored /\ job'.channel = job.channel
        /\ job'.switches = job.switches
    BY <1>2, <1>4, <2>1, <2>2 DEF Jobs, Nothing
  <2> QED
    BY <1>1, <2>2, <2>3
<1>5. CASE outcome \notin {"updated", "rolled_back", "rolled_back_unserved"}
  <2>1. job' = [NoJob EXCEPT !.kind = "ended", !.outcome = outcome]
    BY <1>5 DEF End
  <2>2. /\ job' \in Jobs /\ job'.kind = "ended" /\ job'.outcome = outcome
        /\ job'.switches = 0
    BY <1>3, <1>5, <2>1 DEF Jobs
  <2>3. 0 \in 0..switches
    BY DEF Typed
  <2> QED
    BY <1>1, <1>5, <2>2, <2>3
<1> QED
  BY <1>4, <1>5

-----------------------------------------------------------------------------
(* The invariant holds *)

\* A generation names one published version of every package.
LEMMA GenerationTyped == \A r \in Releases : Generation(r) \in [Packages -> Releases]
BY Version DEF Generation

\* The device as it is installed satisfies the invariant.
LEMMA InitInv == Init => IInv
<1> SUFFICES ASSUME Init
             PROVE  IInv
  OBVIOUS
<1>1. 1 \in Releases /\ MaxRelease \in Releases /\ Releases \subseteq Versions /\ 0 \in Versions
  BY UpdaterAssumption DEF Releases, Versions
<1>2. /\ job.kind = "none" /\ job.outcome = "none" /\ job.switches = 0 /\ job.step = "none"
      /\ job \in Jobs
  BY <1>1 DEF Init, NoJob, Jobs, Nothing, Channels
<1>3. Typed
  <2>1. installed \in [Packages -> Releases] /\ current \in [Packages -> Versions]
    BY <1>1, GenerationTyped DEF Init, Nothing
  <2>2. /\ status \in States /\ status.reboot = FALSE /\ status.boot = 0
        /\ status.version \in Versions /\ status.available \in Versions
    BY <1>1 DEF Init, DefaultStatus, States
  <2>3. /\ published \in [Channels -> Releases] /\ lists \in [Channels -> Versions]
        /\ suite \in Channels /\ channel \in Channels /\ setting = {}
        /\ boot \in Nat \ {0} /\ switches \in Nat /\ kills \in Nat /\ work \in Workloads
    BY <1>1, UpdaterAssumption DEF Init, Channels, Workloads, Quiet
  <2> QED
    BY <1>2, <2>1, <2>2, <2>3 DEF Typed, TypeOK, Versions, States
<1>4. ListsWerePublished
  BY <1>1 DEF Init, ListsWerePublished, Channels, Releases
<1> QED
  BY <1>2, <1>3, <1>4
     DEF IInv, SwitchesAreCounted, OutcomeIsLast, VerifiedIsOffered, StagedIsOffered,
         InstalledIsStaged, KeptIsWhatWas, UpdatedIsInstalledAndKept,
         RollbackRestoresWhatWasKept, Open, Working, Applies, Init, Typed, TypeOK

\* What goes on around a transaction.
LEMMA Around ==
    ASSUME IInv,
           \/ \E c \in Channels : Publish(c) \/ SwitchSource(c)
           \/ SwitchChannel \/ WorkMoves
    PROVE  IInv'
<1>1. UNCHANGED <<lists, installed, current, status, machine, job>>
  BY DEF Publish, SwitchSource, SwitchChannel, WorkMoves
<1>2. /\ \A c \in Channels : published'[c] >= published[c]
      /\ published' \in [Channels -> Releases]
  <2>1. published \in [Channels -> Releases] /\ Releases \subseteq Nat
    BY UpdaterAssumption DEF IInv, Typed, TypeOK, Releases
  <2>2. CASE \E c \in Channels : Publish(c)
    <3>1. PICK c \in Channels, r \in Releases :
            r > published[c] /\ published' = [published EXCEPT ![c] = r]
      BY <2>2 DEF Publish
    <3>2. published' \in [Channels -> Releases]
      BY <2>1, <3>1
    <3>3. ASSUME NEW d \in Channels
          PROVE  published'[d] >= published[d]
      <4>1. published[d] \in Nat /\ r \in Nat /\ published'[d] = IF d = c THEN r ELSE published[d]
        BY <2>1, <3>1
      <4> QED
        BY <3>1, <4>1
    <3> QED
      BY <3>2, <3>3
  <2>3. CASE UNCHANGED published
    <3>1. \A c \in Channels : published[c] \in Nat
      BY <2>1
    <3> QED
      BY <2>1, <2>3, <3>1
  <2> QED
    BY <2>2, <2>3 DEF SwitchSource, SwitchChannel, WorkMoves, streams
<1>3. /\ suite' \in Channels /\ channel' \in Channels
      /\ setting' \subseteq [to : Channels, from : Channels]
      /\ switches' \in Nat /\ switches' >= switches
      /\ switches' = switches => suite' = suite
      /\ work' \in Workloads
  <2>1. CASE \E c \in Channels : Publish(c)
    BY <2>1 DEF Publish, IInv, Typed, TypeOK, streams
  <2>2. CASE \E c \in Channels : SwitchSource(c)
    BY <2>2 DEF SwitchSource, IInv, Typed, TypeOK
  <2>3. CASE SwitchChannel
    BY <2>3 DEF SwitchChannel, IInv, Typed, TypeOK
  <2>4. CASE WorkMoves
    <3>1. work \in Workloads => work' \in Workloads
      BY <2>4 DEF WorkMoves, Workloads
    <3> QED
      BY <2>4, <3>1 DEF WorkMoves, IInv, Typed, TypeOK, streams
  <2> QED
    BY <2>1, <2>2, <2>3, <2>4
<1>4. Typed'
  BY <1>1, <1>2, <1>3 DEF IInv, Typed, TypeOK, machine
<1>5. ListsWerePublished' /\ SwitchesAreCounted' /\ OutcomeIsLast'
  <2>1. ListsWerePublished'
    <3> SUFFICES ASSUME NEW c \in Channels
                 PROVE  lists[c] <= published'[c]
      BY <1>1 DEF ListsWerePublished
    <3>1. lists[c] \in Nat /\ published[c] \in Nat /\ published'[c] \in Nat
      BY <1>2 DEF IInv, Typed, TypeOK, Releases
    <3> QED
      BY <1>2, <3>1 DEF IInv, ListsWerePublished
  <2>2. job \in Jobs /\ switches \in Nat
    BY DEF IInv, Typed
  <2> QED
    BY <1>1, <1>3, <2>1, <2>2 DEF IInv, SwitchesAreCounted, OutcomeIsLast, Jobs
<1>6. Undisturbed' => Undisturbed /\ suite' = suite
  <2>1. job.switches \in Nat /\ switches \in Nat /\ job.switches <= switches
    BY DEF IInv, Typed, Jobs, SwitchesAreCounted
  <2> QED
    BY <1>1, <1>3, <2>1 DEF Undisturbed
<1>7. VerifiedIsOffered' /\ StagedIsOffered' /\ InstalledIsStaged' /\ KeptIsWhatWas'
  BY <1>1, <1>6
     DEF IInv, VerifiedIsOffered, StagedIsOffered, InstalledIsStaged, KeptIsWhatWas, Open,
         Upgrades, VersionIn
<1>8. UpdatedIsInstalledAndKept' /\ RollbackRestoresWhatWasKept'
  BY <1>1, <1>6 DEF IInv, UpdatedIsInstalledAndKept, RollbackRestoresWhatWasKept
<1> QED
  BY <1>4, <1>5, <1>7, <1>8 DEF IInv

\* A transaction that ends without an update or a rollback to report.
LEMMA Over ==
    ASSUME IInv, NEW outcome, End(outcome),
           outcome \in {"checked", "failed", "no_generation", "rollback_failed",
                        "not_retained", "killed"},
           installed' \in [Packages -> Releases], current' \in [Packages -> Versions],
           status' \in States, status'.reboot <=> status'.boot # 0,
           boot' \in Nat \ {0}, kills' \in Nat, setting' \subseteq [to : Channels, from : Channels],
           UNCHANGED <<published, suite, channel, switches, lists>>
    PROVE  IInv'
<1>1. /\ job' \in Jobs /\ job'.kind = "ended" /\ job'.outcome = outcome
      /\ job'.switches \in 0..switches /\ work' \in Workloads
  BY EndedJob DEF IInv
<1>2. Typed'
  <2>1. status'.version \in Versions /\ status'.available \in Versions
    BY DEF States
  <2> QED
    BY <1>1, <2>1 DEF IInv, Typed, TypeOK, Versions, States
<1>3. ListsWerePublished' /\ SwitchesAreCounted' /\ OutcomeIsLast'
  BY <1>1 DEF IInv, ListsWerePublished, SwitchesAreCounted, OutcomeIsLast, Typed
<1>4. ~Open' /\ job'.outcome \notin {"updated", "rolled_back", "rolled_back_unserved"}
  BY <1>1 DEF Open, Working, Applies
<1> QED
  BY <1>2, <1>3, <1>4
     DEF IInv, VerifiedIsOffered, StagedIsOffered, InstalledIsStaged, KeptIsWhatWas,
         UpdatedIsInstalledAndKept, RollbackRestoresWhatWasKept

\* A transaction that goes on; what it has established is for the caller.
LEMMA GoesOn ==
    ASSUME IInv, job' \in Jobs, job'.kind \in Working, job'.outcome = "none",
           job'.switches \in 0..switches, work' \in Workloads,
           installed' \in [Packages -> Releases],
           status' \in States, status'.reboot <=> status'.boot # 0,
           lists' \in [Channels -> Versions], ListsWerePublished',
           UNCHANGED <<published, streams, current, machine>>,
           VerifiedIsOffered', StagedIsOffered', InstalledIsStaged', KeptIsWhatWas'
    PROVE  IInv'
<1>1. Typed'
  <2>1. status'.version \in Versions /\ status'.available \in Versions
    BY DEF States
  <2> QED
    BY <2>1 DEF IInv, Typed, TypeOK, Versions, States, streams, machine
<1>2. SwitchesAreCounted' /\ OutcomeIsLast'
  BY DEF SwitchesAreCounted, OutcomeIsLast, streams, IInv, Typed
<1> QED
  BY <1>1, <1>2 DEF IInv, UpdatedIsInstalledAndKept, RollbackRestoresWhatWasKept

\* What the steps use of the types, in one place.
LEMMA StepTypes ==
    ASSUME IInv
    PROVE  /\ job \in Jobs /\ status \in States /\ (status.reboot <=> status.boot # 0)
           /\ installed \in [Packages -> Releases] /\ current \in [Packages -> Versions]
           /\ lists \in [Channels -> Versions] /\ published \in [Channels -> Releases]
           /\ suite \in Channels /\ channel \in Channels
           /\ work \in Workloads /\ job.switches \in 0..switches
           /\ boot \in Nat \ {0} /\ kills \in Nat /\ switches \in Nat
           /\ setting \subseteq [to : Channels, from : Channels]
           /\ Releases \subseteq Versions /\ Versions \subseteq Nat /\ 0 \in Versions
           /\ Releases = Versions \ {0}
BY UpdaterAssumption DEF IInv, Typed, TypeOK, Jobs, SwitchesAreCounted, Releases, Versions

\* An update, a check or a qualification begins.
LEMMA Beginning ==
    ASSUME IInv, NEW kind \in Working, Begin(kind)
    PROVE  IInv'
<1>1. PICK r \in (IF kind = "qualification" THEN CampaignReleases ELSE {1}) :
        job' = [NoJob EXCEPT !.kind = kind, !.step = "refresh", !.channel = channel,
                             !.switches = switches, !.target = r]
  BY DEF Begin
<1>2. r \in Versions
  BY UpdaterAssumption DEF CampaignReleases, Releases, Versions
<1>3. /\ job' \in Jobs /\ job'.kind = kind /\ job'.outcome = "none" /\ job'.step = "refresh"
      /\ job'.switches = switches /\ job'.mirrored = FALSE
  BY <1>1, <1>2, StepTypes DEF NoJob, Jobs, Nothing
<1>4. status' \in States /\ (status'.reboot <=> status'.boot # 0)
  <2> DEFINE state == IF kind = "check" THEN "checking" ELSE "installing"
  <2>1. CurrentStatus(status, state) \in States
    BY StepTypes DEF CurrentStatus, Reconciled, States
  <2>2. CurrentStatus(status, state).boot # 0 => CurrentStatus(status, state).reboot
    BY StepTypes DEF CurrentStatus, Reconciled, States
  <2>3. status' = Written(CurrentStatus(status, state))
    BY DEF Begin
  <2> HIDE DEF state
  <2> QED
    BY <2>1, <2>2, <2>3, WrittenDocument DEF IInv
<1>5. /\ VerifiedIsOffered' /\ StagedIsOffered' /\ InstalledIsStaged' /\ KeptIsWhatWas'
  BY <1>3 DEF VerifiedIsOffered, StagedIsOffered, InstalledIsStaged, KeptIsWhatWas, Verified
<1>6. UNCHANGED <<published, lists, streams, installed, current, machine, work>>
  BY DEF Begin
<1>7. job'.switches \in 0..switches
  BY <1>3, StepTypes
<1>8. ListsWerePublished'
  BY <1>6 DEF IInv, ListsWerePublished
<1> QED
  BY <1>3, <1>4, <1>5, <1>6, <1>7, <1>8, StepTypes, GoesOn

\* A failed step writes so.
LEMMA Failing ==
    ASSUME IInv, NEW outcome, FailWith(outcome),
           outcome \in {"failed", "no_generation", "rollback_failed", "not_retained"},
           installed' \in [Packages -> Releases], current' \in [Packages -> Versions],
           UNCHANGED <<published, streams, machine, lists>>
    PROVE  IInv'
<1>1. status' \in States /\ (status'.reboot <=> status'.boot # 0)
  BY StatusWritten DEF FailWith, IInv
<1> QED
  BY <1>1, Over, StepTypes DEF FailWith, streams, machine

\* APT reads the channel again, or cannot.
LEMMA Refreshing ==
    ASSUME IInv, Refresh
    PROVE  IInv'
<1>1. CASE UNCHANGED lists /\ FailWith("failed")
  BY <1>1, Failing, StepTypes DEF Refresh
<1>2. CASE lists' = [lists EXCEPT ![suite] = published[suite]] /\ Goto("resolve") /\ UNCHANGED <<status, work>>
  <2>1. /\ job' \in Jobs /\ job'.kind \in Working /\ job'.outcome = "none"
        /\ job'.step = "resolve" /\ job'.switches = job.switches /\ job'.mirrored = FALSE
    <3>1. Open /\ job.step = "refresh"
      BY DEF Refresh, At, Open, Working
    <3>2. job.mirrored = FALSE
      BY <3>1, StepTypes DEF IInv, KeptIsWhatWas, Changed, Verified, Jobs
    <3>3. job.outcome = "none"
      BY <3>1 DEF IInv, OutcomeIsLast, Open, Working, Applies
    <3> QED
      BY <1>2, <3>1, <3>2, <3>3, StepTypes DEF Goto, Jobs, Open
  <2>2. lists' \in [Channels -> Versions]
    BY <1>2, StepTypes
  <2>3. ListsWerePublished'
    <3>1. \A c \in Channels : published[c] \in Nat /\ lists[c] \in Nat
      BY StepTypes
    <3> QED
      BY <1>2, <3>1, StepTypes DEF Refresh, IInv, ListsWerePublished
  <2>4. VerifiedIsOffered' /\ StagedIsOffered' /\ InstalledIsStaged' /\ KeptIsWhatWas'
    BY <2>1 DEF VerifiedIsOffered, StagedIsOffered, InstalledIsStaged, KeptIsWhatWas, Verified
  <2> QED
    BY <1>2, <2>1, <2>2, <2>3, <2>4, StepTypes, GoesOn DEF Refresh
<1> QED
  BY <1>1, <1>2 DEF Refresh

\* A step of a transaction under way.
LEMMA Opened ==
    ASSUME IInv, NEW kinds \in SUBSET Working, NEW step, At(kinds, step)
    PROVE  Open /\ job.kind \in kinds /\ job.step = step /\ job.outcome = "none"
BY DEF At, Open, IInv, OutcomeIsLast, Working, Applies

\* What an upgrade would bring is newer than what is installed, and of the lists.
LEMMA Offered ==
    ASSUME IInv, NEW p \in Packages
    PROVE  /\ VersionIn(p, lists[suite]) \in Versions
           /\ VersionIn(p, lists[suite]) <= lists[suite]
           /\ p \in Upgrades => /\ VersionIn(p, lists[suite]) > installed[p]
                                /\ VersionIn(p, lists[suite]) \in Releases
                                /\ lists[suite] \in Releases
           /\ lists[suite] \in Nat /\ installed[p] \in Releases
<1>1. lists[suite] \in Versions /\ installed[p] \in Releases
  BY StepTypes
<1>2. CASE lists[suite] = 0
  BY <1>1, <1>2, NoVersion, StepTypes DEF Upgrades
<1>3. CASE lists[suite] # 0
  <2>1. lists[suite] \in Releases
    BY <1>1, <1>3, StepTypes
  <2> QED
    BY <1>1, <2>1, Version, StepTypes DEF Upgrades
<1> QED
  BY <1>2, <1>3

\* The manifest that was verified is for what the lists offer.
LEMMA Resolving ==
    ASSUME IInv, Resolve
    PROVE  IInv'
<1> DEFINE v == installed["orchestrator"]
           a == IF Upgrades = {} THEN 0 ELSE VersionIn(First(Upgrades), lists[suite])
           s == [status EXCEPT !.version = v, !.available = a]
<1>1. Open /\ job.step = "resolve" /\ job.outcome = "none"
  BY Opened DEF Resolve, Working
<1>2. UNCHANGED <<published, lists, streams, installed, current, machine>>
  BY DEF Resolve
<1>3. Upgrades # {} => First(Upgrades) \in Upgrades /\ First(Upgrades) \in Packages
  BY DEF First, Upgrades
<1>4. v \in Versions /\ a \in Versions
  <2>1. "orchestrator" \in Packages
    BY DEF Packages
  <2> QED
    BY <1>3, <2>1, Offered, StepTypes
<1>5. s \in States /\ (s.boot # 0 <=> s.reboot) /\ s.available = a
  BY <1>4, StepTypes DEF States
<1>6. \A state \in {"idle", "available", "failed"} :
        LET w == Written([s EXCEPT !.state = state])
        IN  w \in States /\ (w.reboot <=> w.boot # 0)
  <2> SUFFICES ASSUME NEW state \in {"idle", "available", "failed"}
               PROVE  LET w == Written([s EXCEPT !.state = state])
                      IN  w \in States /\ (w.reboot <=> w.boot # 0)
    OBVIOUS
  <2> DEFINE d == [s EXCEPT !.state = state]
  <2>1. d \in States /\ (d.boot # 0 => d.reboot)
    BY <1>5 DEF States
  <2> HIDE DEF s, d
  <2>2. Written(d) \in States /\ (Written(d).reboot <=> Written(d).boot # 0)
    BY <2>1, WrittenDocument DEF IInv
  <2> QED
    BY <2>2 DEF d
<1> HIDE DEF s, a, v
<1>7. CASE (\E state \in {"idle", "available"} : status' = Written([s EXCEPT !.state = state]))
           /\ End("checked")
  BY <1>2, <1>6, <1>7, Over, StepTypes DEF streams, machine
<1>8. CASE status' = Written([s EXCEPT !.state = "failed"]) /\ End("failed")
  BY <1>2, <1>6, <1>8, Over, StepTypes DEF streams, machine
<1>9. CASE /\ ManifestVerified(job.channel, a) /\ a # 0 /\ job.kind # "check"
           /\ status' = s /\ UNCHANGED work
           /\ job' = [job EXCEPT !.step = "snapshot", !.pkgs = Upgrades, !.before = installed]
  <2>1. /\ job' \in Jobs /\ job'.kind = job.kind /\ job'.outcome = "none"
        /\ job'.switches = job.switches /\ job'.channel = job.channel
        /\ job'.step = "snapshot" /\ job'.pkgs = Upgrades /\ job'.before = installed
        /\ job'.mirrored = job.mirrored
    <3>1. Upgrades \in SUBSET Packages /\ installed \in [Packages -> Versions]
      BY StepTypes DEF Upgrades
    <3> QED
      BY <1>1, <1>9, <3>1, StepTypes DEF Jobs, Verified
  <2>2. job.mirrored = FALSE
    BY <1>1, StepTypes DEF IInv, KeptIsWhatWas, Changed, Verified, Jobs
  <2>3. Undisturbed' => a = lists[suite] /\ lists[suite] \in Releases
    <3> SUFFICES ASSUME Undisturbed'
                 PROVE  a = lists[suite] /\ lists[suite] \in Releases
      OBVIOUS
    <3>1. suite = job.channel /\ published[suite] = a
      BY <1>2, <1>9, <2>1 DEF Undisturbed, ManifestVerified, streams
    <3>2. lists[suite] <= published[suite]
      BY StepTypes DEF IInv, ListsWerePublished
    <3>3. Upgrades # {} /\ a = VersionIn(First(Upgrades), lists[suite])
      BY <1>9 DEF a
    <3>4. a <= lists[suite] /\ lists[suite] \in Releases /\ a \in Nat /\ lists[suite] \in Nat
      BY <1>3, <3>3, Offered, StepTypes
    <3> QED
      BY <3>1, <3>2, <3>4
  <2>4. VerifiedIsOffered'
    <3>1. Upgrades' = Upgrades
      BY <1>2 DEF Upgrades, VersionIn, streams
    <3>2. job'.kind \in Applies /\ Open'
      BY <1>1, <1>9, <2>1 DEF Open, Working
    <3>3. status'.available = a
      BY <1>5, <1>9
    <3> QED
      BY <1>2, <2>1, <2>3, <3>1, <3>2, <3>3 DEF VerifiedIsOffered, streams
  <2>5. StagedIsOffered' /\ InstalledIsStaged' /\ KeptIsWhatWas'
    BY <2>1, <2>2 DEF StagedIsOffered, InstalledIsStaged, KeptIsWhatWas
  <2>6. ListsWerePublished'
    BY <1>2 DEF IInv, ListsWerePublished
  <2> QED
    BY <1>1, <1>2, <1>5, <1>9, <2>1, <2>4, <2>5, <2>6, StepTypes, GoesOn DEF Open
<1> QED
  <2>1. \/ /\ ManifestVerified(job.channel, IF a = 0 THEN v ELSE a)
           /\ IF a = 0 \/ job.kind = "check"
              THEN /\ status' = Written([s EXCEPT !.state = IF a = 0 THEN "idle" ELSE "available"])
                   /\ End("checked")
              ELSE IF job.kind = "qualification" /\ a # job.target
              THEN status' = Written([s EXCEPT !.state = "failed"]) /\ End("failed")
              ELSE /\ status' = s /\ UNCHANGED work
                   /\ job' = [job EXCEPT !.step = "snapshot", !.pkgs = Upgrades, !.before = installed]
        \/ /\ status' = Written([s EXCEPT !.state = "failed"])
           /\ End("failed")
    BY DEF Resolve, s, a, v
  <2> QED
    BY <1>7, <1>8, <1>9, <2>1

\* A step that only moves on, with nothing new to say.
LEMMA Moves ==
    ASSUME IInv, Open, UNCHANGED <<published, lists, streams, installed, current, machine>>,
           status' \in States, status'.reboot <=> status'.boot # 0, work' \in Workloads,
           NEW step \in Verified \cup Changed, Goto(step),
           VerifiedIsOffered', StagedIsOffered', InstalledIsStaged', KeptIsWhatWas'
    PROVE  IInv'
<1>1. /\ job' \in Jobs /\ job'.kind \in Working /\ job'.outcome = "none"
      /\ job'.switches \in 0..switches
  BY StepTypes DEF Goto, Jobs, Open, IInv, OutcomeIsLast, Working, Applies
<1>2. ListsWerePublished'
  BY DEF IInv, ListsWerePublished
<1> QED
  BY <1>1, <1>2, StepTypes, GoesOn

\* Between the verification and the installation.
LEMMA Preparing ==
    ASSUME IInv, Snapshot \/ Download \/ Capture
    PROVE  IInv'
<1>1. CASE /\ UNCHANGED <<published, lists, streams, installed, current, machine>>
           /\ FailWith("failed")
  BY <1>1, Failing, StepTypes
<1>2. CASE Snapshot
  <2>1. /\ Open /\ job.step = "snapshot" /\ job.kind \in Applies /\ job.mirrored = FALSE
        /\ job.outcome = "none" /\ job.before = installed
        /\ UNCHANGED <<published, lists, streams, installed, current, status, machine, work>>
    BY <1>2, Opened, StepTypes
       DEF Snapshot, Working, IInv, VerifiedIsOffered, Verified, KeptIsWhatWas, Changed, Jobs
  <2>2. /\ job' \in Jobs /\ job'.kind = job.kind /\ job'.step = "download"
        /\ job'.outcome = "none" /\ job'.switches = job.switches /\ job'.channel = job.channel
        /\ job'.pkgs = job.pkgs /\ job'.before = installed
        /\ job'.mirrored => /\ job'.rollback = current
                           /\ \A p \in job.pkgs : current[p] = installed[p]
    <3>1. CASE job' = [job EXCEPT !.step = "download", !.rollback = current, !.keeps = TRUE,
                     !.mirrored = \A p \in job.pkgs : current[p] = installed[p]]
      BY <2>1, <3>1, StepTypes DEF Jobs, Verified
    <3>2. CASE job' = [job EXCEPT !.step = "download", !.keeps = FALSE]
      BY <2>1, <3>2, StepTypes DEF Jobs, Verified
    <3> QED
      BY <1>2, <3>1, <3>2 DEF Snapshot
  <2>3. VerifiedIsOffered' /\ StagedIsOffered' /\ InstalledIsStaged'
    BY <2>1, <2>2
       DEF IInv, VerifiedIsOffered, StagedIsOffered, InstalledIsStaged, Verified, Open,
           Undisturbed, Upgrades, VersionIn, streams
  <2>4. KeptIsWhatWas'
    <3>1. \A p \in job.pkgs : installed[p] \in Releases
      BY StepTypes DEF Jobs
    <3> QED
      BY <2>1, <2>2, <3>1 DEF KeptIsWhatWas, Verified
  <2>5. ListsWerePublished'
    BY <2>1 DEF IInv, ListsWerePublished
  <2> QED
    BY <2>1, <2>2, <2>3, <2>4, <2>5, StepTypes, GoesOn DEF Open
<1>3. CASE /\ At(Applies, "download") /\ Brings # Nothing
           /\ job' = [job EXCEPT !.step = "capture", !.staged = Brings]
           /\ UNCHANGED <<status, work, published, lists, streams, installed, current, machine>>
  <2>1. Open /\ job.step = "download" /\ job.kind \in Applies /\ job.outcome = "none"
    BY <1>3, Opened DEF Working
  <2>2. Brings \in [Packages -> Versions]
    BY Offered, StepTypes DEF Brings
  <2>3. /\ job' \in Jobs /\ job'.kind = job.kind /\ job'.step = "capture"
        /\ job'.outcome = "none" /\ job'.switches = job.switches /\ job'.channel = job.channel
        /\ job'.pkgs = job.pkgs /\ job'.before = job.before /\ job'.staged = Brings
        /\ job'.mirrored = job.mirrored /\ job'.rollback = job.rollback
    BY <1>3, <2>1, <2>2, StepTypes DEF Jobs, Verified
  <2>4. VerifiedIsOffered'
    BY <1>3, <2>1, <2>3
       DEF IInv, VerifiedIsOffered, Verified, Open, Undisturbed, Upgrades, VersionIn, streams
  <2>5. StagedIsOffered'
    <3> SUFFICES ASSUME Undisturbed', NEW p \in job.pkgs
                 PROVE  Brings[p] = VersionIn(p, lists[suite])
      BY <1>3, <2>3 DEF StagedIsOffered, VersionIn, streams
    <3>1. p \in Upgrades /\ p \in Packages
      BY <1>3, <2>1, <2>3 DEF IInv, VerifiedIsOffered, Verified, Undisturbed, streams, Upgrades
    <3>2. VersionIn(p, lists[suite]) > installed[p]
      BY <3>1, Offered
    <3> QED
      BY <3>1, <3>2 DEF Brings
  <2>6. InstalledIsStaged' /\ KeptIsWhatWas'
    BY <1>3, <2>1, <2>3
       DEF IInv, InstalledIsStaged, KeptIsWhatWas, Open, Verified, Changed
  <2>7. ListsWerePublished'
    BY <1>3 DEF IInv, ListsWerePublished
  <2> QED
    BY <1>3, <2>1, <2>3, <2>4, <2>5, <2>6, <2>7, StepTypes, GoesOn DEF Open
<1>4. CASE /\ At(Applies, "capture") /\ job' = [job EXCEPT !.step = "install", !.snapshot = Workload]
           /\ UNCHANGED <<status, work, published, lists, streams, installed, current, machine>>
  <2>1. Open /\ job.step = "capture" /\ job.kind \in Applies /\ job.outcome = "none"
    BY <1>4, Opened DEF Working
  <2>2. Workload \in [engine : {"none", "ready"}, op : {"none", "running"}]
    BY StepTypes DEF Workload, Workloads
  <2>3. /\ job' \in Jobs /\ job'.kind = job.kind /\ job'.step = "install"
        /\ job'.outcome = "none" /\ job'.switches = job.switches /\ job'.channel = job.channel
        /\ job'.pkgs = job.pkgs /\ job'.before = job.before /\ job'.staged = job.staged
        /\ job'.mirrored = job.mirrored /\ job'.rollback = job.rollback
    BY <1>4, <2>1, <2>2, StepTypes DEF Jobs, Verified
  <2>4. VerifiedIsOffered' /\ StagedIsOffered'
    BY <1>4, <2>1, <2>3
       DEF IInv, VerifiedIsOffered, StagedIsOffered, Verified, Open, Undisturbed, Upgrades,
           VersionIn, streams
  <2>5. InstalledIsStaged' /\ KeptIsWhatWas'
    BY <1>4, <2>1, <2>3
       DEF IInv, InstalledIsStaged, KeptIsWhatWas, Open, Verified, Changed
  <2>6. ListsWerePublished'
    BY <1>4 DEF IInv, ListsWerePublished
  <2> QED
    BY <1>4, <2>1, <2>3, <2>4, <2>5, <2>6, StepTypes, GoesOn DEF Open
<1> QED
  BY <1>1, <1>2, <1>3, <1>4 DEF Download, Capture

\* Whatever part of a set of packages is replaced, each has a version.
LEMMA Replaced ==
    ASSUME IInv, NEW S \in SUBSET Packages, NEW versions \in [Packages -> Versions]
    PROVE  Upgraded(S, versions) \in [Packages -> Releases]
BY StepTypes DEF Upgraded

\* What APT would install is a version of every package.
LEMMA BringsTyped == IInv => Brings \in [Packages -> Versions]
BY Offered, StepTypes DEF Brings

\* The packages are installed, or some of them before the installation fails.
LEMMA Installing ==
    ASSUME IInv, Install
    PROVE  IInv'
<1>1. /\ Open /\ job.step = "install" /\ job.kind \in Applies
      /\ UNCHANGED <<published, lists, streams, current, machine>>
  BY Opened DEF Install, Working
<1>2. CASE /\ \E S \in SUBSET Packages : installed' = Upgraded(S, Brings)
           /\ FailWith("failed")
  BY <1>1, <1>2, Failing, Replaced, BringsTyped, StepTypes
<1>3. CASE /\ installed' = Upgraded(Packages, Brings)
           /\ work' = [work EXCEPT !.daemon = FALSE]
           /\ Goto("probe") /\ UNCHANGED status
  <2>1. installed' \in [Packages -> Releases] /\ work' \in Workloads
    BY <1>3, Replaced, BringsTyped, StepTypes DEF Workloads
  <2>2. /\ job' \in Jobs /\ job'.kind = job.kind /\ job'.step = "probe"
        /\ job'.outcome = "none" /\ job'.switches = job.switches /\ job'.channel = job.channel
        /\ job'.pkgs = job.pkgs /\ job'.before = job.before /\ job'.staged = job.staged
        /\ job'.mirrored = job.mirrored /\ job'.rollback = job.rollback
    BY <1>1, <1>3, StepTypes DEF Goto, Jobs, Changed, IInv, OutcomeIsLast, Open, Working, Applies
  <2>3. InstalledIsStaged'
    <3> SUFFICES ASSUME Undisturbed', NEW p \in job.pkgs
                 PROVE  installed'[p] = job.staged[p] /\ installed'[p] > job.before[p]
      BY <2>2 DEF InstalledIsStaged
    <3>1. Undisturbed
      BY <1>1, <2>2 DEF Undisturbed, streams
    <3>2. p \in Upgrades /\ p \in Packages /\ job.before = installed
      BY <1>1, <3>1 DEF IInv, VerifiedIsOffered, Verified, Upgrades
    <3>3. job.staged[p] = VersionIn(p, lists[suite])
      BY <1>1, <3>1 DEF IInv, StagedIsOffered
    <3>4. VersionIn(p, lists[suite]) > installed[p] /\ VersionIn(p, lists[suite]) \in Releases
      BY <3>2, Offered
    <3>5. Brings[p] = VersionIn(p, lists[suite])
      BY <3>2, <3>4 DEF Brings
    <3>6. installed'[p] = VersionIn(p, lists[suite])
      BY <1>3, <3>2, <3>4, <3>5, StepTypes DEF Upgraded
    <3> QED
      BY <3>2, <3>3, <3>4, <3>6
  <2>4. VerifiedIsOffered' /\ StagedIsOffered'
    BY <2>2 DEF VerifiedIsOffered, StagedIsOffered, Verified
  <2>5. KeptIsWhatWas'
    BY <1>1, <2>2 DEF IInv, KeptIsWhatWas, Open, Changed, Verified
  <2>6. ListsWerePublished'
    BY <1>1 DEF IInv, ListsWerePublished
  <2> QED
    BY <1>1, <1>3, <2>1, <2>2, <2>3, <2>4, <2>5, <2>6, StepTypes, GoesOn DEF Open
<1> QED
  BY <1>2, <1>3 DEF Install

\* The desktop answers after the update, or it does not in time.
LEMMA Probing ==
    ASSUME IInv, ProbePasses \/ ProbeExpires
    PROVE  IInv'
<1>1. /\ Open /\ job.step = "probe" /\ job.kind \in Applies /\ job \in Jobs
      /\ UNCHANGED <<published, lists, streams, installed, current, machine, work>>
  BY Opened, StepTypes DEF ProbePasses, ProbeExpires, Working
<1>2. Goto("undo") \/ Goto("retain")
  BY DEF ProbePasses, ProbeExpires
<1>3. status' \in States /\ (status'.reboot <=> status'.boot # 0)
  <2>1. CASE UNCHANGED status
    BY <2>1, StepTypes
  <2>2. CASE \E other \in BOOLEAN :
               status' = Written([status EXCEPT !.reboot = @ \/ other \/ "branding" \in job.pkgs])
    <3>1. PICK other \in BOOLEAN :
               status' = Written([status EXCEPT !.reboot = @ \/ other \/ "branding" \in job.pkgs])
      BY <2>2
    <3> DEFINE d == [status EXCEPT !.reboot = @ \/ other \/ "branding" \in job.pkgs]
    <3>2. d \in States /\ (d.boot # 0 => d.reboot)
      BY StepTypes DEF States
    <3> HIDE DEF d
    <3>3. Written(d) \in States /\ (Written(d).reboot <=> Written(d).boot # 0)
      BY <3>2, WrittenDocument DEF IInv
    <3> QED
      BY <3>1, <3>3 DEF d
  <2> QED
    BY <2>1, <2>2 DEF ProbePasses, ProbeExpires
<1>4. /\ job'.kind = job.kind /\ job'.step \in {"undo", "retain"}
      /\ job'.switches = job.switches /\ job'.channel = job.channel
      /\ job'.pkgs = job.pkgs /\ job'.before = job.before /\ job'.staged = job.staged
      /\ job'.mirrored = job.mirrored /\ job'.rollback = job.rollback
  BY <1>1, <1>2 DEF Goto, Jobs
<1>5. VerifiedIsOffered' /\ StagedIsOffered'
  BY <1>4 DEF VerifiedIsOffered, StagedIsOffered, Verified
<1>6. InstalledIsStaged' /\ KeptIsWhatWas'
  BY <1>1, <1>4
     DEF IInv, InstalledIsStaged, KeptIsWhatWas, Open, Undisturbed, streams, Changed, Verified
<1> QED
  BY <1>1, <1>2, <1>3, <1>5, <1>6, StepTypes, Moves DEF Changed

\* The kept generation is put back, or only a part of it.
LEMMA Undoing ==
    ASSUME IInv, Undo
    PROVE  IInv'
<1>1. /\ Open /\ job.step = "undo" /\ job.kind \in Applies /\ job \in Jobs
      /\ UNCHANGED <<published, lists, streams, current, machine>>
  BY Opened, StepTypes DEF Undo, Working
<1>2. job.rollback \in [Packages -> Versions]
  BY <1>1 DEF Jobs
<1>3. CASE \/ FailWith("no_generation") /\ UNCHANGED installed
           \/ /\ \E S \in SUBSET Packages : installed' = Upgraded(S, job.rollback)
              /\ FailWith("rollback_failed")
  <2>1. installed' \in [Packages -> Releases]
    <3>1. CASE UNCHANGED installed
      BY <3>1, StepTypes
    <3>2. CASE \E S \in SUBSET Packages : installed' = Upgraded(S, job.rollback)
      BY <1>2, <3>2, Replaced
    <3> QED
      BY <1>3, <3>1, <3>2
  <2>2. current' \in [Packages -> Versions]
    BY <1>1, StepTypes
  <2>3. FailWith("no_generation") \/ FailWith("rollback_failed")
    BY <1>3
  <2> QED
    BY <1>1, <2>1, <2>2, <2>3, Failing
<1>4. CASE /\ installed' = Upgraded(Packages, job.rollback)
           /\ work' = [work EXCEPT !.daemon = FALSE]
           /\ Goto("reprobe") /\ UNCHANGED status
  <2>1. installed' \in [Packages -> Releases] /\ work' \in Workloads
    BY <1>2, <1>4, Replaced, StepTypes DEF Workloads
  <2>2. /\ job' \in Jobs /\ job'.kind = job.kind /\ job'.step = "reprobe"
        /\ job'.outcome = "none" /\ job'.switches = job.switches
        /\ job'.pkgs = job.pkgs /\ job'.before = job.before
        /\ job'.mirrored = job.mirrored /\ job'.rollback = job.rollback
    BY <1>1, <1>4 DEF Goto, Jobs, Changed, IInv, OutcomeIsLast, Open, Working, Applies
  <2>3. KeptIsWhatWas'
    <3> SUFFICES ASSUME job.mirrored, NEW p \in job.pkgs
                 PROVE  /\ job.before[p] \in Releases /\ job.rollback[p] = job.before[p]
                        /\ installed'[p] = job.before[p]
      BY <2>2 DEF KeptIsWhatWas, Changed
    <3>1. /\ job.before[p] \in Releases /\ job.rollback[p] = job.before[p] /\ p \in Packages
      BY <1>1 DEF IInv, KeptIsWhatWas, Jobs
    <3> QED
      BY <1>4, <3>1, StepTypes DEF Upgraded
  <2>4. VerifiedIsOffered' /\ StagedIsOffered' /\ InstalledIsStaged'
    BY <2>2 DEF VerifiedIsOffered, StagedIsOffered, InstalledIsStaged, Verified
  <2>5. ListsWerePublished'
    BY <1>1 DEF IInv, ListsWerePublished
  <2> QED
    BY <1>1, <1>4, <2>1, <2>2, <2>3, <2>4, <2>5, StepTypes, GoesOn DEF Open
<1> QED
  BY <1>3, <1>4 DEF Undo

\* Whatever part of the packages is copied, or truncated, each has a version.
LEMMA CopiedTyped ==
    ASSUME IInv, NEW S \in SUBSET Packages
    PROVE  Kept(S) \in [Packages -> Versions] /\ Broken(S) \subseteq [Packages -> Versions]
<1>1. Kept(S) \in [Packages -> Versions]
  BY StepTypes DEF Kept, Jobs
<1>2. Broken(S) \subseteq [Packages -> Versions]
  BY <1>1, StepTypes DEF Broken
<1> QED
  BY <1>1, <1>2

\* A transaction that ends with its report.
LEMMA Reporting ==
    ASSUME IInv, Reprobe \/ Retain
    PROVE  IInv'
<1>1. /\ Open /\ job \in Jobs /\ job.kind \in Applies
      /\ UNCHANGED <<published, lists, streams, installed, machine>>
  BY Opened, StepTypes DEF Reprobe, Retain, Working
<1>2. ASSUME NEW outcome \in {"updated", "rolled_back", "rolled_back_unserved"}, End(outcome),
             current' \in [Packages -> Versions],
             status' \in States, status'.reboot <=> status'.boot # 0,
             UpdatedIsInstalledAndKept', RollbackRestoresWhatWasKept'
      PROVE  IInv'
  <2>1. /\ job' \in Jobs /\ job'.kind = "ended" /\ job'.outcome = outcome
        /\ job'.switches \in 0..switches /\ work' \in Workloads
    BY <1>2, EndedJob DEF IInv
  <2>2. Typed'
    <3>1. status'.version \in Versions /\ status'.available \in Versions
      BY <1>2 DEF States
    <3> QED
      BY <1>1, <1>2, <2>1, <3>1 DEF IInv, Typed, TypeOK, Versions, States, streams, machine
  <2>3. ListsWerePublished' /\ SwitchesAreCounted' /\ OutcomeIsLast'
    BY <1>1, <2>1 DEF IInv, ListsWerePublished, SwitchesAreCounted, OutcomeIsLast, streams, Typed
  <2>4. ~Open'
    BY <2>1 DEF Open, Working, Applies
  <2> QED
    BY <1>2, <2>2, <2>3, <2>4
       DEF IInv, VerifiedIsOffered, StagedIsOffered, InstalledIsStaged, KeptIsWhatWas
<1>3. CASE Reprobe
  <2>1. PICK outcome \in {"rolled_back", "rolled_back_unserved"} : FailWith(outcome)
    BY <1>3 DEF Reprobe
  <2>2. End(outcome) /\ status' \in States /\ (status'.reboot <=> status'.boot # 0)
    BY <2>1, StatusWritten DEF FailWith, IInv
  <2>3. /\ job'.outcome = outcome /\ job'.pkgs = job.pkgs /\ job'.before = job.before
        /\ job'.mirrored = job.mirrored
    BY <2>2, EndedJob DEF IInv
  <2>4. UpdatedIsInstalledAndKept' /\ RollbackRestoresWhatWasKept'
    <3>1. job.step = "reprobe"
      BY <1>3 DEF Reprobe, At
    <3> QED
      BY <1>1, <2>3, <3>1
         DEF UpdatedIsInstalledAndKept, RollbackRestoresWhatWasKept, IInv, KeptIsWhatWas
  <2>5. current' = current
    BY <1>3 DEF Reprobe
  <2> QED
    BY <1>2, <2>2, <2>4, <2>5, StepTypes
<1>4. CASE Retain
  <2>1. job.step = "retain"
    BY <1>4 DEF Retain, At
  <2>2. CASE /\ \E S \in SUBSET Packages : current' \in {Kept(S)} \cup Broken(S)
             /\ FailWith("not_retained")
    BY <1>1, <2>2, Failing, CopiedTyped, StepTypes
  <2>3. CASE /\ current' = Kept(Packages)
             /\ status' = Written([status EXCEPT
                    !.state = IF status.reboot THEN "reboot_required" ELSE "updated",
                    !.version = status.available, !.available = 0])
             /\ End("updated")
    <3> DEFINE d == [status EXCEPT !.state = IF status.reboot THEN "reboot_required" ELSE "updated",
                                   !.version = status.available, !.available = 0]
    <3>1. d \in States /\ (d.boot # 0 => d.reboot)
      BY StepTypes DEF States
    <3> HIDE DEF d
    <3>2. status' \in States /\ (status'.reboot <=> status'.boot # 0)
      BY <2>3, <3>1, WrittenDocument DEF IInv, d
    <3>3. /\ job'.outcome = "updated" /\ job'.pkgs = job.pkgs /\ job'.before = job.before
          /\ job'.switches = job.switches /\ job'.channel = job.channel
      BY <2>3, EndedJob DEF IInv
    <3>4. UpdatedIsInstalledAndKept'
      <4> SUFFICES ASSUME Undisturbed', NEW p \in job.pkgs
                   PROVE  installed[p] > job.before[p] /\ current'[p] = installed[p]
        BY <1>1, <3>3 DEF UpdatedIsInstalledAndKept
      <4>1. Undisturbed
        BY <1>1, <3>3 DEF Undisturbed, streams
      <4>2. installed[p] = job.staged[p] /\ installed[p] > job.before[p] /\ p \in Packages
        BY <1>1, <2>1, <4>1 DEF IInv, InstalledIsStaged, Jobs
      <4>3. job.staged[p] # 0
        BY <4>2, StepTypes
      <4> QED
        BY <2>3, <4>2, <4>3 DEF Kept
    <3>5. RollbackRestoresWhatWasKept'
      BY <3>3 DEF RollbackRestoresWhatWasKept
    <3> QED
      BY <1>2, <2>3, <3>2, <3>4, <3>5, CopiedTyped
  <2> QED
    BY <1>4, <2>2, <2>3 DEF Retain
<1> QED
  BY <1>3, <1>4

\* A kill in the middle of any step.
LEMMA Killing ==
    ASSUME IInv, Kill \/ Reboot
    PROVE  IInv'
<1>1. installed' \in [Packages -> Releases] /\ current' \in [Packages -> Versions]
  <2>1. Interrupted
    BY DEF Kill, Reboot
  <2>2. CASE At(Applies, "install")
    <3>1. PICK S \in SUBSET Packages : installed' = Upgraded(S, Brings)
      BY <2>1, <2>2 DEF Interrupted, At
    <3>2. UNCHANGED current
      BY <2>1, <2>2 DEF Interrupted, At
    <3>3. Upgraded(S, Brings) \in [Packages -> Releases]
      BY Replaced, BringsTyped
    <3>4. current' \in [Packages -> Versions]
      BY <3>2, StepTypes
    <3> QED
      BY <3>1, <3>3, <3>4
  <2>3. CASE At(Applies, "undo") /\ job.keeps
    <3>1. \E S \in SUBSET Packages : installed' = Upgraded(S, job.rollback)
      BY <2>1, <2>3 DEF Interrupted, At
    <3>2. UNCHANGED current /\ job.rollback \in [Packages -> Versions]
      BY <2>1, <2>3, StepTypes DEF Interrupted, At, Jobs
    <3> QED
      BY <3>1, <3>2, Replaced, StepTypes
  <2>4. CASE At(Applies, "retain")
    <3>1. \E S \in SUBSET Packages : current' \in {Kept(S)} \cup Broken(S)
      BY <2>1, <2>4 DEF Interrupted, At
    <3>2. UNCHANGED installed
      BY <2>1, <2>4 DEF Interrupted, At
    <3> QED
      BY <3>1, <3>2, CopiedTyped, StepTypes
  <2>5. CASE /\ ~At(Applies, "install") /\ ~(At(Applies, "undo") /\ job.keeps)
             /\ ~At(Applies, "retain")
    <3>1. UNCHANGED <<installed, current>>
      BY <2>1, <2>5 DEF Interrupted
    <3> QED
      BY <3>1, StepTypes
  <2> QED
    BY <2>2, <2>3, <2>4, <2>5
<1>2. /\ status' \in States /\ (status'.reboot <=> status'.boot # 0)
      /\ kills' \in Nat /\ boot' \in Nat \ {0}
      /\ setting' \subseteq [to : Channels, from : Channels]
      /\ UNCHANGED <<suite, channel, switches, published, lists>>
  <2>1. DefaultStatus \in States /\ (DefaultStatus.reboot <=> DefaultStatus.boot # 0)
    BY StepTypes DEF DefaultStatus, States
  <2>2. CASE Kill
    BY <2>2, StepTypes DEF Kill, streams
  <2>3. CASE Reboot
    BY <2>1, <2>3, StepTypes DEF Reboot
  <2> QED
    BY <2>2, <2>3
<1>3. CASE End("killed")
  BY <1>1, <1>2, <1>3, Over
<1>4. CASE Reboot /\ Free
  <2>1. UNCHANGED <<job, work, installed, current>>
    BY <1>4 DEF Reboot, Interrupted, At, Free, Applies
  <2>2. ~Open
    BY <1>4 DEF Open, Free, Working, Applies
  <2>3. Typed'
    <3>1. status'.version \in Versions /\ status'.available \in Versions
      BY <1>2 DEF States
    <3> QED
      BY <1>2, <2>1, <3>1 DEF IInv, Typed, TypeOK, Versions, States
  <2> QED
    BY <1>2, <2>1, <2>2, <2>3
       DEF IInv, ListsWerePublished, SwitchesAreCounted, OutcomeIsLast, VerifiedIsOffered,
           StagedIsOffered, InstalledIsStaged, KeptIsWhatWas, UpdatedIsInstalledAndKept,
           RollbackRestoresWhatWasKept, Undisturbed, Open
<1> QED
  BY <1>3, <1>4 DEF Kill, Reboot

\* Every step of the updater, the channels and the administrator keeps the invariant.
LEMMA Inductive == IInv /\ [Next]_vars => IInv'
<1>1. ASSUME IInv, Next
      PROVE  IInv'
  BY <1>1, Around, Beginning, Refreshing, Resolving, Preparing, Installing, Probing, Undoing,
     Reporting, Killing DEF Next, Working
<1>2. ASSUME IInv, UNCHANGED vars
      PROVE  IInv'
  BY <1>2
     DEF vars, streams, machine, IInv, Typed, TypeOK, ListsWerePublished, SwitchesAreCounted,
         OutcomeIsLast, VerifiedIsOffered, StagedIsOffered, InstalledIsStaged, KeptIsWhatWas,
         UpdatedIsInstalledAndKept, RollbackRestoresWhatWasKept, Undisturbed, Open, Upgrades,
         VersionIn
<1> QED
  BY <1>1, <1>2

\* The invariant holds of every reachable state: types, and what each step of the
\* transaction may rely on.
THEOREM Invariance == Spec => []IInv
BY InitInv, Inductive, PTL DEF Spec

-----------------------------------------------------------------------------
(* The theorems *)

\* Between the verification and the installation APT would install exactly the
\* release whose manifest was verified, however many releases are published
\* meanwhile and wherever the worker is killed.
THEOREM VerifiedIsInstalled == Spec => []InstallsWhatWasVerified
<1>1. IInv => InstallsWhatWasVerified
  <2> SUFFICES ASSUME IInv, Undisturbed, NEW step \in Verified, At(Applies, step)
               PROVE  /\ Upgrades = job.pkgs
                      /\ \E r \in Releases : /\ r = status.available
                                            /\ Generation(r) = Generation(lists[suite])
                                            /\ published[suite] >= r
    BY DEF InstallsWhatWasVerified, Verified
  <2>1. Upgrades = job.pkgs /\ status.available = lists[suite] /\ lists[suite] \in Releases
    BY DEF At, IInv, VerifiedIsOffered, Open, Working
  <2>2. published[suite] >= lists[suite]
    BY StepTypes DEF IInv, ListsWerePublished
  <2> QED
    BY <2>1, <2>2
<1> QED
  BY <1>1, Invariance, PTL

\* An update that is reported as done is installed and kept for the recovery.
THEOREM UpdatesAreKept == Spec => []UpdatedIsInstalledAndKept
<1>1. IInv => UpdatedIsInstalledAndKept
  BY DEF IInv
<1> QED
  BY <1>1, Invariance, PTL

\* A rollback that is reported brought the kept packages back.
THEOREM RollbacksRestore == Spec => []RollbackRestoresWhatWasKept
<1>1. IInv => RollbackRestoresWhatWasKept
  BY DEF IInv
<1> QED
  BY <1>1, Invariance, PTL
=============================================================================
