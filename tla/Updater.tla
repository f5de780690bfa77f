------------------------------- MODULE Updater -----------------------------
(***************************************************************************)
(* The update worker cmd/cloudless-updater and the status documents it     *)
(* shares with the desktop: one transaction at a time under a lock, that   *)
(* refreshes the package lists, verifies the published, keeps a recovery   *)
(* generation, installs, restarts the daemons and asks whether the AI      *)
(* workload survived; else it reinstalls the generation it kept.           *)
(*                                                                         *)
(* A release changes the orchestrator and any of the other packages, so a  *)
(* generation is a version of every package. The repository publishes,     *)
(* channels are switched, the machine reboots and the worker is killed at  *)
(* any step.                                                               *)
(***************************************************************************)
EXTENDS Integers, FiniteSets, TLC

CONSTANTS
    MaxRelease,   \* bound: releases that are ever published
    Changes,      \* the packages each release changes besides the orchestrator
    GatesOf,      \* the qualification records in each release's manifest
    FirstStable,  \* the release numbers from this one on are 1.0 or later
    MaxSwitches,  \* bound: channel switches
    MaxKills      \* bound: kills of the worker and reboots

ASSUME UpdaterAssumption ==
    /\ MaxRelease \in Nat \ {0} /\ FirstStable \in Nat \ {0}
    /\ MaxSwitches \in Nat /\ MaxKills \in Nat
    /\ Changes \in [1..MaxRelease -> SUBSET {"branding"}]
    /\ GatesOf \in [1..MaxRelease -> [{"physical", "security", "ci"} -> {"qualified", "not-qualified", "absent"}]]

Packages == {"orchestrator", "branding"}
Channels == {"stable", "beta"}
Releases == 1..MaxRelease

Nothing == [p \in Packages |-> 0]

VARIABLES
    published,   \* the release each channel offers
    lists,       \* the release in APT's lists of each suite
    suite,       \* the suite of cloudless.sources
    channel,     \* /etc/cloudless/update-channel
    setting,     \* a SetChannel between its two files
    switches,    \* counter of SetChannel's writes
    installed,   \* the installed version of every package
    current,     \* the packages retained for recovery; 0 when there is none
    status,      \* status.json
    boot, kills,
    work,        \* the running engine and a recipe operation
    job          \* the transaction that holds the lock

streams == <<suite, channel, setting, switches>>
machine == <<boot, kills>>
vars == <<published, lists, streams, installed, current, status, machine, work, job>>

---------------------------------------------------------------------------
(* Releases *)

\* The version of a package in a release: an unchanged package keeps its own.
VersionIn(p, r) ==
    LET From == {q \in 1..r : q = 1 \/ p = "orchestrator" \/ p \in Changes[q]}
    IN  IF r = 0 THEN 0 ELSE CHOOSE q \in From : \A o \in From : o <= q

Generation(r) == [p \in Packages |-> VersionIn(p, r)]

\* validatePhysicalQualification, validateSecurityReadiness and
\* validateCIQualification: the records of a legacy release may be absent, a
\* stable release since 1.0 needs each of them to be good.
Required(c, r) == c = "stable" /\ r >= FirstStable

PhysicalQualified(c, r) == Required(c, r) => GatesOf[r].physical = "qualified"
SecurityReady(c, r)     == Required(c, r) => GatesOf[r].security = "qualified"
CIQualified(c, r)       == Required(c, r) => GatesOf[r].ci = "qualified"

UnversionedManifest(c, r) ==
    LET o == published[c]
    IN  PhysicalQualified(c, o) /\ SecurityReady(c, o) /\ CIQualified(c, o)

\* validateReleaseManifest: the manifest that the channel offers now is for the
\* version that was asked.
ManifestVerified(c, r) ==
    /\ published[c] = r
    /\ PhysicalQualified(c, r) /\ SecurityReady(c, r) /\ CIQualified(c, r)

\* candidates: what APT would upgrade.
Upgrades == {p \in Packages : VersionIn(p, lists[suite]) > installed[p]}

---------------------------------------------------------------------------
(* Status documents *)

DefaultStatus == [state |-> "idle", version |-> 0, available |-> 0, reboot |-> FALSE, boot |-> 0]

\* reconcileReboot, when the document is read.
Reconciled(s) ==
    IF s.reboot /\ s.boot # boot
    THEN [s EXCEPT !.reboot = FALSE, !.boot = 0, !.available = 0,
                   !.state = IF @ = "reboot_required" THEN "updated" ELSE @]
    ELSE s

\* osupdate.Write notes the boot a restart is asked in.
Written(s) == [s EXCEPT !.boot = IF s.reboot /\ @ = 0 THEN boot ELSE @]

\* currentStatus
CurrentStatus(s, state) == [Reconciled(s) EXCEPT !.state = state]

StatusOf(state) == Written([status EXCEPT !.state = state])

---------------------------------------------------------------------------
(* Transactions *)

NoJob == [kind |-> "none", step |-> "none", channel |-> "stable", switches |-> 0, target |-> 0,
          pkgs |-> {}, before |-> Nothing, mirrored |-> FALSE, staged |-> Nothing,
          rollback |-> Nothing, keeps |-> FALSE, snapshot |-> [engine |-> "none", op |-> "none"],
          outcome |-> "none"]

Workloads == [engine : {"none", "ready"}, op : {"none", "running", "done", "lost"}, daemon : BOOLEAN]

Quiet == [engine |-> "none", op |-> "none", daemon |-> TRUE]

Init ==
    /\ published = [stable |-> 1, beta |-> MaxRelease]   \* beta is ahead
    /\ lists = [c \in Channels |-> 0]
    /\ suite = "stable" /\ channel = "stable" /\ setting = {}
    /\ installed = Generation(1)
    /\ current \in {Nothing, Generation(1)}     \* installed from the ISO, or before it kept packages
    /\ status = DefaultStatus
    /\ boot = 1
    /\ \/ kills = 0 /\ switches = MaxSwitches      \* a behaviour has kills or switches
       \/ kills = MaxKills /\ switches = 0
    /\ work = Quiet
    /\ job = NoJob

\* The repository publishes; beta gets a release before stable.
Publish(c) ==
    /\ \E r \in Releases :
          /\ r > published[c]
          /\ c = "stable" => r <= published["beta"]
          /\ published' = [published EXCEPT ![c] = r]
    /\ UNCHANGED <<lists, streams, installed, current, status, machine,
                   work, job>>

\* The workload goes its own way, and the daemon recovers or loses it when it
\* comes up; shown where the worker looks at it.
WorkMoves ==
    /\ \/ /\ job.step = "capture"
          /\ work' \in {w \in Workloads : w.op \in {"none", "running"}}
       \/ /\ job.step \in {"install", "probe", "reprobe"}
          /\ \/ work.op = "running" /\ \E o \in {"done", "lost"} : work' = [work EXCEPT !.op = o]
             \/ work.daemon /\ \E e \in {"none", "ready"} \ {work.engine} :
                                  work' = [work EXCEPT !.engine = e]
             \/ ~work.daemon /\ work' = [work EXCEPT !.daemon = TRUE]
    /\ UNCHANGED <<published, lists, streams, installed, current, status, machine, job>>

End(outcome) ==
    /\ job' = IF outcome \in {"updated", "rolled_back", "rolled_back_unserved"}
              THEN [job EXCEPT !.kind = "ended", !.step = "none", !.outcome = outcome,
                               !.target = 0, !.staged = Nothing, !.rollback = Nothing,
                               !.snapshot = NoJob.snapshot]
              ELSE [NoJob EXCEPT !.kind = "ended", !.outcome = outcome]
    /\ work' = Quiet          \* nobody looks at the workload until the next snapshot

At(k, s) == job.kind \in k /\ job.step = s
Goto(s) == job' = [job EXCEPT !.step = s]

Applies == {"apply", "qualification"}

\* withLock: a transaction begins when no other holds the lock.
Free == job.kind \in {"none", "ended"}

TimidBegin(kind) ==
    /\ Free
    /\ kind = "check" => status.state # "installing"
    /\ job' = [NoJob EXCEPT !.kind = kind, !.step = "refresh", !.channel = channel,
               !.switches = switches, !.target = 1]
    /\ status' = Written(CurrentStatus(status, IF kind = "check" THEN "checking" ELSE "installing"))
    /\ UNCHANGED <<published, lists, streams, installed, current, machine, work>>

\* qualificationRollbackPreflight: the active campaign names the candidate it
\* qualifies.
CampaignReleases == Releases \ {1}

\* check, apply and qualificationRollback up to their first command.
Begin(kind) ==
    /\ Free
    /\ \E r \in (IF kind = "qualification" THEN CampaignReleases ELSE {1}) :
             job' = [NoJob EXCEPT !.kind = kind, !.step = "refresh", !.channel = channel,
                                  !.switches = switches, !.target = r]
    /\ status' = Written(CurrentStatus(status, IF kind = "check" THEN "checking" ELSE "installing"))
    /\ UNCHANGED <<published, lists, streams, installed, current, machine, work>>

\* failStatus
FailWith(outcome) == End(outcome) /\ status' = StatusOf("failed")

\* apt-get update
Refresh ==
    /\ At(Applies \cup {"check"}, "refresh")
    /\ \/ /\ lists' = [lists EXCEPT ![suite] = published[suite]]
          /\ Goto("resolve") /\ UNCHANGED <<status, work>>
       \/ UNCHANGED lists /\ FailWith("failed")
    /\ UNCHANGED <<published, streams, installed, current, machine>>

\* The available version is the orchestrator's, or else the first package's.
First(S) == IF "orchestrator" \in S THEN "orchestrator" ELSE CHOOSE p \in S : TRUE

\* candidates, and what check and applyWithMode make of them.
Resolve ==
    /\ At(Applies \cup {"check"}, "resolve")
    /\ LET v == installed["orchestrator"]
           a == IF Upgrades = {} THEN 0 ELSE VersionIn(First(Upgrades), lists[suite])
           s == [status EXCEPT !.version = v, !.available = a]
       IN  \/ /\ ManifestVerified(job.channel, IF a = 0 THEN v ELSE a)
              /\ IF a = 0 \/ job.kind = "check"
                 THEN /\ status' = Written([s EXCEPT !.state = IF a = 0 THEN "idle" ELSE "available"])
                      /\ End("checked")
                 ELSE IF job.kind = "qualification" /\ a # job.target
                 THEN status' = Written([s EXCEPT !.state = "failed"]) /\ End("failed")
                 ELSE /\ status' = s /\ UNCHANGED work
                      /\ job' = [job EXCEPT !.step = "snapshot", !.pkgs = Upgrades, !.before = installed]
           \/ /\ status' = Written([s EXCEPT !.state = "failed"])   \* no manifest, or an unverified one
              /\ End("failed")
    /\ UNCHANGED <<published, lists, streams, installed, current, machine>>

\* The recovery snapshot copies the retained packages; without it the update goes on.
Snapshot ==
    /\ At(Applies, "snapshot")
    /\ \/ /\ current # Nothing
          /\ job' = [job EXCEPT !.step = "download", !.rollback = current, !.keeps = TRUE,
                     !.mirrored = \A p \in job.pkgs : current[p] = installed[p]]
       \/ job' = [job EXCEPT !.step = "download", !.keeps = FALSE]
    /\ UNCHANGED <<published, lists, streams, installed, current, status, machine, work>>

\* What apt-get install would bring now: it reads the lists of the suite that
\* is configured now, and names no version.
Brings == [p \in Packages |-> IF p \in job.pkgs /\ VersionIn(p, lists[suite]) > installed[p]
                              THEN VersionIn(p, lists[suite]) ELSE 0]

Download ==
    /\ At(Applies, "download")
    /\ \/ /\ Brings # Nothing
          /\ job' = [job EXCEPT !.step = "capture", !.staged = Brings]
          /\ UNCHANGED <<status, work>>
       \/ FailWith("failed")
    /\ UNCHANGED <<published, lists, streams, installed, current, machine>>

\* captureWorkload: the ready engine and the operations that have not ended.
Workload == [engine |-> work.engine, op |-> IF work.op = "running" THEN "running" ELSE "none"]

Capture ==
    /\ At(Applies, "capture")
    /\ \/ /\ work.daemon
          /\ job.kind = "qualification" => Workload = [engine |-> "ready", op |-> "running"]
          /\ job' = [job EXCEPT !.step = "install", !.snapshot = Workload]
          /\ UNCHANGED <<status, work>>
       \/ FailWith("failed")
    /\ UNCHANGED <<published, lists, streams, installed, current, machine>>

Upgraded(S, versions) == [p \in Packages |-> IF p \in S /\ versions[p] # 0 THEN versions[p]
                                             ELSE installed[p]]

\* A failed installation leaves any part of the packages upgraded and is not
\* rolled back. A finished one restarts the broker and the daemon.
Install ==
    /\ At(Applies, "install")
    /\ \/ /\ installed' = Upgraded(Packages, Brings)
          /\ work' = [work EXCEPT !.daemon = FALSE]
          /\ Goto("probe") /\ UNCHANGED status
       \/ /\ \E S \in SUBSET Packages : installed' = Upgraded(S, Brings)
          /\ FailWith("failed")
    /\ UNCHANGED <<published, lists, streams, current, machine>>

\* workloadContinuityError: the ready engine is still ready and no operation
\* of the snapshot has failed, been aborted or stopped.
Continuous ==
    /\ work.daemon
    /\ job.snapshot.engine = "ready" => work.engine = "ready"
    /\ job.snapshot.op = "running" => work.op # "lost"

\* The packages are in place and their service is continued: a package that
\* the session or the hardware depends on asks for a restart.
ProbePasses ==
    /\ At(Applies, "probe") /\ Continuous
    /\ IF job.kind = "qualification"
       THEN UNCHANGED status /\ Goto("undo")
       ELSE /\ \E other \in BOOLEAN :      \* /run/reboot-required
                  status' = Written([status EXCEPT !.reboot = @ \/ other \/ "branding" \in job.pkgs])
            /\ Goto("retain")
    /\ UNCHANGED <<published, lists, streams, installed, current, machine, work>>

\* The window ends with a failing probe.
ProbeExpires ==
    /\ At(Applies, "probe") /\ ~Continuous
    /\ Goto("undo")
    /\ UNCHANGED <<published, lists, streams, installed, current, status, machine, work>>

ForgetfulUndo ==
    /\ At(Applies, "undo")
    /\ \/ ~job.keeps /\ FailWith("no_generation") /\ UNCHANGED installed
       \/ /\ job.keeps
          /\ installed' = Upgraded({"orchestrator"}, job.rollback)
          /\ work' = [work EXCEPT !.daemon = FALSE]
          /\ Goto("reprobe") /\ UNCHANGED status
    /\ UNCHANGED <<published, lists, streams, current, machine>>

\* rollback: dpkg -i every package of the recovery generation.
Undo ==
    /\ At(Applies, "undo")
    /\ \/ ~job.keeps /\ FailWith("no_generation") /\ UNCHANGED installed
       \/ /\ job.keeps
          /\ installed' = Upgraded(Packages, job.rollback)
          /\ work' = [work EXCEPT !.daemon = FALSE]
          /\ Goto("reprobe") /\ UNCHANGED status
       \/ /\ job.keeps
          /\ \E S \in SUBSET Packages : installed' = Upgraded(S, job.rollback)
          /\ FailWith("rollback_failed")
    /\ UNCHANGED <<published, lists, streams, current, machine>>

Reprobe ==
    /\ At(Applies, "reprobe")
    /\ FailWith(IF Continuous THEN "rolled_back" ELSE "rolled_back_unserved")
    /\ UNCHANGED <<published, lists, streams, installed, current, machine>>

Kept(S) == [p \in Packages |-> IF p \in S /\ job.staged[p] # 0 THEN job.staged[p] ELSE current[p]]

\* copyDebs replaces the retained packages one by one: a failure drops or
\* truncates the package it is at.
Broken(S) == {[p \in Packages |-> IF p = q THEN 0 ELSE Kept(S)[p]] : q \in Packages \ S}

HastyRetain ==
    /\ At(Applies, "retain")
    /\ current' = Kept({"orchestrator"})
    /\ status' = Written([status EXCEPT !.state = IF status.reboot THEN "reboot_required" ELSE "updated",
                                        !.version = status.available, !.available = 0])
    /\ End("updated")
    /\ UNCHANGED <<published, lists, streams, installed, machine>>

Retain ==
    /\ At(Applies, "retain")
    /\ \/ /\ current' = Kept(Packages)
          /\ status' = Written([status EXCEPT !.state = IF status.reboot THEN "reboot_required" ELSE "updated",
                                              !.version = status.available, !.available = 0])
          /\ End("updated")
       \/ /\ \E S \in SUBSET Packages : current' \in {Kept(S)} \cup Broken(S)
          /\ FailWith("not_retained")
    /\ UNCHANGED <<published, lists, streams, installed, machine>>

---------------------------------------------------------------------------
(* osupdate.SetChannel through the privileged broker, one goroutine each *)

SwitchSource(c) ==
    /\ switches < MaxSwitches /\ Cardinality(setting) < 2
    /\ \A x \in setting : x.to # c
    /\ setting' = setting \cup {[to |-> c, from |-> suite]}
    /\ suite' = c /\ switches' = switches + 1
    /\ UNCHANGED <<channel, published, lists, installed, current, status, machine, work, job>>

\* The channel file follows; when it cannot be written the source is put back.
SwitchChannel ==
    /\ \E x \in setting :
          /\ \/ channel' = x.to /\ UNCHANGED <<suite, switches>>
             \/ suite' = x.from /\ switches' = switches + 1 /\ UNCHANGED channel
          /\ setting' = setting \ {x}
    /\ UNCHANGED <<published, lists, installed, current, status, machine, work, job>>

---------------------------------------------------------------------------
(* The worker is killed, alone or with the machine *)

\* What a kill in the middle of a step leaves.
Interrupted ==
    CASE At(Applies, "install") ->
           /\ \E S \in SUBSET Packages : installed' = Upgraded(S, Brings)
           /\ UNCHANGED current
      [] At(Applies, "undo") /\ job.keeps ->
           /\ \E S \in SUBSET Packages : installed' = Upgraded(S, job.rollback)
           /\ UNCHANGED current
      [] At(Applies, "retain") ->
           /\ \E S \in SUBSET Packages : current' \in {Kept(S)} \cup Broken(S)
           /\ UNCHANGED installed
      [] OTHER -> UNCHANGED <<installed, current>>

Kill ==
    /\ kills < MaxKills /\ ~Free
    /\ kills' = kills + 1
    /\ Interrupted
    /\ End("killed")
    /\ UNCHANGED <<boot, published, lists, streams, status>>

\* A power loss may also lose the status document, which is not synced.
Reboot ==
    /\ kills < MaxKills
    /\ kills' = kills + 1 /\ boot' = boot + 1
    /\ Interrupted
    /\ IF Free THEN UNCHANGED <<job, work>> ELSE End("killed")
    /\ status' \in {status, DefaultStatus}
    /\ setting' = {}
    /\ UNCHANGED <<suite, channel, switches, published, lists>>

---------------------------------------------------------------------------
Steps == Refresh \/ Resolve \/ Snapshot \/ Download \/ Capture \/ Install \/ ProbePasses
           \/ ProbeExpires \/ Undo \/ Reprobe \/ Retain

Next ==
    \/ \E c \in Channels : Publish(c) \/ SwitchSource(c)
    \/ SwitchChannel \/ WorkMoves
    \/ \E k \in Applies \cup {"check"} : Begin(k)
    \/ Refresh \/ Resolve \/ Snapshot \/ Download \/ Capture \/ Install
    \/ ProbePasses \/ ProbeExpires \/ Undo \/ Reprobe \/ Retain
    \/ Kill \/ Reboot

\* The steps of a transaction are taken and the daily timer checks.
Fairness == WF_vars(Steps) /\ WF_vars(Begin("check"))

Spec == Init /\ [][Next]_vars /\ Fairness

---------------------------------------------------------------------------
TypeOK ==
    /\ lists \in [Channels -> 0..MaxRelease] /\ published \in [Channels -> Releases]
    /\ suite \in Channels /\ channel \in Channels
    /\ installed \in [Packages -> Releases] /\ current \in [Packages -> 0..MaxRelease]
    /\ work \in Workloads
    /\ status.version \in 0..MaxRelease /\ status.available \in 0..MaxRelease
    /\ status.reboot <=> status.boot # 0
    /\ status.state \in {"idle", "checking", "installing", "available", "failed", "updated",
                         "reboot_required"}

Undisturbed == job.switches = switches /\ job.channel = suite

\* When an update is reported as done and nobody switched the channel on the
\* way, every package it was about is what the report says, and is retained
\* for the next recovery.
UpdatedIsInstalledAndKept ==
    (job.outcome = "updated" /\ Undisturbed) =>
        \A p \in job.pkgs : installed[p] > job.before[p] /\ current[p] = installed[p]

\* An update whose recovery generation was what had been installed is undone
\* to the same package versions when it is reported as rolled back.
RollbackRestoresWhatWasKept ==
    (job.outcome \in {"rolled_back", "rolled_back_unserved"} /\ job.mirrored /\ Undisturbed) =>
        \A p \in job.pkgs : installed[p] = job.before[p]

\* Between the verification and the installation, APT would install exactly
\* the release whose manifest was verified, unless the channel is switched.
InstallsWhatWasVerified ==
    (At(Applies, "snapshot") \/ At(Applies, "download") \/ At(Applies, "capture")
       \/ At(Applies, "install")) /\ Undisturbed
    => /\ Upgrades = job.pkgs
       /\ \E r \in Releases : /\ r = status.available /\ Generation(r) = Generation(lists[suite])
                            /\ published[suite] >= r

\* A killed update does not leave the desktop at "installing": the next daily
\* check says what is installed.
InstallingEnds == (status.state = "installing") ~> (status.state # "installing")

\* UPDATES.md: a failed health check reinstalls the preserved generation, the
\* packages that were installed before the update.
RollbackRestores ==
    (job.outcome = "rolled_back" /\ Undisturbed) => installed = job.before

\* The comment on SetChannel: the file the desktop shows and the suite APT
\* follows do not silently part.
OneReleaseStream == setting = {} => suite = channel

=============================================================================
