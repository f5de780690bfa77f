----------------------------- MODULE AppLibrary -----------------------------
(***************************************************************************)
(* Applications and service packs: the background jobs of the daemon that  *)
(* install, update, reset, remove, reconfigure and share containers        *)
(* (internal/api/server.go, packs.go, lan.go, tunnel.go, update.go), the   *)
(* locks they take by application (app_operation_locks.go), and the boot   *)
(* pass that brings the bundled applications up without those locks        *)
(* (internal/provision/provision.go).                                      *)
(*                                                                         *)
(* A job is a record that walks through the calls of its goroutine, one    *)
(* call of the container engine at a time; a call that fails uses up one   *)
(* of MaxFaults.  Image 0 of an application is its catalog tag, image n    *)
(* the n-th digest the manifest has pinned.                                *)
(***************************************************************************)
EXTENDS Integers, FiniteSets, SequencesExt

CONSTANTS
    AppOrder,       \* the catalog's applications, sorted by id
    Deps,           \* application -> its dependency closure in start order
    PackApps,       \* pack -> its applications
    Preinstall,     \* brought up at boot
    Core,           \* cannot be uninstalled; reset without a health check
    Built,          \* built from an embedded context instead of pulled
    MaxAsked,       \* requests
    MaxFaults,      \* calls of the container engine that fail
    MaxRestarts,    \* restarts of the daemon
    MaxPin,         \* digests the manifest pins one after the other
    MaxSaves,       \* changes of an application's configuration
    Sharers,        \* switches of the network preference under way at once
    None

VARIABLES
    app,        \* application -> its container
    images,     \* images on the machine
    lan,        \* applications with a forwarder container
    tunnel,     \* applications with a tunnel container
    packs,      \* the packs on record in memory
    local,      \* the machine-wide network preference in memory
    file,       \* state.json, which holds both
    cfg,        \* application -> version of its saved configuration
    pin,        \* the digest pinned by the manifest in memory (0: none)
    kept,       \* the digest pinned by the manifest kept on disk
    published,  \* the digest pinned by the manifest on the server
    lock,       \* application -> the job that holds its mutex
    job,        \* the jobs under way
    why,        \* history: why an application is not running, "" if it should
    crossed,    \* history: applications that unserialised operations touched
    missed,     \* history: applications whose last save no restart has taken up
    stray,      \* history: a sharing request crossed another or named one app
    asked, faults, restarts

machine == <<app, images, lan, tunnel>>
store == <<packs, local, file, cfg>>
manifest == <<pin, kept, published>>
history == <<why, crossed, missed, stray>>
bounds == <<asked, faults, restarts>>
vars == <<app, images, lan, tunnel, packs, local, file, cfg, pin, kept, published, lock, job,
          why, crossed, missed, stray, asked, faults, restarts>>

Apps == ToSet(AppOrder)
Packs == DOMAIN PackApps
Saved == Apps \X (1..MaxSaves)
Keys == ({"app"} \X Apps) \cup ({"config"} \X Saved) \cup ({"pack", "unpack"} \X Packs)
            \cup ({"share"} \X Sharers) \cup {<<"boot", None>>}

NoApp == [state |-> "none", image |-> 0, cfg |-> 0]
Runs(a) == app[a].state = "running"

\* The image a job pulls and removes for an application.
ImageFor(a) == <<a, IF a \in Built THEN 0 ELSE pin>>

NoJob == [op |-> "none", pc |-> "none", want |-> <<>>, todo |-> <<>>,
          existed |-> {}, brought |-> <<>>, used |-> {}, on |-> FALSE,
          spec |-> NoApp]

\* Every dependency before its dependant, each once.
InstallOrder(p) ==
    FoldLeft(LAMBDA seq, a : seq \o SelectSeq(Append(Deps[a], a),
                                    LAMBDA b : b \notin ToSet(seq)),
             <<>>, PackApps[p])

\* A job takes its whole lock set in the one sorted order.
Sorted(S) == SelectSeq(AppOrder, LAMBDA a : a \in S)

Active(k) == job[k].pc # "none"
Serialised(k) == k[1] \in {"app", "pack", "unpack"}

\* The applications a job may still change; a save that looks is none yet.
Touches(k, a) ==
    /\ job[k].pc \notin {"none", "look"}
    /\ \/ a \in ToSet(job[k].todo) \cup ToSet(job[k].brought) \cup ToSet(job[k].want)
       \/ lock[a] = k \/ job[k].op = "boot"
Untouched(a) == \A k \in Keys : ~Touches(k, a)

\* Operations the locks do not keep apart: a restart for a new configuration,
\* the boot pass and the sharing passes take none.
Crossing(k, S) ==
    {a \in S : \E other \in Keys \ {k} :
        Touches(other, a) /\ ~(Serialised(k) /\ Serialised(other))}

Init ==
    /\ pin = 1 /\ published = 1 /\ kept \in {0, 1}
    /\ \E there \in SUBSET Apps :
        /\ Preinstall \subseteq there
        /\ \A a \in there : ToSet(Deps[a]) \subseteq there
        /\ app = [a \in Apps |-> IF a \in there
                    THEN [state |-> "running", image |-> ImageFor(a)[2], cfg |-> 0]
                    ELSE NoApp]
        /\ images = {ImageFor(a) : a \in there}
        /\ why = [a \in Apps |-> IF a \in there THEN "" ELSE "never"]
    /\ lan = {} /\ tunnel = {} /\ packs = {} /\ local = FALSE
    /\ file = [packs |-> {}, local |-> FALSE]
    /\ cfg = [a \in Apps |-> 0]
    /\ lock = [a \in Apps |-> None]
    /\ job = [k \in Keys |-> NoJob]
    /\ crossed = {} /\ missed = {} /\ stray = FALSE
    /\ asked = 0 /\ faults = 0 /\ restarts = 0

-----------------------------------------------------------------------------
(* Requests.  CreateUnique: a job of the same subject is joined or refused. *)

Asks == asked < MaxAsked /\ asked' = asked + 1
Fault == faults < MaxFaults /\ faults' = faults + 1

AcceptWith(k, op, todo, want) ==
    /\ Asks
    /\ ~Active(k)
    /\ job' = [job EXCEPT ![k] = [NoJob EXCEPT !.op = op, !.pc = "lock",
                                    !.want = want, !.todo = todo]]
    /\ crossed' = crossed \cup Crossing(k, ToSet(todo))
    /\ UNCHANGED <<machine, store, manifest, lock, why, missed, stray, faults, restarts>>
\* Locks taken in the order of the work.
FaultyAccept(k, op, todo) == AcceptWith(k, op, todo, todo)
Accept(k, op, todo) == AcceptWith(k, op, todo, Sorted(ToSet(todo)))

Start(a) == Accept(<<"app", a>>, "install", Append(Deps[a], a))

\* An application counts as installed by its container, or by its tag.
IsInstalled(a) == app[a].state # "none" \/ (a \notin Built /\ <<a, 0>> \in images)
Update(a) == IsInstalled(a) /\ Start(a)

Reset(a) == Accept(<<"app", a>>, "reset", <<a>>)
Uninstall(a) == a \notin Core /\ Accept(<<"app", a>>, "uninstall", <<a>>)
PackInstall(p) == Accept(<<"pack", p>>, "pack", InstallOrder(p))
PackUninstall(p) == Accept(<<"unpack", p>>, "unpack", Reverse(InstallOrder(p)))

\* Saving writes the file and asks for a restart, whatever else is under way:
\* restartApp joins no other job and takes no lock.
AppConfigSet(a) ==
    /\ Asks
    /\ cfg[a] < MaxSaves
    /\ cfg' = [cfg EXCEPT ![a] = @ + 1]
    /\ job' = [job EXCEPT ![<<"config", <<a, cfg'[a]>>>>] =
                 [NoJob EXCEPT !.op = "config", !.pc = "look", !.todo = <<a>>]]
    /\ UNCHANGED <<machine, packs, local, file, manifest, lock, history, faults, restarts>>

\* The bare stop and remove of a container take no lock and make no job.
StopByHand(a) ==
    /\ Asks /\ Runs(a)
    /\ app' = [app EXCEPT ![a].state = "stopped"]
    /\ why' = [why EXCEPT ![a] = "stopped"]
    /\ crossed' = crossed \cup {b \in {a} : ~Untouched(b)}
    /\ UNCHANGED <<images, lan, tunnel, store, manifest, lock, job, missed, stray, faults, restarts>>

RemoveByHand(a) ==
    /\ Asks /\ app[a].state # "none"
    /\ app' = [app EXCEPT ![a] = NoApp]
    /\ why' = [why EXCEPT ![a] = "by hand"]
    /\ crossed' = crossed \cup {b \in {a} : ~Untouched(b)}
    /\ UNCHANGED <<images, lan, tunnel, store, manifest, lock, job, missed, stray, faults, restarts>>

-----------------------------------------------------------------------------
(* The steps of a job.  Item(k) is the application it is at.                *)

Item(k) == Head(job[k].todo)
At(k, pc) == job[k].pc = pc
GoesTo(k, pc) == job' = [job EXCEPT ![k].pc = pc]

\* Deferred unlocks: the job leaves the list and its mutexes are free.
Ends(k) ==
    /\ job' = [job EXCEPT ![k] = NoJob]
    /\ lock' = [a \in Apps |-> IF lock[a] = k THEN None ELSE lock[a]]

Advances(k, pc) == job' = [job EXCEPT ![k].pc = pc, ![k].todo = Tail(@)]

TakesLock(k) ==
    /\ At(k, "lock") /\ job[k].want # <<>>
    /\ lock[Head(job[k].want)] = None
    /\ lock' = [lock EXCEPT ![Head(job[k].want)] = k]
    /\ job' = [job EXCEPT ![k].want = Tail(@)]
    /\ UNCHANGED <<machine, store, manifest, history, bounds>>

\* Components of other recorded packs, read under the locks.
FaultyUsedElsewhere(p) == UNION {ToSet(PackApps[q]) : q \in packs \ {p}}
UsedElsewhere(p) == UNION {ToSet(InstallOrder(q)) : q \in packs \ {p}}

HasLocks(k) ==
    /\ At(k, "lock") /\ job[k].want = <<>>
    /\ job' = [job EXCEPT
        ![k].pc = CASE job[k].op = "uninstall" -> "remove"
                    [] job[k].op = "reset" -> "clear"
                    [] OTHER -> "next",
        ![k].used = IF job[k].op = "unpack" THEN UsedElsewhere(k[2]) ELSE {}]
    /\ UNCHANGED <<machine, store, manifest, lock, history, bounds>>

\* What a job leaves as it is: dependencies and components that run, and at
\* boot whatever runs.
Ready(k) ==
    /\ Runs(Item(k))
    /\ job[k].op \in {"pack", "boot"} \/ (job[k].op = "install" /\ Len(job[k].todo) > 1)

ItemIsReady(k) ==
    /\ At(k, "next") /\ job[k].op \in {"install", "pack", "boot"}
    /\ job[k].todo # <<>> /\ Ready(k)
    /\ Advances(k, "next")
    /\ UNCHANGED <<machine, store, manifest, lock, history, bounds>>

\* A pack replaces a stopped component as if it were new.
ItemBegins(k) ==
    /\ At(k, "next") /\ job[k].op \in {"install", "pack", "boot"}
    /\ job[k].todo # <<>> /\ ~Ready(k)
    /\ job' = [job EXCEPT ![k].pc = "fetch",
                          ![k].existed = @ \cup {a \in {Item(k)} : app[a].state # "none"}]
    /\ crossed' = crossed \cup
        {a \in {Item(k)} : job[k].op = "pack" /\ app[a].state = "stopped"}
    /\ UNCHANGED <<machine, store, manifest, lock, why, missed, stray, bounds>>

\* Deletes first; a core application is then run again without a check.
Clears(k) ==
    LET a == Item(k) IN
    /\ At(k, "clear")
    /\ app' = [app EXCEPT ![a] = NoApp]
    /\ why' = [why EXCEPT ![a] = "replacing"]
    /\ images' = IF a \in Built \ Core THEN images \ {<<a, 0>>} ELSE images
    /\ job' = [job EXCEPT
        ![k].pc = IF a \in Core THEN "run" ELSE "fetch",
        ![k].spec = [state |-> "running", image |-> ImageFor(a)[2], cfg |-> cfg[a]]]
    /\ UNCHANGED <<lan, tunnel, store, manifest, lock, crossed, missed, stray, bounds>>

\* The image is here before the container that runs is taken down.
Fetches(k) ==
    /\ At(k, "fetch")
    /\ images' = images \cup {ImageFor(Item(k))}
    /\ IF job[k].op = "boot" /\ Item(k) \notin Preinstall
       THEN Advances(k, "next")
       ELSE job' = [job EXCEPT ![k].pc = "replace",
                               ![k].spec.image = ImageFor(Item(k))[2]]
    /\ UNCHANGED <<app, lan, tunnel, store, manifest, lock, history, bounds>>

\* A job that has read a configuration saved since anew, and has yet to start
\* its container.
OlderReader(a) == \E k \in Keys : At(k, "run") /\ Item(k) = a /\ job[k].spec.cfg # cfg[a]

\* A save is over when there is no container, or none can be found; else the
\* goroutine that replaces it begins.
Looks(k) ==
    LET a == Item(k) IN
    /\ At(k, "look")
    /\ \/ /\ app[a].state = "none"
          /\ Ends(k)
          /\ missed' = missed \cup {b \in {a} : OlderReader(b)}
          /\ UNCHANGED <<crossed, faults>>
       \/ /\ app[a].state # "none" /\ Fault
          /\ Ends(k)
          /\ missed' = missed \cup {a}
          /\ UNCHANGED crossed
       \/ /\ app[a].state # "none"
          /\ GoesTo(k, "replace") /\ UNCHANGED lock
          /\ crossed' = crossed \cup Crossing(k, {a})
          /\ UNCHANGED <<missed, faults>>
    /\ UNCHANGED <<machine, store, manifest, why, stray, asked, restarts>>

\* The configuration is read once the old container is gone.  A restart for a
\* new configuration runs the catalog tag.
Replace(k, version) ==
    /\ At(k, "replace")
    /\ app' = [app EXCEPT ![Item(k)] = NoApp]
    /\ why' = [why EXCEPT ![Item(k)] = "replacing"]
    /\ job' = [job EXCEPT ![k].pc = "run",
                          ![k].spec = [state |-> "running", cfg |-> version,
                            image |-> IF job[k].op = "config" THEN 0 ELSE @.image]]
    /\ missed' = IF OlderReader(Item(k)) THEN missed \cup {Item(k)} ELSE missed \ {Item(k)}
    /\ UNCHANGED <<images, lan, tunnel, store, manifest, lock, crossed, stray, bounds>>
\* The catalog's own environment, without the saved overrides.
FaultyReplaces(k) == Replace(k, 0)
Replaces(k) == Replace(k, cfg[Item(k)])

\* docker run refuses a name in use, and pulls an image it does not have.
RunsContainer(k) ==
    LET a == Item(k) IN
    /\ At(k, "run") /\ app[a].state = "none"
    /\ app' = [app EXCEPT ![a] = job[k].spec]
    /\ images' = images \cup {<<a, job[k].spec.image>>}
    /\ IF job[k].op = "boot" \/ (job[k].op = "reset" /\ a \in Core)
       THEN /\ IF job[k].op = "boot" THEN Advances(k, "next") /\ UNCHANGED lock ELSE Ends(k)
            /\ why' = [why EXCEPT ![a] = ""]
       ELSE GoesTo(k, "verify") /\ UNCHANGED <<lock, why>>
    /\ UNCHANGED <<lan, tunnel, store, manifest, crossed, missed, stray, bounds>>

\* What a job that could not bring its item up does next.
GivesUp(k) ==
    CASE job[k].op = "boot" -> Advances(k, "next") /\ UNCHANGED lock
      [] job[k].op # "boot" /\ job[k].brought # <<>> -> GoesTo(k, "rollback") /\ UNCHANGED lock
      [] OTHER -> Ends(k)

FetchFails(k) ==
    /\ At(k, "fetch") /\ Fault
    /\ GivesUp(k)
    /\ UNCHANGED <<machine, store, manifest, history, asked, restarts>>

\* A container that was created and could not be started stays.
RunFails(k) ==
    LET a == Item(k) IN
    /\ At(k, "run")
    /\ \/ /\ Fault
          /\ \/ UNCHANGED app
             \/ app[a].state = "none" /\ app' = [app EXCEPT ![a] = [job[k].spec EXCEPT !.state = "stopped"]]
       \/ app[a].state # "none" /\ UNCHANGED <<app, faults>>
    /\ GivesUp(k)
    /\ UNCHANGED <<images, lan, tunnel, store, manifest, history, asked, restarts>>

\* The last step of a job that succeeds: its applications are to stay.
Succeeds(k, S) ==
    /\ Ends(k)
    /\ why' = [a \in Apps |-> IF a \in S THEN "" ELSE why[a]]

\* A dependency that was there, in whatever state, is not the job's to take
\* back; a pack takes back every component it installed.
FaultyBrought(k) == Append(job[k].brought, Item(k))
Brought(k) ==
    IF job[k].op = "pack" \/ Item(k) \notin job[k].existed
    THEN Append(job[k].brought, Item(k)) ELSE job[k].brought

Verifies(k) ==
    LET a == Item(k) IN
    /\ At(k, "verify") /\ Runs(a)
    /\ IF job[k].op # "pack" /\ Len(job[k].todo) = 1
       THEN Succeeds(k, {a} \cup IF job[k].op = "install" THEN ToSet(Deps[a]) ELSE {})
       ELSE /\ job' = [job EXCEPT ![k].pc = "next", ![k].todo = Tail(@), ![k].brought = Brought(k)]
            /\ why' = [why EXCEPT ![a] = IF a \in job[k].existed THEN "" ELSE @]
            /\ UNCHANGED lock
    /\ UNCHANGED <<machine, store, manifest, crossed, missed, stray, bounds>>

\* Unhealthy, or not configured: whatever has the name is removed.
IsUnhealthy(k) ==
    /\ At(k, "verify")
    /\ Fault \/ (~Runs(Item(k)) /\ UNCHANGED faults)
    /\ app' = [app EXCEPT ![Item(k)] = NoApp]
    /\ GivesUp(k)
    /\ UNCHANGED <<images, lan, tunnel, store, manifest, history, asked, restarts>>

\* In reverse; an install also drops the image, if it can.
RollsBack(k) ==
    LET a == Last(job[k].brought) IN
    /\ At(k, "rollback")
    /\ app' = [app EXCEPT ![a] = NoApp]
    /\ images' = IF job[k].op = "install" THEN images \ {ImageFor(a)} ELSE images
    /\ why' = [why EXCEPT ![a] = IF a \in job[k].existed THEN @ ELSE "never"]
    /\ IF Len(job[k].brought) = 1 THEN Ends(k)
       ELSE job' = [job EXCEPT ![k].brought = Front(@)] /\ UNCHANGED lock
    /\ UNCHANGED <<lan, tunnel, store, manifest, crossed, missed, stray, bounds>>

\* The record changes in memory first; state.json takes all of it or nothing.
Saves == file' = [packs |-> packs', local |-> local']
SetPackInstalled(k) ==
    packs' = IF job[k].op = "pack" THEN packs \cup {k[2]} ELSE packs \ {k[2]}

RecordsPack(k) ==
    /\ At(k, "next") /\ job[k].op = "pack" /\ job[k].todo = <<>>
    /\ SetPackInstalled(k) /\ UNCHANGED local /\ Saves
    /\ Succeeds(k, ToSet(InstallOrder(k[2])))
    /\ UNCHANGED <<machine, cfg, manifest, crossed, missed, stray, bounds>>

\* A removal that stops halfway leaves the pack on record.
HalfGone(k) == {a \in Apps : job[k].op = "unpack" /\ lock[a] = k}

\* A pack that cannot be saved is rolled back, and stays on record in memory.
RecordFails(k) ==
    /\ At(k, "next") /\ job[k].op \in {"pack", "unpack"} /\ job[k].todo = <<>>
    /\ Fault
    /\ SetPackInstalled(k) /\ UNCHANGED <<local, file>>
    /\ GivesUp(k)
    /\ crossed' = crossed \cup ToSet(InstallOrder(k[2]))
    /\ UNCHANGED <<machine, cfg, manifest, why, missed, stray, asked, restarts>>

-----------------------------------------------------------------------------
(* Removal: the container, its sidecars, the image; it stops where it fails. *)

LeavesComponent(k) ==
    /\ At(k, "next") /\ job[k].op = "unpack" /\ job[k].todo # <<>>
    /\ Item(k) \in Preinstall \cup job[k].used \/ app[Item(k)].state = "none"
    /\ Advances(k, "next")
    /\ UNCHANGED <<machine, store, manifest, lock, history, bounds>>

TakesComponent(k) ==
    /\ At(k, "next") /\ job[k].op = "unpack" /\ job[k].todo # <<>>
    /\ Item(k) \notin Preinstall \cup job[k].used /\ app[Item(k)].state # "none"
    /\ GoesTo(k, "remove")
    /\ UNCHANGED <<machine, store, manifest, lock, history, bounds>>

RemovesContainer(k) ==
    /\ At(k, "remove")
    /\ app' = [app EXCEPT ![Item(k)] = NoApp]
    /\ why' = [why EXCEPT ![Item(k)] = IF app[Item(k)].state = "none" THEN @ ELSE "removing"]
    /\ GoesTo(k, "sidecars")
    /\ UNCHANGED <<images, lan, tunnel, store, manifest, lock, crossed, missed, stray, bounds>>

RemovesSidecars(k) ==
    /\ At(k, "sidecars")
    /\ lan' = lan \ {Item(k)} /\ tunnel' = tunnel \ {Item(k)}
    /\ GoesTo(k, "image")
    /\ UNCHANGED <<app, images, store, manifest, lock, history, bounds>>

\* docker rmi fails on an image that is not here, or that a container runs.
Removable(a) == ImageFor(a) \in images /\ ~(Runs(a) /\ app[a].image = ImageFor(a)[2])

RemovesImage(k) ==
    LET a == Item(k) IN
    /\ At(k, "image") /\ Removable(a)
    /\ images' = images \ {ImageFor(a)}
    /\ why' = [why EXCEPT ![a] = IF job[k].op = "unpack" THEN "unpacked" ELSE "uninstalled"]
    /\ IF job[k].op = "unpack" THEN Advances(k, "next") /\ UNCHANGED lock ELSE Ends(k)
    /\ UNCHANGED <<app, lan, tunnel, store, manifest, crossed, missed, stray, bounds>>

RemovalFails(k) ==
    /\ \/ job[k].pc \in {"remove", "sidecars", "image"} /\ Fault
       \/ At(k, "image") /\ ~Removable(Item(k)) /\ UNCHANGED faults
    /\ Ends(k)
    /\ crossed' = crossed \cup HalfGone(k)
    /\ UNCHANGED <<machine, store, manifest, why, missed, stray, asked, restarts>>

ForgetsPack(k) ==
    /\ At(k, "next") /\ job[k].op = "unpack" /\ job[k].todo = <<>>
    /\ SetPackInstalled(k) /\ UNCHANGED local /\ Saves
    /\ Ends(k)
    /\ UNCHANGED <<machine, cfg, manifest, history, bounds>>

-----------------------------------------------------------------------------
(* Sharing on the local network, and the public tunnel.                     *)

Share(on) == [NoJob EXCEPT !.op = "share", !.pc = "share", !.todo = AppOrder, !.on = on]
Sharing == {k \in Keys : Active(k) /\ job[k].op \in {"share", "boot"}}

\* The preference is stored, then a goroutine applies the value asked for; one
\* that cannot be saved stays in memory and is not applied.
LocalNetSet(n, on) ==
    /\ Asks
    /\ ~Active(<<"share", n>>)
    /\ local' = on
    /\ \/ /\ UNCHANGED <<packs, faults>> /\ Saves
          /\ job' = [job EXCEPT ![<<"share", n>>] = Share(on)]
          /\ stray' = (stray \/ Sharing # {})
          /\ crossed' = crossed \cup Crossing(<<"share", n>>, Apps)
       \/ /\ Fault /\ stray' = TRUE
          /\ UNCHANGED <<packs, file, job, crossed>>
    /\ UNCHANGED <<machine, cfg, manifest, lock, why, missed, restarts>>

\* EnsureLAN asks whether an application runs, and only then serves it.
Forward(k, keep) ==
    LET a == Item(k) IN
    /\ At(k, "share") /\ job[k].todo # <<>>
    /\ lan' = IF keep THEN lan ELSE lan \ {a}
    /\ IF job[k].on /\ Runs(a) /\ a \notin lan THEN GoesTo(k, "serve") ELSE Advances(k, "share")
    /\ UNCHANGED <<app, images, tunnel, store, manifest, lock, history, bounds>>
Forwards(k) == Forward(k, job[k].on /\ Runs(Item(k)) /\ Item(k) \in lan)

Serves(k) ==
    /\ At(k, "serve")
    /\ \/ lan' = lan \cup {Item(k)} /\ UNCHANGED faults
       \/ Fault /\ UNCHANGED lan
    /\ Advances(k, "share")
    /\ UNCHANGED <<app, images, tunnel, store, manifest, lock, history, asked, restarts>>

IsShared(k) ==
    /\ At(k, "share") /\ job[k].todo = <<>>
    /\ Ends(k)
    /\ UNCHANGED <<machine, store, manifest, history, bounds>>

\* One application by name: neither asks whether it is installed.
LanSet(a, on) ==
    /\ Asks
    /\ lan' = IF on THEN lan \cup {a} ELSE lan \ {a}
    /\ stray' = (stray \/ on)
    /\ crossed' = crossed \cup {b \in {a} : on /\ (~Runs(b) \/ ~Untouched(b))}
    /\ UNCHANGED <<app, images, tunnel, store, manifest, lock, job, why, missed, faults, restarts>>

TunnelSet(a, on) ==
    /\ Asks
    /\ tunnel' = IF on THEN tunnel \cup {a} ELSE tunnel \ {a}
    /\ crossed' = crossed \cup {b \in {a} : on /\ (~Runs(b) \/ ~Untouched(b))}
    /\ UNCHANGED <<app, images, lan, store, manifest, lock, job, why, missed, stray, faults, restarts>>

-----------------------------------------------------------------------------
(* Boot.  Jobs, locks and the manifest are in memory; containers and         *)
(* state.json stay.  The boot pass asks for the manifest first.             *)

Boot == <<"boot", None>>

\* The manifest on the server, or else the copy on disk, or else the old one.
Fetched == pin' = published /\ kept' = published /\ UNCHANGED <<published, faults>>
Unreachable(old) ==
    /\ Fault
    /\ pin' = IF kept # 0 THEN kept ELSE old
    /\ UNCHANGED <<kept, published>>

\* A save of the application's configuration has yet to take effect.
IsPending(a) == \E n \in 1..MaxSaves : job[<<"config", <<a, n>>>>].pc \in {"look", "replace"}

Restart ==
    /\ restarts < MaxRestarts /\ restarts' = restarts + 1
    /\ job' = [k \in Keys |-> IF k = Boot
                 THEN [NoJob EXCEPT !.op = "boot", !.pc = "next", !.todo = Sorted(Preinstall)]
                 ELSE NoJob]
    /\ lock' = [a \in Apps |-> None]
    /\ crossed' = crossed \cup {a \in Apps : ~Untouched(a)}
    /\ missed' = missed \cup {a \in Apps : Runs(a) /\ IsPending(a)}
    /\ stray' = (stray \/ Sharing # {})
    /\ packs' = file.packs /\ local' = file.local
    /\ Fetched \/ Unreachable(0)
    /\ UNCHANGED <<machine, file, cfg, why, asked>>

\* The last thing the boot pass does is to apply the stored preference.
BootShares(k) ==
    /\ At(k, "next") /\ job[k].op = "boot" /\ job[k].todo = <<>>
    /\ job' = [job EXCEPT ![k] = Share(local)]
    /\ UNCHANGED <<machine, store, manifest, lock, history, bounds>>

Publish ==
    /\ published < MaxPin /\ published' = published + 1
    /\ UNCHANGED <<machine, store, pin, kept, lock, job, history, bounds>>

\* After ten minutes the manifest is asked for again.
Refresh ==
    /\ Fetched \/ Unreachable(pin)
    /\ UNCHANGED <<machine, store, lock, job, history, asked, restarts>>

JobStep(k) ==
    /\ Active(k)
    /\ \/ TakesLock(k) \/ HasLocks(k)
       \/ Looks(k) \/ ItemIsReady(k) \/ ItemBegins(k) \/ Clears(k) \/ Fetches(k) \/ Replaces(k)
       \/ RunsContainer(k) \/ Verifies(k) \/ IsUnhealthy(k) \/ FetchFails(k) \/ RunFails(k)
       \/ RollsBack(k) \/ RecordsPack(k) \/ RecordFails(k)
       \/ LeavesComponent(k) \/ TakesComponent(k) \/ RemovesContainer(k)
       \/ RemovesSidecars(k) \/ RemovesImage(k) \/ RemovalFails(k) \/ ForgetsPack(k)
       \/ BootShares(k) \/ Forwards(k) \/ Serves(k) \/ IsShared(k)

AppRequest ==
    \E a \in Apps : Start(a) \/ Update(a) \/ Reset(a) \/ Uninstall(a) \/ StopByHand(a) \/ RemoveByHand(a)
PackRequest == \E p \in Packs : PackInstall(p) \/ PackUninstall(p)
ConfigRequest == \E a \in Apps : AppConfigSet(a)
SharingRequest ==
    \E on \in BOOLEAN : \/ \E n \in Sharers : LocalNetSet(n, on)
                        \/ \E a \in Apps : LanSet(a, on) \/ TunnelSet(a, on)

Next ==
    \/ AppRequest \/ PackRequest \/ ConfigRequest \/ SharingRequest
    \/ \E k \in Keys : JobStep(k)
    \/ Restart \/ Publish \/ Refresh

\* As long as some goroutine can go on, one does.
Spec == Init /\ [][Next]_vars /\ WF_vars(\E k \in Keys : JobStep(k))

-----------------------------------------------------------------------------
(* Once nothing is under way for an application, it runs if an operation    *)
(* reported that it does and nobody has since stopped, removed or failed to *)
(* replace it: a failing install takes back what it brought along and       *)
(* nothing that was there (app_install_rollback_test.go:94,124), a download *)
(* that fails leaves the version that runs.  And what was removed has left  *)
(* no container, forwarder or tunnel behind, nor its image.                 *)
AppsAreAsAsked ==
    \A a \in Apps \ crossed : Untouched(a) =>
        /\ why[a] = "" => Runs(a)
        /\ why[a] = "stopped" => app[a].state # "none"
        /\ why[a] \in {"uninstalled", "unpacked"} =>
            app[a] = NoApp /\ a \notin lan \cup tunnel /\ ImageFor(a) \notin images
        /\ why[a] = "never" => app[a] = NoApp

\* A pack on record is there in full, whichever packs that share components
\* with it are installed and removed at the same time, unless somebody has
\* taken or failed to replace a component by itself.
PacksAreWhole ==
    \A p \in packs : \A a \in ToSet(InstallOrder(p)) \ crossed :
        Untouched(a) /\ why[a] \in {"", "unpacked"} => Runs(a)

\* An application runs with the configuration saved last, or a save is about to
\* replace it: whatever restarts for other saves, installs, resets and removals
\* cross it, and whichever of them fails (restartApp asks for no lock).  Missed
\* is a save that met a job between its reading of an older configuration and
\* the start of the container, whose lookup failed, or whose daemon was killed.
ConfigIsApplied ==
    \A a \in Apps \ missed : Runs(a) /\ ~IsPending(a) => app[a].cfg = cfg[a]

\* Every job ends: locks are waited for in one order, and failures end a job.
JobsEnd == []<>(\A k \in Keys : ~Active(k))
=============================================================================
