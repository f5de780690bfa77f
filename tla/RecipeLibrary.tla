--------------------------- MODULE RecipeLibrary ---------------------------
(***************************************************************************)
(* The recipe library: the file of recipes (internal/localrecipes), the    *)
(* handlers that create, import, edit, install, roll back and delete       *)
(* recipes, what the library says of a recipe's trust                      *)
(* (internal/api/recipe_trust_view.go), and the two requests that talk to  *)
(* the community service, an installation and a check for revocations      *)
(* (internal/api/community_install.go), each over several steps.           *)
(*                                                                         *)
(* Every call of the store loads the file, changes it and renames it into  *)
(* place under one mutex, so a call is one step.  The operation journal,   *)
(* which RecipeOps models, is here the set of recipes it blocks.           *)
(***************************************************************************)
EXTENDS Integers, FiniteSets, SequencesExt

CONSTANTS
    Revisions,      \* revisions of one community recipe
    Release,        \* revision -> what the service serves for it
    Drafts,         \* drafts a user saves in the editor
    HistoryLimit,   \* earlier revisions a recipe keeps (3 in the code)
    Requests,       \* requests to the community service under way at once
    MaxCalls,       \* calls of the user
    MaxRevocations, \* revocations the service publishes
    MaxFails,       \* saves of the file that fail
    MaxUpgrades,    \* packages of the daemon with a newer reviewed profile
    None

\* The profile is known by the repository it names, and a draft that names a
\* repository runs on the host.
ASSUME ProfileIsOfARepository ==
    \A rev \in Revisions : Release[rev].draft.name = "profile" => Release[rev].draft.host
ASSUME NoneIsNoProvenance ==
    \A rev \in Revisions, known \in BOOLEAN : None # [revision |-> rev, revoked |-> known]
ASSUME HistoryLimitIsNat == HistoryLimit \in Nat

VARIABLES
    library,        \* recipes/index.json, in file order
    tombstones,     \* the journal's tombstones
    work,           \* recipe -> what its operation is doing
    due,            \* recipes whose purge somebody is about to try
    package,        \* the running package: its edition of the reviewed profile,
                    \* and the oldest one it migrates
    feed,           \* the service's revocations
    request,        \* the requests under way
    asked,          \* history: recipes the user has and did not delete
    trail,          \* history: community revisions installed, oldest first
    untouched,      \* history: the import was not edited, nor pinned anew
    seen,           \* history: revisions a check for revocations went over
    late,           \* history: stored after the check that saw their revocation
    crossed,        \* history: recipes stored twice or under deletion
    calls, fails, upgrades

history == <<asked, trail, untouched, seen, late, crossed>>
bounds == <<calls, fails, upgrades>>
vars == <<library, tombstones, work, due, package, feed, request,
          asked, trail, untouched, seen, late, crossed, calls, fails, upgrades>>

Community == "community"
Imported == "imported"
Local == "local"
Ids == {Community, Imported, Local}

-----------------------------------------------------------------------------
(* Drafts and recipes *)

\* What the checks tell apart of a recipe's executable fields.
Draft(name, adapter) ==
    [name |-> name, edition |-> 0, adapter |-> adapter,
     inRange |-> TRUE,      \* every value is within its limits
     pinned |-> TRUE,       \* image and model are named by their digests
     host |-> FALSE,        \* a source repository or commands on the host
     own |-> FALSE,         \* its own command or permissions in the container
     nodes |-> 1,
     fabric |-> FALSE]      \* declares what a container over several Sparks needs

\* The reviewed profile compiled into the package.
Profile(edition) ==
    [Draft("profile", "source-scripts-v1") EXCEPT !.edition = edition,
        !.host = TRUE, !.pinned = FALSE, !.nodes = 2]

IsContainerAdapter(d) == d.adapter \in {"managed-container-v1", "advanced-container-v1"}

\* A container recipe runs nothing outside its pinned container.
ManagedContainer(d) ==
    /\ d.pinned /\ ~d.host
    /\ d.adapter = "managed-container-v1" => d.nodes = 1 /\ ~d.own
    /\ d.adapter = "advanced-container-v1" /\ d.nodes > 1 => d.fabric /\ d.nodes <= 8

\* A recipe of scripts has to say how it starts.
Valid(d) ==
    /\ d.inRange
    /\ IF IsContainerAdapter(d) THEN ManagedContainer(d) ELSE d.host

RecipeFromDraft(id, origin, trust, d) ==
    [id |-> id, origin |-> origin, trust |-> trust, draft |-> d,
     community |-> None, history |-> <<>>, tombstoned |-> FALSE]

\* What the package knows of its profile: a package that pins another revision
\* of the source, or changes a value without a migration, knows none before.
Known == {Profile(e) : e \in package.base..package.edition}

\* Known values are brought up to those of the package, and nothing else.  That
\* some of them are also set in an edited recipe makes no check differ.
Normalize(r) ==
    IF r.draft \in Known THEN [r EXCEPT !.draft = Profile(package.edition)] ELSE r

Loaded == [i \in DOMAIN library |-> Normalize(library[i])]

\* The first recipe of the file with a property; 0 when there is none.
Found(S) == IF S = {} THEN 0 ELSE CHOOSE i \in S : \A j \in S : i <= j
First(id) == Found({i \in DOMAIN library : library[i].id = id})
Shown(id) == {i \in DOMAIN library : library[i].id = id /\ ~library[i].tombstoned}

\* Only the exact profile of this package, imported and never edited.
ReviewedProfile(r) ==
    r.origin = "github" /\ r.trust = "reviewed-import" /\ r.draft = Profile(package.edition)

Revoked(r) == r.community # None /\ r.community.revoked

\* recipeExecutionPolicy
Allowed(r) ==
    /\ ~Revoked(r)
    /\ ReviewedProfile(r) \/ (IsContainerAdapter(r.draft) /\ ManagedContainer(r.draft))

\* The level the library shows for a recipe.
Level(r) ==
    IF Revoked(r) THEN "community-revoked"
    ELSE IF ReviewedProfile(r) THEN "cloudless-reviewed"
    ELSE IF ~Allowed(r) THEN "local-unreviewed"
    ELSE IF r.community # None THEN "community-signed"
    ELSE IF r.draft.adapter = "advanced-container-v1" THEN "local-advanced"
    ELSE "cloudless-constrained"

-----------------------------------------------------------------------------
Init ==
    /\ library = <<>> /\ tombstones = {} /\ due = {}
    /\ work = [id \in Ids |-> "none"]
    /\ package = [edition |-> 1, base |-> 1] /\ feed = <<>>
    /\ request = [q \in Requests |-> None]
    /\ asked = {} /\ trail = <<>> /\ untouched = FALSE
    /\ seen = {} /\ late = {} /\ crossed = {}
    /\ calls = 0 /\ fails = 0 /\ upgrades = 0

Calls == calls < MaxCalls /\ calls' = calls + 1

\* A new file takes the place of the old one, or a full disk leaves the old one.
Saves(recipes) == library' = recipes /\ UNCHANGED fails
SaveFails == fails < MaxFails /\ fails' = fails + 1 /\ UNCHANGED <<library, history>>

\* The journal refuses to change a recipe under deletion or in use.
Blocks(id) == work[id] # "none"
Mutable(id) == id \notin tombstones /\ ~Blocks(id)

Elsewhere == UNCHANGED <<tombstones, work, due, package, feed, request, upgrades>>
-----------------------------------------------------------------------------
(* Requests of the user *)

\* The id is drawn at random: one such recipe stands for all.
Create(d) ==
    /\ Calls /\ Valid(d) /\ First(Local) = 0
    /\ \/ /\ Saves(Append(Loaded, RecipeFromDraft(Local, "local", "local-custom", d)))
          /\ asked' = asked \cup {Local}
          /\ UNCHANGED <<trail, untouched, seen, late, crossed>>
       \/ SaveFails
    /\ Elsewhere

\* Importing the repository again brings the profile back.
WithImport(r) ==
    IF First(r.id) = 0 THEN Append(Loaded, r)
    ELSE [i \in DOMAIN library |-> IF library[i].id = r.id THEN r ELSE Loaded[i]]

Import ==
    /\ Calls /\ Mutable(Imported)
    /\ \/ /\ Saves(WithImport(RecipeFromDraft(Imported, "github", "reviewed-import",
                                              Profile(package.edition))))
          /\ asked' = asked \cup {Imported} /\ untouched' = TRUE
          /\ UNCHANGED <<trail, seen, late, crossed>>
       \/ SaveFails
    /\ Elsewhere

\* An edit keeps the origin only: it has no provenance and no history, and
\* the mark of a deletion is not on it either.
FaultyEdited(i, d) == [Normalize(library[i]) EXCEPT !.draft = d, !.tombstoned = FALSE]
Edited(i, d) ==
    RecipeFromDraft(library[i].id, library[i].origin, "local-custom", d)

FaultyMayUpdate(id) == ~Blocks(id) /\ First(id) # 0
MayUpdate(id) == Mutable(id) /\ First(id) # 0

Update(id, d) ==
    /\ Calls /\ Valid(d) /\ MayUpdate(id)
    /\ \/ /\ Saves([Loaded EXCEPT ![First(id)] = Edited(First(id), d)])
          /\ trail' = IF id = Community THEN <<>> ELSE trail
          /\ untouched' = (untouched /\ id # Imported)
          /\ UNCHANGED <<asked, seen, late, crossed>>
       \/ SaveFails
    /\ Elsewhere

\* The last of the history becomes the recipe, unless it is known revoked.
RolledBack(i) ==
    LET last == Last(library[i].history)
    IN [RecipeFromDraft(library[i].id, "community", "community-signed", last.draft)
           EXCEPT !.community = last.provenance, !.history = Front(library[i].history)]

MayRestore(i) ==
    /\ i # 0 /\ library[i].history # <<>>
    /\ ~Last(library[i].history).provenance.revoked

RollbackCommunity ==
    LET i == Found({j \in DOMAIN library : /\ library[j].id = Community
                                           /\ library[j].community # None})
    IN /\ Calls /\ Mutable(Community) /\ MayRestore(i)
       /\ \/ /\ Saves([Loaded EXCEPT ![i] = RolledBack(i)])
             /\ trail' = Front(trail)
             /\ UNCHANGED <<asked, untouched, seen, late, crossed>>
          \/ SaveFails
       /\ Elsewhere

\* The journal takes the tombstone and the store hides the first recipe with
\* the id; the journal takes its tombstone back when the store cannot save.
Delete(id) ==
    /\ Calls /\ First(id) # 0 /\ work[id] \notin {"active", "stopping"}
    /\ \/ /\ Saves([Loaded EXCEPT ![First(id)].tombstoned = TRUE])
          /\ tombstones' = tombstones \cup {id} /\ due' = due \cup {id}
          /\ asked' = asked \ {id}
          /\ UNCHANGED <<trail, untouched, seen, late, crossed>>
       \/ SaveFails /\ UNCHANGED <<tombstones, due>>
    /\ UNCHANGED <<work, package, feed, request, upgrades>>

-----------------------------------------------------------------------------
(* Deletion and the operations of a recipe *)

\* finalizeRecipeTombstone: by the request, by an operation that failed or was
\* cleaned up, and at the start of the daemon.
Purges(id) == id \in tombstones /\ ~Blocks(id)

\* What is left of the file, in its order, without the recipe.
Without(recipes, id) ==
    LET next[n \in 0..Len(recipes)] ==
            IF n = 0 THEN <<>>
            ELSE IF recipes[n].id = id THEN next[n - 1]
            ELSE Append(next[n - 1], recipes[n])
    IN next[Len(recipes)]

FinalizeTombstone(id) ==
    /\ id \in due /\ due' = due \ {id}
    /\ IF ~Purges(id)
       THEN UNCHANGED <<library, tombstones, fails, history>>
       ELSE \/ /\ Saves(Without(Loaded, id))
               /\ tombstones' = tombstones \ {id}
               /\ trail' = IF id = Community THEN <<>> ELSE trail
               /\ untouched' = (untouched /\ id # Imported)
               /\ crossed' = crossed \ {id}
               /\ UNCHANGED <<asked, seen, late>>
            \/ SaveFails /\ UNCHANGED tombstones
    /\ UNCHANGED <<work, package, feed, request, calls, upgrades>>

\* Get finds one of the recipes the list shows, and the journal admits the
\* operation for what was found.
Admits(id) == id \notin tombstones /\ Shown(id) # {}

Begin(id, kind) ==
    /\ Calls /\ Admits(id)
    /\ \A other \in Ids : ~Blocks(other)
    /\ \E i \in Shown(id) : Allowed(Loaded[i])
    /\ work' = [work EXCEPT ![id] = kind]
    /\ UNCHANGED <<library, tombstones, due, package, feed, request, history, fails, upgrades>>

\* Stop needs the recipe as well: a hidden one it does not find.
Stop(id) ==
    /\ work[id] = "active" /\ Admits(id)
    /\ \A other \in Ids \ {id} : work[other] \in {"none", "stranded"}
    /\ work' = [work EXCEPT ![id] = "stopping"]
    /\ UNCHANGED <<library, tombstones, due, package, feed, request, history, bounds>>

\* Another engine takes over.  What the running recipe is comes from the
\* library; of a hidden one only the selection is dropped.
SwitchAway(id) ==
    /\ work[id] = "active"
    /\ work' = [work EXCEPT ![id] = IF Shown(id) # {} THEN "none" ELSE "stranded"]
    /\ UNCHANGED <<library, tombstones, due, package, feed, request, history, bounds>>

\* A check that is prepared or a stop that is done blocks the recipe no more,
\* and leaves a waiting deletion to somebody else.
OperationSucceeds(id) ==
    /\ work[id] \in {"checking", "starting", "stopping", "closing"}
    /\ work' = [work EXCEPT ![id] =
            CASE work[id] = "starting" -> "active"
              [] work[id] = "stopping" -> "closing"      \* the selection is gone
              [] OTHER -> "none"]
    /\ UNCHANGED <<library, tombstones, due, package, feed, request, history, bounds>>

\* finishRecipeOperation and recoverRecipeOperation
OperationFails(id) ==
    /\ work[id] \in {"checking", "starting", "stopping", "closing", "recovering"}
    /\ work' = [work EXCEPT ![id] = IF work[id] = "stopping" THEN "active" ELSE "none"]
    /\ due' = IF work[id] = "stopping" THEN due ELSE due \cup {id}
    /\ UNCHANGED <<library, tombstones, package, feed, request, history, bounds>>

\* An update of the daemon: requests die with it, operations are recovered.  Its
\* package migrates what the one before it migrates, or pins the profile anew.
Restart ==
    /\ upgrades < MaxUpgrades /\ upgrades' = upgrades + 1
    /\ LET next == package.edition + 1
       IN \/ package' = [package EXCEPT !.edition = next] /\ UNCHANGED untouched
          \/ package' = [edition |-> next, base |-> next] /\ untouched' = FALSE
    /\ request' = [q \in Requests |-> None]
    /\ work' = [id \in Ids |-> IF work[id] \in {"none", "active"} THEN work[id]
                               ELSE "recovering"]
    /\ due' = tombstones
    /\ UNCHANGED <<library, tombstones, feed, asked, trail, seen, late, crossed, calls, fails>>

-----------------------------------------------------------------------------
(* Requests to the community service *)

\* A revocation appears in the service's list, signed with a key the machine
\* knows or with one it does not.
Publish(rev, known) ==
    /\ Len(feed) < MaxRevocations /\ \A i \in DOMAIN feed : feed[i].revision # rev
    /\ LET entry == [revision |-> rev, known |-> known]
       IN feed' \in {Append(feed, entry), <<entry>> \o feed}
    /\ UNCHANGED <<library, tombstones, work, due, package, request, history, bounds>>

Goes(q, next) ==
    /\ request' = [request EXCEPT ![q] = next]
    /\ UNCHANGED <<tombstones, work, due, package, feed, upgrades>>
Only(q, next) == Goes(q, next) /\ UNCHANGED <<library, history, fails>>

\* The digest of the manifest and its signature, by a key of the keyring.
Authentic(rev) == Release[rev].signed
\* A revocation by a key that is still in the keyring.
Verifies(entry) == entry.known

\* A manifest of containers only, of the schema its adapter needs.
Constrained(rev) ==
    LET r == Release[rev]
    IN /\ IsContainerAdapter(r.draft) /\ ManagedContainer(r.draft)
       /\ r.draft.adapter = "advanced-container-v1" => r.schema = "v2"

\* The recipe of the manifest, which has to be one a user could have saved.
Parses(rev) == Valid(Release[rev].draft)

Admissible(rev) == Authentic(rev) /\ Constrained(rev) /\ Parses(rev)

\* communityRecipeInstall gets the release and verifies it ...
RequestInstall(q, rev) ==
    /\ request[q] = None /\ Calls /\ Admissible(rev)
    /\ Only(q, [kind |-> "install", revision |-> rev, step |-> "verified", clean |-> FALSE])

\* ... then reads the revocations; one it cannot verify refuses everything ...
NotRevoked(rev) == \A i \in DOMAIN feed : Verifies(feed[i]) /\ feed[i].revision # rev

ChecksFeed(q) ==
    /\ request[q] # None /\ request[q].step = "verified"
    /\ Only(q, IF NotRevoked(request[q].revision)
               THEN [request[q] EXCEPT !.step = "checked", !.clean = \A i \in DOMAIN feed :
                                    feed[i].revision # request[q].revision] ELSE None)
    /\ UNCHANGED calls

\* ... and stores what it verified.  The recipe of the same origin is replaced
\* and goes to the history; the same revision stays as it is.
FaultyTail3(s) == SubSeq(s, 1, IF Len(s) < HistoryLimit THEN Len(s) ELSE HistoryLimit)
Tail3(s) == SubSeq(s, Len(s) - (IF Len(s) < HistoryLimit THEN Len(s) ELSE HistoryLimit) + 1, Len(s))

Kept(r) == Tail3(Append(r.history, [draft |-> r.draft, provenance |-> r.community]))

Installed(rev) ==
    [RecipeFromDraft(Community, "community", "community-signed", Release[rev].draft)
        EXCEPT !.community = [revision |-> rev, revoked |-> FALSE]]

WithRevision(rev) ==
    LET i == Found({j \in DOMAIN library : library[j].community # None})
    IN IF i = 0 THEN Append(Loaded, Installed(rev))
       ELSE IF library[i].community.revision = rev THEN library
       ELSE [Loaded EXCEPT ![i] = [Installed(rev) EXCEPT !.history = Kept(library[i])]]

\* The user gets what was asked for, unless the recipe is under deletion, or
\* an edit has made the program forget that the recipe is the same.
Unclean == \/ Community \in tombstones
           \/ \E i \in DOMAIN library : library[i].id = Community /\ library[i].community = None

InstallCommunity(q) ==
    /\ request[q] # None /\ request[q].step = "checked"
    /\ LET rev == request[q].revision IN
       \/ /\ Goes(q, None) /\ Saves(WithRevision(rev))
          /\ asked' = IF Community \in tombstones THEN asked ELSE asked \cup {Community}
          /\ crossed' = IF Unclean THEN crossed \cup {Community} ELSE crossed
          /\ trail' = IF trail # <<>> /\ Last(trail) = rev THEN trail ELSE Append(trail, rev)
          /\ late' = IF rev \in seen /\ request[q].clean THEN late \cup {rev} ELSE late
          /\ UNCHANGED <<untouched, seen>>
       \/ WithRevision(rev) # library /\ Goes(q, None) /\ SaveFails
    /\ UNCHANGED calls

\* syncCommunityRevocations, when the user checks for updates
CheckRevocations(q) ==
    /\ request[q] = None /\ feed # <<>> /\ Calls
    /\ Only(q, [kind |-> "sync", feed |-> feed, step |-> "marking"])

\* The recipe and every earlier revision it could go back to.
FaultyMarked(r, rev) ==
    IF r.community # None /\ r.community.revision = rev
    THEN [r EXCEPT !.trust = "community-revoked", !.community.revoked = TRUE] ELSE r
Marked(r, rev) ==
    [r EXCEPT
        !.trust = IF r.community # None /\ r.community.revision = rev
                  THEN "community-revoked" ELSE @,
        !.community = IF @ # None /\ @.revision = rev THEN [@ EXCEPT !.revoked = TRUE] ELSE @,
        !.history = [k \in DOMAIN @ |-> IF @[k].provenance.revision = rev
                        THEN [@[k] EXCEPT !.provenance.revoked = TRUE] ELSE @[k]]]

Carries(r, rev) ==
    \/ r.community # None /\ r.community.revision = rev
    \/ \E k \in DOMAIN r.history : r.history[k].provenance.revision = rev

\* One revocation after the other; the first one that cannot be verified, or
\* cannot be saved, ends it.  Nothing is saved for a revision nobody has.
MarkCommunityRevoked(q) ==
    /\ request[q] # None /\ request[q].step = "marking"
    /\ LET rest == request[q].feed
           rev == Head(rest).revision
           found == \E i \in DOMAIN library : Carries(library[i], rev)
       IN IF ~Verifies(Head(rest)) THEN Only(q, None)
          ELSE \/ /\ Goes(q, IF Len(rest) = 1 THEN None
                             ELSE [request[q] EXCEPT !.feed = Tail(rest)])
                  /\ Saves(IF found THEN [i \in DOMAIN library |-> Marked(Loaded[i], rev)]
                           ELSE library)
                  /\ seen' = seen \cup {rev} /\ late' = late \ {rev}
                  /\ UNCHANGED <<asked, trail, untouched, crossed>>
               \/ found /\ Goes(q, None) /\ SaveFails
    /\ UNCHANGED calls

\* The service, or the browser that asks, goes away.
Drops(q) == request[q] # None /\ Only(q, None) /\ UNCHANGED calls

-----------------------------------------------------------------------------
Next ==
    \/ \E d \in Drafts : Create(d) \/ \E id \in Ids : Update(id, d)
    \/ Import \/ RollbackCommunity \/ Restart
    \/ \E id \in Ids :
        \/ Delete(id) \/ FinalizeTombstone(id)
        \/ Begin(id, "checking") \/ Begin(id, "starting") \/ Stop(id) \/ SwitchAway(id)
        \/ OperationSucceeds(id) \/ OperationFails(id)
    \/ \E rev \in Revisions, known \in BOOLEAN : Publish(rev, known)
    \/ \E q \in Requests :
        \/ \E rev \in Revisions : RequestInstall(q, rev)
        \/ ChecksFeed(q) \/ InstallCommunity(q)
        \/ CheckRevocations(q) \/ MarkCommunityRevoked(q) \/ Drops(q)

Spec == Init /\ [][Next]_vars

\* Operations end, and a purge that somebody is to try is tried.
Fairness ==
    \A id \in Ids :
        /\ WF_vars(FinalizeTombstone(id))
        /\ WF_vars(OperationSucceeds(id) \/ OperationFails(id))

-----------------------------------------------------------------------------
(* Properties *)

\* A revision whose revocation a check went over is not run from what carries
\* its provenance, whether it was installed then, came back from the history
\* since, or is installed again; only a store that was already under way waits
\* for the next check.  recipeExecutionPolicy, MarkCommunityRevoked.
RevocationHolds ==
    \A i \in DOMAIN library :
        LET r == Loaded[i]
        IN r.community # None /\ r.community.revision \in seen \ late => ~Allowed(r)

\* "CommunityProvenance binds a local installation to the exact immutable
\* community revision that was verified": the recipe is the revision installed
\* last, and going back leads through the ones installed before, newest first,
\* as far as three of them are kept.
RollbackIsTheLastInstalled ==
    Community \notin crossed =>
        \A i \in DOMAIN library : library[i].community # None =>
            LET r == library[i]
                kept == r.history \o <<[draft |-> r.draft, provenance |-> r.community]>>
            IN /\ Len(kept) <= Len(trail)
               /\ \A k \in DOMAIN kept :
                    LET rev == trail[Len(trail) - Len(kept) + k]
                    IN kept[k].provenance.revision = rev /\ kept[k].draft = Release[rev].draft

\* What the user created, imported or installed and did not delete is there,
\* once, and what was deleted is not: whatever edits, imports, rollbacks,
\* purges and restarts come between.  Store, journal tombstones.
LibraryIsAsAsked ==
    \A id \in Ids \ crossed : Cardinality(Shown(id)) = (IF id \in asked THEN 1 ELSE 0)

\* A recipe is shown as reviewed as long as it is the import nobody edited, until
\* a package pins another profile: then not again before it is imported anew.
\* And as signed only while it is exactly what the community signed: whatever
\* edits to the very same values, purges, rollbacks and failed saves come
\* between.  buildRecipeTrustView, normalize, Update.
LabelsAreEarned ==
    \A i \in DOMAIN library :
        LET r == Loaded[i]
        IN /\ Level(r) = "cloudless-reviewed" <=> r.id = Imported /\ untouched
           /\ Level(r) = "community-signed" =>
                /\ \E rev \in Revisions : r.draft = Release[rev].draft /\ Admissible(rev)
                /\ r.id \notin crossed => r.draft = Release[Last(trail)].draft

\* "Tombstones survive restart and are finalized automatically when cleanup
\* completes" (docs/RECIPE_RELIABILITY_ROADMAP.md:257).
DeletionEnds ==
    \A id \in Ids : id \in tombstones ~> id \notin tombstones \/ fails > 0
=============================================================================
