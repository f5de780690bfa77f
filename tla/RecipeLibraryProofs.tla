------------------------ MODULE RecipeLibraryProofs ------------------------
(***************************************************************************)
(* Proofs about RecipeLibrary: what was revoked is not run, a rollback is  *)
(* what was installed before, the library holds what was asked for, and    *)
(* the trust it shows is earned.                                           *)
(*                                                                         *)
(* Three things are kept.  Of every recipe on file: where its content      *)
(* comes from (OnRecord).  Of the file: which recipes it has, and each     *)
(* once (Placed).  Of the community recipe: that it and its history are    *)
(* the end of what was installed (Traced).  A call of the store replaces   *)
(* one recipe, adds one, rewrites all or drops some, and each of the three *)
(* is kept by each of these.                                               *)
(***************************************************************************)
EXTENDS RecipeLibrary, SequenceTheorems, FiniteSetTheorems, WellFoundedInduction, TLAPS

-----------------------------------------------------------------------------
(* The types *)

AllDrafts ==
    Drafts \cup {Release[rev].draft : rev \in Revisions} \cup {Profile(e) : e \in Nat}
Provenances == [revision : Revisions, revoked : BOOLEAN]
Entries == [draft : AllDrafts, provenance : Provenances]
Recipes ==
    [id : Ids, origin : {"local", "github", "community"},
     trust : {"local-custom", "reviewed-import", "community-signed", "community-revoked"},
     draft : AllDrafts, community : Provenances \cup {None}, history : Seq(Entries),
     tombstoned : BOOLEAN]

Revocations == [revision : Revisions, known : BOOLEAN]
Installs ==
    [kind : {"install"}, revision : Revisions, step : {"verified", "checked"}, clean : BOOLEAN]
Syncs == [kind : {"sync"}, feed : Seq(Revocations), step : {"marking"}]

\* A package migrates some of the editions up to its own.
Packages == {p \in [edition : Nat, base : Nat] : p.base <= p.edition}

LibraryTypes ==
    /\ library \in Seq(Recipes)
    /\ tombstones \subseteq Ids /\ due \subseteq Ids
    /\ work \in [Ids -> {"none", "checking", "starting", "active", "stopping", "closing",
                         "stranded", "recovering"}]
    /\ package \in Packages /\ feed \in Seq(Revocations)
    /\ request \in [Requests -> Installs \cup Syncs \cup {None}]
    /\ asked \subseteq Ids /\ trail \in Seq(Revisions) /\ untouched \in BOOLEAN
    /\ seen \subseteq Revisions /\ late \subseteq Revisions /\ crossed \subseteq {Community}
    /\ calls \in Nat /\ fails \in Nat /\ upgrades \in Nat

-----------------------------------------------------------------------------
(* The invariant *)

\* A draft is what the service released under its provenance, and the
\* provenance says so if the revision was marked.
Vouched(draft, provenance, marked) ==
    /\ Admissible(provenance.revision)
    /\ draft = Release[provenance.revision].draft
    /\ provenance.revision \in marked => provenance.revoked

\* With the mark of a reviewed import there is the import as it came, in an
\* edition the package knows if no package has pinned the profile anew since.
AsImported(r, pristine, edition) ==
    /\ r.id = Imported /\ r.origin = "github" /\ r.community = None
    /\ \E e \in Nat : /\ e <= edition.edition /\ r.draft = Profile(e)
                     /\ IF pristine THEN edition.base <= e ELSE e < edition.base

\* Of every recipe on file, given the revisions that were marked, whether the
\* import is as it came, and the package.
OnRecord(r, marked, pristine, edition) ==
    /\ r.community # None => r.id = Community /\ Vouched(r.draft, r.community, marked)
    /\ \A k \in 1..Len(r.history) :
        Vouched(r.history[k].draft, r.history[k].provenance, marked)
    /\ r.trust = "reviewed-import" => AsImported(r, pristine, edition)
    /\ r.id = Imported /\ pristine => r.trust = "reviewed-import"

There(recipes, id) == \E i \in 1..Len(recipes) : recipes[i].id = id
Alone(recipes, id) ==
    \A i, j \in 1..Len(recipes) : recipes[i].id = id /\ recipes[j].id = id => i = j

\* Of the file and one id: it is there when it was asked for or is to be
\* deleted, and once, with the mark of the deletion it is under.
Placed(recipes, id, wanted, dead, loose) ==
    /\ There(recipes, id) <=> id \in wanted \cup dead
    /\ ~(id \in wanted /\ id \in dead)
    /\ id \notin loose =>
        /\ Alone(recipes, id)
        /\ \A i \in 1..Len(recipes) :
            recipes[i].id = id => (recipes[i].tombstoned <=> id \in dead)

\* Of a community recipe: it and its history are the last of the trail.
Traced(r, path) ==
    /\ Len(r.history) < Len(path)
    /\ path[Len(path)] = r.community.revision
    /\ \A k \in 1..Len(r.history) :
        r.history[k].provenance.revision = path[Len(path) - Len(r.history) - 1 + k]



\* Of a file: its recipes and what is on record of them.
Filed(recipes, marked, pristine, edition) ==
    /\ recipes \in Seq(Recipes)
    /\ \A i \in 1..Len(recipes) : OnRecord(recipes[i], marked, pristine, edition)

AllPlaced(recipes, wanted, dead, loose) ==
    \A id \in Ids : Placed(recipes, id, wanted, dead, loose)

AllTraced(recipes, path, loose) ==
    Community \notin loose =>
        \A i \in 1..Len(recipes) : recipes[i].community # None => Traced(recipes[i], path)

FileInv ==
    /\ Filed(library, seen \ late, untouched, package)
    /\ AllPlaced(library, asked, tombstones, crossed)
    /\ AllTraced(library, trail, crossed)

\* A request goes on with a release it verified and a clean list, or has
\* revocations left to mark.
RequestsKept ==
    \A q \in Requests : request[q] # None =>
        /\ request[q].step \in {"verified", "checked"} => Admissible(request[q].revision)
        /\ request[q].step = "checked" => request[q].clean
        /\ request[q].step = "marking" => request[q].feed # <<>>

Inv == LibraryTypes /\ FileInv /\ RequestsKept

-----------------------------------------------------------------------------
(* Numbers, and what is left of a file *)

\* A set of numbers that is not empty has a least one.
LEMMA LeastNat ==
    ASSUME NEW T \in SUBSET Nat, T # {}
    PROVE  \E x \in T : \A y \in T : x <= y
<1> DEFINE less == OpToRel(<, Nat)
<1>1. IsWellFoundedOn(less, Nat)
  BY NatLessThanWellFounded
<1>2. \A x, y \in Nat : x < y => <<x, y>> \in less
  BY DEF OpToRel
<1> HIDE DEF less
<1>3. PICK x \in T : \A y \in T : ~ (<<y, x>> \in less)
  BY <1>1, WFMin
<1>4. \A y \in T : ~ (y < x)
  BY <1>2, <1>3
<1> QED
  BY <1>4

\* A set with 0 and the successor of each of its numbers has them all.
LEMMA EveryNat ==
    ASSUME NEW S, 0 \in S, \A n \in Nat : n \in S => n + 1 \in S
    PROVE  \A n \in Nat : n \in S
<1> DEFINE T == {n \in Nat : n \notin S}
<1>1. SUFFICES ASSUME T # {} PROVE FALSE
  OBVIOUS
<1>2. PICK x \in T : \A y \in T : x <= y
  BY <1>1, LeastNat
<1>3. x # 0 /\ x - 1 \in Nat /\ x - 1 \notin T
  BY <1>2
<1> QED
  BY <1>3

\* The first recipe found is one of those looked for.
LEMMA FoundIs ==
    ASSUME NEW S \in SUBSET (Nat \ {0})
    PROVE  (Found(S) = 0 <=> S = {}) /\ (S # {} => Found(S) \in S)
<1>1. CASE S = {}
  BY <1>1 DEF Found
<1>2. CASE S # {}
  <2>1. \E i \in S : \A j \in S : i <= j
    BY <1>2, LeastNat
  <2>2. Found(S) \in S
    BY <1>2, <2>1 DEF Found
  <2> QED
    BY <1>2, <2>2
<1> QED
  BY <1>1, <1>2

\* What a purge has kept of the first n recipes.
Passed(recipes, id, n, next) ==
    IF n = 0 THEN <<>>
    ELSE IF recipes[n].id = id THEN next[n - 1]
    ELSE Append(next[n - 1], recipes[n])

\* The recursion of a purge has a solution, which is what it computes.
LEMMA PurgeIsDefined ==
    ASSUME NEW recipes, Len(recipes) \in Nat, NEW id
    PROVE  \E next : /\ next = [n \in 0..Len(recipes) |-> Passed(recipes, id, n, next)]
                     /\ Without(recipes, id) = next[Len(recipes)]
<1> DEFINE Solves(g, n) == g = [k \in 0..n |-> Passed(recipes, id, k, g)]
           S == {n \in Nat : \E g : Solves(g, n)}
<1>1. 0 \in S
  <2>1. Solves([k \in 0..0 |-> <<>>], 0)
    BY DEF Passed
  <2> QED
    BY <2>1
<1>2. ASSUME NEW n \in Nat, n \in S PROVE n + 1 \in S
  <2>1. PICK g : Solves(g, n)
    BY <1>2
  <2> DEFINE h == [k \in 0..(n + 1) |-> IF k <= n THEN g[k] ELSE Passed(recipes, id, n + 1, g)]
  <2>2. \A k \in 0..n : h[k] = g[k]
    OBVIOUS
  <2>3. \A k \in 0..n : h[k] = Passed(recipes, id, k, h)
    <3> TAKE k \in 0..n
    <3>1. h[k] = Passed(recipes, id, k, g)
      BY <2>1, <2>2
    <3>2. k # 0 => k - 1 \in 0..n
      OBVIOUS
    <3> QED
      BY <2>2, <3>1, <3>2 DEF Passed
  <2>4. h[n + 1] = Passed(recipes, id, n + 1, h)
    <3>1. h[n + 1] = Passed(recipes, id, n + 1, g)
      OBVIOUS
    <3> HIDE DEF h
    <3>2. h[(n + 1) - 1] = g[(n + 1) - 1]
      BY <2>2
    <3> QED
      BY <3>1, <3>2 DEF Passed
  <2>5. h = [k \in 0..(n + 1) |-> Passed(recipes, id, k, h)]
    <3>1. \A k \in 0..(n + 1) : k \in 0..n \/ k = n + 1
      OBVIOUS
    <3>2. \A k \in 0..(n + 1) : h[k] = Passed(recipes, id, k, h)
      BY <2>3, <2>4, <3>1
    <3>3. h = [k \in 0..(n + 1) |-> h[k]]
      OBVIOUS
    <3> HIDE DEF h
    <3> QED
      BY <3>2, <3>3
  <2>6. Solves(h, n + 1)
    BY <2>5
  <2> HIDE DEF Solves, h
  <2> QED
    BY <2>6
<1>3. \E g : Solves(g, Len(recipes))
  <2> HIDE DEF Solves
  <2>1. \A n \in Nat : n \in S
    BY <1>1, <1>2, EveryNat
  <2> QED
    BY <2>1
<1> DEFINE next == CHOOSE g : Solves(g, Len(recipes))
<1>4. Solves(next, Len(recipes))
  <2> HIDE DEF Solves
  <2> QED
    BY <1>3
<1>5. Without(recipes, id) = next[Len(recipes)]
  BY DEF Without, Passed
<1> QED
  BY <1>4, <1>5

\* A part of a file in its order: the recipes of the file at some places,
\* namely of those before n that have another id.
Selects(at, part, recipes, id, n) ==
    /\ at \in [1..Len(part) -> 1..n]
    /\ \A j \in 1..Len(part) : part[j] = recipes[at[j]] /\ recipes[at[j]].id # id
    /\ \A j, k \in 1..Len(part) : j < k => at[j] < at[k]
    /\ \A i \in 1..n : recipes[i].id # id => \E j \in 1..Len(part) : at[j] = i

\* A purge leaves the recipes of every other id, each once and in their order.
LEMMA WithoutIs ==
    ASSUME NEW R, NEW recipes \in Seq(R), NEW id
    PROVE  /\ Without(recipes, id) \in Seq(R)
           /\ \E at : Selects(at, Without(recipes, id), recipes, id, Len(recipes))
<1>1. Len(recipes) \in Nat
  BY LenProperties
<1>2. PICK next : /\ next = [n \in 0..Len(recipes) |-> Passed(recipes, id, n, next)]
                  /\ Without(recipes, id) = next[Len(recipes)]
  BY <1>1, PurgeIsDefined
<1>3. next[0] = <<>>
  BY <1>1, <1>2 DEF Passed
<1>4. \A n \in Nat : n + 1 <= Len(recipes) =>
        next[n + 1] = IF recipes[n + 1].id = id THEN next[n]
                      ELSE Append(next[n], recipes[n + 1])
  <2> TAKE n \in Nat
  <2> HAVE n + 1 <= Len(recipes)
  <2>1. n + 1 \in 0..Len(recipes) /\ n + 1 # 0 /\ (n + 1) - 1 = n
    BY <1>1
  <2>2. next[n + 1] = Passed(recipes, id, n + 1, next)
    BY <1>2, <2>1
  <2> QED
    BY <2>1, <2>2 DEF Passed
<1> DEFINE S == {n \in Nat : n <= Len(recipes) =>
                    /\ next[n] \in Seq(R)
                    /\ \E at : Selects(at, next[n], recipes, id, n)}
<1>5. 0 \in S
  <2>1. next[0] \in Seq(R) /\ Len(next[0]) = 0
    BY <1>3
  <2>2. Selects(<<>>, next[0], recipes, id, 0)
    <3>1. 1..Len(next[0]) = {} /\ 1..0 = {}
      BY <2>1
    <3>2. <<>> \in [1..Len(next[0]) -> 1..0]
      BY <3>1
    <3> QED
      BY <3>1, <3>2 DEF Selects
  <2> QED
    BY <2>1, <2>2
<1>6. ASSUME NEW n \in Nat, n \in S PROVE n + 1 \in S
  <2> SUFFICES ASSUME n + 1 <= Len(recipes)
               PROVE  /\ next[n + 1] \in Seq(R)
                      /\ \E at : Selects(at, next[n + 1], recipes, id, n + 1)
    OBVIOUS
  <2>1. next[n] \in Seq(R) /\ \E at : Selects(at, next[n], recipes, id, n)
    BY <1>1, <1>6
  <2>2. PICK at : Selects(at, next[n], recipes, id, n)
    BY <2>1
  <2>3. recipes[n + 1] \in R
    <3>1. n + 1 \in 1..Len(recipes)
      BY <1>1
    <3> QED
      BY <3>1, ElementOfSeq
  <2>4. CASE recipes[n + 1].id = id
    <3>1. next[n + 1] = next[n]
      BY <1>4, <2>4
    <3>2. Selects(at, next[n], recipes, id, n + 1)
      <4>1. \A i \in 1..(n + 1) : i \in 1..n \/ i = n + 1
        OBVIOUS
      <4> QED
        BY <2>2, <2>4, <4>1 DEF Selects
    <3> QED
      BY <2>1, <3>1, <3>2
  <2>5. CASE recipes[n + 1].id # id
    <3> DEFINE old == next[n]
               part == Append(old, recipes[n + 1])
               more == [j \in 1..(Len(old) + 1) |-> IF j <= Len(old) THEN at[j] ELSE n + 1]
    <3>1. next[n + 1] = part
      BY <1>4, <2>5
    <3>2. /\ part \in Seq(R) /\ Len(part) = Len(old) + 1 /\ Len(old) \in Nat
          /\ \A j \in 1..Len(old) : part[j] = old[j]
          /\ part[Len(old) + 1] = recipes[n + 1]
      BY <2>1, <2>3, AppendProperties, LenProperties
    <3>3. /\ at \in [1..Len(old) -> 1..n]
          /\ \A j \in 1..Len(old) : old[j] = recipes[at[j]] /\ recipes[at[j]].id # id
          /\ \A j, k \in 1..Len(old) : j < k => at[j] < at[k]
          /\ \A i \in 1..n : recipes[i].id # id => \E j \in 1..Len(old) : at[j] = i
      BY <2>2 DEF Selects
    <3>4. /\ \A j \in 1..Len(old) : more[j] = at[j]
          /\ more[Len(old) + 1] = n + 1
      BY <3>2
    <3>5. more \in [1..(Len(old) + 1) -> 1..(n + 1)]
      BY <3>2, <3>3
    <3> HIDE DEF more, part, old
    <3>6. \A j \in 1..(Len(old) + 1) : j \in 1..Len(old) \/ j = Len(old) + 1
      BY <3>2
    <3>7. \A j \in 1..Len(part) : part[j] = recipes[more[j]] /\ recipes[more[j]].id # id
      BY <2>5, <3>2, <3>3, <3>4, <3>6
    <3>8. \A j, k \in 1..Len(part) : j < k => more[j] < more[k]
      <4> TAKE j, k \in 1..Len(part)
      <4> HAVE j < k
      <4>1. j \in 1..Len(old)
        BY <3>2
      <4>2. more[j] = at[j] /\ at[j] \in 1..n
        BY <3>3, <3>4, <4>1
      <4>3. CASE k = Len(old) + 1
        BY <3>4, <4>2, <4>3
      <4>4. CASE k \in 1..Len(old)
        BY <3>3, <3>4, <4>1, <4>4
      <4> QED
        BY <3>2, <3>6, <4>3, <4>4
    <3>9. \A i \in 1..(n + 1) : recipes[i].id # id => \E j \in 1..Len(part) : more[j] = i
      <4> TAKE i \in 1..(n + 1)
      <4> HAVE recipes[i].id # id
      <4>1. CASE i = n + 1
        BY <3>2, <3>4, <4>1
      <4>2. CASE i \in 1..n
        <5>1. PICK j \in 1..Len(old) : at[j] = i
          BY <3>3, <4>2
        <5>2. j \in 1..Len(part)
          BY <3>2
        <5> QED
          BY <3>4, <5>1, <5>2
      <4> QED
        BY <4>1, <4>2
    <3>10. Selects(more, part, recipes, id, n + 1)
      BY <3>2, <3>5, <3>7, <3>8, <3>9 DEF Selects
    <3> QED
      BY <3>1, <3>2, <3>10
  <2> QED
    BY <2>4, <2>5
<1>7. Len(recipes) \in S
  BY <1>1, <1>5, <1>6, EveryNat
<1> QED
  BY <1>1, <1>2, <1>7

-----------------------------------------------------------------------------
(* Recipes and files *)

\* The reviewed profile has the name it is known by and runs on the host.
LEMMA ProfileFacts ==
    ASSUME NEW e \in Nat
    PROVE  /\ Profile(e).name = "profile" /\ Profile(e).edition = e /\ Profile(e).host
           /\ Profile(e) \in AllDrafts
BY DEF Profile, Draft, AllDrafts

\* What the community signed is not the profile of a package.
LEMMA VouchedIsNoProfile ==
    ASSUME NEW draft, NEW provenance \in Provenances, NEW marked,
           Vouched(draft, provenance, marked)
    PROVE  draft.name # "profile"
BY ProfileIsOfARepository
   DEF Vouched, Admissible, Constrained, ManagedContainer, Provenances

\* What a package knows is the profile of one of the editions it migrates.
LEMMA KnownIs ==
    ASSUME package \in Packages
    PROVE  /\ package.edition \in Nat /\ package.base \in Nat
           /\ package.base <= package.edition
           /\ \A e \in Nat : Profile(e) \in Known <=> package.base <= e /\ e <= package.edition
           /\ \A d \in Known : d.name = "profile"
<1>1. /\ package.edition \in Nat /\ package.base \in Nat /\ package.base <= package.edition
  BY DEF Packages
<1>2. \A e \in Nat : Profile(e) \in Known <=> package.base <= e /\ e <= package.edition
  <2> TAKE e \in Nat
  <2>1. ASSUME Profile(e) \in Known PROVE package.base <= e /\ e <= package.edition
    <3>1. PICK f \in package.base..package.edition : Profile(e) = Profile(f)
      BY <2>1 DEF Known
    <3>2. f \in Nat /\ e = f
      BY <1>1, <3>1, ProfileFacts
    <3> QED
      BY <1>1, <3>1, <3>2
  <2>2. ASSUME package.base <= e, e <= package.edition PROVE Profile(e) \in Known
    <3>1. e \in package.base..package.edition
      BY <1>1, <2>2
    <3> QED
      BY <3>1 DEF Known
  <2> QED
    BY <2>1, <2>2
<1>3. \A d \in Known : d.name = "profile"
  <2> TAKE d \in Known
  <2>1. PICK f \in package.base..package.edition : d = Profile(f)
    BY DEF Known
  <2>2. f \in Nat
    BY <1>1, <2>1
  <2> QED
    BY <2>1, <2>2, ProfileFacts
<1> QED
  BY <1>1, <1>2, <1>3

\* Loading a recipe may change the draft of a profile, and nothing else of it.
LEMMA NormalizeIs ==
    ASSUME NEW r \in Recipes, package \in Packages
    PROVE  /\ Normalize(r) \in Recipes
           /\ Normalize(r) = [r EXCEPT !.draft = Normalize(r).draft]
           /\ Normalize(r).draft = IF r.draft \in Known THEN Profile(package.edition)
                                   ELSE r.draft
<1>1. Profile(package.edition) \in AllDrafts
  BY KnownIs, ProfileFacts
<1> QED
  BY <1>1 DEF Normalize, Recipes

\* The fields loading keeps.
LEMMA NormalizeKeeps ==
    ASSUME NEW r \in Recipes, package \in Packages
    PROVE  /\ Normalize(r).id = r.id /\ Normalize(r).community = r.community
           /\ Normalize(r).history = r.history /\ Normalize(r).tombstoned = r.tombstoned
           /\ Normalize(r).origin = r.origin /\ Normalize(r).trust = r.trust
BY DEF Normalize, Recipes

\* An import as it came is, loaded, the profile of the package if it knows it;
\* else it stays what it was.
LEMMA NormalizeAsImported ==
    ASSUME NEW r \in Recipes, package \in Packages, NEW pristine \in BOOLEAN,
           AsImported(r, pristine, package)
    PROVE  /\ AsImported(Normalize(r), pristine, package)
           /\ Normalize(r).draft = Profile(package.edition) <=> pristine
<1> DEFINE n == Normalize(r)
<1>1. /\ n.id = r.id /\ n.community = r.community /\ n.origin = r.origin
      /\ n.draft = IF r.draft \in Known THEN Profile(package.edition) ELSE r.draft
  BY NormalizeKeeps, NormalizeIs
<1> HIDE DEF n
<1>2. PICK e \in Nat : /\ e <= package.edition /\ r.draft = Profile(e)
                       /\ IF pristine THEN package.base <= e ELSE e < package.base
  BY DEF AsImported
<1>3. /\ package.edition \in Nat /\ package.base \in Nat /\ package.base <= package.edition
      /\ r.draft \in Known <=> package.base <= e
  BY <1>2, KnownIs
<1>4. CASE pristine
  <2>1. n.draft = Profile(package.edition)
    BY <1>1, <1>2, <1>3, <1>4
  <2>2. AsImported(n, pristine, package)
    BY <1>1, <1>3, <1>4, <2>1 DEF AsImported
  <2> QED
    BY <1>4, <2>1, <2>2 DEF n
<1>5. CASE ~pristine
  <2>1. n.draft = r.draft /\ e # package.edition
    BY <1>1, <1>2, <1>3, <1>5
  <2>2. n.draft # Profile(package.edition)
    BY <1>2, <1>3, <2>1, ProfileFacts
  <2>3. AsImported(n, pristine, package)
    BY <1>1, <2>1 DEF AsImported
  <2> QED
    BY <1>5, <2>2, <2>3 DEF n
<1> QED
  BY <1>4, <1>5

\* What is on record of a recipe is on record of it once it is loaded.
LEMMA LoadedIsOnRecord ==
    ASSUME NEW r \in Recipes, package \in Packages, NEW marked, NEW pristine \in BOOLEAN,
           OnRecord(r, marked, pristine, package)
    PROVE  OnRecord(Normalize(r), marked, pristine, package)
<1> DEFINE n == Normalize(r)
<1>1. /\ n.id = r.id /\ n.community = r.community /\ n.history = r.history
      /\ n.origin = r.origin /\ n.trust = r.trust
  BY NormalizeKeeps
<1>2. n.draft = IF r.draft \in Known THEN Profile(package.edition) ELSE r.draft
  BY NormalizeIs
<1>3. r.community # None => r.community \in Provenances
  BY DEF Recipes
<1>4. r.community # None => n.draft = r.draft
  <2>1. r.community # None => r.draft.name # "profile"
    BY <1>3, VouchedIsNoProfile DEF OnRecord
  <2> QED
    BY <1>2, <2>1, KnownIs
<1>5. n.trust = "reviewed-import" => AsImported(n, pristine, package)
  BY <1>1, NormalizeAsImported DEF OnRecord
<1>6. OnRecord(n, marked, pristine, package)
  <2> HIDE DEF n
  <2>1. n.community # None => n.id = Community /\ Vouched(n.draft, n.community, marked)
    BY <1>1, <1>4 DEF OnRecord
  <2>2. \A k \in 1..Len(n.history) :
          Vouched(n.history[k].draft, n.history[k].provenance, marked)
    BY <1>1 DEF OnRecord
  <2> QED
    BY <1>1, <1>5, <2>1, <2>2 DEF OnRecord
<1> QED
  BY <1>6

\* A loaded file is the file with each of its recipes loaded.
LEMMA LoadedIs ==
    ASSUME LibraryTypes
    PROVE  /\ Loaded \in Seq(Recipes) /\ Len(Loaded) = Len(library)
           /\ Len(library) \in Nat /\ DOMAIN library = 1..Len(library)
           /\ \A i \in 1..Len(library) :
                library[i] \in Recipes /\ Loaded[i] = Normalize(library[i])
<1>1. /\ Len(library) \in Nat /\ DOMAIN library = 1..Len(library)
      /\ \A i \in 1..Len(library) : library[i] \in Recipes
  BY LenProperties, ElementOfSeq DEF LibraryTypes
<1>2. \A i \in 1..Len(library) : Normalize(library[i]) \in Recipes
  BY <1>1, NormalizeIs DEF LibraryTypes
<1>3. Loaded = [i \in 1..Len(library) |-> Normalize(library[i])]
  BY <1>1 DEF Loaded
<1>4. Loaded \in [1..Len(library) -> Recipes]
  BY <1>2, <1>3
<1>5. Loaded \in Seq(Recipes) /\ Len(Loaded) = Len(library)
  BY <1>1, <1>4
<1> QED
  BY <1>1, <1>3, <1>5

\* What is on record holds for fewer marks, and of any recipe but the import
\* whatever happens to the import.
LEMMA RecordRelaxes ==
    ASSUME NEW r, NEW marked, NEW pristine, NEW edition,
           NEW fewer, fewer \subseteq marked, NEW other, other = pristine \/ r.id # Imported,
           OnRecord(r, marked, pristine, edition)
    PROVE  OnRecord(r, fewer, other, edition)
<1>1. r.community # None => r.id = Community /\ Vouched(r.draft, r.community, fewer)
  BY DEF OnRecord, Vouched
<1>2. \A k \in 1..Len(r.history) :
        Vouched(r.history[k].draft, r.history[k].provenance, fewer)
  BY DEF OnRecord, Vouched
<1>3. CASE other = pristine
  BY <1>1, <1>2, <1>3 DEF OnRecord
<1>4. CASE r.id # Imported
  <2>1. r.trust # "reviewed-import"
    BY <1>4 DEF OnRecord, AsImported
  <2> QED
    BY <1>1, <1>2, <1>4, <2>1 DEF OnRecord
<1> QED
  BY <1>3, <1>4

\* A file in which every recipe has the id it had before.
SameIds(new, old) ==
    /\ new \in Seq(Recipes) /\ old \in Seq(Recipes) /\ Len(new) = Len(old)
    /\ \A i \in 1..Len(old) : new[i].id = old[i].id

\* It has the same recipes, and each as often.
LEMMA SameIdsSamePlaces ==
    ASSUME NEW new, NEW old, SameIds(new, old), NEW id
    PROVE  (There(new, id) <=> There(old, id)) /\ (Alone(new, id) <=> Alone(old, id))
BY DEF SameIds, There, Alone

\* A file is in place when its ids are and its marks of deletion are right.
LEMMA PlacedBySameIds ==
    ASSUME NEW new, NEW old, SameIds(new, old),
           NEW wanted, NEW dead, NEW loose,
           AllPlaced(old, wanted, dead, loose),
           \A i \in 1..Len(old) :
                new[i].id \notin loose => (new[i].tombstoned <=> new[i].id \in dead)
    PROVE  AllPlaced(new, wanted, dead, loose)
<1> SUFFICES ASSUME NEW id \in Ids PROVE Placed(new, id, wanted, dead, loose)
  BY DEF AllPlaced
<1>1. Placed(old, id, wanted, dead, loose)
  BY DEF AllPlaced
<1>2. Len(new) = Len(old)
  BY DEF SameIds
<1> QED
  BY <1>1, <1>2, SameIdsSamePlaces DEF Placed

\* The loaded file: what is said of the file is true of it.
LEMMA LoadedKeeps ==
    ASSUME LibraryTypes, FileInv
    PROVE  /\ Filed(Loaded, seen \ late, untouched, package)
           /\ SameIds(Loaded, library)
           /\ AllPlaced(Loaded, asked, tombstones, crossed)
           /\ AllTraced(Loaded, trail, crossed)
<1>1. /\ Loaded \in Seq(Recipes) /\ Len(Loaded) = Len(library)
      /\ \A i \in 1..Len(library) :
            library[i] \in Recipes /\ Loaded[i] = Normalize(library[i])
  BY LoadedIs
<1>2. package \in Packages /\ untouched \in BOOLEAN /\ library \in Seq(Recipes)
  BY DEF LibraryTypes
<1>3. \A i \in 1..Len(library) :
        /\ Loaded[i].id = library[i].id /\ Loaded[i].community = library[i].community
        /\ Loaded[i].history = library[i].history
        /\ Loaded[i].tombstoned = library[i].tombstoned
  BY <1>1, <1>2, NormalizeKeeps
<1>4. Filed(Loaded, seen \ late, untouched, package)
  <2>1. \A i \in 1..Len(library) : OnRecord(Loaded[i], seen \ late, untouched, package)
    <3> TAKE i \in 1..Len(library)
    <3>1. OnRecord(library[i], seen \ late, untouched, package)
      BY DEF FileInv, Filed
    <3> QED
      BY <1>1, <1>2, <3>1, LoadedIsOnRecord
  <2> QED
    BY <1>1, <2>1 DEF Filed
<1>5. SameIds(Loaded, library)
  BY <1>1, <1>2, <1>3 DEF SameIds
<1>6. AllPlaced(Loaded, asked, tombstones, crossed)
  <2>1. \A i \in 1..Len(library) : Loaded[i].id \notin crossed =>
            (Loaded[i].tombstoned <=> Loaded[i].id \in tombstones)
    <3> TAKE i \in 1..Len(library)
    <3>1. library[i].id \in Ids
      BY <1>1 DEF Recipes
    <3>2. Placed(library, library[i].id, asked, tombstones, crossed)
      BY <3>1 DEF FileInv, AllPlaced
    <3> QED
      BY <1>3, <3>2 DEF Placed
  <2> QED
    BY <1>5, <2>1, PlacedBySameIds DEF FileInv
<1>7. AllTraced(Loaded, trail, crossed)
  <2> SUFFICES ASSUME Community \notin crossed, NEW i \in 1..Len(library),
                      Loaded[i].community # None
               PROVE  Traced(Loaded[i], trail)
    BY <1>1 DEF AllTraced
  <2>1. Loaded[i].community = library[i].community /\ Loaded[i].history = library[i].history
    BY <1>3
  <2>2. Traced(library[i], trail)
    BY <2>1 DEF FileInv, AllTraced
  <2> QED
    BY <2>1, <2>2 DEF Traced
<1> QED
  BY <1>4, <1>5, <1>6, <1>7

\* What a file says it has at its first recipe with an id.
LEMMA FirstIs ==
    ASSUME LibraryTypes, NEW id
    PROVE  /\ First(id) = 0 <=> ~There(library, id)
           /\ First(id) # 0 => First(id) \in 1..Len(library) /\ library[First(id)].id = id
<1> DEFINE S == {i \in DOMAIN library : library[i].id = id}
<1>1. DOMAIN library = 1..Len(library) /\ Len(library) \in Nat
  BY LoadedIs
<1>2. S \in SUBSET (Nat \ {0})
  BY <1>1
<1>3. (Found(S) = 0 <=> S = {}) /\ (S # {} => Found(S) \in S)
  BY <1>2, FoundIs
<1>4. S = {} <=> ~There(library, id)
  BY <1>1 DEF There
<1> QED
  BY <1>1, <1>3, <1>4 DEF First

\* A recipe added to a file: every recipe is an old one or the new one.
LEMMA AppendFiled ==
    ASSUME NEW recipes, NEW r \in Recipes, NEW marked, NEW pristine, NEW edition,
           Filed(recipes, marked, pristine, edition), OnRecord(r, marked, pristine, edition)
    PROVE  Filed(Append(recipes, r), marked, pristine, edition)
<1>1. recipes \in Seq(Recipes) /\ Len(recipes) \in Nat
  BY LenProperties DEF Filed
<1> DEFINE new == Append(recipes, r)
<1>2. /\ new \in Seq(Recipes) /\ Len(new) = Len(recipes) + 1
      /\ \A i \in 1..Len(recipes) : new[i] = recipes[i]
      /\ new[Len(recipes) + 1] = r
  BY <1>1, AppendProperties
<1> HIDE DEF new
<1>3. \A i \in 1..Len(new) : OnRecord(new[i], marked, pristine, edition)
  <2> TAKE i \in 1..Len(new)
  <2>1. CASE i = Len(recipes) + 1
    BY <1>2, <2>1
  <2>2. CASE i \in 1..Len(recipes)
    BY <1>2, <2>2 DEF Filed
  <2> QED
    BY <1>1, <1>2, <2>1, <2>2
<1>4. Filed(new, marked, pristine, edition)
  BY <1>2, <1>3 DEF Filed
<1> QED
  BY <1>4 DEF new

\* A recipe added for an id the file does not have is asked for from then on.
LEMMA AppendPlaced ==
    ASSUME NEW recipes \in Seq(Recipes), NEW r \in Recipes, ~There(recipes, r.id),
           ~r.tombstoned, NEW wanted, NEW dead, NEW loose,
           AllPlaced(recipes, wanted, dead, loose)
    PROVE  AllPlaced(Append(recipes, r), wanted \cup {r.id}, dead, loose)
<1> DEFINE new == Append(recipes, r)
<1>1. /\ new \in Seq(Recipes) /\ Len(new) = Len(recipes) + 1 /\ Len(recipes) \in Nat
      /\ \A i \in 1..Len(recipes) : new[i] = recipes[i]
      /\ new[Len(recipes) + 1] = r
  BY AppendProperties, LenProperties
<1> HIDE DEF new
<1>2. \A i \in 1..Len(new) : i \in 1..Len(recipes) \/ i = Len(recipes) + 1
  BY <1>1
<1>3. Len(recipes) + 1 \in 1..Len(new) /\ 1..Len(recipes) \subseteq 1..Len(new)
  BY <1>1
<1>4. r.id \in Ids /\ r.id \notin wanted \cup dead
  <2>1. r.id \in Ids
    BY DEF Recipes
  <2> QED
    BY <2>1 DEF AllPlaced, Placed
<1>5. SUFFICES ASSUME NEW id \in Ids PROVE Placed(new, id, wanted \cup {r.id}, dead, loose)
  BY DEF AllPlaced, new
<1>6. Placed(recipes, id, wanted, dead, loose)
  BY DEF AllPlaced
<1>7. CASE id = r.id
  <2>1. There(new, id)
    BY <1>1, <1>3, <1>7 DEF There
  <2>2. \A i \in 1..Len(new) : new[i].id = id => i = Len(recipes) + 1
    BY <1>1, <1>2, <1>7 DEF There
  <2>3. Alone(new, id)
    BY <2>2 DEF Alone
  <2> QED
    BY <1>1, <1>4, <1>7, <2>1, <2>2, <2>3 DEF Placed
<1>8. CASE id # r.id
  <2>1. There(new, id) <=> There(recipes, id)
    BY <1>1, <1>2, <1>3, <1>8 DEF There
  <2>2. \A i \in 1..Len(new) : new[i].id = id => i \in 1..Len(recipes) /\ new[i] = recipes[i]
    BY <1>1, <1>2, <1>8
  <2>3. Alone(recipes, id) => Alone(new, id)
    BY <2>2 DEF Alone
  <2> QED
    BY <1>6, <1>8, <2>1, <2>2, <2>3 DEF Placed
<1> QED
  BY <1>7, <1>8

\* A recipe in the place of another: the others stay as they are.
LEMMA ExceptFiled ==
    ASSUME NEW recipes, NEW i \in 1..Len(recipes), NEW r \in Recipes,
           NEW marked, NEW pristine, NEW edition,
           Filed(recipes, marked, pristine, edition), OnRecord(r, marked, pristine, edition)
    PROVE  Filed([recipes EXCEPT ![i] = r], marked, pristine, edition)
<1> DEFINE new == [recipes EXCEPT ![i] = r]
<1>1. recipes \in Seq(Recipes)
  BY DEF Filed
<1>2. /\ new \in Seq(Recipes) /\ Len(new) = Len(recipes)
      /\ \A j \in 1..Len(recipes) : new[j] = IF j = i THEN r ELSE recipes[j]
  BY <1>1, ExceptSeq
<1> HIDE DEF new
<1>3. Filed(new, marked, pristine, edition)
  BY <1>2 DEF Filed
<1> QED
  BY <1>3 DEF new

\* With the same id in its place, the file has the same ids.
LEMMA ExceptSameIds ==
    ASSUME NEW recipes \in Seq(Recipes), NEW i \in 1..Len(recipes), NEW r \in Recipes,
           r.id = recipes[i].id
    PROVE  /\ SameIds([recipes EXCEPT ![i] = r], recipes)
           /\ \A j \in 1..Len(recipes) :
                [recipes EXCEPT ![i] = r][j] = IF j = i THEN r ELSE recipes[j]
<1> DEFINE new == [recipes EXCEPT ![i] = r]
<1>1. /\ new \in Seq(Recipes) /\ Len(new) = Len(recipes)
      /\ \A j \in 1..Len(recipes) : new[j] = IF j = i THEN r ELSE recipes[j]
  BY ExceptSeq
<1> HIDE DEF new
<1>2. SameIds(new, recipes)
  BY <1>1 DEF SameIds
<1> QED
  BY <1>1, <1>2 DEF new

\* A recipe in the place of one with its id keeps the file in place, if it is
\* marked as the deletion of that id says.
LEMMA ExceptPlaced ==
    ASSUME NEW recipes \in Seq(Recipes), NEW i \in 1..Len(recipes), NEW r \in Recipes,
           r.id = recipes[i].id, NEW wanted, NEW dead, NEW loose,
           r.id \notin loose => (r.tombstoned <=> r.id \in dead),
           AllPlaced(recipes, wanted, dead, loose)
    PROVE  AllPlaced([recipes EXCEPT ![i] = r], wanted, dead, loose)
<1> DEFINE new == [recipes EXCEPT ![i] = r]
<1>1. /\ SameIds(new, recipes)
      /\ \A j \in 1..Len(recipes) : new[j] = IF j = i THEN r ELSE recipes[j]
  BY ExceptSameIds
<1> HIDE DEF new
<1>2. \A j \in 1..Len(recipes) :
        new[j].id \notin loose => (new[j].tombstoned <=> new[j].id \in dead)
  <2> TAKE j \in 1..Len(recipes)
  <2>1. recipes[j] \in Recipes
    BY ElementOfSeq
  <2>2. Placed(recipes, recipes[j].id, wanted, dead, loose)
    BY <2>1 DEF AllPlaced, Recipes
  <2> QED
    BY <1>1, <2>2 DEF Placed
<1>3. AllPlaced(new, wanted, dead, loose)
  BY <1>1, <1>2, PlacedBySameIds
<1> QED
  BY <1>3 DEF new

\* A purge: what is left is on record and where it was, and of the recipe
\* nothing is left.
LEMMA WithoutKeeps ==
    ASSUME NEW recipes, NEW gone, NEW marked, NEW pristine, NEW edition,
           NEW wanted, NEW dead, NEW loose, NEW path,
           Filed(recipes, marked, pristine, edition),
           AllPlaced(recipes, wanted, dead, loose), gone \in dead,
           AllTraced(recipes, path, loose)
    PROVE  /\ Without(recipes, gone) \in Seq(Recipes)
           /\ \A j \in 1..Len(Without(recipes, gone)) :
                /\ Without(recipes, gone)[j].id # gone
                /\ OnRecord(Without(recipes, gone)[j], marked, pristine, edition)
           /\ AllPlaced(Without(recipes, gone), wanted, dead \ {gone}, loose \ {gone})
           /\ gone # Community => AllTraced(Without(recipes, gone), path, loose)
<1> DEFINE new == Without(recipes, gone)
<1>1. recipes \in Seq(Recipes)
  BY DEF Filed
<1>2. new \in Seq(Recipes) /\ \E at : Selects(at, new, recipes, gone, Len(recipes))
  BY <1>1, WithoutIs
<1>3. PICK at : Selects(at, new, recipes, gone, Len(recipes))
  BY <1>2
<1>4. Len(new) \in Nat /\ Len(recipes) \in Nat
  BY <1>1, <1>2, LenProperties
<1> HIDE DEF new
<1>5. /\ \A j \in 1..Len(new) : /\ at[j] \in 1..Len(recipes)
                                /\ new[j] = recipes[at[j]] /\ recipes[at[j]].id # gone
      /\ \A j, k \in 1..Len(new) : j < k => at[j] < at[k]
      /\ \A i \in 1..Len(recipes) : recipes[i].id # gone =>
            \E j \in 1..Len(new) : at[j] = i
  BY <1>3 DEF Selects
<1>6. \A j, k \in 1..Len(new) : at[j] = at[k] => j = k
  <2> SUFFICES ASSUME NEW j \in 1..Len(new), NEW k \in 1..Len(new), at[j] = at[k], j # k
               PROVE  FALSE
    OBVIOUS
  <2>1. j < k \/ k < j
    BY <1>4
  <2>2. at[j] \in Int /\ at[k] \in Int
    BY <1>5
  <2> QED
    BY <1>5, <2>1, <2>2
<1>7. \A j \in 1..Len(new) :
        new[j].id # gone /\ OnRecord(new[j], marked, pristine, edition)
  BY <1>5 DEF Filed
<1>8. ASSUME NEW id \in Ids PROVE Placed(new, id, wanted, dead \ {gone}, loose \ {gone})
  <2>1. /\ There(recipes, id) <=> id \in wanted \cup dead
        /\ ~(id \in wanted /\ id \in dead)
        /\ id \notin loose =>
            /\ Alone(recipes, id)
            /\ \A i \in 1..Len(recipes) :
                recipes[i].id = id => (recipes[i].tombstoned <=> id \in dead)
    BY DEF AllPlaced, Placed
  <2>2. CASE id = gone
    <3>1. ~There(new, id) /\ Alone(new, id)
      BY <1>7, <2>2 DEF There, Alone
    <3>2. id \notin wanted
      BY <2>1, <2>2
    <3> QED
      BY <1>7, <2>2, <3>1, <3>2 DEF Placed
  <2>3. CASE id # gone
    <3>1. There(new, id) <=> There(recipes, id)
      <4>1. There(new, id) => There(recipes, id)
        BY <1>5 DEF There
      <4>2. ASSUME There(recipes, id) PROVE There(new, id)
        <5>1. PICK i \in 1..Len(recipes) : recipes[i].id = id
          BY <4>2 DEF There
        <5>2. PICK j \in 1..Len(new) : at[j] = i
          BY <1>5, <2>3, <5>1
        <5> QED
          BY <1>5, <5>1, <5>2 DEF There
      <4> QED
        BY <4>1, <4>2
    <3>2. Alone(recipes, id) => Alone(new, id)
      BY <1>5, <1>6 DEF Alone
    <3>3. id \notin loose => \A j \in 1..Len(new) :
            new[j].id = id => (new[j].tombstoned <=> id \in dead)
      BY <1>5, <2>1
    <3> QED
      BY <2>1, <2>3, <3>1, <3>2, <3>3 DEF Placed
  <2> QED
    BY <2>2, <2>3
<1>9. AllPlaced(new, wanted, dead \ {gone}, loose \ {gone})
  BY <1>8 DEF AllPlaced
<1>10. AllTraced(new, path, loose)
  BY <1>5 DEF AllTraced
<1> QED
  BY <1>2, <1>7, <1>9, <1>10 DEF new

-----------------------------------------------------------------------------
(* The actions *)

\* What a step leaves on file is as it was when nothing of it is written.
LEMMA NothingSaved ==
    ASSUME LibraryTypes, FileInv,
           UNCHANGED <<library, tombstones, asked, trail, untouched, seen, late, crossed,
                       package>>
    PROVE  FileInv'
BY DEF FileInv

\* A recipe made from a draft has no provenance and no history.
LEMMA FromDraft ==
    ASSUME NEW id \in Ids, NEW origin \in {"local", "github", "community"},
           NEW trust \in {"local-custom", "reviewed-import", "community-signed"},
           NEW draft \in AllDrafts
    PROVE  LET r == RecipeFromDraft(id, origin, trust, draft)
           IN /\ r \in Recipes /\ r.id = id /\ r.origin = origin /\ r.trust = trust
              /\ r.draft = draft /\ r.community = None /\ r.history = <<>> /\ ~r.tombstoned
BY EmptySeq DEF RecipeFromDraft, Recipes

\* A recipe the user wrote is on record with nothing to show, unless it takes
\* the place of an import that came as it is.
LEMMA CustomOnRecord ==
    ASSUME NEW id \in Ids, NEW origin \in {"local", "github", "community"},
           NEW draft \in AllDrafts, NEW marked, NEW pristine, NEW edition,
           id = Imported => ~pristine
    PROVE  OnRecord(RecipeFromDraft(id, origin, "local-custom", draft),
                    marked, pristine, edition)
<1> DEFINE r == RecipeFromDraft(id, origin, "local-custom", draft)
<1>1. /\ r.id = id /\ r.trust = "local-custom" /\ r.community = None
      /\ r.history = <<>>
  BY FromDraft
<1>2. 1..Len(r.history) = {}
  BY <1>1, EmptySeq
<1> HIDE DEF r
<1>3. OnRecord(r, marked, pristine, edition)
  BY <1>1, <1>2 DEF OnRecord
<1> QED
  BY <1>3 DEF r

\* Create adds a recipe of the user.
LEMMA CreateKeeps ==
    ASSUME LibraryTypes, FileInv, NEW d \in Drafts, Create(d)
    PROVE  FileInv'
<1>1. CASE SaveFails /\ Elsewhere
  BY <1>1, NothingSaved DEF SaveFails, Elsewhere, history
<1>2. CASE /\ Saves(Append(Loaded, RecipeFromDraft(Local, "local", "local-custom", d)))
           /\ asked' = asked \cup {Local}
           /\ UNCHANGED <<trail, untouched, seen, late, crossed>> /\ Elsewhere
  <2> DEFINE r == RecipeFromDraft(Local, "local", "local-custom", d)
  <2>1. d \in AllDrafts /\ Local \in Ids /\ Local # Imported /\ Local # Community
    BY DEF AllDrafts, Local, Imported, Community, Ids
  <2>2. r \in Recipes /\ r.id = Local /\ ~r.tombstoned /\ r.community = None
    BY <2>1, FromDraft
  <2>3. OnRecord(r, seen \ late, untouched, package)
    BY <2>1, CustomOnRecord
  <2>4. ~There(Loaded, Local)
    BY FirstIs, LoadedKeeps, SameIdsSamePlaces DEF Create
  <2>5. library' = Append(Loaded, r)
    BY <1>2 DEF Saves
  <2> HIDE DEF r
  <2>6. Filed(Append(Loaded, r), seen \ late, untouched, package)
    BY <2>2, <2>3, LoadedKeeps, AppendFiled
  <2>7. AllPlaced(Append(Loaded, r), asked \cup {Local}, tombstones, crossed)
    BY <2>2, <2>4, LoadedKeeps, LoadedIs, AppendPlaced
  <2>8. AllTraced(Append(Loaded, r), trail, crossed)
    <3>1. /\ Len(Append(Loaded, r)) = Len(Loaded) + 1 /\ Len(Loaded) \in Nat
          /\ \A i \in 1..Len(Loaded) : Append(Loaded, r)[i] = Loaded[i]
          /\ Append(Loaded, r)[Len(Loaded) + 1] = r
      BY <2>2, LoadedIs, AppendProperties
    <3>2. \A i \in 1..(Len(Loaded) + 1) : i \in 1..Len(Loaded) \/ i = Len(Loaded) + 1
      BY <3>1
    <3> QED
      BY <2>2, <3>1, <3>2, LoadedKeeps DEF AllTraced
  <2> QED
    BY <1>2, <2>5, <2>6, <2>7, <2>8 DEF FileInv, Elsewhere
<1> QED
  BY <1>1, <1>2 DEF Create

\* Import puts the profile of the package in the place of the import, or adds it.
LEMMA ImportKeeps ==
    ASSUME LibraryTypes, FileInv, Import
    PROVE  FileInv'
<1>1. CASE SaveFails /\ Elsewhere
  BY <1>1, NothingSaved DEF SaveFails, Elsewhere, history
<1> DEFINE r == RecipeFromDraft(Imported, "github", "reviewed-import", Profile(package.edition))
<1>2. CASE /\ Saves(WithImport(r)) /\ asked' = asked \cup {Imported} /\ untouched' = TRUE
           /\ UNCHANGED <<trail, seen, late, crossed>> /\ Elsewhere
  <2>1. /\ package \in Packages /\ Imported \in Ids /\ Imported # Community
        /\ Imported \notin crossed /\ untouched \in BOOLEAN
    BY DEF LibraryTypes, Imported, Community, Ids
  <2>2. /\ r \in Recipes /\ r.id = Imported /\ ~r.tombstoned /\ r.community = None
        /\ r.origin = "github" /\ r.trust = "reviewed-import" /\ r.history = <<>>
        /\ r.draft = Profile(package.edition)
    BY <2>1, KnownIs, ProfileFacts, FromDraft
  <2>3. OnRecord(r, seen \ late, TRUE, package)
    <3>1. 1..Len(r.history) = {}
      BY <2>2, EmptySeq
    <3>2. AsImported(r, TRUE, package)
      BY <2>1, <2>2, KnownIs DEF AsImported
    <3> HIDE DEF r
    <3> QED
      BY <2>2, <3>1, <3>2 DEF OnRecord
  <2>4. Imported \notin tombstones
    BY DEF Import, Mutable
  <2> HIDE DEF r
  <2>5. CASE ~There(library, Imported)
    <3>1. library' = Append(Loaded, r)
      BY <1>2, <2>2, <2>5, FirstIs DEF Saves, WithImport
    <3>2. ~There(Loaded, Imported)
      BY <2>5, LoadedKeeps, SameIdsSamePlaces
    <3>3. Filed(Loaded, seen \ late, TRUE, package)
      <4> SUFFICES ASSUME NEW i \in 1..Len(Loaded)
                   PROVE  OnRecord(Loaded[i], seen \ late, TRUE, package)
        BY LoadedIs DEF Filed
      <4>1. OnRecord(Loaded[i], seen \ late, untouched, package)
        BY LoadedKeeps DEF Filed
      <4>2. Loaded[i].id # Imported
        BY <3>2 DEF There
      <4> QED
        BY <4>1, <4>2, RecordRelaxes
    <3>4. Filed(Append(Loaded, r), seen \ late, TRUE, package)
      BY <2>2, <2>3, <3>3, AppendFiled
    <3>5. AllPlaced(Append(Loaded, r), asked \cup {Imported}, tombstones, crossed)
      BY <2>2, <3>2, LoadedKeeps, LoadedIs, AppendPlaced
    <3>6. AllTraced(Append(Loaded, r), trail, crossed)
      <4>1. /\ Len(Append(Loaded, r)) = Len(Loaded) + 1 /\ Len(Loaded) \in Nat
            /\ \A i \in 1..Len(Loaded) : Append(Loaded, r)[i] = Loaded[i]
            /\ Append(Loaded, r)[Len(Loaded) + 1] = r
        BY <2>2, LoadedIs, AppendProperties
      <4>2. \A i \in 1..(Len(Loaded) + 1) : i \in 1..Len(Loaded) \/ i = Len(Loaded) + 1
        BY <4>1
      <4> QED
        BY <2>2, <4>1, <4>2, LoadedKeeps DEF AllTraced
    <3> QED
      BY <1>2, <3>1, <3>4, <3>5, <3>6 DEF FileInv, Elsewhere
  <2>6. CASE There(library, Imported)
    <3> DEFINE new == [i \in DOMAIN library |-> IF library[i].id = Imported THEN r ELSE Loaded[i]]
    <3>1. library' = new
      BY <1>2, <2>2, <2>6, FirstIs DEF Saves, WithImport
    <3>2. /\ DOMAIN library = 1..Len(library) /\ Len(library) \in Nat
          /\ Len(Loaded) = Len(library) /\ Loaded \in Seq(Recipes)
          /\ \A i \in 1..Len(library) : Loaded[i] \in Recipes /\ Loaded[i].id = library[i].id
      BY LoadedIs, LoadedKeeps, ElementOfSeq DEF SameIds
    <3>3. new \in [1..Len(library) -> Recipes]
      BY <2>2, <3>2
    <3>4. new \in Seq(Recipes) /\ Len(new) = Len(Loaded)
      BY <3>2, <3>3
    <3>5. \A i \in 1..Len(Loaded) : new[i] = IF Loaded[i].id = Imported THEN r ELSE Loaded[i]
      BY <3>2
    <3> HIDE DEF new
    <3>6. Filed(new, seen \ late, TRUE, package)
      <4> SUFFICES ASSUME NEW i \in 1..Len(Loaded)
                   PROVE  OnRecord(new[i], seen \ late, TRUE, package)
        BY <3>4 DEF Filed
      <4>1. OnRecord(Loaded[i], seen \ late, untouched, package)
        BY LoadedKeeps DEF Filed
      <4>2. CASE Loaded[i].id = Imported
        BY <2>3, <3>5, <4>2
      <4>3. CASE Loaded[i].id # Imported
        <5>1. OnRecord(Loaded[i], seen \ late, TRUE, package)
          BY <4>1, <4>3, RecordRelaxes
        <5> QED
          BY <3>5, <4>3, <5>1
      <4> QED
        BY <4>2, <4>3
    <3>7. SameIds(new, Loaded)
      BY <2>2, <3>2, <3>4, <3>5 DEF SameIds
    <3>8. AllPlaced(new, asked, tombstones, crossed)
      <4>1. \A i \in 1..Len(Loaded) : new[i].id \notin crossed =>
                (new[i].tombstoned <=> new[i].id \in tombstones)
        <5> TAKE i \in 1..Len(Loaded)
        <5>1. Loaded[i].id \in Ids
          BY <3>2 DEF Recipes
        <5>2. Placed(Loaded, Loaded[i].id, asked, tombstones, crossed)
          BY <5>1, LoadedKeeps DEF AllPlaced
        <5> QED
          BY <2>2, <2>4, <3>5, <5>2 DEF Placed
      <4> QED
        BY <3>7, <4>1, LoadedKeeps, PlacedBySameIds
    <3>9. Imported \in asked
      BY <2>1, <2>4, <2>6 DEF FileInv, AllPlaced, Placed
    <3>10. AllTraced(new, trail, crossed)
      BY <2>2, <3>4, <3>5, LoadedKeeps DEF AllTraced
    <3>11. asked' = asked
      BY <1>2, <3>9
    <3> QED
      BY <1>2, <3>1, <3>6, <3>8, <3>10, <3>11 DEF FileInv, Elsewhere
  <2> QED
    BY <2>5, <2>6
<1> QED
  BY <1>1, <1>2 DEF Import

\* Every recipe of the community is the one with its id.
LEMMA CommunityHasOneId ==
    ASSUME LibraryTypes, FileInv, NEW i \in 1..Len(Loaded), Loaded[i].community # None
    PROVE  Loaded[i].id = Community
BY LoadedKeeps DEF Filed, OnRecord

\* Update makes the first recipe with the id one of the user.
LEMMA UpdateKeeps ==
    ASSUME LibraryTypes, FileInv, NEW id \in Ids, NEW d \in Drafts, Update(id, d)
    PROVE  FileInv'
<1>1. CASE SaveFails /\ Elsewhere
  BY <1>1, NothingSaved DEF SaveFails, Elsewhere, history
<1> DEFINE at == First(id)
           r == Edited(at, d)
           new == [Loaded EXCEPT ![at] = r]
<1>2. CASE /\ Saves(new)
           /\ trail' = IF id = Community THEN <<>> ELSE trail
           /\ untouched' = (untouched /\ id # Imported)
           /\ UNCHANGED <<asked, seen, late, crossed>> /\ Elsewhere
  <2>1. /\ id \notin tombstones /\ at \in 1..Len(library) /\ library[at].id = id
        /\ library[at] \in Recipes
    BY FirstIs, LoadedIs DEF Update, MayUpdate, Mutable
  <2>2. /\ Len(Loaded) = Len(library) /\ Loaded \in Seq(Recipes) /\ Len(library) \in Nat
        /\ \A j \in 1..Len(library) : Loaded[j].id = library[j].id
    BY LoadedIs, LoadedKeeps DEF SameIds
  <2>3. r = RecipeFromDraft(id, library[at].origin, "local-custom", d)
    BY <2>1 DEF Edited
  <2>4. library[at].origin \in {"local", "github", "community"} /\ d \in AllDrafts
    BY <2>1 DEF Recipes, AllDrafts
  <2>5. r \in Recipes /\ r.id = id /\ ~r.tombstoned /\ r.community = None
    BY <2>3, <2>4, FromDraft
  <2>6. OnRecord(r, seen \ late, untouched', package)
    BY <1>2, <2>3, <2>4, CustomOnRecord
  <2> HIDE DEF at, r
  <2>7. /\ new \in Seq(Recipes) /\ Len(new) = Len(Loaded)
        /\ \A j \in 1..Len(Loaded) : new[j] = IF j = at THEN r ELSE Loaded[j]
    BY <2>1, <2>2, <2>5, ExceptSeq
  <2>8. AllPlaced(new, asked, tombstones, crossed)
    BY <2>1, <2>2, <2>5, LoadedKeeps, ExceptPlaced
  <2> HIDE DEF new
  <2>9. \A j \in 1..Len(Loaded) : Loaded[j].id = id /\ id \notin crossed => j = at
    <3>1. id \notin crossed => Alone(Loaded, id)
      BY LoadedKeeps DEF AllPlaced, Placed
    <3> QED
      BY <2>1, <2>2, <3>1 DEF Alone
  <2>10. Filed(new, seen \ late, untouched', package)
    <3> SUFFICES ASSUME NEW j \in 1..Len(Loaded)
                 PROVE  OnRecord(new[j], seen \ late, untouched', package)
      BY <2>7 DEF Filed
    <3>1. CASE j = at
      BY <2>6, <2>7, <3>1
    <3>2. CASE j # at
      <4>1. OnRecord(Loaded[j], seen \ late, untouched, package)
        BY LoadedKeeps DEF Filed
      <4>3. Imported \notin crossed
        BY DEF LibraryTypes, Imported, Community
      <4>4. untouched' = untouched \/ Loaded[j].id # Imported
        BY <1>2, <2>9, <3>2, <4>3 DEF LibraryTypes
      <4>5. OnRecord(Loaded[j], seen \ late, untouched', package)
        BY <4>1, <4>4, RecordRelaxes
      <4> QED
        BY <2>7, <3>2, <4>5
    <3> QED
      BY <3>1, <3>2
  <2>11. AllTraced(new, trail', crossed)
    <3> SUFFICES ASSUME Community \notin crossed, NEW j \in 1..Len(Loaded),
                        new[j].community # None
                 PROVE  Traced(new[j], trail')
      BY <2>7 DEF AllTraced
    <3>1. j # at /\ new[j] = Loaded[j]
      BY <2>5, <2>7
    <3>2. Loaded[j].id = Community
      BY <3>1, CommunityHasOneId
    <3>3. id # Community
      BY <2>9, <3>1, <3>2
    <3>4. trail' = trail
      BY <1>2, <3>3
    <3> QED
      BY <3>1, <3>4, LoadedKeeps DEF AllTraced
  <2>12. library' = new
    BY <1>2 DEF Saves, new
  <2> QED
    BY <1>2, <2>8, <2>10, <2>11, <2>12 DEF FileInv, Elsewhere
<1> QED
  BY <1>1, <1>2 DEF Update

\* Delete hides the first recipe with the id and takes its tombstone.
LEMMA DeleteKeeps ==
    ASSUME LibraryTypes, FileInv, NEW id \in Ids, Delete(id)
    PROVE  FileInv'
<1>1. CASE SaveFails /\ UNCHANGED <<tombstones, due>>
  BY <1>1, NothingSaved DEF SaveFails, history, Delete
<1> DEFINE at == First(id)
           r == [Loaded[at] EXCEPT !.tombstoned = TRUE]
           new == [Loaded EXCEPT ![at] = r]
<1>2. CASE /\ Saves([Loaded EXCEPT ![First(id)].tombstoned = TRUE])
           /\ tombstones' = tombstones \cup {id} /\ asked' = asked \ {id}
           /\ UNCHANGED <<trail, untouched, seen, late, crossed>>
  <2>1. library' = new
    BY <1>2 DEF Saves
  <2>2. at \in 1..Len(library) /\ library[at].id = id
    BY FirstIs DEF Delete
  <2>3. /\ Len(Loaded) = Len(library) /\ Loaded \in Seq(Recipes) /\ Len(library) \in Nat
        /\ \A j \in 1..Len(library) : Loaded[j].id = library[j].id
    BY LoadedIs, LoadedKeeps DEF SameIds
  <2>4. Loaded[at] \in Recipes
    BY <2>2, <2>3, ElementOfSeq
  <2>5. /\ r \in Recipes /\ r.id = id /\ r.tombstoned
        /\ r.origin = Loaded[at].origin /\ r.trust = Loaded[at].trust
        /\ r.draft = Loaded[at].draft
        /\ r.community = Loaded[at].community /\ r.history = Loaded[at].history
    BY <2>2, <2>3, <2>4 DEF Recipes
  <2>6. OnRecord(Loaded[at], seen \ late, untouched, package) /\ Loaded[at].id = id
    BY <2>2, <2>3, LoadedKeeps DEF Filed
  <2> HIDE DEF at, r
  <2>7. OnRecord(r, seen \ late, untouched, package)
    <3>1. r.community # None => r.id = Community /\ Vouched(r.draft, r.community, seen \ late)
      BY <2>5, <2>6 DEF OnRecord
    <3>2. \A k \in 1..Len(r.history) :
            Vouched(r.history[k].draft, r.history[k].provenance, seen \ late)
      BY <2>5, <2>6 DEF OnRecord
    <3> QED
      BY <2>5, <2>6, <3>1, <3>2 DEF OnRecord, AsImported
  <2>8. /\ SameIds(new, Loaded)
        /\ \A j \in 1..Len(Loaded) : new[j] = IF j = at THEN r ELSE Loaded[j]
    BY <2>2, <2>3, <2>5, ExceptSameIds
  <2>9. Filed(new, seen \ late, untouched, package)
    BY <2>2, <2>3, <2>5, <2>7, LoadedKeeps, ExceptFiled
  <2> HIDE DEF new
  <2>10. AllPlaced(new, asked \ {id}, tombstones \cup {id}, crossed)
    <3> SUFFICES ASSUME NEW any \in Ids
                 PROVE  Placed(new, any, asked \ {id}, tombstones \cup {id}, crossed)
      BY DEF AllPlaced
    <3>1. (There(new, any) <=> There(Loaded, any)) /\ (Alone(new, any) <=> Alone(Loaded, any))
      BY <2>8, SameIdsSamePlaces
    <3>2. /\ There(Loaded, any) <=> any \in asked \cup tombstones
          /\ ~(any \in asked /\ any \in tombstones)
          /\ any \notin crossed =>
                /\ Alone(Loaded, any)
                /\ \A i \in 1..Len(Loaded) :
                    Loaded[i].id = any => (Loaded[i].tombstoned <=> any \in tombstones)
      BY LoadedKeeps DEF AllPlaced, Placed
    <3>3. Len(new) = Len(Loaded) /\ at \in 1..Len(Loaded)
      BY <2>2, <2>3, <2>8 DEF SameIds
    <3>4. CASE any = id
      <4>1. There(Loaded, id)
        BY <2>6, <3>3 DEF There
      <4>2. any \notin crossed => \A i \in 1..Len(new) : new[i].id = any => i = at
        <5> SUFFICES ASSUME any \notin crossed, NEW i \in 1..Len(new), new[i].id = any
                     PROVE  i = at
          OBVIOUS
        <5>1. Loaded[i].id = any /\ Loaded[at].id = any
          BY <2>6, <2>8, <3>3, <3>4 DEF SameIds
        <5> QED
          BY <3>2, <3>3, <5>1 DEF Alone
      <4>3. new[at] = r
        BY <2>8, <3>3
      <4> QED
        BY <2>5, <3>1, <3>2, <3>4, <4>1, <4>2, <4>3 DEF Placed
    <3>5. CASE any # id
      <4>1. \A i \in 1..Len(new) : new[i].id = any => new[i] = Loaded[i]
        BY <2>5, <2>8, <3>3, <3>5
      <4> QED
        BY <3>1, <3>2, <3>3, <3>5, <4>1 DEF Placed
    <3> QED
      BY <3>4, <3>5
  <2>11. AllTraced(new, trail, crossed)
    <3> SUFFICES ASSUME Community \notin crossed, NEW j \in 1..Len(Loaded),
                        new[j].community # None
                 PROVE  Traced(new[j], trail)
      BY <2>8 DEF AllTraced, SameIds
    <3>1. new[j].community = Loaded[j].community /\ new[j].history = Loaded[j].history
      BY <2>5, <2>8
    <3>2. Traced(Loaded[j], trail)
      BY <3>1, LoadedKeeps DEF AllTraced
    <3> QED
      BY <3>1, <3>2 DEF Traced
  <2> QED
    BY <1>2, <2>1, <2>9, <2>10, <2>11 DEF FileInv, Delete
<1> QED
  BY <1>1, <1>2 DEF Delete

\* A purge takes the recipe off the file and its tombstone with it.
LEMMA FinalizeKeeps ==
    ASSUME LibraryTypes, FileInv, NEW id \in Ids, FinalizeTombstone(id)
    PROVE  FileInv'
<1>1. CASE UNCHANGED <<library, tombstones, fails, history>>
  BY <1>1, NothingSaved DEF history, FinalizeTombstone
<1>2. CASE SaveFails /\ UNCHANGED tombstones
  BY <1>2, NothingSaved DEF SaveFails, history, FinalizeTombstone
<1> DEFINE new == Without(Loaded, id)
<1>3. CASE /\ Purges(id) /\ Saves(new) /\ tombstones' = tombstones \ {id}
           /\ trail' = IF id = Community THEN <<>> ELSE trail
           /\ untouched' = (untouched /\ id # Imported)
           /\ crossed' = crossed \ {id}
           /\ UNCHANGED <<asked, seen, late>>
  <2>1. id \in tombstones /\ library' = new /\ package' = package
    BY <1>3 DEF Purges, Saves, FinalizeTombstone
  <2>2. /\ new \in Seq(Recipes)
        /\ \A j \in 1..Len(new) :
            new[j].id # id /\ OnRecord(new[j], seen \ late, untouched, package)
        /\ AllPlaced(new, asked, tombstones \ {id}, crossed \ {id})
        /\ id # Community => AllTraced(new, trail, crossed)
    BY <2>1, LoadedKeeps, WithoutKeeps
  <2> HIDE DEF new
  <2>3. Filed(new, seen \ late, untouched', package)
    <3> SUFFICES ASSUME NEW j \in 1..Len(new)
                 PROVE  OnRecord(new[j], seen \ late, untouched', package)
      BY <2>2 DEF Filed
    <3>2. untouched' = untouched \/ new[j].id # Imported
      BY <1>3, <2>2 DEF LibraryTypes
    <3>3. OnRecord(new[j], seen \ late, untouched, package)
      BY <2>2
    <3> QED
      BY <3>2, <3>3, RecordRelaxes
  <2>4. AllTraced(new, trail', crossed')
    <3>1. CASE id = Community
      BY <2>2, <2>3, <3>1 DEF AllTraced, Filed, OnRecord
    <3>2. CASE id # Community
      BY <1>3, <2>2, <3>2 DEF AllTraced
    <3> QED
      BY <3>1, <3>2
  <2> QED
    BY <1>3, <2>1, <2>2, <2>3, <2>4 DEF FileInv
<1> QED
  BY <1>1, <1>2, <1>3 DEF FinalizeTombstone

\* The last of a sequence, and what comes before it.
LEMMA FrontAndLast ==
    ASSUME NEW S, NEW s \in Seq(S), s # <<>>
    PROVE  /\ Len(s) \in Nat \ {0} /\ Last(s) = s[Len(s)] /\ Last(s) \in S
           /\ Front(s) \in Seq(S) /\ Len(Front(s)) = Len(s) - 1
           /\ \A k \in 1..(Len(s) - 1) : Front(s)[k] = s[k]
<1>1. Len(s) \in Nat \ {0}
  BY EmptySeq
<1>2. \A k \in 1..(Len(s) - 1) : s[k] \in S
  BY <1>1, ElementOfSeq
<1>3. s[Len(s)] \in S
  BY <1>1, ElementOfSeq
<1>4. /\ SubSeq(s, 1, Len(s) - 1) \in Seq(S)
      /\ Len(SubSeq(s, 1, Len(s) - 1)) = Len(s) - 1
      /\ \A k \in 1..(Len(s) - 1) : SubSeq(s, 1, Len(s) - 1)[k] = s[k]
  <2>1. 1 \in Int /\ Len(s) - 1 \in Int
    BY <1>1
  <2>2. /\ SubSeq(s, 1, Len(s) - 1) \in Seq(S)
        /\ Len(SubSeq(s, 1, Len(s) - 1)) = IF 1 <= Len(s) - 1 THEN (Len(s) - 1) - 1 + 1 ELSE 0
        /\ \A k \in 1..((Len(s) - 1) - 1 + 1) : SubSeq(s, 1, Len(s) - 1)[k] = s[1 + k - 1]
    BY <1>2, <2>1, SubSeqProperties
  <2> DEFINE front == SubSeq(s, 1, Len(s) - 1)
  <2> HIDE DEF front
  <2>3. Len(front) = Len(s) - 1
    <3>1. \A n \in Nat \ {0} : (IF 1 <= n - 1 THEN (n - 1) - 1 + 1 ELSE 0) = n - 1
      OBVIOUS
    <3>2. Len(front) = IF 1 <= Len(s) - 1 THEN (Len(s) - 1) - 1 + 1 ELSE 0
      BY <2>2 DEF front
    <3> QED
      BY <1>1, <3>1, <3>2
  <2>4. \A k \in 1..(Len(s) - 1) : front[k] = s[k]
    <3> TAKE k \in 1..(Len(s) - 1)
    <3>1. k \in 1..((Len(s) - 1) - 1 + 1) /\ 1 + k - 1 = k
      BY <1>1
    <3>2. front[k] = s[1 + k - 1]
      BY <2>2, <3>1 DEF front
    <3> QED
      BY <3>1, <3>2
  <2> QED
    BY <2>2, <2>3, <2>4 DEF front
<1> QED
  BY <1>1, <1>3, <1>4 DEF Front, Last

\* The types of one recipe on file.
LEMMA RecipeTypes ==
    ASSUME NEW r \in Recipes
    PROVE  /\ r.id \in Ids /\ r.draft \in AllDrafts /\ r.community \in Provenances \cup {None}
           /\ r.history \in Seq(Entries) /\ r.tombstoned \in BOOLEAN
           /\ Len(r.history) \in Nat
           /\ \A k \in 1..Len(r.history) : r.history[k] \in Entries
BY LenProperties, ElementOfSeq DEF Recipes

\* A rollback puts the last of the history in the place of the recipe.
LEMMA RollbackKeeps ==
    ASSUME LibraryTypes, FileInv, RollbackCommunity
    PROVE  FileInv'
<1> DEFINE S == {j \in DOMAIN library :
                    library[j].id = Community /\ library[j].community # None}
           at == Found(S)
           r == RolledBack(at)
           new == [Loaded EXCEPT ![at] = r]
<1>1. CASE SaveFails /\ Elsewhere
  BY <1>1, NothingSaved DEF SaveFails, Elsewhere, history
<1>2. CASE /\ Saves(new) /\ trail' = Front(trail)
           /\ UNCHANGED <<asked, untouched, seen, late, crossed>> /\ Elsewhere
  <2>1. /\ DOMAIN library = 1..Len(library) /\ Len(library) \in Nat
        /\ Len(Loaded) = Len(library) /\ Loaded \in Seq(Recipes)
        /\ \A j \in 1..Len(library) : library[j] \in Recipes /\ Loaded[j].id = library[j].id
    BY LoadedIs, LoadedKeeps DEF SameIds
  <2>2. Mutable(Community) /\ MayRestore(at)
    BY DEF RollbackCommunity
  <2>3. S \in SUBSET (Nat \ {0})
    BY <2>1
  <2>4. at \in S
    BY <2>2, <2>3, FoundIs DEF MayRestore
  <2>5. /\ at \in 1..Len(library) /\ library[at].id = Community
        /\ library[at].community # None /\ library[at].history # <<>>
        /\ Community \notin tombstones
    BY <2>1, <2>2, <2>4 DEF MayRestore, Mutable
  <2> DEFINE h == library[at].history
             last == h[Len(h)]
  <2>6. /\ h \in Seq(Entries) /\ Len(h) \in Nat \ {0} /\ last \in Entries
        /\ Last(h) = last
        /\ Front(h) \in Seq(Entries) /\ Len(Front(h)) = Len(h) - 1
        /\ \A k \in 1..(Len(h) - 1) : Front(h)[k] = h[k]
    <3>1. h \in Seq(Entries)
      BY <2>1, <2>5, RecipeTypes
    <3> QED
      BY <2>5, <3>1, FrontAndLast
  <2> HIDE DEF S, at
  <2>7. /\ r \in Recipes /\ r.id = Community /\ ~r.tombstoned
        /\ r.trust = "community-signed" /\ r.draft = last.draft
        /\ r.community = last.provenance /\ r.history = Front(h)
    <3> DEFINE base == RecipeFromDraft(Community, "community", "community-signed", last.draft)
    <3>1. last.draft \in AllDrafts /\ last.provenance \in Provenances /\ Community \in Ids
      BY <2>6 DEF Entries, Ids
    <3>2. /\ base \in Recipes /\ base.id = Community /\ base.trust = "community-signed"
          /\ base.draft = last.draft /\ ~base.tombstoned
      BY <3>1, FromDraft
    <3>3. r = [base EXCEPT !.community = last.provenance, !.history = Front(h)]
      BY <2>5, <2>6 DEF RolledBack
    <3> HIDE DEF base, last, h, r
    <3> QED
      BY <2>6, <3>1, <3>2, <3>3 DEF Recipes
  <2>8. OnRecord(library[at], seen \ late, untouched, package)
    BY <2>5 DEF FileInv, Filed
  <2> HIDE DEF r
  <2>9. OnRecord(r, seen \ late, untouched, package)
    <3>1. Vouched(last.draft, last.provenance, seen \ late)
      <4>1. Len(h) \in 1..Len(h)
        BY <2>6
      <4>2. \A k \in 1..Len(h) : Vouched(h[k].draft, h[k].provenance, seen \ late)
        BY <2>8 DEF OnRecord
      <4> HIDE DEF h
      <4> QED
        BY <4>1, <4>2
    <3>2. \A k \in 1..Len(r.history) :
            Vouched(r.history[k].draft, r.history[k].provenance, seen \ late)
      <4> TAKE k \in 1..Len(r.history)
      <4>1. k \in 1..Len(h) /\ r.history[k] = h[k]
        BY <2>6, <2>7
      <4> QED
        BY <2>8, <4>1 DEF OnRecord
    <3>3. r.trust # "reviewed-import" /\ r.id # Imported
      BY <2>7 DEF Community, Imported
    <3> QED
      BY <2>7, <3>1, <3>2, <3>3 DEF OnRecord
  <2>10. /\ Len(new) = Len(Loaded)
         /\ \A j \in 1..Len(Loaded) : new[j] = IF j = at THEN r ELSE Loaded[j]
    BY <2>1, <2>5, <2>7, ExceptSeq
  <2>11. Filed(new, seen \ late, untouched, package)
    BY <2>1, <2>5, <2>7, <2>9, LoadedKeeps, ExceptFiled
  <2>12. AllPlaced(new, asked, tombstones, crossed)
    BY <2>1, <2>5, <2>7, LoadedKeeps, ExceptPlaced
  <2> HIDE DEF new
  <2>13. AllTraced(new, Front(trail), crossed)
    <3> SUFFICES ASSUME Community \notin crossed, NEW j \in 1..Len(Loaded),
                        new[j].community # None
                 PROVE  Traced(new[j], Front(trail))
      BY <2>10 DEF AllTraced
    <3>1. Alone(library, Community)
      BY DEF FileInv, AllPlaced, Placed, Ids
    <3>2. j = at
      <4> SUFFICES ASSUME j # at PROVE FALSE
        OBVIOUS
      <4>1. Loaded[j].community # None
        BY <2>10
      <4>2. library[j].id = Community
        BY <2>1, <4>1, CommunityHasOneId
      <4> QED
        BY <2>1, <2>5, <3>1, <4>2 DEF Alone
    <3>3. Traced(library[at], trail)
      BY <2>5 DEF FileInv, AllTraced
    <3>4. /\ Len(h) < Len(trail) /\ trail[Len(trail)] = library[at].community.revision
          /\ \A k \in 1..Len(h) : h[k].provenance.revision = trail[Len(trail) - Len(h) - 1 + k]
      BY <3>3 DEF Traced
    <3>5. trail \in Seq(Revisions) /\ Len(trail) \in Nat /\ trail # <<>>
      <4>1. trail \in Seq(Revisions)
        BY DEF LibraryTypes
      <4>2. Len(trail) \in Nat
        BY <4>1, LenProperties
      <4> QED
        BY <2>6, <3>4, <4>1, <4>2, EmptySeq
    <3>6. /\ Len(Front(trail)) = Len(trail) - 1
          /\ \A k \in 1..(Len(trail) - 1) : Front(trail)[k] = trail[k]
      BY <3>5, FrontAndLast
    <3> HIDE DEF h, last
    <3>7. Front(trail)[Len(trail) - 1] = last.provenance.revision
      <4>1. Len(trail) - 1 \in 1..(Len(trail) - 1) /\ Len(h) \in 1..Len(h)
            /\ Len(trail) - Len(h) - 1 + Len(h) = Len(trail) - 1
        BY <2>6, <3>4, <3>5
      <4>2. h[Len(h)].provenance.revision = trail[Len(trail) - 1]
        BY <3>4, <4>1
      <4> QED
        BY <3>6, <4>1, <4>2 DEF last
    <3>8. \A k \in 1..(Len(h) - 1) :
            h[k].provenance.revision
                = Front(trail)[(Len(trail) - 1) - (Len(h) - 1) - 1 + k]
      <4> TAKE k \in 1..(Len(h) - 1)
      <4>1. /\ k \in 1..Len(h)
            /\ (Len(trail) - 1) - (Len(h) - 1) - 1 + k = Len(trail) - Len(h) - 1 + k
            /\ Len(trail) - Len(h) - 1 + k \in 1..(Len(trail) - 1)
        BY <2>6, <3>4, <3>5
      <4> QED
        BY <3>4, <3>6, <4>1
    <3>9. new[j] = r /\ Len(r.history) = Len(h) - 1
      BY <2>6, <2>7, <2>10, <3>2
    <3>10. \A k \in 1..(Len(h) - 1) : r.history[k] = h[k]
      BY <2>6, <2>7
    <3>11. Len(h) - 1 < Len(trail) - 1
      BY <2>6, <3>4, <3>5
    <3> QED
      BY <2>7, <3>6, <3>7, <3>8, <3>9, <3>10, <3>11 DEF Traced
  <2>14. library' = new
    BY <1>2 DEF Saves, new
  <2> QED
    BY <1>2, <2>11, <2>12, <2>13, <2>14 DEF FileInv, Elsewhere
<1> QED
  BY <1>1, <1>2 DEF RollbackCommunity

\* What is kept of a history is its end.
LEMMA Tail3Is ==
    ASSUME NEW S, NEW s \in Seq(S)
    PROVE  /\ Tail3(s) \in Seq(S) /\ Len(Tail3(s)) \in Nat /\ Len(Tail3(s)) <= Len(s)
           /\ \A k \in 1..Len(Tail3(s)) : Tail3(s)[k] = s[Len(s) - Len(Tail3(s)) + k]
<1>1. Len(s) \in Nat /\ HistoryLimit \in Nat
  BY LenProperties, HistoryLimitIsNat
<1>2. PICK m \in Nat : m = (IF Len(s) < HistoryLimit THEN Len(s) ELSE HistoryLimit)
  BY <1>1
<1>3. m <= Len(s)
  BY <1>1, <1>2
<1>4. Tail3(s) = SubSeq(s, Len(s) - m + 1, Len(s))
  BY <1>2 DEF Tail3
<1>5. \A k \in (Len(s) - m + 1)..Len(s) : s[k] \in S
  <2> TAKE k \in (Len(s) - m + 1)..Len(s)
  <2>1. k \in 1..Len(s)
    BY <1>1, <1>3
  <2> QED
    BY <2>1, ElementOfSeq
<1>6. Len(s) - m + 1 \in Int /\ Len(s) \in Int
  BY <1>1
<1> DEFINE t == SubSeq(s, Len(s) - m + 1, Len(s))
<1>7. /\ t \in Seq(S)
      /\ Len(t) = IF Len(s) - m + 1 <= Len(s) THEN Len(s) - (Len(s) - m + 1) + 1 ELSE 0
      /\ \A k \in 1..(Len(s) - (Len(s) - m + 1) + 1) : t[k] = s[Len(s) - m + 1 + k - 1]
  BY <1>5, <1>6, SubSeqProperties
<1> HIDE DEF t
<1>8. Len(t) = m
  <2>1. \A n \in Nat : (IF n - m + 1 <= n THEN n - (n - m + 1) + 1 ELSE 0) = m
    OBVIOUS
  <2> QED
    BY <1>1, <1>7, <2>1
<1>9. \A k \in 1..m : t[k] = s[Len(s) - m + k]
  <2> TAKE k \in 1..m
  <2>1. k \in 1..(Len(s) - (Len(s) - m + 1) + 1) /\ Len(s) - m + 1 + k - 1 = Len(s) - m + k
    BY <1>1
  <2>2. t[k] = s[Len(s) - m + 1 + k - 1]
    BY <1>7, <2>1
  <2> QED
    BY <2>1, <2>2
<1>10. Tail3(s) = t
  BY <1>4 DEF t
<1> QED
  BY <1>3, <1>7, <1>8, <1>9, <1>10

\* Files stay on record for fewer marks.
LEMMA FiledRelaxes ==
    ASSUME NEW recipes, NEW marked, NEW pristine, NEW edition,
           NEW fewer, fewer \subseteq marked,
           Filed(recipes, marked, pristine, edition)
    PROVE  Filed(recipes, fewer, pristine, edition)
<1> SUFFICES ASSUME NEW i \in 1..Len(recipes)
             PROVE  OnRecord(recipes[i], fewer, pristine, edition)
  BY DEF Filed
<1>1. OnRecord(recipes[i], marked, pristine, edition)
  BY DEF Filed
<1> QED
  BY <1>1, RecordRelaxes

\* A community recipe that is there was asked for, or is under deletion.
LEMMA PlacedAgain ==
    ASSUME NEW recipes, NEW wanted, NEW dead, NEW loose, NEW looser,
           looser = loose \/ looser = loose \cup {Community},
           There(recipes, Community), AllPlaced(recipes, wanted, dead, loose)
    PROVE  AllPlaced(recipes,
                     IF Community \in dead THEN wanted ELSE wanted \cup {Community},
                     dead, looser)
<1>1. Placed(recipes, Community, wanted, dead, loose)
  BY DEF AllPlaced, Ids
<1>2. Community \in wanted \cup dead
  BY <1>1 DEF Placed
<1>3. (IF Community \in dead THEN wanted ELSE wanted \cup {Community}) = wanted
  BY <1>2
<1> SUFFICES ASSUME NEW id \in Ids PROVE Placed(recipes, id, wanted, dead, looser)
  BY <1>3 DEF AllPlaced
<1>4. Placed(recipes, id, wanted, dead, loose) /\ (id \notin looser => id \notin loose)
  BY DEF AllPlaced
<1> QED
  BY <1>4 DEF Placed

\* A community recipe that is added: the file may already have one that the
\* user edited, which the history notes.
LEMMA AppendAgain ==
    ASSUME NEW recipes \in Seq(Recipes), NEW r \in Recipes, r.id = Community,
           ~r.tombstoned, NEW wanted, NEW dead, NEW loose, NEW looser,
           looser = loose \/ looser = loose \cup {Community},
           There(recipes, Community) => Community \in looser,
           AllPlaced(recipes, wanted, dead, loose)
    PROVE  AllPlaced(Append(recipes, r),
                     IF Community \in dead THEN wanted ELSE wanted \cup {Community},
                     dead, looser)
<1>1. CASE ~There(recipes, Community)
  <2>1. Community \notin dead
    BY <1>1 DEF AllPlaced, Placed, Ids
  <2>2. AllPlaced(Append(recipes, r), wanted \cup {Community}, dead, loose)
    BY <1>1, AppendPlaced
  <2>3. (IF Community \in dead THEN wanted \cup {Community}
         ELSE (wanted \cup {Community}) \cup {Community}) = wanted \cup {Community}
    OBVIOUS
  <2> SUFFICES ASSUME NEW id \in Ids
               PROVE  Placed(Append(recipes, r), id, wanted \cup {Community}, dead, looser)
    BY <2>1 DEF AllPlaced
  <2>4. /\ Placed(Append(recipes, r), id, wanted \cup {Community}, dead, loose)
        /\ id \notin looser => id \notin loose
    BY <2>2 DEF AllPlaced
  <2> QED
    BY <2>4 DEF Placed
<1>2. CASE There(recipes, Community)
  <2> DEFINE new == Append(recipes, r)
  <2>1. /\ new \in Seq(Recipes) /\ Len(new) = Len(recipes) + 1 /\ Len(recipes) \in Nat
        /\ \A i \in 1..Len(recipes) : new[i] = recipes[i]
        /\ new[Len(recipes) + 1] = r
    BY AppendProperties, LenProperties
  <2> HIDE DEF new
  <2>2. \A i \in 1..Len(new) : i \in 1..Len(recipes) \/ i = Len(recipes) + 1
    BY <2>1
  <2>3. Len(recipes) + 1 \in 1..Len(new) /\ 1..Len(recipes) \subseteq 1..Len(new)
    BY <2>1
  <2>4. AllPlaced(recipes, IF Community \in dead THEN wanted ELSE wanted \cup {Community},
                  dead, looser)
    BY <1>2, PlacedAgain
  <2> DEFINE asks == IF Community \in dead THEN wanted ELSE wanted \cup {Community}
  <2> HIDE DEF asks
  <2>5. AllPlaced(recipes, asks, dead, looser)
    BY <2>4 DEF asks
  <2>6. ASSUME NEW id \in Ids PROVE Placed(new, id, asks, dead, looser)
    <3>1. Placed(recipes, id, asks, dead, looser)
      BY <2>5 DEF AllPlaced
    <3>2. There(new, id) <=> There(recipes, id)
      <4>1. There(recipes, id) => There(new, id)
        BY <2>1, <2>3 DEF There
      <4>2. There(new, id) => There(recipes, id)
        BY <1>2, <2>1, <2>2 DEF There
      <4> QED
        BY <4>1, <4>2
    <3>3. CASE id = Community
      BY <1>2, <3>1, <3>2, <3>3 DEF Placed
    <3>4. CASE id # Community
      <4>1. \A i \in 1..Len(new) :
                new[i].id = id => i \in 1..Len(recipes) /\ new[i] = recipes[i]
        BY <2>1, <2>2, <3>4
      <4>2. Alone(recipes, id) => Alone(new, id)
        BY <4>1 DEF Alone
      <4> QED
        BY <3>1, <3>2, <4>1, <4>2 DEF Placed
    <3> QED
      BY <3>3, <3>4
  <2> QED
    BY <2>6 DEF AllPlaced, asks, new
<1> QED
  BY <1>1, <1>2

\* What an installation stores, over the history it keeps.
LEMMA InstalledIs ==
    ASSUME NEW rev \in Revisions
    PROVE  /\ Installed(rev) \in Recipes /\ Installed(rev).id = Community
           /\ Installed(rev).trust = "community-signed" /\ ~Installed(rev).tombstoned
           /\ Installed(rev).draft = Release[rev].draft
           /\ Installed(rev).community = [revision |-> rev, revoked |-> FALSE]
           /\ Installed(rev).history = <<>>
<1> DEFINE base == RecipeFromDraft(Community, "community", "community-signed",
                                   Release[rev].draft)
           p == [revision |-> rev, revoked |-> FALSE]
<1>1. p \in Provenances /\ Release[rev].draft \in AllDrafts /\ Community \in Ids
  BY DEF Provenances, AllDrafts, Ids
<1>2. /\ base \in Recipes /\ base.id = Community /\ base.trust = "community-signed"
      /\ ~base.tombstoned /\ base.draft = Release[rev].draft /\ base.history = <<>>
  BY <1>1, FromDraft
<1>3. Installed(rev) = [base EXCEPT !.community = p]
  BY DEF Installed
<1> HIDE DEF base, p
<1>4. /\ Installed(rev) \in Recipes /\ Installed(rev).id = Community
      /\ Installed(rev).trust = "community-signed" /\ ~Installed(rev).tombstoned
      /\ Installed(rev).draft = Release[rev].draft
      /\ Installed(rev).community = p
      /\ Installed(rev).history = <<>>
  BY <1>1, <1>2, <1>3 DEF Recipes
<1> QED
  BY <1>4 DEF p

\* A recipe with a verified release and a history that is vouched for is on
\* record, as long as its revision is not among the marked ones.
LEMMA InstalledOnRecord ==
    ASSUME NEW rev \in Revisions, Admissible(rev), NEW marked, rev \notin marked,
           NEW pristine, NEW edition, NEW r, r.id = Community, r.trust = "community-signed",
           r.draft = Release[rev].draft,
           r.community = [revision |-> rev, revoked |-> FALSE],
           \A k \in 1..Len(r.history) :
                Vouched(r.history[k].draft, r.history[k].provenance, marked)
    PROVE  OnRecord(r, marked, pristine, edition)
<1>1. Vouched(r.draft, r.community, marked)
  BY DEF Vouched
<1>2. r.id # Imported /\ r.trust # "reviewed-import"
  BY DEF Community, Imported
<1> QED
  BY <1>1, <1>2 DEF OnRecord

\* An installation adds the recipe, leaves it, or puts the new revision in
\* the place of the old one, which goes to the history.
LEMMA InstallKeeps ==
    ASSUME LibraryTypes, FileInv, RequestsKept, NEW q \in Requests, InstallCommunity(q)
    PROVE  FileInv'
<1> DEFINE rev == request[q].revision
           S == {j \in DOMAIN library : library[j].community # None}
           at == Found(S)
           fewer == seen \ late'
<1>1. CASE Goes(q, None) /\ SaveFails
  BY <1>1, NothingSaved DEF SaveFails, Goes, history
<1>2. CASE /\ Goes(q, None) /\ Saves(WithRevision(rev))
           /\ asked' = IF Community \in tombstones THEN asked ELSE asked \cup {Community}
           /\ crossed' = IF Unclean THEN crossed \cup {Community} ELSE crossed
           /\ trail' = IF trail # <<>> /\ Last(trail) = rev THEN trail ELSE Append(trail, rev)
           /\ late' = IF rev \in seen /\ request[q].clean THEN late \cup {rev} ELSE late
           /\ UNCHANGED <<untouched, seen>>
  <2>1. rev \in Revisions /\ Admissible(rev) /\ request[q].clean
    <3>1. request[q] \in Installs \cup Syncs /\ request[q].step = "checked"
      BY DEF InstallCommunity, LibraryTypes
    <3>2. request[q] \in Installs
      BY <3>1 DEF Syncs
    <3> QED
      BY <3>1, <3>2 DEF Installs, RequestsKept, InstallCommunity
  <2>2. fewer \subseteq seen \ late /\ rev \notin fewer
    BY <1>2, <2>1
  <2>3. /\ DOMAIN library = 1..Len(library) /\ Len(library) \in Nat
        /\ Len(Loaded) = Len(library) /\ Loaded \in Seq(Recipes)
        /\ library \in Seq(Recipes)
        /\ \A j \in 1..Len(library) :
            /\ library[j] \in Recipes /\ Loaded[j].id = library[j].id
            /\ Loaded[j].community = library[j].community
    BY LoadedIs, LoadedKeeps, NormalizeKeeps DEF SameIds, LibraryTypes
  <2>4. S \in SUBSET (Nat \ {0})
    BY <2>3
  <2>5. (at = 0 <=> S = {}) /\ (S # {} => at \in S)
    BY <2>4, FoundIs
  <2>6. package \in Packages /\ trail \in Seq(Revisions)
        /\ untouched \in BOOLEAN
    BY DEF LibraryTypes
  <2>7. Filed(Loaded, fewer, untouched, package) /\ Filed(library, fewer, untouched, package)
    BY <2>2, <2>6, LoadedKeeps, FiledRelaxes DEF FileInv
  <2>8. /\ package' = package /\ tombstones' = tombstones /\ untouched' = untouched
        /\ seen' \ late' = fewer
        /\ crossed' = crossed \/ crossed' = crossed \cup {Community}
    BY <1>2 DEF Goes
  <2>9. Community \notin crossed' =>
          /\ Community \notin crossed /\ Community \notin tombstones
          /\ \A i \in 1..Len(library) :
                library[i].id = Community => library[i].community # None
    BY <1>2, <2>3 DEF Unclean
  <2>10. library' = WithRevision(rev)
    BY <1>2 DEF Saves
  <2>11. /\ trail' # <<>> /\ Len(trail') \in Nat \ {0} /\ trail'[Len(trail')] = rev
         /\ trail' \in Seq(Revisions)
    <3>1. CASE trail # <<>> /\ Last(trail) = rev
      BY <1>2, <2>6, <3>1, FrontAndLast
    <3>2. CASE ~(trail # <<>> /\ Last(trail) = rev)
      <4>1. trail' = Append(trail, rev)
        BY <1>2, <3>2
      <4>2. Len(trail) \in Nat
        BY <2>6, LenProperties
      <4> QED
        BY <2>1, <2>6, <4>1, <4>2, AppendProperties
    <3> QED
      BY <3>1, <3>2
  <2> HIDE DEF fewer, rev
  <2>12. CASE S = {}
    <3> DEFINE r == Installed(rev)
    <3>1. library' = Append(Loaded, r)
      BY <2>5, <2>10, <2>12 DEF WithRevision
    <3>2. /\ r \in Recipes /\ r.id = Community /\ r.trust = "community-signed"
          /\ ~r.tombstoned /\ r.draft = Release[rev].draft
          /\ r.community = [revision |-> rev, revoked |-> FALSE] /\ r.history = <<>>
      BY <2>1, InstalledIs
    <3>3. Len(r.history) = 0 /\ 1..Len(r.history) = {}
      BY <3>2, EmptySeq
    <3> HIDE DEF r
    <3>4. OnRecord(r, fewer, untouched, package)
      BY <2>1, <2>2, <3>2, <3>3, InstalledOnRecord
    <3>5. Filed(Append(Loaded, r), fewer, untouched, package)
      BY <2>7, <3>2, <3>4, AppendFiled
    <3>6. There(Loaded, Community) => Community \in crossed'
      BY <2>3, <2>9, <2>12 DEF There
    <3>7. AllPlaced(Append(Loaded, r), asked', tombstones, crossed')
      BY <1>2, <2>3, <2>8, <3>2, <3>6, LoadedKeeps, AppendAgain
    <3>8. AllTraced(Append(Loaded, r), trail', crossed')
      <4>1. /\ Len(Append(Loaded, r)) = Len(Loaded) + 1
            /\ \A i \in 1..Len(Loaded) : Append(Loaded, r)[i] = Loaded[i]
            /\ Append(Loaded, r)[Len(Loaded) + 1] = r
        BY <2>3, <3>2, AppendProperties
      <4>2. \A i \in 1..(Len(Loaded) + 1) : i \in 1..Len(Loaded) \/ i = Len(Loaded) + 1
        BY <2>3
      <4>3. \A i \in 1..Len(Loaded) : Loaded[i].community = None
        BY <2>3, <2>12
      <4>4. Traced(r, trail')
        BY <2>11, <3>2, <3>3 DEF Traced
      <4> QED
        BY <4>1, <4>2, <4>3, <4>4 DEF AllTraced
    <3> QED
      BY <2>8, <3>1, <3>5, <3>7, <3>8 DEF FileInv
  <2>13. CASE S # {}
    <3>1. /\ at \in 1..Len(library) /\ library[at].community # None /\ at # 0
          /\ library[at] \in Recipes /\ library[at].id = Community
      <4>1. at \in 1..Len(library) /\ library[at].community # None /\ at # 0
        BY <2>3, <2>5, <2>13
      <4> QED
        BY <2>3, <4>1 DEF FileInv, Filed, OnRecord
    <3>2. library[at].community \in Provenances
      BY <3>1, RecipeTypes
    <3>3. There(library, Community) /\ There(Loaded, Community)
      BY <2>3, <3>1 DEF There
    <3>4. Community \notin crossed' =>
            /\ Traced(library[at], trail)
            /\ \A j \in 1..Len(library) : library[j].community # None => j = at
      <4> SUFFICES ASSUME Community \notin crossed'
                   PROVE  /\ Traced(library[at], trail)
                          /\ \A j \in 1..Len(library) :
                                library[j].community # None => j = at
        OBVIOUS
      <4>1. Alone(library, Community)
        BY <2>9 DEF FileInv, AllPlaced, Placed, Ids
      <4>2. \A j \in 1..Len(library) :
                library[j].community # None => library[j].id = Community
        BY DEF FileInv, Filed, OnRecord
      <4> QED
        BY <2>9, <3>1, <4>1, <4>2 DEF Alone, FileInv, AllTraced
    <3>5. trail # <<>> => Last(trail) = trail[Len(trail)]
      BY <2>6, FrontAndLast
    <3>6. Community \notin crossed' => trail # <<>>
      <4> SUFFICES ASSUME Community \notin crossed', trail = <<>> PROVE FALSE
        OBVIOUS
      <4>1. Len(library[at].history) \in Nat /\ Len(library[at].history) < Len(trail)
        BY <3>1, <3>4, RecipeTypes DEF Traced
      <4> QED
        BY <4>1, EmptySeq
    <3>7. CASE library[at].community.revision = rev
      <4>1. library' = library
        BY <2>10, <3>1, <3>7 DEF WithRevision
      <4>2. AllPlaced(library, asked', tombstones, crossed')
        BY <1>2, <2>8, <3>3, PlacedAgain DEF FileInv
      <4>3. AllTraced(library, trail', crossed')
        <5> SUFFICES ASSUME Community \notin crossed', NEW j \in 1..Len(library),
                            library[j].community # None
                     PROVE  Traced(library[j], trail')
          BY DEF AllTraced
        <5>1. j = at /\ Traced(library[at], trail)
          BY <3>4
        <5>2. Last(trail) = rev
          BY <3>5, <3>6, <3>7, <5>1 DEF Traced
        <5>3. trail' = trail
          BY <1>2, <3>6, <5>2 DEF rev
        <5> QED
          BY <5>1, <5>3
      <4> QED
        BY <2>7, <2>8, <4>1, <4>2, <4>3 DEF FileInv
    <3>8. CASE library[at].community.revision # rev
      <4> DEFINE h == library[at].history
                 old == [draft |-> library[at].draft, provenance |-> library[at].community]
                 more == Append(h, old)
                 kept == Tail3(more)
                 r == [Installed(rev) EXCEPT !.history = kept]
                 new == [Loaded EXCEPT ![at] = r]
      <4>1. library' = new
        BY <2>10, <3>1, <3>8 DEF WithRevision, Kept
      <4>2. h \in Seq(Entries) /\ old \in Entries /\ Len(h) \in Nat
        BY <3>1, <3>2, RecipeTypes DEF Entries
      <4>3. OnRecord(library[at], fewer, untouched, package)
        BY <2>7, <3>1 DEF Filed
      <4>4. Vouched(old.draft, old.provenance, fewer)
        BY <3>1, <4>3 DEF OnRecord
      <4>5. \A k \in 1..Len(h) : Vouched(h[k].draft, h[k].provenance, fewer)
        BY <4>3 DEF OnRecord
      <4>6. old.provenance.revision = library[at].community.revision
        OBVIOUS
      <4> HIDE DEF h, old
      <4>7. /\ more \in Seq(Entries) /\ Len(more) = Len(h) + 1
            /\ \A k \in 1..Len(h) : more[k] = h[k]
            /\ more[Len(h) + 1] = old
        BY <4>2, AppendProperties
      <4> HIDE DEF more
      <4>8. /\ kept \in Seq(Entries) /\ Len(kept) \in Nat /\ Len(kept) <= Len(more)
            /\ \A k \in 1..Len(kept) : kept[k] = more[Len(more) - Len(kept) + k]
        BY <4>7, Tail3Is
      <4> HIDE DEF kept
      <4>9. \A k \in 1..Len(more) : Vouched(more[k].draft, more[k].provenance, fewer)
        <5>1. \A k \in 1..Len(more) : k \in 1..Len(h) \/ k = Len(h) + 1
          BY <4>2, <4>7
        <5> QED
          BY <4>4, <4>5, <4>7, <5>1
      <4>10. \A k \in 1..Len(kept) : Vouched(kept[k].draft, kept[k].provenance, fewer)
        <5> TAKE k \in 1..Len(kept)
        <5>1. Len(more) - Len(kept) + k \in 1..Len(more)
          BY <4>2, <4>7, <4>8
        <5> QED
          BY <4>8, <4>9, <5>1
      <4>11. /\ r \in Recipes /\ r.id = Community /\ r.trust = "community-signed"
             /\ ~r.tombstoned /\ r.draft = Release[rev].draft
             /\ r.community = [revision |-> rev, revoked |-> FALSE] /\ r.history = kept
        BY <2>1, <4>8, InstalledIs DEF Recipes
      <4> HIDE DEF r
      <4>12. OnRecord(r, fewer, untouched, package)
        BY <2>1, <2>2, <4>10, <4>11, InstalledOnRecord
      <4>13. Filed(new, fewer, untouched, package)
        BY <2>3, <2>7, <3>1, <4>11, <4>12, ExceptFiled
      <4>14. /\ Len(new) = Len(Loaded)
             /\ \A j \in 1..Len(Loaded) : new[j] = IF j = at THEN r ELSE Loaded[j]
        BY <2>3, <3>1, <4>11, ExceptSeq
      <4>15. AllPlaced(Loaded, asked', tombstones, crossed')
        BY <1>2, <2>8, <3>3, LoadedKeeps, PlacedAgain
      <4>16. AllPlaced(new, asked', tombstones, crossed')
        BY <2>3, <2>9, <3>1, <4>11, <4>15, ExceptPlaced
      <4> HIDE DEF new
      <4>17. AllTraced(new, trail', crossed')
        <5> SUFFICES ASSUME Community \notin crossed', NEW j \in 1..Len(Loaded),
                            new[j].community # None
                     PROVE  Traced(new[j], trail')
          BY <4>14 DEF AllTraced
        <5>1. j = at
          BY <2>3, <3>4, <4>14
        <5>2. new[j] = r
          BY <4>14, <5>1
        <5>3. /\ Len(h) < Len(trail) /\ trail[Len(trail)] = library[at].community.revision
              /\ \A k \in 1..Len(h) :
                    h[k].provenance.revision = trail[Len(trail) - Len(h) - 1 + k]
          BY <3>4 DEF Traced, h
        <5>4. trail' = Append(trail, rev)
          BY <1>2, <3>5, <3>6, <3>8, <5>3 DEF rev
        <5>5. /\ Len(trail) \in Nat /\ Len(trail') = Len(trail) + 1
              /\ \A k \in 1..Len(trail) : trail'[k] = trail[k]
          BY <2>1, <2>6, <5>4, AppendProperties, LenProperties
        <5>6. \A k \in 1..Len(more) :
                more[k].provenance.revision = trail[Len(trail) - Len(more) + k]
          <6> TAKE k \in 1..Len(more)
          <6>1. CASE k = Len(h) + 1
            <7>1. Len(trail) - Len(more) + k = Len(trail)
              BY <4>2, <4>7, <5>5, <6>1
            <7> QED
              BY <4>6, <4>7, <5>3, <6>1, <7>1
          <6>2. CASE k \in 1..Len(h)
            <7>1. Len(trail) - Len(more) + k = Len(trail) - Len(h) - 1 + k
              BY <4>2, <4>7, <5>5
            <7> QED
              BY <4>7, <5>3, <6>2, <7>1
          <6> QED
            BY <4>2, <4>7, <6>1, <6>2
        <5>7. \A k \in 1..Len(kept) :
                kept[k].provenance.revision = trail'[Len(trail') - Len(kept) - 1 + k]
          <6> TAKE k \in 1..Len(kept)
          <6>1. /\ Len(more) - Len(kept) + k \in 1..Len(more)
                /\ Len(trail) - Len(more) + (Len(more) - Len(kept) + k)
                        = Len(trail') - Len(kept) - 1 + k
                /\ Len(trail') - Len(kept) - 1 + k \in 1..Len(trail)
            BY <4>2, <4>7, <4>8, <5>3, <5>5
          <6>2. more[Len(more) - Len(kept) + k].provenance.revision
                    = trail[Len(trail') - Len(kept) - 1 + k]
            BY <5>6, <6>1
          <6> QED
            BY <4>8, <5>5, <6>1, <6>2
        <5>8. Len(kept) < Len(trail')
          BY <4>2, <4>7, <4>8, <5>3, <5>5
        <5>9. r.community.revision = rev
          BY <4>11
        <5> QED
          BY <2>11, <4>11, <5>2, <5>7, <5>8, <5>9 DEF Traced
      <4> QED
        BY <2>8, <4>1, <4>13, <4>16, <4>17 DEF FileInv
    <3> QED
      BY <3>7, <3>8
  <2> QED
    BY <2>12, <2>13
<1> QED
  BY <1>1, <1>2 DEF InstallCommunity

\* Marking keeps what a recipe is; a provenance of the revision is revoked.
LEMMA MarkedIs ==
    ASSUME NEW r \in Recipes, NEW rev
    PROVE  LET m == Marked(r, rev)
           IN /\ m \in Recipes /\ m.id = r.id /\ m.origin = r.origin /\ m.draft = r.draft
              /\ m.tombstoned = r.tombstoned
              /\ r.community = None => m.trust = r.trust /\ m.community = None
              /\ r.community # None =>
                    /\ m.trust = r.trust \/ m.trust = "community-revoked"
                    /\ m.community # None
                    /\ m.community.revision = r.community.revision
                    /\ r.community.revoked \/ r.community.revision = rev => m.community.revoked
              /\ Len(m.history) = Len(r.history)
              /\ \A k \in 1..Len(r.history) :
                    LET e == r.history[k] f == m.history[k]
                    IN /\ f.draft = e.draft /\ f.provenance.revision = e.provenance.revision
                       /\ e.provenance.revoked \/ e.provenance.revision = rev
                            => f.provenance.revoked
<1> DEFINE h == r.history
           trust == IF r.community # None /\ r.community.revision = rev
                    THEN "community-revoked" ELSE r.trust
           community == IF r.community # None /\ r.community.revision = rev
                        THEN [r.community EXCEPT !.revoked = TRUE] ELSE r.community
           history_ == [k \in DOMAIN h |-> IF h[k].provenance.revision = rev
                            THEN [h[k] EXCEPT !.provenance.revoked = TRUE] ELSE h[k]]
           m == Marked(r, rev)
<1>1. m = [r EXCEPT !.trust = trust, !.community = community, !.history = history_]
  BY DEF Marked
<1>2. /\ r.community \in Provenances \cup {None} /\ h \in Seq(Entries) /\ Len(h) \in Nat
      /\ DOMAIN h = 1..Len(h) /\ \A k \in 1..Len(h) : h[k] \in Entries
  BY RecipeTypes, LenProperties
<1>3. /\ community \in Provenances \cup {None}
      /\ r.community = None => community = None
      /\ r.community # None =>
            /\ community # None /\ community.revision = r.community.revision
            /\ r.community.revoked \/ r.community.revision = rev => community.revoked
  <2>1. CASE r.community = None
    BY <2>1
  <2>2. CASE r.community # None
    <3>1. r.community \in Provenances
      BY <1>2, <2>2
    <3>2. CASE r.community.revision = rev
      <4>1. /\ community \in Provenances /\ community.revision = r.community.revision
            /\ community.revoked
        BY <2>2, <3>1, <3>2 DEF Provenances
      <4>2. community = [revision |-> rev, revoked |-> TRUE] /\ rev \in Revisions
        BY <2>2, <3>1, <3>2 DEF Provenances
      <4> QED
        BY <2>2, <4>1, <4>2, NoneIsNoProvenance
    <3>3. CASE r.community.revision # rev
      BY <2>2, <3>1, <3>3
    <3> QED
      BY <3>2, <3>3
  <2> QED
    BY <2>1, <2>2
<1>4. /\ history_ \in Seq(Entries) /\ Len(history_) = Len(h)
      /\ \A k \in 1..Len(h) :
            /\ history_[k].draft = h[k].draft
            /\ history_[k].provenance.revision = h[k].provenance.revision
            /\ h[k].provenance.revoked \/ h[k].provenance.revision = rev
                    => history_[k].provenance.revoked
  <2>1. ASSUME NEW k \in 1..Len(h)
        PROVE  /\ history_[k] \in Entries
               /\ history_[k].draft = h[k].draft
               /\ history_[k].provenance.revision = h[k].provenance.revision
               /\ h[k].provenance.revoked \/ h[k].provenance.revision = rev
                    => history_[k].provenance.revoked
    <3>1. h[k] \in Entries
      BY <1>2
    <3>2. history_[k] = IF h[k].provenance.revision = rev
                        THEN [h[k] EXCEPT !.provenance.revoked = TRUE] ELSE h[k]
      BY <1>2
    <3> DEFINE e == h[k]
               f == history_[k]
    <3> HIDE DEF h, history_, e, f
    <3>3. e \in Entries /\ e.provenance \in Provenances /\ e.draft \in AllDrafts
      BY <3>1 DEF Entries, e
    <3>4. CASE e.provenance.revision = rev
      <4>1. f = [e EXCEPT !.provenance.revoked = TRUE]
        BY <3>2, <3>4 DEF e, f
      <4>2. f.draft = e.draft /\ f.provenance = [e.provenance EXCEPT !.revoked = TRUE]
            /\ f = [draft |-> e.draft, provenance |-> f.provenance]
        BY <3>3, <4>1 DEF Entries
      <4>3. /\ f.provenance \in Provenances /\ f.provenance.revoked
            /\ f.provenance.revision = e.provenance.revision
        BY <3>3, <4>2 DEF Provenances
      <4>4. f \in Entries
        BY <3>3, <4>2, <4>3 DEF Entries
      <4> QED
        BY <4>2, <4>3, <4>4 DEF e, f
    <3>5. CASE e.provenance.revision # rev
      BY <3>2, <3>3, <3>5 DEF e, f
    <3> QED
      BY <3>4, <3>5
  <2>2. history_ \in [1..Len(h) -> Entries]
    BY <1>2, <2>1
  <2>3. history_ \in Seq(Entries) /\ Len(history_) = Len(h)
    BY <1>2, <2>2
  <2> QED
    BY <2>1, <2>3
<1>5. /\ trust \in {"local-custom", "reviewed-import", "community-signed", "community-revoked"}
      /\ r.community = None => trust = r.trust
      /\ trust = r.trust \/ trust = "community-revoked"
  BY DEF Recipes
<1> HIDE DEF trust, community, history_
<1>6. /\ m \in Recipes /\ m.id = r.id /\ m.origin = r.origin /\ m.draft = r.draft
      /\ m.tombstoned = r.tombstoned
      /\ m.trust = trust /\ m.community = community /\ m.history = history_
  BY <1>1, <1>3, <1>4, <1>5 DEF Recipes
<1> HIDE DEF m
<1>7. /\ r.community = None => m.trust = r.trust /\ m.community = None
      /\ r.community # None =>
            /\ m.trust = r.trust \/ m.trust = "community-revoked"
            /\ m.community # None
            /\ m.community.revision = r.community.revision
            /\ r.community.revoked \/ r.community.revision = rev => m.community.revoked
  BY <1>3, <1>5, <1>6
<1>8. /\ Len(m.history) = Len(r.history)
      /\ \A k \in 1..Len(r.history) :
            /\ m.history[k].draft = r.history[k].draft
            /\ m.history[k].provenance.revision = r.history[k].provenance.revision
            /\ r.history[k].provenance.revoked \/ r.history[k].provenance.revision = rev
                    => m.history[k].provenance.revoked
  BY <1>4, <1>6
<1> QED
  BY <1>6, <1>7, <1>8 DEF m

\* What is on record of a recipe is on record once a revision is marked in it.
LEMMA MarkedOnRecord ==
    ASSUME NEW r \in Recipes, NEW rev, NEW marked, NEW pristine, NEW edition,
           OnRecord(r, marked, pristine, edition)
    PROVE  OnRecord(Marked(r, rev), marked \cup {rev}, pristine, edition)
<1> DEFINE m == Marked(r, rev)
<1>1. /\ m \in Recipes /\ m.id = r.id /\ m.origin = r.origin /\ m.draft = r.draft
      /\ r.community = None => m.trust = r.trust /\ m.community = None
      /\ r.community # None =>
            /\ m.trust = r.trust \/ m.trust = "community-revoked"
            /\ m.community # None
            /\ m.community.revision = r.community.revision
            /\ r.community.revoked \/ r.community.revision = rev => m.community.revoked
      /\ Len(m.history) = Len(r.history)
      /\ \A k \in 1..Len(r.history) :
            /\ m.history[k].draft = r.history[k].draft
            /\ m.history[k].provenance.revision = r.history[k].provenance.revision
            /\ r.history[k].provenance.revoked \/ r.history[k].provenance.revision = rev
                    => m.history[k].provenance.revoked
  BY MarkedIs
<1> HIDE DEF m
<1>2. m.community # None =>
        m.id = Community /\ Vouched(m.draft, m.community, marked \cup {rev})
  BY <1>1 DEF OnRecord, Vouched
<1>3. \A k \in 1..Len(m.history) :
        Vouched(m.history[k].draft, m.history[k].provenance, marked \cup {rev})
  <2> TAKE k \in 1..Len(m.history)
  <2>1. k \in 1..Len(r.history)
    BY <1>1
  <2>2. Vouched(r.history[k].draft, r.history[k].provenance, marked)
    BY <2>1 DEF OnRecord
  <2> QED
    BY <1>1, <2>1, <2>2 DEF Vouched
<1>4. m.trust = "reviewed-import" => AsImported(m, pristine, edition)
  BY <1>1 DEF OnRecord, AsImported
<1>5. m.id = Imported /\ pristine => m.trust = "reviewed-import"
  BY <1>1 DEF OnRecord, AsImported
<1> QED
  BY <1>2, <1>3, <1>4, <1>5 DEF OnRecord, m

\* A check marks the revision wherever a recipe or its history carries it.
LEMMA MarkKeeps ==
    ASSUME LibraryTypes, FileInv, NEW q \in Requests, MarkCommunityRevoked(q)
    PROVE  FileInv'
<1> DEFINE rest == request[q].feed
           rev == Head(rest).revision
           found == \E i \in DOMAIN library : Carries(library[i], rev)
           new == [i \in DOMAIN library |-> Marked(Loaded[i], rev)]
<1>1. CASE Only(q, None)
  BY <1>1, NothingSaved DEF Only, Goes, history
<1>2. CASE Goes(q, None) /\ SaveFails
  BY <1>2, NothingSaved DEF SaveFails, Goes, history
<1>3. CASE /\ Goes(q, IF Len(rest) = 1 THEN None
                      ELSE [request[q] EXCEPT !.feed = Tail(rest)])
           /\ Saves(IF found THEN new ELSE library)
           /\ seen' = seen \cup {rev} /\ late' = late \ {rev}
           /\ UNCHANGED <<asked, trail, untouched, crossed>>
  <2>1. /\ DOMAIN library = 1..Len(library) /\ Len(library) \in Nat
        /\ Len(Loaded) = Len(library)
        /\ \A j \in 1..Len(library) : library[j] \in Recipes /\ Loaded[j] \in Recipes
    BY LoadedIs, ElementOfSeq
  <2> HIDE DEF rev
  <2>2. /\ package' = package /\ tombstones' = tombstones
        /\ seen' \ late' = (seen \ late) \cup {rev}
    BY <1>3 DEF Goes
  <2>3. CASE ~found
    <3>1. library' = library
      BY <1>3, <2>3 DEF Saves
    <3>2. Filed(library, (seen \ late) \cup {rev}, untouched, package)
      <4> SUFFICES ASSUME NEW i \in 1..Len(library)
                   PROVE  OnRecord(library[i], (seen \ late) \cup {rev}, untouched, package)
        BY DEF FileInv, Filed
      <4>1. OnRecord(library[i], seen \ late, untouched, package)
        BY DEF FileInv, Filed
      <4>2. /\ library[i].community # None => library[i].community.revision # rev
            /\ \A k \in DOMAIN library[i].history :
                    library[i].history[k].provenance.revision # rev
        BY <2>1, <2>3 DEF Carries
      <4>3. DOMAIN library[i].history = 1..Len(library[i].history)
        BY <2>1, RecipeTypes, LenProperties
      <4>4. library[i].community # None => library[i].id = Community
                /\ Vouched(library[i].draft, library[i].community, (seen \ late) \cup {rev})
        BY <4>1, <4>2 DEF OnRecord, Vouched
      <4>5. \A k \in 1..Len(library[i].history) :
                Vouched(library[i].history[k].draft, library[i].history[k].provenance,
                        (seen \ late) \cup {rev})
        BY <4>1, <4>2, <4>3 DEF OnRecord, Vouched
      <4> QED
        BY <4>1, <4>4, <4>5 DEF OnRecord
    <3> QED
      BY <1>3, <2>2, <3>1, <3>2 DEF FileInv
  <2>4. CASE found
    <3>1. library' = new
      BY <1>3, <2>4 DEF Saves
    <3>2. /\ new \in [1..Len(Loaded) -> Recipes]
          /\ \A i \in 1..Len(Loaded) : new[i] = Marked(Loaded[i], rev)
      <4>1. \A i \in 1..Len(Loaded) : Marked(Loaded[i], rev) \in Recipes
        BY <2>1, MarkedIs
      <4> QED
        BY <2>1, <4>1
    <3>3. new \in Seq(Recipes) /\ Len(new) = Len(Loaded)
      BY <2>1, <3>2
    <3> HIDE DEF new
    <3>4. \A i \in 1..Len(Loaded) :
            /\ Loaded[i] \in Recipes
            /\ new[i].id = Loaded[i].id /\ new[i].tombstoned = Loaded[i].tombstoned
            /\ OnRecord(new[i], (seen \ late) \cup {rev}, untouched, package)
      <4> TAKE i \in 1..Len(Loaded)
      <4>1. OnRecord(Loaded[i], seen \ late, untouched, package)
        BY LoadedKeeps DEF Filed
      <4> QED
        BY <2>1, <3>2, <4>1, MarkedIs, MarkedOnRecord
    <3>5. Filed(new, (seen \ late) \cup {rev}, untouched, package)
      BY <3>3, <3>4 DEF Filed
    <3>6. SameIds(new, Loaded)
      BY <3>3, <3>4, LoadedKeeps DEF SameIds
    <3>7. AllPlaced(new, asked, tombstones, crossed)
      <4>1. \A i \in 1..Len(Loaded) : new[i].id \notin crossed =>
                (new[i].tombstoned <=> new[i].id \in tombstones)
        <5> TAKE i \in 1..Len(Loaded)
        <5>1. Placed(Loaded, Loaded[i].id, asked, tombstones, crossed)
          BY <3>4, LoadedKeeps DEF AllPlaced, Recipes
        <5> QED
          BY <3>4, <5>1 DEF Placed
      <4> QED
        BY <3>6, <4>1, LoadedKeeps, PlacedBySameIds
    <3>8. AllTraced(new, trail, crossed)
      <4> SUFFICES ASSUME Community \notin crossed, NEW i \in 1..Len(Loaded),
                          new[i].community # None
                   PROVE  Traced(new[i], trail)
        BY <3>3 DEF AllTraced
      <4>1. /\ Loaded[i].community # None
            /\ new[i].community.revision = Loaded[i].community.revision
            /\ Len(new[i].history) = Len(Loaded[i].history)
            /\ \A k \in 1..Len(Loaded[i].history) :
                new[i].history[k].provenance.revision
                    = Loaded[i].history[k].provenance.revision
        BY <3>2, <3>4, MarkedIs
      <4>2. Traced(Loaded[i], trail)
        BY <4>1, LoadedKeeps DEF AllTraced
      <4> QED
        BY <4>1, <4>2 DEF Traced
    <3> QED
      BY <1>3, <2>2, <3>1, <3>5, <3>7, <3>8 DEF FileInv
  <2> QED
    BY <2>3, <2>4
<1> QED
  BY <1>1, <1>2, <1>3 DEF MarkCommunityRevoked

\* The next package knows what this one knows and its own, or its own alone.
LEMMA RestartIs ==
    ASSUME LibraryTypes, Restart
    PROVE  /\ package' \in Packages /\ package.edition \in Nat /\ package.base \in Nat
           /\ package'.edition = package.edition + 1
           /\ \/ package'.base = package.base /\ untouched' = untouched
              \/ package'.base = package.edition + 1 /\ untouched' = FALSE
           /\ UNCHANGED <<library, tombstones, asked, trail, seen, late, crossed>>
<1>1. package \in Packages /\ package.edition + 1 \in Nat
  BY DEF LibraryTypes, Packages
<1>2. CASE /\ package' = [package EXCEPT !.edition = package.edition + 1]
           /\ UNCHANGED untouched
  <2>1. /\ package'.edition = package.edition + 1 /\ package'.base = package.base
        /\ package' \in [edition : Nat, base : Nat]
    BY <1>1, <1>2 DEF Packages
  <2> QED
    BY <1>1, <1>2, <2>1 DEF Restart, Packages
<1>3. CASE /\ package' = [edition |-> package.edition + 1, base |-> package.edition + 1]
           /\ untouched' = FALSE
  BY <1>1, <1>3 DEF Restart, Packages
<1> QED
  BY <1>2, <1>3 DEF Restart

\* With a newer package an import as it came is of an older edition, which the
\* package knows unless it pins the profile anew.
LEMMA RestartKeeps ==
    ASSUME LibraryTypes, FileInv, Restart
    PROVE  FileInv'
<1>1. Filed(library, seen \ late, untouched', package')
  <2> SUFFICES ASSUME NEW i \in 1..Len(library)
               PROVE  OnRecord(library[i], seen \ late, untouched', package')
    BY DEF FileInv, Filed
  <2>1. OnRecord(library[i], seen \ late, untouched, package)
    BY DEF FileInv, Filed
  <2>2. untouched \in BOOLEAN
    BY DEF LibraryTypes
  <2>3. library[i].trust = "reviewed-import" => AsImported(library[i], untouched', package')
    <3> SUFFICES ASSUME AsImported(library[i], untouched, package)
                 PROVE  AsImported(library[i], untouched', package')
      BY <2>1 DEF OnRecord
    <3>1. PICK e \in Nat : /\ e <= package.edition /\ library[i].draft = Profile(e)
                           /\ IF untouched THEN package.base <= e ELSE e < package.base
      BY DEF AsImported
    <3>2. CASE package'.base = package.base /\ untouched' = untouched
      BY <2>2, <3>1, <3>2, RestartIs DEF AsImported
    <3>3. CASE package'.base = package.edition + 1 /\ untouched' = FALSE
      BY <3>1, <3>3, RestartIs DEF AsImported
    <3> QED
      BY <3>2, <3>3, RestartIs
  <2>4. library[i].id = Imported /\ untouched' => library[i].trust = "reviewed-import"
    BY <2>1, RestartIs DEF OnRecord
  <2> QED
    BY <2>1, <2>3, <2>4 DEF OnRecord
<1> QED
  BY <1>1, RestartIs DEF FileInv

-----------------------------------------------------------------------------
(* The types, the requests, and a step *)

\* The trail may be over when there is still something to roll back: the store
\* held the recipe twice.  What is left of it then is nothing.
LEMMA FrontOfNothing ==
    Front(<<>>) = <<>>
<1>1. Front(<<>>) = SubSeq(<<>>, 1, 0 - 1)
  BY EmptySeq DEF Front
<1>2. SubSeq(<<>>, 1, 0 - 1) = <<>>
  BY SubSeqEmpty
<1> QED
  BY <1>1, <1>2

\* Calls of the user that write the file.
LEMMA CallTypes ==
    ASSUME LibraryTypes, library' \in Seq(Recipes),
           \/ \E d \in Drafts : Create(d) \/ \E id \in Ids : Update(id, d)
           \/ Import \/ RollbackCommunity
           \/ \E id \in Ids : Delete(id)
    PROVE  LibraryTypes'
<1>1. {Local, Imported, Community} \subseteq Ids /\ <<>> \in Seq(Revisions)
  BY EmptySeq DEF Ids
<1>2. Calls => calls' \in Nat
  BY DEF Calls, LibraryTypes
<1>3. /\ SaveFails => fails' \in Nat /\ UNCHANGED history
      /\ \A recipes : Saves(recipes) => fails' \in Nat
  BY DEF SaveFails, Saves, LibraryTypes
<1>4. UNCHANGED history =>
        /\ asked' \subseteq Ids /\ trail' \in Seq(Revisions) /\ untouched' \in BOOLEAN
        /\ seen' \subseteq Revisions /\ late' \subseteq Revisions
        /\ crossed' \subseteq {Community}
  BY DEF history, LibraryTypes
<1>5. ASSUME /\ Calls /\ fails' \in Nat
             /\ tombstones' \subseteq Ids /\ due' \subseteq Ids
             /\ asked' \subseteq Ids /\ trail' \in Seq(Revisions) /\ untouched' \in BOOLEAN
             /\ UNCHANGED <<seen, late, crossed>> \/ UNCHANGED history
             /\ UNCHANGED <<work, package, feed, request, upgrades>>
      PROVE  LibraryTypes'
  BY <1>2, <1>4, <1>5 DEF LibraryTypes
<1>6. ASSUME Elsewhere
      PROVE  /\ tombstones' \subseteq Ids /\ due' \subseteq Ids
             /\ UNCHANGED <<work, package, feed, request, upgrades>>
  BY <1>6 DEF Elsewhere, LibraryTypes
<1>7. ASSUME NEW d \in Drafts, Create(d) PROVE LibraryTypes'
  <2>1. /\ Calls /\ Elsewhere /\ fails' \in Nat
        /\ UNCHANGED <<seen, late, crossed>> \/ UNCHANGED history
    BY <1>3, <1>7 DEF Create
  <2>2. asked' \subseteq Ids /\ trail' \in Seq(Revisions) /\ untouched' \in BOOLEAN
    BY <1>1, <1>3, <1>4, <1>7 DEF Create, LibraryTypes
  <2> QED
    BY <1>5, <1>6, <2>1, <2>2
<1>8. ASSUME NEW d \in Drafts, NEW id \in Ids, Update(id, d) PROVE LibraryTypes'
  <2>1. /\ Calls /\ Elsewhere /\ fails' \in Nat
        /\ UNCHANGED <<seen, late, crossed>> \/ UNCHANGED history
    BY <1>3, <1>8 DEF Update
  <2>2. asked' \subseteq Ids /\ trail' \in Seq(Revisions) /\ untouched' \in BOOLEAN
    BY <1>1, <1>3, <1>4, <1>8 DEF Update, LibraryTypes
  <2> QED
    BY <1>5, <1>6, <2>1, <2>2
<1>9. CASE Import
  <2>1. /\ Calls /\ Elsewhere /\ fails' \in Nat
        /\ UNCHANGED <<seen, late, crossed>> \/ UNCHANGED history
    BY <1>3, <1>9 DEF Import
  <2>2. asked' \subseteq Ids /\ trail' \in Seq(Revisions) /\ untouched' \in BOOLEAN
    BY <1>1, <1>3, <1>4, <1>9 DEF Import, LibraryTypes
  <2> QED
    BY <1>5, <1>6, <2>1, <2>2
<1>10. CASE RollbackCommunity
  <2>1. Front(trail) \in Seq(Revisions)
    <3>1. trail \in Seq(Revisions)
      BY DEF LibraryTypes
    <3>2. CASE trail = <<>>
      BY <1>1, <3>2, FrontOfNothing
    <3>3. CASE trail # <<>>
      BY <3>1, <3>3, FrontAndLast
    <3> QED
      BY <3>2, <3>3
  <2>2. /\ Calls /\ Elsewhere /\ fails' \in Nat
        /\ UNCHANGED <<seen, late, crossed>> \/ UNCHANGED history
    BY <1>3, <1>10 DEF RollbackCommunity
  <2>3. asked' \subseteq Ids /\ trail' \in Seq(Revisions) /\ untouched' \in BOOLEAN
    BY <1>3, <1>4, <1>10, <2>1 DEF RollbackCommunity, LibraryTypes
  <2> QED
    BY <1>5, <1>6, <2>2, <2>3
<1>11. ASSUME NEW id \in Ids, Delete(id) PROVE LibraryTypes'
  <2>1. /\ Calls /\ fails' \in Nat
        /\ UNCHANGED <<seen, late, crossed>> \/ UNCHANGED history
        /\ UNCHANGED <<work, package, feed, request, upgrades>>
    BY <1>3, <1>11 DEF Delete
  <2>2. asked' \subseteq Ids /\ trail' \in Seq(Revisions) /\ untouched' \in BOOLEAN
    BY <1>3, <1>4, <1>11 DEF Delete, LibraryTypes
  <2>3. tombstones' \subseteq Ids /\ due' \subseteq Ids
    BY <1>11 DEF Delete, LibraryTypes
  <2> QED
    BY <1>5, <2>1, <2>2, <2>3
<1> QED
  BY <1>7, <1>8, <1>9, <1>10, <1>11

\* Operations and what becomes of a deletion.
LEMMA OperationTypes ==
    ASSUME LibraryTypes, library' \in Seq(Recipes),
           \E id \in Ids :
                \/ FinalizeTombstone(id) \/ Begin(id, "checking") \/ Begin(id, "starting")
                \/ Stop(id) \/ SwitchAway(id) \/ OperationSucceeds(id) \/ OperationFails(id)
    PROVE  LibraryTypes'
<1>1. PICK id \in Ids :
        \/ FinalizeTombstone(id) \/ Begin(id, "checking") \/ Begin(id, "starting")
        \/ Stop(id) \/ SwitchAway(id) \/ OperationSucceeds(id) \/ OperationFails(id)
  OBVIOUS
<1> DEFINE Kinds == {"none", "checking", "starting", "active", "stopping", "closing",
                     "stranded", "recovering"}
<1>2. \A kind \in Kinds : [work EXCEPT ![id] = kind] \in [Ids -> Kinds]
  BY DEF LibraryTypes
<1>3. ASSUME work' \in [Ids -> Kinds], due' \subseteq Ids, calls' \in Nat,
             UNCHANGED <<tombstones, package, feed, request, history, fails, upgrades>>
      PROVE  LibraryTypes'
  BY <1>3 DEF LibraryTypes, history
<1>4. CASE FinalizeTombstone(id)
  <2>1. /\ due' \subseteq Ids /\ tombstones' \subseteq Ids
        /\ UNCHANGED <<work, package, feed, request, calls, upgrades>>
    BY <1>4 DEF FinalizeTombstone, LibraryTypes, SaveFails
  <2>2. <<>> \in Seq(Revisions)
    BY EmptySeq
  <2>3. /\ fails' \in Nat
        /\ asked' \subseteq Ids /\ trail' \in Seq(Revisions) /\ untouched' \in BOOLEAN
        /\ seen' \subseteq Revisions /\ late' \subseteq Revisions
        /\ crossed' \subseteq {Community}
    <3>1. CASE SaveFails \/ UNCHANGED <<fails, history>>
      BY <3>1 DEF SaveFails, history, LibraryTypes
    <3>2. CASE /\ Saves(Without(Loaded, id))
               /\ trail' = IF id = Community THEN <<>> ELSE trail
               /\ untouched' = (untouched /\ id # Imported)
               /\ crossed' = crossed \ {id}
               /\ UNCHANGED <<asked, seen, late>>
      BY <2>2, <3>2 DEF Saves, LibraryTypes
    <3> QED
      BY <1>4, <3>1, <3>2 DEF FinalizeTombstone
  <2> QED
    BY <2>1, <2>3 DEF LibraryTypes
<1>5. CASE Begin(id, "checking") \/ Begin(id, "starting")
  <2>1. "checking" \in Kinds /\ "starting" \in Kinds
    OBVIOUS
  <2> HIDE DEF Kinds
  <2>2. work' \in [Ids -> Kinds]
    BY <1>2, <1>5, <2>1 DEF Begin
  <2>3. due' \subseteq Ids /\ calls' \in Nat
    BY <1>5 DEF Begin, Calls, LibraryTypes
  <2>4. UNCHANGED <<tombstones, package, feed, request, history, fails, upgrades>>
    BY <1>5 DEF Begin
  <2> QED
    BY <1>3, <2>2, <2>3, <2>4
<1>6. ASSUME NEW kind \in Kinds, work' = [work EXCEPT ![id] = kind],
             due' = due \/ due' = due \cup {id}, UNCHANGED bounds,
             UNCHANGED <<tombstones, package, feed, request, history>>
      PROVE  LibraryTypes'
  <2>1. work' \in [Ids -> Kinds]
    BY <1>2, <1>6
  <2>2. due' \subseteq Ids /\ calls' \in Nat
    BY <1>6 DEF LibraryTypes, bounds
  <2> QED
    BY <1>3, <1>6, <2>1, <2>2 DEF bounds
<1>7. CASE Stop(id)
  BY <1>6, <1>7 DEF Stop
<1>8. CASE SwitchAway(id)
  BY <1>6, <1>8 DEF SwitchAway
<1>9. CASE OperationSucceeds(id)
  <2> DEFINE kind == CASE work[id] = "starting" -> "active"
                       [] work[id] = "stopping" -> "closing"
                       [] OTHER -> "none"
  <2>1. kind \in Kinds
    BY <1>9 DEF OperationSucceeds
  <2>2. work' = [work EXCEPT ![id] = kind]
    BY <1>9 DEF OperationSucceeds
  <2> HIDE DEF kind
  <2> QED
    BY <1>6, <1>9, <2>1, <2>2 DEF OperationSucceeds
<1>10. CASE OperationFails(id)
  <2> DEFINE kind == IF work[id] = "stopping" THEN "active" ELSE "none"
  <2>1. kind \in Kinds
    OBVIOUS
  <2>2. work' = [work EXCEPT ![id] = kind]
    BY <1>10 DEF OperationFails
  <2> HIDE DEF kind
  <2> QED
    BY <1>6, <1>10, <2>1, <2>2 DEF OperationFails
<1> QED
  BY <1>1, <1>4, <1>5, <1>7, <1>8, <1>9, <1>10

\* A request of the service that is under way, and where it stands.
RequestTypes(q, next) ==
    /\ next \in Installs \cup Syncs \cup {None}
    /\ next # None =>
        /\ next.step \in {"verified", "checked"} => Admissible(next.revision)
        /\ next.step = "checked" => next.clean
        /\ next.step = "marking" => next.feed # <<>>

\* A step of one request leaves the other requests as they are.
LEMMA GoesKeeps ==
    ASSUME LibraryTypes, RequestsKept, NEW q \in Requests, NEW next, Goes(q, next),
           RequestTypes(q, next)
    PROVE  /\ request' \in [Requests -> Installs \cup Syncs \cup {None}]
           /\ RequestsKept'
<1>1. request' = [request EXCEPT ![q] = next]
  BY DEF Goes
<1>2. \A p \in Requests : request'[p] = IF p = q THEN next ELSE request[p]
  BY <1>1 DEF LibraryTypes
<1>3. request' \in [Requests -> Installs \cup Syncs \cup {None}]
  BY <1>1 DEF LibraryTypes, RequestTypes
<1>4. ASSUME NEW p \in Requests, request'[p] # None
      PROVE  /\ request'[p].step \in {"verified", "checked"} => Admissible(request'[p].revision)
             /\ request'[p].step = "checked" => request'[p].clean
             /\ request'[p].step = "marking" => request'[p].feed # <<>>
  <2>1. CASE p = q
    BY <1>2, <1>4, <2>1 DEF RequestTypes
  <2>2. CASE p # q
    BY <1>2, <1>4, <2>2 DEF RequestsKept
  <2> QED
    BY <2>1, <2>2
<1> QED
  BY <1>3, <1>4 DEF RequestsKept

\* The requests are as they are in every step that is not one of theirs.
LEMMA RequestsStay ==
    ASSUME RequestsKept, request' = request
    PROVE  RequestsKept'
BY DEF RequestsKept, Admissible, Authentic, Constrained, Parses

\* The steps of the requests.
LEMMA RequestSteps ==
    ASSUME LibraryTypes, RequestsKept, library' \in Seq(Recipes), NEW q \in Requests,
           \/ \E rev \in Revisions : RequestInstall(q, rev)
           \/ ChecksFeed(q) \/ InstallCommunity(q)
           \/ CheckRevocations(q) \/ MarkCommunityRevoked(q) \/ Drops(q)
    PROVE  LibraryTypes' /\ RequestsKept'
<1> USE DEF LibraryTypes
<1>1. ASSUME NEW rev \in Revisions, RequestInstall(q, rev)
      PROVE  LibraryTypes' /\ RequestsKept'
  <2> DEFINE next == [kind |-> "install", revision |-> rev, step |-> "verified",
                      clean |-> FALSE]
  <2>1. RequestTypes(q, next)
    BY <1>1 DEF RequestTypes, RequestInstall, Installs
  <2>2. Goes(q, next)
    BY <1>1 DEF RequestInstall, Only
  <2> HIDE DEF next
  <2>3. request' \in [Requests -> Installs \cup Syncs \cup {None}] /\ RequestsKept'
    BY <2>1, <2>2, GoesKeeps
  <2> QED
    BY <1>1, <2>3 DEF RequestInstall, Calls, Only, Goes, history
<1>2. RequestTypes(q, None)
  BY DEF RequestTypes
<1>3. CASE ChecksFeed(q)
  <2>1. request[q] \in Installs /\ Admissible(request[q].revision)
    <3>1. request[q] # None /\ request[q].step = "verified"
      BY <1>3 DEF ChecksFeed
    <3> QED
      BY <3>1 DEF Syncs, RequestsKept
  <2> DEFINE clean == \A i \in DOMAIN feed : feed[i].revision # request[q].revision
             next == [request[q] EXCEPT !.step = "checked", !.clean = clean]
  <2>2. CASE NotRevoked(request[q].revision)
    <3>1. Goes(q, next)
      BY <1>3, <2>2 DEF ChecksFeed, Only
    <3>2. clean
      BY <2>2 DEF NotRevoked
    <3>3. clean = TRUE
      BY <3>2
    <3> HIDE DEF clean
    <3>4. RequestTypes(q, next)
      BY <2>1, <3>3 DEF RequestTypes, Installs
    <3> HIDE DEF next
    <3>5. request' \in [Requests -> Installs \cup Syncs \cup {None}] /\ RequestsKept'
      BY <3>1, <3>4, GoesKeeps
    <3> QED
      BY <1>3, <3>1, <3>5 DEF ChecksFeed, Only, Goes, history
  <2>3. CASE ~NotRevoked(request[q].revision)
    <3>1. Goes(q, None)
      BY <1>3, <2>3 DEF ChecksFeed, Only
    <3>2. request' \in [Requests -> Installs \cup Syncs \cup {None}] /\ RequestsKept'
      BY <1>2, <3>1, GoesKeeps
    <3> QED
      BY <1>3, <3>1, <3>2 DEF ChecksFeed, Only, Goes, history
  <2> QED
    BY <2>2, <2>3
<1>4. CASE InstallCommunity(q)
  <2>1. Goes(q, None)
    BY <1>4 DEF InstallCommunity
  <2>2. request' \in [Requests -> Installs \cup Syncs \cup {None}] /\ RequestsKept'
    BY <1>2, <2>1, GoesKeeps
  <2>3. request[q].revision \in Revisions
    <3>1. request[q] # None /\ request[q].step = "checked"
      BY <1>4 DEF InstallCommunity
    <3> QED
      BY <3>1 DEF Syncs, Installs
  <2>4. Append(trail, request[q].revision) \in Seq(Revisions)
    BY <2>3, AppendProperties
  <2>5. /\ crossed' \subseteq {Community} /\ late' \subseteq Revisions
        /\ trail' \in Seq(Revisions) /\ asked' \subseteq Ids
    BY <1>4, <2>3, <2>4 DEF InstallCommunity, SaveFails, history, Ids
  <2> QED
    BY <1>4, <2>1, <2>2, <2>5 DEF InstallCommunity, Saves, SaveFails, Goes, history
<1>5. CASE CheckRevocations(q)
  <2> DEFINE next == [kind |-> "sync", feed |-> feed, step |-> "marking"]
  <2>1. RequestTypes(q, next)
    BY <1>5 DEF RequestTypes, CheckRevocations, Syncs
  <2>2. Goes(q, next)
    BY <1>5 DEF CheckRevocations, Only
  <2> HIDE DEF next
  <2>3. request' \in [Requests -> Installs \cup Syncs \cup {None}] /\ RequestsKept'
    BY <2>1, <2>2, GoesKeeps
  <2> QED
    BY <1>5, <2>3 DEF CheckRevocations, Calls, Only, Goes, history
<1>6. CASE MarkCommunityRevoked(q)
  <2> DEFINE rest == request[q].feed
             next == IF Len(rest) = 1 THEN None ELSE [request[q] EXCEPT !.feed = Tail(rest)]
  <2>1. request[q] \in Syncs /\ rest # <<>>
    <3>1. request[q] # None /\ request[q].step = "marking"
      BY <1>6 DEF MarkCommunityRevoked
    <3> QED
      BY <3>1 DEF Installs, RequestsKept
  <2>2. rest \in Seq(Revocations) /\ Len(rest) \in Nat \ {0} /\ Head(rest) \in Revocations
    BY <2>1, EmptySeq, HeadTailProperties DEF Syncs
  <2>3. Head(rest).revision \in Revisions
    BY <2>2 DEF Revocations
  <2>4. RequestTypes(q, next)
    <3>1. CASE Len(rest) = 1
      BY <1>2, <3>1
    <3>2. CASE Len(rest) # 1
      <4>1. Tail(rest) \in Seq(Revocations) /\ Len(Tail(rest)) = Len(rest) - 1
        BY <2>1, <2>2, HeadTailProperties
      <4>2. Tail(rest) # <<>>
        <5>1. Len(Tail(rest)) # 0
          BY <2>2, <3>2, <4>1
        <5> QED
          BY <4>1, <5>1, EmptySeq
      <4> QED
        BY <2>1, <3>2, <4>1, <4>2 DEF RequestTypes, Syncs
    <3> QED
      BY <3>1, <3>2
  <2>5. Goes(q, None) \/ Goes(q, next)
    BY <1>6 DEF MarkCommunityRevoked, Only
  <2> HIDE DEF next
  <2>6. request' \in [Requests -> Installs \cup Syncs \cup {None}] /\ RequestsKept'
    BY <1>2, <2>4, <2>5, GoesKeeps
  <2>7. /\ seen' \subseteq Revisions /\ late' \subseteq Revisions
        /\ fails' \in Nat /\ calls' = calls
        /\ UNCHANGED <<asked, trail, untouched, crossed>>
    BY <1>6, <2>3 DEF MarkCommunityRevoked, Only, Saves, SaveFails, history
  <2>8. UNCHANGED <<tombstones, work, due, package, feed, upgrades>>
    BY <2>5 DEF Goes
  <2> QED
    BY <2>6, <2>7, <2>8
<1>7. CASE Drops(q)
  <2>1. Goes(q, None)
    BY <1>7 DEF Drops, Only
  <2>2. request' \in [Requests -> Installs \cup Syncs \cup {None}] /\ RequestsKept'
    BY <1>2, <2>1, GoesKeeps
  <2> QED
    BY <1>7, <2>1, <2>2 DEF Drops, Only, Goes, history
<1> QED
  BY <1>1, <1>3, <1>4, <1>5, <1>6, <1>7

\* A revocation is published.
LEMMA PublishTypes ==
    ASSUME LibraryTypes, NEW rev \in Revisions, NEW known \in BOOLEAN, Publish(rev, known)
    PROVE  LibraryTypes'
<1> DEFINE entry == [revision |-> rev, known |-> known]
<1>1. entry \in Revocations
  BY DEF Revocations
<1>2. feed' \in {Append(feed, entry), <<entry>> \o feed}
  BY DEF Publish
<1>3. UNCHANGED <<library, tombstones, work, due, package, request, history, bounds>>
  BY DEF Publish
<1> HIDE DEF entry
<1>4. feed \in Seq(Revocations)
  BY DEF LibraryTypes
<1>5. <<entry>> \in Seq(Revocations)
  BY <1>1
<1>6. Append(feed, entry) \in Seq(Revocations) /\ <<entry>> \o feed \in Seq(Revocations)
  BY <1>1, <1>4, <1>5, AppendProperties, ConcatProperties
<1>7. feed' \in Seq(Revocations)
  BY <1>2, <1>6
<1> QED
  BY <1>3, <1>7 DEF LibraryTypes, history, bounds

\* The daemon is updated.
LEMMA RestartTypes ==
    ASSUME LibraryTypes, Restart
    PROVE  LibraryTypes' /\ RequestsKept'
<1>1. request' = [q \in Requests |-> None]
  BY DEF Restart
<1>2. work' \in [Ids -> {"none", "checking", "starting", "active", "stopping", "closing",
                         "stranded", "recovering"}]
  BY DEF Restart, LibraryTypes
<1>3. upgrades' \in Nat /\ due' \subseteq Ids
  BY DEF Restart, LibraryTypes
<1>4. /\ UNCHANGED <<library, tombstones, feed, asked, trail, seen, late, crossed, calls, fails>>
      /\ package' \in Packages /\ untouched' \in BOOLEAN
  BY RestartIs DEF Restart, LibraryTypes
<1>5. request' \in [Requests -> Installs \cup Syncs \cup {None}]
  BY <1>1
<1>6. RequestsKept'
  BY <1>1 DEF RequestsKept
<1> QED
  BY <1>2, <1>3, <1>4, <1>5, <1>6 DEF LibraryTypes, history

\* Nothing is on file at first.
LEMMA InvInit == Init => Inv
<1> SUFFICES ASSUME Init PROVE Inv
  OBVIOUS
<1>1. library = <<>> /\ Len(library) = 0 /\ 1..Len(library) = {}
  <2>1. Len(<<>>) = 0 /\ 1..0 = {}
    BY EmptySeq
  <2> QED
    BY <2>1 DEF Init
<1>2. /\ <<>> \in Seq(Recipes) /\ <<>> \in Seq(Revocations) /\ <<>> \in Seq(Revisions)
  BY EmptySeq
<1>3. LibraryTypes
  <2>1. package \in Packages
    BY DEF Init, Packages
  <2> QED
    BY <1>2, <2>1 DEF Init, LibraryTypes
<1>4. Filed(library, seen \ late, untouched, package)
  BY <1>1, <1>2 DEF Filed
<1>5. AllPlaced(library, asked, tombstones, crossed)
  BY <1>1 DEF Init, AllPlaced, Placed, There, Alone
<1>6. AllTraced(library, trail, crossed)
  BY <1>1 DEF AllTraced
<1>7. RequestsKept
  BY DEF Init, RequestsKept
<1> QED
  BY <1>3, <1>4, <1>5, <1>6, <1>7 DEF Inv, FileInv

\* Every step keeps what is on file.
LEMMA FileInvNext ==
    ASSUME Inv, [Next]_vars
    PROVE  FileInv'
<1>1. LibraryTypes /\ FileInv /\ RequestsKept
  BY DEF Inv
<1>2. ASSUME UNCHANGED <<library, tombstones, package, history>>
      PROVE  FileInv'
  BY <1>1, <1>2, NothingSaved DEF history
<1>3. ASSUME NEW d \in Drafts, Create(d) \/ \E id \in Ids : Update(id, d)
      PROVE  FileInv'
  BY <1>1, <1>3, CreateKeeps, UpdateKeeps
<1>4. CASE Import \/ RollbackCommunity \/ Restart
  BY <1>1, <1>4, ImportKeeps, RollbackKeeps, RestartKeeps
<1>5. ASSUME NEW id \in Ids, Delete(id) \/ FinalizeTombstone(id)
      PROVE  FileInv'
  BY <1>1, <1>5, DeleteKeeps, FinalizeKeeps
<1>6. ASSUME NEW id \in Ids,
             \/ Begin(id, "checking") \/ Begin(id, "starting") \/ Stop(id) \/ SwitchAway(id)
             \/ OperationSucceeds(id) \/ OperationFails(id)
      PROVE  FileInv'
  BY <1>2, <1>6 DEF Begin, Stop, SwitchAway, OperationSucceeds, OperationFails
<1>7. ASSUME NEW rev \in Revisions, NEW known \in BOOLEAN, Publish(rev, known)
      PROVE  FileInv'
  BY <1>2, <1>7 DEF Publish
<1>8. ASSUME NEW q \in Requests, InstallCommunity(q) \/ MarkCommunityRevoked(q)
      PROVE  FileInv'
  BY <1>1, <1>8, InstallKeeps, MarkKeeps
<1>9. ASSUME NEW q \in Requests,
             \/ \E rev \in Revisions : RequestInstall(q, rev)
             \/ ChecksFeed(q) \/ CheckRevocations(q) \/ Drops(q)
      PROVE  FileInv'
  BY <1>2, <1>9 DEF RequestInstall, ChecksFeed, CheckRevocations, Drops, Only, Goes
<1>10. CASE UNCHANGED vars
  BY <1>2, <1>10 DEF vars, history
<1> QED
  BY <1>3, <1>4, <1>5, <1>6, <1>7, <1>8, <1>9, <1>10 DEF Next

\* Every step keeps the types, and what is known of the requests under way.
LEMMA TypesNext ==
    ASSUME Inv, [Next]_vars
    PROVE  LibraryTypes' /\ RequestsKept'
<1>1. LibraryTypes /\ RequestsKept
  BY DEF Inv
<1>2. library' \in Seq(Recipes)
  BY FileInvNext DEF FileInv, Filed
<1>3. ASSUME \/ \E d \in Drafts : Create(d) \/ \E id \in Ids : Update(id, d)
             \/ Import \/ RollbackCommunity
             \/ \E id \in Ids : Delete(id)
      PROVE  LibraryTypes' /\ RequestsKept'
  <2>1. LibraryTypes'
    BY <1>1, <1>2, <1>3, CallTypes
  <2>2. request' = request
    BY <1>3 DEF Create, Update, Import, RollbackCommunity, Delete, Elsewhere
  <2> QED
    BY <1>1, <2>1, <2>2, RequestsStay
<1>4. ASSUME NEW id \in Ids,
             \/ FinalizeTombstone(id) \/ Begin(id, "checking") \/ Begin(id, "starting")
             \/ Stop(id) \/ SwitchAway(id) \/ OperationSucceeds(id) \/ OperationFails(id)
      PROVE  LibraryTypes' /\ RequestsKept'
  <2>1. LibraryTypes'
    BY <1>1, <1>2, <1>4, OperationTypes
  <2>2. request' = request
    BY <1>4 DEF FinalizeTombstone, Begin, Stop, SwitchAway, OperationSucceeds, OperationFails
  <2> QED
    BY <1>1, <2>1, <2>2, RequestsStay
<1>5. CASE Restart
  BY <1>1, <1>5, RestartTypes
<1>6. ASSUME NEW rev \in Revisions, NEW known \in BOOLEAN, Publish(rev, known)
      PROVE  LibraryTypes' /\ RequestsKept'
  <2>1. LibraryTypes'
    BY <1>1, <1>6, PublishTypes
  <2>2. request' = request
    BY <1>6 DEF Publish
  <2> QED
    BY <1>1, <2>1, <2>2, RequestsStay
<1>7. ASSUME NEW q \in Requests,
             \/ \E rev \in Revisions : RequestInstall(q, rev)
             \/ ChecksFeed(q) \/ InstallCommunity(q)
             \/ CheckRevocations(q) \/ MarkCommunityRevoked(q) \/ Drops(q)
      PROVE  LibraryTypes' /\ RequestsKept'
  BY <1>1, <1>2, <1>7, RequestSteps
<1>8. CASE UNCHANGED vars
  <2>1. LibraryTypes'
    BY <1>1, <1>8 DEF vars, LibraryTypes
  <2>2. request' = request
    BY <1>8 DEF vars
  <2> QED
    BY <1>1, <2>1, <2>2, RequestsStay
<1> QED
  BY <1>3, <1>4, <1>5, <1>6, <1>7, <1>8 DEF Next

\* What the calls of the store keep holds in every state.
LEMMA AlwaysInv == Spec => []Inv
<1>1. Inv /\ [Next]_vars => Inv'
  BY FileInvNext, TypesNext DEF Inv
<1> QED
  BY <1>1, InvInit, PTL DEF Spec

\* The types of the library, its journal and its requests, in every state.
THEOREM LibraryIsTyped == Spec => []LibraryTypes
<1>1. Inv => LibraryTypes
  BY DEF Inv
<1> QED
  BY <1>1, AlwaysInv, PTL

-----------------------------------------------------------------------------
(* What follows *)

\* A revision that was revoked when a check went over it is not run from what
\* carries its provenance: Store.MarkCommunityRevoked reaches the recipe and
\* its history, Store.RollbackCommunity refuses the marked ones, and
\* communityRecipeInstall one that is on the list (recipeExecutionPolicy).
THEOREM RevokedIsNotRun == Spec => []RevocationHolds
<1>1. Inv => RevocationHolds
  <2> SUFFICES ASSUME Inv, NEW i \in DOMAIN library, Loaded[i].community # None,
                      Loaded[i].community.revision \in seen \ late
               PROVE  ~Allowed(Loaded[i])
    BY DEF RevocationHolds
  <2>1. LibraryTypes /\ FileInv
    BY DEF Inv
  <2>2. Filed(Loaded, seen \ late, untouched, package)
    BY <2>1, LoadedKeeps
  <2>3. i \in 1..Len(Loaded)
    BY <2>1, LoadedIs, LenProperties DEF LibraryTypes
  <2>4. Vouched(Loaded[i].draft, Loaded[i].community, seen \ late)
    BY <2>2, <2>3 DEF Filed, OnRecord
  <2> QED
    BY <2>4 DEF Vouched, Allowed, Revoked
<1> QED
  BY <1>1, AlwaysInv, PTL

\* The recipe of the community is the revision that was installed last, and its
\* history leads back through the ones before: Store.InstallCommunity files the
\* recipe it replaces, Store.RollbackCommunity takes the last of them.
THEOREM RollbackIsWhatWas == Spec => []RollbackIsTheLastInstalled
<1>1. Inv => RollbackIsTheLastInstalled
  <2> SUFFICES ASSUME Inv, Community \notin crossed, NEW i \in DOMAIN library,
                      library[i].community # None
               PROVE  LET r == library[i]
                          kept == r.history \o <<[draft |-> r.draft,
                                                  provenance |-> r.community]>>
                      IN /\ Len(kept) <= Len(trail)
                         /\ \A k \in DOMAIN kept :
                              LET rev == trail[Len(trail) - Len(kept) + k]
                              IN /\ kept[k].provenance.revision = rev
                                 /\ kept[k].draft = Release[rev].draft
    BY DEF RollbackIsTheLastInstalled
  <2> DEFINE r == library[i]
             entry == [draft |-> r.draft, provenance |-> r.community]
             kept == r.history \o <<entry>>
  <2>1. LibraryTypes /\ FileInv
    BY DEF Inv
  <2>2. i \in 1..Len(library) /\ r \in Recipes /\ r.community # None
    BY <2>1, LoadedIs
  <2>3. /\ Vouched(r.draft, r.community, seen \ late)
        /\ \A k \in 1..Len(r.history) :
            Vouched(r.history[k].draft, r.history[k].provenance, seen \ late)
    BY <2>1, <2>2 DEF FileInv, Filed, OnRecord
  <2>4. Traced(r, trail)
    BY <2>1, <2>2 DEF FileInv, AllTraced
  <2>5. /\ r.history \in Seq(Entries) /\ entry \in Entries /\ Len(trail) \in Nat
    BY <2>1, <2>2, RecipeTypes, LenProperties DEF LibraryTypes, Recipes, Entries
  <2> HIDE DEF r, entry
  <2>6. <<entry>> \in Seq(Entries) /\ Len(<<entry>>) = 1 /\ <<entry>>[1] = entry
    BY <2>5
  <2>7. /\ kept \in Seq(Entries) /\ Len(kept) = Len(r.history) + 1
        /\ Len(r.history) \in Nat
        /\ \A k \in 1..Len(kept) :
            kept[k] = IF k <= Len(r.history) THEN r.history[k] ELSE <<entry>>[k - Len(r.history)]
    BY <2>5, <2>6, ConcatProperties, LenProperties
  <2>8. DOMAIN kept = 1..Len(kept)
    BY <2>7, LenProperties
  <2> HIDE DEF kept
  <2>9. Len(kept) <= Len(trail)
    BY <2>4, <2>5, <2>7 DEF Traced
  <2>10. ASSUME NEW k \in 1..Len(kept)
         PROVE  LET rev == trail[Len(trail) - Len(kept) + k]
                IN kept[k].provenance.revision = rev /\ kept[k].draft = Release[rev].draft
    <3>1. CASE k <= Len(r.history)
      <4>1. kept[k] = r.history[k] /\ k \in 1..Len(r.history)
        BY <2>7, <3>1
      <4>2. Len(trail) - Len(kept) + k = Len(trail) - Len(r.history) - 1 + k
        BY <2>5, <2>7
      <4>3. r.history[k].provenance.revision = trail[Len(trail) - Len(r.history) - 1 + k]
        BY <2>4, <4>1 DEF Traced
      <4>4. r.history[k].draft = Release[r.history[k].provenance.revision].draft
        BY <2>3, <4>1 DEF Vouched
      <4> QED
        BY <4>1, <4>2, <4>3, <4>4
    <3>2. CASE ~(k <= Len(r.history))
      <4>1. k = Len(kept) /\ k - Len(r.history) = 1
        BY <2>7, <3>2
      <4>2. kept[k] = entry
        BY <2>6, <2>7, <3>2, <4>1
      <4>3. Len(trail) - Len(kept) + k = Len(trail)
        <5>1. Len(kept) \in Nat
          BY <2>7
        <5> QED
          BY <2>5, <4>1, <5>1
      <4>4. trail[Len(trail)] = r.community.revision
        BY <2>4 DEF Traced
      <4>5. r.draft = Release[r.community.revision].draft
        BY <2>3 DEF Vouched
      <4> QED
        BY <4>2, <4>3, <4>4, <4>5 DEF entry
    <3> QED
      BY <3>1, <3>2
  <2> QED
    BY <2>8, <2>9, <2>10 DEF kept, entry, r
<1> QED
  BY <1>1, AlwaysInv, PTL

\* What the user has and did not delete is listed once, and what was deleted is
\* not listed: the store's mark and the journal's tombstone go together over
\* edits, imports, rollbacks, purges, failed saves and restarts.
THEOREM AskedIsListed == Spec => []LibraryIsAsAsked
<1>1. Inv => LibraryIsAsAsked
  <2> SUFFICES ASSUME Inv, NEW id \in Ids \ crossed
               PROVE  Cardinality(Shown(id)) = (IF id \in asked THEN 1 ELSE 0)
    BY DEF LibraryIsAsAsked
  <2>1. DOMAIN library = 1..Len(library) /\ \A i \in 1..Len(library) : library[i] \in Recipes
    BY LoadedIs DEF Inv
  <2>2. Placed(library, id, asked, tombstones, crossed)
    BY DEF Inv, FileInv, AllPlaced
  <2>3. CASE id \in asked
    <3>1. PICK i \in 1..Len(library) : library[i].id = id
      BY <2>2, <2>3 DEF Placed, There
    <3>2. ~library[i].tombstoned
      BY <2>2, <2>3, <3>1 DEF Placed
    <3>3. \A j \in 1..Len(library) : library[j].id = id => j = i
      BY <2>2, <3>1 DEF Placed, Alone
    <3>4. Shown(id) = {i}
      BY <2>1, <3>1, <3>2, <3>3 DEF Shown
    <3>5. Cardinality({i}) = 1
      BY FS_Singleton
    <3> QED
      BY <2>3, <3>4, <3>5
  <2>4. CASE id \notin asked
    <3>1. \A i \in 1..Len(library) : library[i].id = id => library[i].tombstoned
      BY <2>2, <2>4 DEF Placed, There
    <3>2. Shown(id) = {}
      BY <2>1, <3>1 DEF Shown
    <3> QED
      BY <2>4, <3>2, FS_EmptySet
  <2> QED
    BY <2>3, <2>4
<1> QED
  BY <1>1, AlwaysInv, PTL

\* Reviewed is what is shown of the import nobody edited, until a package pins
\* another profile, and of nothing else; signed is shown of nothing but what the
\* community signed, and then it is the revision installed last
\* (buildRecipeTrustView).
THEOREM LabelsSayWhatIs == Spec => []LabelsAreEarned
<1>1. Inv => LabelsAreEarned
  <2> SUFFICES ASSUME Inv, NEW i \in DOMAIN library
               PROVE  LET r == Loaded[i]
                      IN /\ Level(r) = "cloudless-reviewed" <=> r.id = Imported /\ untouched
                         /\ Level(r) = "community-signed" =>
                              /\ \E rev \in Revisions :
                                    r.draft = Release[rev].draft /\ Admissible(rev)
                              /\ r.id \notin crossed => r.draft = Release[Last(trail)].draft
    BY DEF LabelsAreEarned
  <2> DEFINE r == Loaded[i]
  <2>1. LibraryTypes /\ FileInv
    BY DEF Inv
  <2>2. /\ i \in 1..Len(library) /\ Len(Loaded) = Len(library)
        /\ r = Normalize(library[i]) /\ library[i] \in Recipes
    BY <2>1, LoadedIs
  <2>3. package \in Packages /\ untouched \in BOOLEAN
    BY <2>1 DEF LibraryTypes
  <2>4. OnRecord(r, seen \ late, untouched, package)
    BY <2>1, <2>2, LoadedKeeps DEF Filed
  <2>5. Traced(r, trail) \/ r.community = None \/ Community \in crossed
    BY <2>1, <2>2, LoadedKeeps DEF AllTraced
  <2>p. OnRecord(library[i], seen \ late, untouched, package)
    BY <2>1, <2>2 DEF FileInv, Filed
  <2> HIDE DEF r
  <2>6. r \in Recipes /\ r.id = library[i].id /\ r.trust = library[i].trust
    BY <2>2, <2>3, NormalizeIs, NormalizeKeeps
  <2>7. ASSUME Level(r) = "cloudless-reviewed"
        PROVE  r.id = Imported /\ untouched
    <3>1. ReviewedProfile(r)
      BY <2>7 DEF Level
    <3>2. AsImported(r, untouched, package)
      BY <2>4, <3>1 DEF ReviewedProfile, OnRecord
    <3>3. AsImported(library[i], untouched, package)
      BY <2>2, <2>6, <2>p, <3>1 DEF ReviewedProfile, OnRecord
    <3>4. r.draft = Profile(package.edition) <=> untouched
      BY <2>2, <2>3, <3>3, NormalizeAsImported
    <3> QED
      BY <3>1, <3>2, <3>4 DEF ReviewedProfile, AsImported
  <2>8. ASSUME r.id = Imported, untouched
        PROVE  Level(r) = "cloudless-reviewed"
    <3>1. r.trust = "reviewed-import"
      BY <2>4, <2>8 DEF OnRecord
    <3>2. AsImported(r, untouched, package) /\ AsImported(library[i], untouched, package)
      BY <2>4, <2>6, <2>p, <3>1 DEF OnRecord
    <3>3. r.draft = Profile(package.edition)
      BY <2>2, <2>3, <2>8, <3>2, NormalizeAsImported
    <3> QED
      BY <3>1, <3>2, <3>3 DEF Level, Revoked, ReviewedProfile, AsImported
  <2>9. ASSUME Level(r) = "community-signed"
        PROVE  /\ \E rev \in Revisions : r.draft = Release[rev].draft /\ Admissible(rev)
               /\ r.id \notin crossed => r.draft = Release[Last(trail)].draft
    <3>1. r.community # None
      BY <2>9 DEF Level
    <3>2. r.id = Community /\ Vouched(r.draft, r.community, seen \ late)
      BY <2>4, <3>1 DEF OnRecord
    <3>3. r.community.revision \in Revisions
      BY <2>6, <3>1 DEF Recipes, Provenances
    <3>4. r.id \notin crossed => Last(trail) = r.community.revision
      BY <2>5, <3>1, <3>2 DEF Traced, Last
    <3> QED
      BY <3>2, <3>3, <3>4 DEF Vouched
  <2> QED
    BY <2>7, <2>8, <2>9 DEF r
<1> QED
  BY <1>1, AlwaysInv, PTL

=============================================================================
