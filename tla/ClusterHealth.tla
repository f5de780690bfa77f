--------------------------- MODULE ClusterHealth ---------------------------
(***************************************************************************)
(* How the coordinator judges its cluster: the layers sparkcluster.Status  *)
(* probes on every Spark, the verdict a distributed launch depends on, and *)
(* the cached view of api/cluster_compute.go that the desktop polls.       *)
(*                                                                         *)
(* Faults come and go on the machines; readers poll; a probe sees the      *)
(* machines when it starts and is stored when it ends.                     *)
(***************************************************************************)
EXTENDS Integers, FiniteSets

CONSTANTS
    Workers,     \* the enrolled Sparks
    Readers,     \* desktop polls in flight
    MaxChanges   \* bound: changes of the machines' condition

Faults == {"none", "management", "ssh", "cable", "helper", "fabric"}
LocalFaults == {"none", "config", "links"}

VARIABLES
    fault,       \* what is wrong on each Spark
    local,       \* what is wrong on the coordinator
    running,     \* the Sparks whose inference worker runs
    chosen,      \* SelectedHosts; none stands for every worker
    changes,
    cache,       \* clusterView, clusterViewReady and its age
    refreshing,  \* clusterViewRefreshing
    refresh,     \* the probes of background refreshes
    first        \* the probes of readers that found no view

machines == <<fault, local, running, chosen, changes>>
vars == <<machines, cache, refreshing, refresh, first>>

---------------------------------------------------------------------------
(* Status *)

Selected == IF chosen = {} THEN Workers ELSE chosen

\* What the probes of one Spark say; without a login the cable and the worker
\* cannot be inspected.
NodeHealth(n) ==
    LET f == fault[n]
    IN  [managementIP |-> IF f = "management" THEN "attention" ELSE "healthy",
         ssh          |-> IF f \in {"ssh", "management"} THEN "attention" ELSE "healthy",
         physicalLink |-> CASE f \in {"ssh", "management"} -> "unknown"
                            [] f = "cable" -> "attention"
                            [] OTHER -> "healthy",
         fabric       |-> IF f \in {"fabric", "cable"} THEN "attention" ELSE "healthy",
         workerRuntime |-> CASE f \in {"ssh", "management"} -> "unknown"
                             [] f = "helper" -> "attention"
                             [] OTHER -> IF n \in running THEN "healthy" ELSE "idle"]

Layers == {"managementIP", "ssh", "physicalLink", "fabric", "workerRuntime"}

\* Every check of the Spark passed.
NodeHealthy(n) == \A l \in Layers : NodeHealth(n)[l] \in {"healthy", "idle"}

\* normalizeState: a launch needs the coordinator and the selected Sparks.
ComputeHealthy ==
    /\ local = "none"
    /\ Selected # {}
    /\ \A n \in Selected : NodeHealthy(n)

\* clusterCompute: what a probe returns when it looks now.
ClusterCompute == [ready |-> ComputeHealthy, nodes |-> 1 + Cardinality(Selected)]

---------------------------------------------------------------------------
NoView == [known |-> FALSE, age |-> "none", view |-> [ready |-> FALSE, nodes |-> 1]]

Init ==
    /\ fault = [n \in Workers |-> "none"] /\ local = "none"
    /\ running = {} /\ chosen = {} /\ changes = 0
    /\ cache = NoView /\ refreshing = FALSE /\ refresh = {} /\ first = [r \in {} |-> 0]

Change ==
    /\ changes < MaxChanges
    /\ changes' = changes + 1
    /\ \/ \E n \in Workers, f \in Faults : fault' = [fault EXCEPT ![n] = f]
          /\ UNCHANGED <<local, running, chosen>>
       \/ \E f \in LocalFaults : local' = f /\ UNCHANGED <<fault, running, chosen>>
       \/ \E S \in SUBSET Workers : running' = S /\ UNCHANGED <<fault, local, chosen>>
       \/ \E S \in SUBSET Workers : chosen' = S /\ UNCHANGED <<fault, local, running>>
    /\ UNCHANGED <<cache, refreshing, refresh, first>>

\* clusterComputeCacheTTL passes.
Expire ==
    /\ cache.known /\ cache.age = "fresh"
    /\ cache' = [cache EXCEPT !.age = "expired"]
    /\ UNCHANGED <<machines, refreshing, refresh, first>>

\* cachedClusterCompute with a view: it is served at once, and an expired one
\* starts a refresh unless one is under way.
Poll ==
    /\ cache.known /\ cache.age = "expired" /\ ~refreshing
    /\ refreshing' = TRUE
    /\ refresh' = refresh \cup {ClusterCompute}
    /\ UNCHANGED <<machines, cache, first>>

StickyRefreshEnds ==
    /\ \E v \in refresh :
          /\ cache' = [known |-> TRUE, age |-> "fresh", view |-> v]
          /\ refresh' = refresh \ {v}
    /\ UNCHANGED <<machines, refreshing, first>>

RefreshEnds ==
    /\ \E v \in refresh :
          /\ cache' = [known |-> TRUE, age |-> "fresh", view |-> v]
          /\ refresh' = refresh \ {v}
    /\ refreshing' = FALSE
    /\ UNCHANGED <<machines, first>>

\* The first readers probe for themselves, each without the others.
FirstRead(r) ==
    /\ ~cache.known /\ r \notin DOMAIN first
    /\ first' = [q \in DOMAIN first \cup {r} |-> IF q = r THEN ClusterCompute ELSE first[q]]
    /\ UNCHANGED <<machines, cache, refreshing, refresh>>

FirstReadEnds(r) ==
    /\ r \in DOMAIN first
    /\ cache' = [known |-> TRUE, age |-> "fresh", view |-> first[r]]
    /\ first' = [q \in DOMAIN first \ {r} |-> first[q]]
    /\ UNCHANGED <<machines, refreshing, refresh>>

Next ==
    \/ Change \/ Expire \/ Poll \/ RefreshEnds
    \/ \E r \in Readers : FirstRead(r) \/ FirstReadEnds(r)

Fairness ==
    /\ WF_vars(Expire) /\ WF_vars(Poll) /\ WF_vars(RefreshEnds)
    /\ \A r \in Readers : WF_vars(FirstRead(r)) /\ WF_vars(FirstReadEnds(r))

Spec == Init /\ [][Next]_vars /\ Fairness

---------------------------------------------------------------------------
TypeOK ==
    /\ fault \in [Workers -> Faults] /\ local \in LocalFaults
    /\ running \subseteq Workers /\ chosen \subseteq Workers
    /\ cache.age \in {"none", "fresh", "expired"}
    /\ cache.view.nodes \in 1..(1 + Cardinality(Workers))

\* Once the machines stay as they are, the view that is served becomes and
\* stays what a probe would say: an old probe that is stored late is replaced.
ViewCatchesUp == <>[](cache.known /\ cache.view = ClusterCompute)

=============================================================================
