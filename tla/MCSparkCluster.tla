--------------------------- MODULE MCSparkCluster ---------------------------
(* The mutations and launches of a cluster, and how its health is seen. *)
EXTENDS SparkCluster

CONSTANTS s1, s2, a1, a2, b1, Readers, MaxChanges

VARIABLES part, fault, local, running, chosen, changes, cache, refreshing, refresh, first

health == <<fault, local, running, chosen, changes, cache, refreshing, refresh, first>>

H == INSTANCE ClusterHealth WITH Workers <- Sparks

\* The first Spark answers at two addresses.
MCAt == [a \in Addresses |-> IF a = a2 THEN s2 ELSE s1]

MCInit == part \in {"mutations", "health"} /\ Init /\ H!Init

MCNext ==
    \/ part = "mutations" /\ Next /\ UNCHANGED <<part, health>>
    \/ part = "health" /\ H!Next /\ UNCHANGED <<part, vars>>

HealthFairness ==
    /\ WF_health(part = "health" /\ H!Expire)
    /\ WF_health(part = "health" /\ H!Poll)
    /\ WF_health(part = "health" /\ H!RefreshEnds)
    /\ \A r \in Readers :
        /\ WF_health(part = "health" /\ H!FirstRead(r))
        /\ WF_health(part = "health" /\ H!FirstReadEnds(r))

MCSpec ==
    /\ MCInit /\ [][MCNext]_<<vars, part, health>>
    /\ Fairness /\ HealthFairness

\* A view of the cluster that was read before a change does not stay: what the
\* dashboard shows becomes what is true (cachedClusterCompute).
ViewCatchesUp == part = "health" => H!ViewCatchesUp
=============================================================================
