---------------------------- MODULE CheckedLaunch ----------------------------
(***************************************************************************)
(* What the preparation of a recipe promises: the Sparks serve only what   *)
(* the newest passing check found, attested once more before the launch    *)
(* and the same on every one of them.  An identity is the commit of the    *)
(* source with the content of the image.                                   *)
(***************************************************************************)
CONSTANTS
    Nodes,
    Identities,
    Nothing

VARIABLES
    checked,    \* what the newest passing check found
    attested,   \* what was found again before the launch
    serving     \* node -> what its containers run

vars == <<checked, attested, serving>>

Idle == \A n \in Nodes : serving[n] = Nothing

Init ==
    /\ checked = Nothing /\ attested = Nothing
    /\ serving = [n \in Nodes |-> Nothing]

\* A check passes, or the record of one is lost.
Check ==
    /\ checked' \in Identities \cup {Nothing}
    /\ UNCHANGED <<attested, serving>>

\* Attestation comes before anything serves, and accepts only what was checked.
Attest ==
    /\ Idle /\ checked # Nothing
    /\ attested' = checked
    /\ UNCHANGED <<checked, serving>>

\* The nodes start one by one, also after a boot.
Launch(n) ==
    /\ attested # Nothing /\ serving[n] = Nothing
    /\ serving' = [serving EXCEPT ![n] = attested]
    /\ UNCHANGED <<checked, attested>>

\* Containers end: stopped, rolled back, lost in a boot.
Withdraw ==
    /\ \E S \in SUBSET Nodes :
        serving' = [n \in Nodes |-> IF n \in S THEN Nothing ELSE serving[n]]
    /\ attested' \in {attested, Nothing}
    /\ attested' = Nothing => \A n \in Nodes : serving'[n] = Nothing
    /\ UNCHANGED checked

Next ==
    \/ Check \/ Attest \/ Withdraw
    \/ \E n \in Nodes : Launch(n)

Spec == Init /\ [][Next]_vars
=============================================================================
