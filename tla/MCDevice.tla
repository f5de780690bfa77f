------------------------------ MODULE MCDevice ------------------------------
(* Two things the device does to itself and takes back when they do not work *)
(* out: an update of its packages, and a change of the display layout.       *)
EXTENDS Updater

CONSTANTS Outputs, Requests, None, MaxAttempts, MaxCalls, MaxFaults, MaxPlugs, MaxRestarts

VARIABLES
    part, outputs, shown, hot, saved, disk, file, change, asking, undo, kept, crossed,
    calls, faults, plugs, restarts

display ==
    <<outputs, shown, hot, saved, disk, file, change, asking, undo, kept, crossed, calls,
      faults, plugs, restarts>>

D == INSTANCE DisplayChange

\* A repository of three releases: the second brings new branding, the third
\* is a 1.0 whose security record is missing.
MCChanges == <<{}, {"branding"}, {}>>
Good == [physical |-> "qualified", security |-> "qualified", ci |-> "qualified"]
MCGates == <<Good, Good, [Good EXCEPT !.security = "absent"]>>

MCInit ==
    /\ Init /\ D!Init
    /\ part \in {"update", "display"}
    /\ part = "update" => outputs = Outputs
    /\ part = "display" => current = Nothing /\ kills = 0   \* the updater rests

MCNext ==
    \/ part = "update" /\ Next /\ UNCHANGED <<part, display>>
    \/ part = "display" /\ D!Next /\ UNCHANGED <<part, vars>>

MCSpec ==
    /\ MCInit /\ [][MCNext]_<<vars, part, display>>
    /\ WF_vars(part = "update" /\ Steps) /\ WF_vars(part = "update" /\ Begin("check"))
    /\ WF_display(part = "display" /\ D!TimerFires)
    /\ WF_display(part = "display" /\ hot /\ D!Normalize)
    /\ WF_display(part = "display" /\ \E token \in undo : D!ConfirmUndone(token))

\* Whatever fails, a change of the layout that nobody confirms is taken back
\* (displaySet's timer, rollbackDisplay, recoverPendingDisplayChange).
ScreenIsAsConfirmed == D!ScreenIsAsConfirmed
=============================================================================
