---------------------------- MODULE DisplayChange ----------------------------
(***************************************************************************)
(* A change of the display layout (internal/api/display.go): applied at    *)
(* once, kept when the user confirms it, taken back when nobody does, also *)
(* by the next daemon.  The watcher of the session has the layout put in   *)
(* order when a connector comes or goes.                                   *)
(*                                                                         *)
(* displayMu is held from a look at displayChange to the last write, so a  *)
(* handler is one step; displaySet queries the display before it.  A       *)
(* layout is the set of outputs that are lit, {} an empty preference.      *)
(***************************************************************************)
EXTENDS Naturals, FiniteSets

CONSTANTS
    Outputs,       \* the connectors of the machine
    Requests,      \* handlers of displaySet
    None,
    MaxAttempts,   \* rollbackDisplay's attempts (30 in the code)
    MaxCalls,      \* bound: changes that are asked for
    MaxFaults,     \* bound: calls of the session or the file system that fail
    MaxPlugs,      \* bound: connectors that come or go
    MaxRestarts    \* bound: restarts of the daemon

VARIABLES
    outputs,   \* connected
    shown,     \* the outputs that are lit
    hot,       \* the watcher has seen a connector change and not had an answer
    saved,     \* Store.st.Display
    disk,      \* and as state.json has it
    file,      \* display-change-pending.json
    change,    \* Server.displayChange
    asking,    \* what displaySet has read before it takes the lock
    undo,      \* the tokens whose confirmation failed after the unlock
    kept,      \* history: the layout the user was last told is confirmed
    crossed,   \* history: events after which another layout may stay
    calls, faults, plugs, restarts

screen == <<outputs, shown, hot>>
preference == <<saved, disk, kept>>
bounds == <<plugs, restarts>>
vars == <<screen, preference, file, change, asking, undo, crossed, calls, faults, bounds>>

\* BuildPlan: a single output stays single while it is there; anything else
\* lights whatever is connected.
Plan(p) == IF p \subseteq outputs /\ Cardinality(p) = 1 THEN p ELSE outputs

\* DetectPreference: with nothing lit it names the first output.
Detected == IF shown = {} THEN {{o} : o \in outputs} ELSE {shown}

Fails == faults < MaxFaults /\ faults' = faults + 1
Works == UNCHANGED faults

\* applyDisplay: the session may change the layout and still report an error.
Apply(p) == shown' = Plan(p) /\ UNCHANGED <<outputs, hot>>
ApplyFails(p) == shown' \in {shown, Plan(p)} /\ UNCHANGED <<outputs, hot>>

Notes(event, when) == crossed' = IF when THEN crossed \cup {event} ELSE crossed

Init ==
    /\ outputs \in SUBSET Outputs \ {{}} /\ shown = outputs /\ hot = FALSE
    /\ saved = {} /\ disk = {} /\ kept = {} /\ file = None /\ change = None
    /\ asking = [q \in Requests |-> None] /\ undo = {} /\ crossed = {}
    /\ calls = 0 /\ faults = 0 /\ plugs = 0 /\ restarts = 0

---------------------------------------------------------------------------
(* displaySet *)

Query(q) ==
    /\ asking[q] = None /\ calls < MaxCalls
    /\ calls' = calls + 1
    /\ \E p \in SUBSET outputs \ {{}}, now \in Detected :
          /\ Plan(p) = p
          /\ asking' = [asking EXCEPT ![q] = [token |-> calls', selected |-> p, previous |-> now]]
    /\ UNCHANGED <<screen, preference, file, change, undo, crossed, faults, bounds>>

Answered(q) == asking' = [asking EXCEPT ![q] = None]

Refused(q) ==
    /\ asking[q] # None
    /\ \/ change # None /\ Works   \* another change awaits confirmation
       \/ change = None /\ Fails   \* the record cannot be written
    /\ Answered(q)
    /\ UNCHANGED <<screen, preference, file, change, undo, crossed, calls, bounds>>

Pending(record) == [record |-> record, timer |-> "armed", attempts |-> 0]

DisplaySet(q) ==
    /\ asking[q] # None /\ change = None
    /\ \/ /\ Works /\ Apply(asking[q].selected)
          /\ file' = asking[q] /\ change' = Pending(asking[q])
       \/ /\ Fails /\ ApplyFails(asking[q].selected)
          /\ file' \in {None, asking[q]}   \* clearPendingDisplay's error is not looked at
          /\ UNCHANGED change
    /\ crossed' = crossed
         \cup (IF change' = None THEN {"apply failed"} ELSE {})
         \cup (IF asking[q].previous \notin Detected THEN {"stale"} ELSE {})
    /\ Answered(q)
    /\ UNCHANGED <<preference, undo, calls, bounds>>

---------------------------------------------------------------------------
(* rollbackDisplay *)

\* Fault: a failed attempt is the last one.
FaultyRollback ==
    \/ /\ Works /\ Apply(change.record.previous)
       /\ file' = None /\ change' = None
    \/ /\ Fails /\ ApplyFails(change.record.previous)
       /\ UNCHANGED file
       /\ change' = [change EXCEPT !.attempts = @ + 1, !.timer = "stopped"]

\* A failed attempt is repeated two seconds later, up to the limit; when only
\* the record cannot be removed, nothing is armed again.
Rollback ==
    \/ /\ Works /\ Apply(change.record.previous)
       /\ file' = None /\ change' = None
    \/ /\ Fails /\ Apply(change.record.previous)
       /\ UNCHANGED file /\ change' = [change EXCEPT !.timer = "record stays"]
    \/ /\ Fails /\ ApplyFails(change.record.previous)
       /\ UNCHANGED file
       /\ change' = [change EXCEPT !.attempts = @ + 1,
                     !.timer = IF change.attempts + 1 < MaxAttempts THEN "armed" ELSE "spent"]

TimerFires ==
    /\ change # None /\ change.timer = "armed"
    /\ Rollback
    /\ UNCHANGED <<preference, asking, undo, crossed, calls, bounds>>

DisplayRevert ==
    /\ change # None
    /\ Rollback
    /\ UNCHANGED <<preference, asking, undo, crossed, calls, bounds>>

---------------------------------------------------------------------------
(* displayConfirm *)

\* The token is all that is asked: a change whose rollback was done but not
\* finished can still be confirmed.
Confirmed ==
    /\ change # None
    /\ Works /\ saved' = change.record.selected /\ disk' = saved' /\ kept' = saved'
    /\ file' = None /\ change' = None
    /\ Notes("confirmed late", ~hot /\ shown # Plan(change.record.selected))
    /\ UNCHANGED <<screen, asking, undo, calls, bounds>>

\* The preference cannot be saved: its copy in memory stays changed.
ConfirmUnsaved ==
    /\ change # None
    /\ Fails /\ saved' = change.record.selected
    /\ undo' = undo \cup {change.record.token}
    /\ Notes("unsaved", TRUE)
    /\ UNCHANGED <<screen, disk, kept, file, change, asking, calls, bounds>>

\* The record cannot be removed: the detected layout becomes the preference.
ConfirmUnfinished ==
    /\ change # None
    /\ Fails /\ saved' = change.record.previous
    /\ disk' \in {saved', change.record.selected}
    /\ undo' = undo \cup {change.record.token}
    /\ Notes("pinned", change.record.previous # kept \/ disk' # saved')
    /\ UNCHANGED <<screen, kept, file, change, asking, calls, bounds>>

ConfirmUndone(token) ==
    /\ token \in undo /\ undo' = undo \ {token}
    /\ IF change # None /\ change.record.token = token THEN Rollback
       ELSE UNCHANGED <<screen, file, change, faults>>
    /\ UNCHANGED <<preference, asking, crossed, calls, bounds>>

---------------------------------------------------------------------------
(* displayNormalize, for the kiosk, repair and the watcher *)

Normalize ==
    /\ change = None
    /\ \/ Works /\ shown' = Plan(saved) /\ hot' = FALSE
       \/ Fails /\ shown' \in {shown, Plan(saved)} /\ UNCHANGED hot
    /\ UNCHANGED <<outputs, preference, file, change, asking, undo, crossed, calls, bounds>>

Hotplug ==
    /\ plugs < MaxPlugs /\ plugs' = plugs + 1
    /\ outputs' \in SUBSET Outputs \ {{}, outputs}
    /\ shown' \in {shown \cap outputs', outputs'}
    /\ hot' = TRUE
    /\ UNCHANGED <<preference, file, change, asking, undo, crossed, calls, faults, restarts>>

\* recoverPendingDisplayChange: the next daemon finds the record and takes the
\* change back.  The daemon may have died inside a confirmation, and a write of
\* another setting may have put the copy in memory on file.
Restart ==
    /\ restarts < MaxRestarts /\ restarts' = restarts + 1
    /\ saved' \in {disk, saved} \cup {c.record.selected : c \in {change} \ {None}}
    /\ disk' = saved'
    /\ Notes("half confirmed", saved' # kept)
    /\ change' = IF file = None THEN None ELSE Pending(file)
    /\ asking' = [q \in Requests |-> None] /\ undo' = {}
    /\ UNCHANGED <<screen, kept, file, calls, faults, plugs>>

Next ==
    \/ \E q \in Requests : Query(q) \/ Refused(q) \/ DisplaySet(q)
    \/ TimerFires \/ DisplayRevert
    \/ Confirmed \/ ConfirmUnsaved \/ ConfirmUnfinished
    \/ \E token \in undo : ConfirmUndone(token)
    \/ Normalize \/ Hotplug \/ Restart

\* Timers fire, the watcher repeats its request until it is answered.
Fairness ==
    /\ WF_vars(TimerFires) /\ WF_vars(hot /\ Normalize)
    /\ WF_vars(\E token \in undo : ConfirmUndone(token))

Spec == Init /\ [][Next]_vars /\ Fairness

---------------------------------------------------------------------------
TypeOK ==
    /\ shown \subseteq outputs /\ outputs \subseteq Outputs
    /\ {saved, disk, kept} \subseteq SUBSET Outputs
    /\ change # None => change.attempts <= MaxAttempts

\* rollbackDisplay has given up: the change waits for the user or a restart.
GivenUp == change # None /\ change.timer \in {"spent", "record stays"}

\* Whatever fails and whenever the daemon or the connectors change, the screen
\* ends as the user last confirmed it, or as it is by default: a change nobody
\* confirms is taken back (displaySet's timer, rollbackDisplay's retries,
\* recoverPendingDisplayChange, displayNormalize).
ScreenIsAsConfirmed ==
    <>[](GivenUp \/ crossed # {} \/ (change = None /\ shown = Plan(kept)))
=============================================================================
