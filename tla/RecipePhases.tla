---------------------------- MODULE RecipePhases ----------------------------
(***************************************************************************)
(* The lifecycle of a recipe operation and the predicates the rest of the  *)
(* daemon decides by (internal/recipeops/operation.go): which phase may    *)
(* follow which, when an operation is over, and when it keeps others out.  *)
(* An operation is any record with the fields kind, phase, interrupted,    *)
(* error and claims.                                                       *)
(***************************************************************************)

CONSTANTS
    Resources,    \* runtime resources an operation can claim
    Ephemeral     \* the ones for which RequiresCleanup is true

ASSUME EphemeralAssumption == Ephemeral \subseteq Resources

Kinds == {"check", "run", "stop"}

Phases == {"checking", "preparing", "prepared", "switching", "starting",
           "verifying", "active", "stopping", "stopped", "failed", "aborted",
           "recovering"}

Settled == {"stopped", "failed", "aborted"}

\* Where each phase may go next.
Transitions ==
    [p \in Phases |->
        CASE p = "checking"   -> {"prepared", "failed", "aborted", "recovering"}
          [] p = "preparing"  -> {"prepared", "stopping", "failed", "aborted", "recovering"}
          [] p = "prepared"   -> {"switching", "stopping", "failed", "aborted", "recovering"}
          [] p = "switching"  -> {"starting", "stopping", "failed", "aborted", "recovering"}
          [] p = "starting"   -> {"verifying", "stopping", "failed", "aborted", "recovering"}
          [] p = "verifying"  -> {"active", "stopping", "failed", "aborted", "recovering"}
          [] p = "active"     -> {"stopping", "recovering"}
          [] p = "stopping"   -> {"stopped", "failed", "aborted", "recovering"}
          [] p = "recovering" -> Phases \ {"recovering"}
          [] p \in Settled    -> {"recovering"}]

ValidTransition(from, to) == from = to \/ to \in Transitions[from]

InitialPhase(kind) ==
    CASE kind = "check" -> "checking"
      [] kind = "run"   -> "preparing"
      [] kind = "stop"  -> "stopping"

\* What Transition makes of an operation.  "interrupted" stands for the
\* checkpoint list: the last phase recorded that is not "recovering".
Moved(op, next, cause) ==
    [op EXCEPT !.phase = next, !.error = cause,
               !.interrupted = IF next = "recovering" THEN @ ELSE next]

Owns(op) == op.claims \cap Ephemeral # {}
CheckedOut(op) == op.kind = "check" /\ op.phase = "prepared"
Unfinished(op) == op.phase \notin Settled /\ ~CheckedOut(op)

\* Fault: forgets what a finished operation still owns.
FaultyNeedsRecovery(op) == Unfinished(op)

\* NeedsRecovery and operationBlocksMutation are the same condition.
NeedsRecovery(op) == Owns(op) \/ Unfinished(op)
BlocksMutation(op) == Owns(op) \/ Unfinished(op)

\* Fault: an active run lets anything in.
FaultyBlocksAdmission(op, incoming) ==
    ~(op.kind = "run" /\ op.phase = "active") /\ (Owns(op) \/ Unfinished(op))

\* An active run lets a Stop in, whatever it claims.
BlocksAdmission(op, incoming) ==
    /\ ~(op.kind = "run" /\ op.phase = "active" /\ incoming = "stop")
    /\ Owns(op) \/ Unfinished(op)

=============================================================================
