-------------------------- MODULE OperationHistory --------------------------
(***************************************************************************)
(* What the history of one operation promises to whoever reads it later    *)
(* (decision D-024): the operation opens, begins its actions one at a time *)
(* after the actions they depend on, counts an action as done only from    *)
(* the verifying state, and ends once.  Saves, crashes, snapshots and the  *)
(* environment are not visible here.                                       *)
(***************************************************************************)
EXTENDS Naturals

CONSTANTS N, Dependencies

Actions == 1..N

Ends == {"failed", "timed_out", "cancelled", "interrupted"}

VARIABLES
    status,  \* state of the operation, or "absent"
    doing,   \* the action in progress, 0 when none is
    done     \* completed actions

record == <<status, doing, done>>

Init == status = "absent" /\ doing = 0 /\ done = {}

Open ==
    /\ status = "absent"
    /\ status' = "pending"
    /\ UNCHANGED <<doing, done>>

Begin(a) ==
    /\ status \in {"pending", "running"}
    /\ doing = 0
    /\ a \notin done
    /\ Dependencies[a] \subseteq done
    /\ status' = "running" /\ doing' = a
    /\ UNCHANGED done

Verify ==
    /\ status = "running" /\ doing # 0
    /\ status' = "verifying"
    /\ UNCHANGED <<doing, done>>

Finish ==
    /\ status = "verifying"
    /\ done' = done \cup {doing}
    /\ doing' = 0
    /\ status' = IF done' = Actions THEN "completed" ELSE "running"

\* Only an action in progress can time out or be interrupted; an operation
\* that has begun nothing can still be cancelled.
End ==
    /\ status \in {"pending", "running", "verifying"}
    /\ status' \in CASE status = "pending" -> {"cancelled"}
                     [] status = "running" -> Ends
                     [] status = "verifying" -> Ends \ {"timed_out"}
    /\ doing' = 0
    /\ UNCHANGED done

Next == Open \/ (\E a \in Actions : Begin(a)) \/ Verify \/ Finish \/ End

Spec == Init /\ [][Next]_record
=============================================================================
