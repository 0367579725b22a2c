-------------------------- MODULE OperationRecord --------------------------
(***************************************************************************)
(* The Operation Record of internal/execution: the audit document that the *)
(* executor rewrites as it works, that the file store validates before it  *)
(* writes, and that continuation, recovery and workflow read afterwards.   *)
(*                                                                         *)
(* Steps are addressed by their position in the confirmed Plan's           *)
(* dependency order (orderedActions, see ActionOrder), so a record has no  *)
(* action names.  Instants are left out: the model's clock never runs      *)
(* backwards, and only the presence of finished_at is kept.                *)
(***************************************************************************)
EXTENDS Naturals, Sequences

CONSTANTS N,            \* number of steps of the confirmed Plan
          Facts,        \* what Capture can observe of one action
          NoSnapshot,   \* a nil *Snapshot
          NoRecord      \* no record: nothing on disk, nothing in memory

ASSUME StepCountAssumption == N \in Nat \ {0}
ASSUME SnapshotAssumption == NoSnapshot \notin Facts

Positions == 1..N

TerminalStates ==
    {"completed", "failed", "timed_out", "cancelled", "interrupted"}
ActiveStates == {"running", "verifying"}
States == {"pending"} \cup ActiveStates \cup TerminalStates

CheckStates == {"pending", "passed", "failed", "not_run"}

\* The codes a step's error detail can carry; "none" is a nil *ErrorDetail.
Codes == {"none", "PRECONDITION_FAILED", "EXEC_START_FAILED",
          "EXEC_EXIT_NONZERO", "EXEC_ABNORMAL_EXIT", "EXEC_TIMEOUT",
          "EXEC_CANCELLED", "EXEC_INTERRUPTED", "VERIFY_FAILED",
          "LOG_WRITE_FAILED"}

Snapshots == Facts \cup {NoSnapshot}

StepRecords ==
    [state: States, finished: BOOLEAN, invoked: BOOLEAN, skipped: BOOLEAN,
     precondition: CheckStates, verification: CheckStates,
     before: Snapshots, after: Snapshots, diff: BOOLEAN, error: Codes]

Records ==
    [state: States, finished: BOOLEAN, steps: [Positions -> StepRecords],
     transitions: Seq(States)]

ASSUME NoRecordAssumption == NoRecord \notin Records

NewStep ==
    [state |-> "pending", finished |-> FALSE, invoked |-> FALSE,
     skipped |-> FALSE, precondition |-> "pending", verification |-> "not_run",
     before |-> NoSnapshot, after |-> NoSnapshot, diff |-> FALSE,
     error |-> "none"]

NewRecord ==
    [state |-> "pending", finished |-> FALSE,
     steps |-> [i \in Positions |-> NewStep], transitions |-> <<"pending">>]

-----------------------------------------------------------------------------
(* Validation, run before every write and after every read.               *)

ValidTransition(from, to) ==
    \/ from = "pending" /\ to \in {"running", "failed", "cancelled"}
    \/ from = "running" /\ to \in {"running", "verifying", "failed",
                                   "timed_out", "cancelled", "interrupted"}
    \/ from = "verifying" /\ to \in {"running", "completed", "failed",
                                     "cancelled", "interrupted"}

Captured(s) == s.before # NoSnapshot /\ s.after # NoSnapshot

ValidStep(s) ==
    /\ s.state = "completed" =>
         s.finished /\ s.verification = "passed" /\ s.error = "none"
    /\ s.state \in TerminalStates => s.finished
    /\ s.diff <=> Captured(s) /\ s.before # s.after

ValidHistory(history, state) ==
    /\ history # <<>>
    /\ history[1] = "pending"
    /\ history[Len(history)] = state
    /\ \A k \in 1..(Len(history) - 1) :
         ValidTransition(history[k], history[k + 1])

ValidRecord(r) ==
    /\ ValidHistory(r.transitions, r.state)
    /\ \A i \in Positions : ValidStep(r.steps[i])
    /\ r.state \in TerminalStates => r.finished
    /\ r.state = "completed" =>
         \A i \in Positions : r.steps[i].state = "completed"

-----------------------------------------------------------------------------
(* The rewrites of a record.                                               *)

SetStep(r, i, s) == [r EXCEPT !.steps = [@ EXCEPT ![i] = s]]

MoveTo(r, state) ==
    [r EXCEPT !.state = state, !.transitions = Append(@, state)]

\* A pending check that the step's end leaves undecided counts as failed.
Undecided(check) == IF check = "pending" THEN "failed" ELSE check

\* captureAfter: the diff exists only when both snapshots do.
WithAfter(s, snapshot) ==
    [s EXCEPT !.after = snapshot,
              !.diff = IF s.before = NoSnapshot THEN @
                       ELSE s.before # snapshot]

\* finishFailure, before its save.
FailedStep(s, state, code) ==
    [s EXCEPT !.state = state, !.finished = TRUE, !.error = code,
              !.verification = Undecided(@)]

Failed(r, i, state, code) ==
    [MoveTo(SetStep(r, i, FailedStep(r.steps[i], state, code)), state)
        EXCEPT !.finished = TRUE]

\* Fault: the transition that was not saved stays in the history.
LostTerminalKept(history) == history

\* logFailure: what Execute returns when a save failed.  A terminal
\* transition that could not be saved is taken back first.
WithoutLostTerminal(history) ==
    IF Len(history) > 1 /\ history[Len(history)] \in TerminalStates
    THEN SubSeq(history, 1, Len(history) - 1)
    ELSE history

LogFailed(r, i) ==
    LET s == r.steps[i]
    IN  [state |-> "failed", finished |-> TRUE,
         steps |-> [r.steps EXCEPT ![i] =
                      [s EXCEPT !.state = "failed", !.finished = TRUE,
                                !.error = "LOG_WRITE_FAILED"]],
         transitions |-> Append(WithoutLostTerminal(r.transitions), "failed")]

\* Fault: a verification the crash cut short is taken as passed.
InterruptedStepCompleted(s) ==
    IF s.state = "verifying"
    THEN [s EXCEPT !.state = "completed", !.finished = TRUE,
                   !.verification = "passed"]
    ELSE s

\* RecoverInterrupted: a record left active by a process that is gone.
InterruptedStep(s) ==
    IF s.state \in ActiveStates
    THEN [s EXCEPT !.state = "interrupted", !.finished = TRUE,
                   !.error = "EXEC_INTERRUPTED",
                   !.verification = Undecided(@)]
    ELSE s

Interrupted(r) ==
    [MoveTo([r EXCEPT !.steps =
               [i \in Positions |-> InterruptedStep(r.steps[i])]],
            "interrupted") EXCEPT !.finished = TRUE]

-----------------------------------------------------------------------------
(* Recovery evidence: what AssessRecovery concludes from one step.         *)

\* Fault: a killed process is taken for one that never started.
WriteMayHaveStartedUnlessKilled ==
    {"EXEC_EXIT_NONZERO", "EXEC_TIMEOUT", "EXEC_CANCELLED",
     "EXEC_INTERRUPTED", "VERIFY_FAILED", "LOG_WRITE_FAILED"}

WriteMayHaveStarted ==
    {"EXEC_EXIT_NONZERO", "EXEC_ABNORMAL_EXIT", "EXEC_TIMEOUT",
     "EXEC_CANCELLED", "EXEC_INTERRUPTED", "VERIFY_FAILED",
     "LOG_WRITE_FAILED"}

Changed(s) == s.state # "pending" /\ s.diff

Uncertain(s) ==
    /\ s.state # "pending" /\ ~s.diff
    /\ ~s.skipped /\ s.invoked
    /\ s.error \in WriteMayHaveStarted

RecoveryEvidence(s) == Changed(s) \/ Uncertain(s)
=============================================================================
