------------------------------ MODULE Executor ------------------------------
(***************************************************************************)
(* Executor.Execute of internal/execution: one confirmed Plan, run action  *)
(* by action, with the Operation Record rewritten on disk between steps.   *)
(*                                                                         *)
(* The executor is one sequential program; what makes it hard is the rest  *)
(* of the machine.  Between any two of its steps another program may       *)
(* change the environment, the user may cancel, a save may fail, and the   *)
(* executor itself may be killed while the write process it launched is    *)
(* half way through.  A save is atomic (module FileStore shows why): it    *)
(* replaces the record or leaves the old one in place.                     *)
(***************************************************************************)
EXTENDS OperationRecord

CONSTANTS Dependencies,   \* [Positions -> SUBSET Positions]
          Preflights,     \* positions whose Definition has a Preflight,
          Captures,       \*   a Capture,
          Idempotent,     \*   a Satisfied
          Target,         \* the facts a satisfied action observes
          InheritedPipes, \* may a descendant keep the output pipes open?
          MaxDrift        \* bound on changes made by other programs

ASSUME DependencyAssumption ==
    /\ Dependencies \in [Positions -> SUBSET Positions]
    /\ \A i \in Positions : \A d \in Dependencies[i] : d < i
ASSUME ActionAssumption ==
    /\ Preflights \cup Captures \cup Idempotent \subseteq Positions
    /\ Target \in Facts
ASSUME BoundAssumption == MaxDrift \in Nat /\ InheritedPipes \in BOOLEAN

VARIABLES
    pc,         \* the statement of Execute that runs next
    at,         \* position of the step being executed
    memory,     \* the record Execute holds and finally returns
    disk,       \* the record FileStore.Load yields
    env,        \* facts of each action as Capture would observe them now
    cancelled,  \* ctx is cancelled
    failure,    \* code of the failed process result
    error,      \* code of the error Execute returns
    launched,   \* history: positions whose write process was started
    refused,    \* history: the store's validation refused a record
    disturbed,  \* history: positions whose facts another program has changed
                \*   since their verification passed
    drift       \* number of changes made by other programs so far

executing == <<pc, at, memory, failure, error>>
history == <<launched, refused, disturbed>>
vars == <<executing, disk, env, cancelled, history, drift>>

Labels == {"idle", "next", "preflight", "capture", "satisfied", "run",
           "process", "capture_failed", "capture_after", "verify",
           "verified", "returned", "orphaned", "crashed"}
Working == Labels \ {"idle", "returned", "orphaned", "crashed"}

\* The executor was killed; its write process lives on, or does not.
Killed == {"orphaned", "crashed"}

TypeOK ==
    /\ pc \in Labels
    /\ at \in Positions
    /\ memory \in Records \cup {NoRecord}
    /\ disk \in Records \cup {NoRecord}
    /\ env \in [Positions -> Facts]
    /\ cancelled \in BOOLEAN
    /\ failure \in Codes
    /\ error \in Codes
    /\ launched \subseteq Positions
    /\ refused \in BOOLEAN
    /\ disturbed \subseteq Positions
    /\ drift \in 0..MaxDrift

Init ==
    /\ pc = "idle" /\ at = 1
    /\ memory = NoRecord /\ disk = NoRecord
    /\ env \in [Positions -> Facts]
    /\ cancelled = FALSE
    /\ failure = "none" /\ error = "none"
    /\ launched = {} /\ refused = FALSE /\ disturbed = {}
    /\ drift = 0

Step == memory.steps[at]
WithStep(s) == SetStep(memory, at, s)

-----------------------------------------------------------------------------
(* Saving.                                                                 *)

\* Fault: the error of a save is dropped.
LogFailureIgnored(r) ==
    /\ memory' = r
    /\ pc' = "returned"
    /\ UNCHANGED <<disk, at, error, refused>>

\* Store.Save fails, by I/O or because validation refuses r: logFailure.
LogFailure(r) ==
    /\ memory' = LogFailed(r, at)
    /\ error' = "LOG_WRITE_FAILED"
    /\ pc' = "returned"
    /\ refused' = (refused \/ ~ValidRecord(r))
    /\ UNCHANGED <<disk, at>>

Save(r) == ValidRecord(r) /\ disk' = r /\ memory' = r

\* Save r and go on at label with step next, or give up.
SaveThen(r, label, next) ==
    /\ \/ /\ Save(r)
          /\ pc' = label /\ at' = next
          /\ UNCHANGED <<error, refused>>
       \/ LogFailure(r)
    /\ UNCHANGED failure

FinishFailure(r, state, code) ==
    LET ended == Failed(r, at, state, code)
    IN  /\ \/ /\ Save(ended)
              /\ error' = code /\ pc' = "returned"
              /\ UNCHANGED <<at, refused>>
           \/ LogFailure(ended)
        /\ UNCHANGED failure

\* A failed check of the preparation of a step.
PreconditionFails ==
    FinishFailure(WithStep([Step EXCEPT !.precondition = "failed"]),
                  "failed", "PRECONDITION_FAILED")

UnchangedWorld == UNCHANGED <<env, cancelled, drift, launched, disturbed>>

-----------------------------------------------------------------------------
(* Execute.                                                                *)

\* The request was accepted and the first record is written; when that
\* write fails nothing was recorded and nothing is returned.
Accept ==
    /\ pc = "idle"
    /\ \/ /\ Save(NewRecord)
          /\ pc' = "next" /\ UNCHANGED <<error, refused>>
       \/ /\ pc' = "returned" /\ error' = "LOG_WRITE_FAILED"
          /\ refused' = ~ValidRecord(NewRecord)
          /\ UNCHANGED <<memory, disk>>
    /\ UNCHANGED <<at, failure>>
    /\ UnchangedWorld

StopBeforeStep ==
    /\ pc = "next" /\ cancelled
    /\ FinishFailure(memory, "cancelled", "EXEC_CANCELLED")
    /\ UnchangedWorld

StartStep ==
    /\ pc = "next" /\ ~cancelled
    /\ LET started == [Step EXCEPT !.state = "running", !.invoked = TRUE,
                                   !.precondition = "pending",
                                   !.verification = "not_run"]
       IN  SaveThen(MoveTo(WithStep(started), "running"), "preflight", at)
    /\ UnchangedWorld

Preflight ==
    /\ pc = "preflight"
    /\ \/ at \in Preflights /\ PreconditionFails
       \/ /\ memory' = WithStep([Step EXCEPT !.precondition = "passed"])
          /\ pc' = "capture"
          /\ UNCHANGED <<at, disk, failure, error, refused>>
    /\ UnchangedWorld

\* Fault: the before snapshot is kept in memory only.
CaptureBeforeUnsaved ==
    /\ pc = "capture"
    /\ memory' = WithStep([Step EXCEPT !.before = env[at]])
    /\ pc' = "satisfied"
    /\ UNCHANGED <<at, disk, failure, error, refused>>
    /\ UnchangedWorld

CaptureBefore ==
    /\ pc = "capture"
    /\ \/ at \in Captures /\ PreconditionFails
       \/ SaveThen(WithStep([Step EXCEPT !.before =
                      IF at \in Captures THEN env[at] ELSE @]),
                   "satisfied", at)
    /\ UnchangedWorld

CheckSatisfied ==
    /\ pc = "satisfied"
    /\ \/ at \in Idempotent /\ PreconditionFails
       \/ /\ at \in Idempotent /\ env[at] = Target
          /\ memory' = WithStep([Step EXCEPT !.skipped = TRUE])
          /\ pc' = "capture_after"
          /\ UNCHANGED <<at, disk, failure, error, refused>>
       \/ /\ at \notin Idempotent \/ env[at] # Target
          /\ pc' = "run"
          /\ UNCHANGED <<at, memory, disk, failure, error, refused>>
    /\ UnchangedWorld

\* exec.Cmd.Start refuses a context that is already done.
LaunchProcess ==
    /\ pc = "run" /\ ~cancelled
    /\ pc' = "process"
    /\ launched' = launched \cup {at}
    /\ UNCHANGED <<at, memory, disk, failure, error, refused>>
    /\ UNCHANGED <<env, cancelled, drift, disturbed>>

ProcessNotStarted ==
    /\ pc = "run"
    /\ failure' = IF cancelled THEN "EXEC_CANCELLED" ELSE "EXEC_START_FAILED"
    /\ pc' = "capture_failed"
    /\ UNCHANGED <<at, memory, disk, error, refused>>
    /\ UnchangedWorld

\* A registered write changes its action's facts, perhaps in several stages.
\* It has a process group of its own, so it survives the executor.
ProcessWrites ==
    /\ pc \in {"process", "orphaned"}
    /\ \E value \in Facts \ {env[at]} : env' = [env EXCEPT ![at] = value]
    /\ UNCHANGED <<executing, disk, cancelled, history, drift>>

\* OSRunner.Run's classification of a command that was started.  When a
\* descendant keeps the output pipes open past WaitDelay, a successful exit
\* surfaces as exec.ErrWaitDelay, which is none of the known errors.
ProcessFailures ==
    IF cancelled THEN {"EXEC_CANCELLED"}
    ELSE {"EXEC_TIMEOUT", "EXEC_EXIT_NONZERO", "EXEC_ABNORMAL_EXIT"}
         \cup IF InheritedPipes THEN {"EXEC_START_FAILED"} ELSE {}

ProcessSucceeds ==
    /\ pc = "process"
    /\ pc' = "capture_after"
    /\ UNCHANGED <<at, memory, disk, failure, error, refused>>
    /\ UnchangedWorld

ProcessFails ==
    /\ pc = "process"
    /\ failure' \in ProcessFailures
    /\ pc' = "capture_failed"
    /\ UNCHANGED <<at, memory, disk, error, refused>>
    /\ UnchangedWorld

FailureState(code) ==
    IF code = "EXEC_TIMEOUT" THEN "timed_out"
    ELSE IF code = "EXEC_CANCELLED" THEN "cancelled"
    ELSE "failed"

\* The after snapshot of a failed process is best effort: its error is lost.
FinishFailedProcess ==
    /\ pc = "capture_failed"
    /\ \E s \in {Step} \cup
                (IF at \in Captures THEN {WithAfter(Step, env[at])} ELSE {}) :
         FinishFailure(WithStep(s), FailureState(failure), failure)
    /\ UnchangedWorld

CaptureAfter ==
    /\ pc = "capture_after"
    /\ LET verifying == [Step EXCEPT !.state = "verifying",
                                     !.verification = "pending"]
           captured == IF at \in Captures THEN WithAfter(verifying, env[at])
                       ELSE verifying
       IN  \/ /\ at \in Captures
              /\ FinishFailure(
                   MoveTo(WithStep([verifying EXCEPT !.verification = "failed"]),
                          "verifying"), "failed", "VERIFY_FAILED")
           \/ SaveThen(MoveTo(WithStep(captured), "verifying"), "verify", at)
    /\ UnchangedWorld

\* Fault: a failed verification does not stop the following actions.
VerifyFailsAndGoesOn ==
    /\ pc = "verify" /\ at < N
    /\ SaveThen(MoveTo(WithStep([Step EXCEPT !.state = "failed",
                    !.finished = TRUE, !.verification = "failed"]), "running"),
                "next", at + 1)
    /\ UnchangedWorld

VerifyFails ==
    /\ pc = "verify"
    /\ FinishFailure(WithStep([Step EXCEPT !.verification = "failed"]),
                     "failed", "VERIFY_FAILED")
    /\ UnchangedWorld

\* Fault: what was found satisfied is not verified again.
VerifyPassesWhenSkipped ==
    /\ pc = "verify"
    /\ Step.skipped \/ env[at] = Target
    /\ pc' = "verified"
    /\ disturbed' = disturbed \ {at}
    /\ UNCHANGED <<at, memory, disk, failure, error, refused>>
    /\ UNCHANGED <<env, cancelled, drift, launched>>

\* The verification reads the facts once; from here on other programs may
\* change them again before the completion is saved.
VerifyPasses ==
    /\ pc = "verify" /\ env[at] = Target
    /\ pc' = "verified"
    /\ disturbed' = disturbed \ {at}
    /\ UNCHANGED <<at, memory, disk, failure, error, refused>>
    /\ UNCHANGED <<env, cancelled, drift, launched>>

CompletedStep == [Step EXCEPT !.state = "completed", !.finished = TRUE,
                              !.verification = "passed"]

\* Fault: the loop runs once too often.
SaveCompletionPastTheEnd ==
    /\ pc = "verified"
    /\ SaveThen(MoveTo(WithStep(CompletedStep), "running"), "next", at + 1)
    /\ UnchangedWorld

SaveCompletion ==
    /\ pc = "verified"
    /\ IF at < N
       THEN SaveThen(MoveTo(WithStep(CompletedStep), "running"), "next", at + 1)
       ELSE SaveThen([MoveTo(WithStep(CompletedStep), "completed")
                        EXCEPT !.finished = TRUE], "returned", at)
    /\ UnchangedWorld

-----------------------------------------------------------------------------
(* The rest of the machine.                                                *)

\* RecoverInterrupted and a save, once no executor works on the record.
Recover ==
    /\ pc \in Killed \cup {"returned"}
    /\ disk # NoRecord
    /\ disk.state \in ActiveStates
    /\ ValidRecord(Interrupted(disk))
    /\ disk' = Interrupted(disk)
    /\ UNCHANGED <<executing, env, cancelled, history, drift>>

Crash ==
    /\ pc \in Working
    /\ pc' = IF pc = "process" THEN "orphaned" ELSE "crashed"
    /\ memory' = NoRecord
    /\ UNCHANGED <<at, failure, error, disk, env, cancelled, history, drift>>

OrphanEnds ==
    /\ pc = "orphaned"
    /\ pc' = "crashed"
    /\ UNCHANGED <<at, memory, failure, error>>
    /\ UNCHANGED <<disk, env, cancelled, history, drift>>

Cancel ==
    /\ pc \in Working /\ ~cancelled
    /\ cancelled' = TRUE
    /\ UNCHANGED <<executing, disk, env, history, drift>>

EnvironmentChanges ==
    /\ drift < MaxDrift
    /\ drift' = drift + 1
    /\ \E i \in Positions, value \in Facts :
         /\ value # env[i] /\ env' = [env EXCEPT ![i] = value]
         /\ disturbed' = disturbed \cup {i}
    /\ UNCHANGED <<executing, disk, cancelled, launched, refused>>

\* Fault: nothing ends a process that does not end by itself.
WorkWithoutTimeout ==
    \/ StopBeforeStep \/ StartStep \/ Preflight \/ CaptureBefore
    \/ CheckSatisfied \/ LaunchProcess \/ ProcessNotStarted
    \/ FinishFailedProcess \/ CaptureAfter \/ VerifyFails \/ VerifyPasses
    \/ SaveCompletion

\* The statements of Execute itself, each of which takes bounded time.
Work ==
    \/ StopBeforeStep \/ StartStep \/ Preflight \/ CaptureBefore
    \/ CheckSatisfied \/ LaunchProcess \/ ProcessNotStarted
    \/ ProcessSucceeds \/ ProcessFails \/ FinishFailedProcess
    \/ CaptureAfter \/ VerifyFails \/ VerifyPasses
    \/ SaveCompletion

Next ==
    \/ Accept \/ Work
    \/ ProcessWrites \/ OrphanEnds
    \/ Recover \/ Crash \/ Cancel \/ EnvironmentChanges

Spec == Init /\ [][Next]_vars

\* Execute keeps running until it returns or is killed, and its process ends:
\* every command has a timeout after which its process group is killed.
FairSpec == Spec /\ WF_vars(Work)

-----------------------------------------------------------------------------
(* Safety.                                                                 *)

Settled(r) == r # NoRecord /\ r.state \in TerminalStates

\* The record's own validation never refuses what Execute does: no save is
\* turned down, so a failed one means that the disk failed; and what Execute
\* returns, the record of logFailure included, is a valid terminal record,
\* as AttachOperation and AssessRecovery demand (store.go Save, codec.go).
EveryRecordIsValid ==
    /\ ~refused
    /\ pc = "returned" /\ memory # NoRecord =>
         Settled(memory) /\ ValidRecord(memory)

\* Write-ahead: no write process was ever started that the record on disk
\* does not show as begun, checked and photographed, so that a crash at any
\* instant leaves a trace of it (the saves at executor.go:94 and 116).
WriteAhead ==
    \A i \in launched :
        /\ disk # NoRecord
        /\ disk.steps[i].invoked
        /\ disk.steps[i].state # "pending"
        /\ disk.steps[i].precondition \in {"passed", "failed"}
        /\ i \in Captures => disk.steps[i].before # NoSnapshot

\* No write process was started before every action it depends on had been
\* verified and its completion had reached the disk.
DependenciesFirst ==
    \A i \in launched : \A d \in Dependencies[i] :
        disk # NoRecord /\ disk.steps[d].state = "completed"

\* The persisted steps are a completed prefix, at most one step in some other
\* state, and a pending rest: the partition continuation relies on.
CompletedPrefix(r) ==
    \A i, j \in Positions :
        i < j /\ r.steps[j].state # "pending" => r.steps[i].state = "completed"

HistoryIsAPrefix == disk # NoRecord => CompletedPrefix(disk)

\* Every write process that was started is either a completed step or a
\* recovery candidate of every terminal record of the operation, the one on
\* disk and the one returned (D-041: a failed step that had started its write
\* process without a provable difference is "uncertain").
Accounted(r) ==
    \A i \in launched :
        r.steps[i].state = "completed" \/ RecoveryEvidence(r.steps[i])

EveryWriteIsAccountedFor ==
    /\ Settled(disk) => Accounted(disk)
    /\ pc = "returned" /\ Settled(memory) => Accounted(memory)

\* What the caller is told agrees with what a reader of the disk finds: the
\* same record, unless the log failed, and then never a completed one.
ReturnAgreesWithDisk ==
    pc = "returned" =>
        IF error = "LOG_WRITE_FAILED"
        THEN disk # NoRecord => disk.state # "completed"
        ELSE disk = memory /\ (disk.state = "completed" <=> error = "none")

CompletedOnDisk ==
    IF disk = NoRecord THEN {}
    ELSE {i \in Positions : disk.steps[i].state = "completed"}

\* A completed step can be relied on: its facts are at the target, or another
\* program has changed them since they were verified.  Nothing that the
\* operation did itself, before the completion reached the disk or after,
\* explains a completed step that is not at its target: not the after snapshot
\* taken too early, a skipped write, a later action, a crash or a write process
\* that outlives its executor (executor.go:148-189).
CompletionIsVerified ==
    \A i \in CompletedOnDisk : env[i] = Target \/ i \in disturbed

-----------------------------------------------------------------------------
(* Liveness.                                                               *)

\* An accepted operation ends: with a terminal record on disk, with an error
\* that says the log failed, or with the executor killed.
EveryOperationEnds ==
    pc \in Working ~>
        Settled(disk) \/ error = "LOG_WRITE_FAILED" \/ pc \in Killed
=============================================================================
