------------------------------ MODULE Workflow ------------------------------
(***************************************************************************)
(* The staged workflow of internal/workflow: PrepareNext, ExecutePrepared  *)
(* and AttachOperation, with the service and the executor they delegate    *)
(* to seen through their results.                                          *)
(*                                                                         *)
(* The caller holds the Workflow Record, and persists it with the prepared *)
(* stage if it persists anything; what dies with its process is the native *)
(* context of the prepared stage and the operation that was running, whose *)
(* Operation Record stays active on disk until it is recovered.            *)
(*                                                                         *)
(* An Operation Record is seen here as its Plan, its instants and its      *)
(* state: its digest is the record itself.                                 *)
(***************************************************************************)
EXTENDS WorkflowRecord

CONSTANTS TTL,          \* lifetime of a Plan
          MaxTime,      \* bounds on the clock,
          MaxChanges,   \*   on the changes made by other programs
          MaxOperations, \*   and on the operations
          Outcomes      \* terminal states in which the executor may return

ASSUME BoundAssumption == {TTL, MaxTime, MaxChanges, MaxOperations} \subseteq Nat
ASSUME OutcomeAssumption == Outcomes \subseteq TerminalStates \ {"interrupted"}

\* What a Plan ID and a digest are computed from.
PlanIDs == [stage: Stages, baseline: UNION {[S -> BOOLEAN] : S \in SUBSET Stages},
            created: Nat]
Operations == [id: Nat, plan: PlanIDs, created: Nat, finished: Nat \cup {None},
               state: TerminalStates \cup {"active"}]

ASSUME UnsetAssumption == None \notin PlanIDs /\ None \notin Operations

VARIABLES
    clock,
    env,       \* stage -> has the machine what the stage is to achieve?
    changes,   \* number of changes made by other programs
    record,    \* the caller's Workflow Record, or None
    prepared,  \* the caller's PreparedStage, or None
    running,   \* the operation the executor works on, 0 for none
    returned,  \* the Operation Record Execute has returned, or None
    disk       \* Operation Records on disk, by operation ID

caller == <<record, prepared>>
machine == <<clock, env, changes>>
vars == <<machine, caller, running, returned, disk>>

Init ==
    /\ clock = 0 /\ changes = 0
    /\ env = [i \in Stages |-> FALSE]
    /\ record = None /\ prepared = None
    /\ running = 0 /\ returned = None /\ disk = <<>>

Idle == running = 0 /\ returned = None

Create ==
    /\ record = None
    /\ record' = NewRecord(clock)
    /\ UNCHANGED <<machine, prepared, running, returned, disk>>

-----------------------------------------------------------------------------
(* Preparing.                                                              *)

\* The Plans of the first two stages cover the installed versions and the
\* default, that of the third also the tools.
Scanned(i) == [j \in {k \in Stages : k <= 2 \/ k <= i} |-> env[j]]

\* A Plan of stage i made now: its ID covers what was scanned and when.
NewPlan(i) == [stage |-> i, baseline |-> Scanned(i), created |-> clock]

\* The later stages are prepared only for an installed target version.
CanPrepare(i) == i > 1 => env[1]

\* Fault: any stage that has not been started can be prepared.
PrepareAny ==
    /\ record # None /\ Idle
    /\ \E i \in Stages :
         /\ record.stages[i].state \in {"pending", "ready"}
         /\ record.state \notin TerminalStates
         /\ CanPrepare(i)
         /\ prepared' = [stage |-> i, plan |-> NewPlan(i), native |-> TRUE,
                         record |-> Bound(record, i, NewPlan(i), clock)]
    /\ UNCHANGED <<machine, record, running, returned, disk>>

\* PrepareNext, for the ready stage.  The record it starts from is left
\* alone, so an expired Plan is replaced by calling it again.
PrepareNext ==
    /\ record # None /\ Idle
    /\ \E i \in Stages :
         LET bound == Bound(record, i, NewPlan(i), clock)
         IN  /\ Advances(record, i, "ready", clock)
             /\ CanPrepare(i)
             /\ ValidRecord(bound)
             /\ prepared' = [stage |-> i, plan |-> NewPlan(i),
                             native |-> TRUE, record |-> bound]
    /\ UNCHANGED <<machine, record, running, returned, disk>>

-----------------------------------------------------------------------------
(* Executing.                                                              *)

\* ExecutePrepared, up to the creation of the Operation Record.  The service
\* scans again and refuses a Plan that does not come out the same; a refused
\* call changes nothing.
Execute ==
    /\ prepared # None /\ prepared.native /\ Idle
    /\ clock < prepared.plan.created + TTL
    /\ Scanned(prepared.stage) = prepared.plan.baseline
    /\ Len(disk) < MaxOperations
    /\ running' = Len(disk) + 1
    /\ disk' = Append(disk, [id |-> running', plan |-> prepared.plan,
                             created |-> clock, finished |-> None,
                             state |-> "active"])
    /\ UNCHANGED <<machine, caller, returned>>

\* What the write process of the operation leaves behind.
Written == \E value \in BOOLEAN :
    env' = [env EXCEPT ![disk[running].plan.stage] = value]

EndedOperation(state) ==
    [disk[running] EXCEPT !.state = state, !.finished = clock]

\* The executor returns the terminal record it has saved.
OperationEnds ==
    /\ running # 0
    /\ Written
    /\ \E state \in Outcomes :
         /\ state = "completed" => env'[disk[running].plan.stage]
         /\ returned' = EndedOperation(state)
    /\ disk' = [disk EXCEPT ![running] = returned']
    /\ running' = 0
    /\ UNCHANGED <<clock, changes, caller>>

\* A save failed: the executor returns a failed record that is not on disk.
OperationLosesLog ==
    /\ running # 0
    /\ Written
    /\ returned' = EndedOperation("failed")
    /\ running' = 0
    /\ UNCHANGED <<clock, changes, caller, disk>>

-----------------------------------------------------------------------------
(* Attaching.                                                              *)

\* AttachOperation: the record of the prepared stage, started and finished as
\* the Operation Record says.
Attached(op) ==
    Finished(Started(prepared.record, prepared.stage, op.id, op.created),
             prepared.stage, op.state, op, op.finished)

\* Fault: the Operation Record of any Plan is taken.
CanAttachAny(op) ==
    /\ op.state \in TerminalStates
    /\ Advances(prepared.record, prepared.stage, "planned", op.created)
    /\ ValidRecord(Attached(op))

\* What its guards and validations demand.
CanAttach(op) ==
    LET started == Started(prepared.record, prepared.stage, op.id, op.created)
    IN  /\ op.state \in TerminalStates
        /\ op.plan = prepared.plan
        /\ Advances(prepared.record, prepared.stage, "planned", op.created)
        /\ ValidRecord(started)
        /\ Advances(started, prepared.stage, "running", op.finished)
        /\ ValidRecord(Attached(op))

AttachReturned ==
    /\ returned # None /\ prepared # None
    /\ CanAttach(returned)
    /\ record' = Attached(returned)
    /\ prepared' = None /\ returned' = None
    /\ UNCHANGED <<machine, running, disk>>

\* After a restart the caller attaches what it finds on disk.
AttachFromDisk ==
    /\ prepared # None /\ ~prepared.native /\ Idle
    /\ \E id \in 1..Len(disk) :
         /\ CanAttach(disk[id])
         /\ record' = Attached(disk[id])
    /\ prepared' = None
    /\ UNCHANGED <<machine, running, returned, disk>>

-----------------------------------------------------------------------------
(* The rest.                                                               *)

\* The caller's process ends and is started again.
Restart ==
    /\ prepared # None /\ prepared.native
    /\ prepared' = [prepared EXCEPT !.native = FALSE]
    /\ IF running = 0 THEN UNCHANGED env ELSE Written
    /\ running' = 0 /\ returned' = None
    /\ UNCHANGED <<clock, changes, record, disk>>

\* Fault: the instant of the recovery is left unset.
RecoverBackdated ==
    /\ prepared # None /\ ~prepared.native /\ Idle
    /\ \E id \in 1..Len(disk) :
         /\ disk[id].state = "active" /\ disk[id].plan = prepared.plan
         /\ disk' = [disk EXCEPT ![id].state = "interrupted",
                                 ![id].finished = 0]
    /\ UNCHANGED <<machine, caller, running, returned>>

\* After a restart, RecoverInterrupted and a save make an operation of the
\* prepared stage terminal, so that it can be attached.
Recover ==
    /\ prepared # None /\ ~prepared.native /\ Idle
    /\ \E id \in 1..Len(disk) :
         /\ disk[id].state = "active" /\ disk[id].plan = prepared.plan
         /\ disk' = [disk EXCEPT ![id].state = "interrupted",
                                 ![id].finished = clock]
    /\ UNCHANGED <<machine, caller, running, returned>>

Tick ==
    /\ clock < MaxTime
    /\ clock' = clock + 1
    /\ UNCHANGED <<env, changes, caller, running, returned, disk>>

EnvironmentChanges ==
    /\ changes < MaxChanges
    /\ changes' = changes + 1
    /\ \E i \in Stages : env' = [env EXCEPT ![i] = ~@]
    /\ UNCHANGED <<clock, caller, running, returned, disk>>

Next ==
    \/ Create \/ PrepareNext \/ Execute
    \/ OperationEnds \/ OperationLosesLog
    \/ AttachReturned \/ AttachFromDisk
    \/ Restart \/ Recover \/ Tick \/ EnvironmentChanges

Spec == Init /\ [][Next]_vars

-----------------------------------------------------------------------------
(* Properties.                                                             *)

Instants == (0..MaxTime) \cup {None}

TypeOK ==
    /\ clock \in 0..MaxTime /\ changes \in 0..MaxChanges
    /\ env \in [Stages -> BOOLEAN]
    /\ running \in 0..Len(disk)
    /\ Len(disk) <= MaxOperations
    /\ \A id \in 1..Len(disk) :
         /\ disk[id].id = id /\ disk[id].plan.stage \in Stages
         /\ disk[id].state \in TerminalStates \cup {"active"}
         /\ disk[id].finished \in Instants
    /\ record # None => /\ record.state \in WorkflowStates
                        /\ \A i \in Stages : record.stages[i].state \in StageStates
                        /\ record.updated \in 0..clock
    /\ prepared # None => /\ prepared.stage \in Stages
                          /\ prepared.plan.created \in 0..clock

\* The workflow's own bookkeeping never refuses an operation of the prepared
\* stage that has ended, whether its record was returned, a lost log's
\* included, or is found on disk after a restart: no operation that changed
\* the machine is left out of the history by a check on times, transitions or
\* bindings (execute.go AttachOperation, record.go ValidateRecord).
AttachIsNeverRefused ==
    prepared # None =>
        /\ returned # None => CanAttach(returned)
        /\ \A id \in 1..Len(disk) :
             disk[id].plan = prepared.plan /\ disk[id].state # "active" =>
                 CanAttach(disk[id])

\* Every operation, attached or not, runs on a Plan that was made after an
\* operation of each earlier stage had completed (D-049: a later stage is
\* prepared only by a call after the earlier one completed).
StagesInOrder ==
    \A id \in 1..Len(disk), j \in Stages :
        j < disk[id].plan.stage =>
            \E done \in 1..Len(disk) :
                /\ disk[done].plan.stage = j
                /\ disk[done].state = "completed"
                /\ disk[done].finished <= disk[id].plan.created

\* A completed stage is bound to an Operation Record of its own Plan that is
\* on disk, completed, and still the one whose digest was taken (D-050).
CompletedStagesAreBacked ==
    record # None =>
        \A i \in Stages : record.stages[i].state = "completed" =>
            LET s == record.stages[i]
            IN  /\ s.operation \in 1..Len(disk)
                /\ disk[s.operation] = s.digest
                /\ s.digest.state = "completed"
                /\ s.digest.plan = s.plan
                /\ s.plan.stage = i

\* A workflow that has not ended has exactly one stage that is ready, and its
\* record accepts a Plan for it made at any later instant, so that a refused
\* or expired Plan, a crash or a lost operation never leaves it stuck.
CanGoOn ==
    record # None /\ record.state \notin TerminalStates =>
        \E i \in Stages :
            /\ \A j \in Stages : record.stages[j].state = "ready" <=> j = i
            /\ ValidRecord(Bound(record, i, NewPlan(i), clock))
=============================================================================
