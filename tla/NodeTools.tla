----------------------------- MODULE NodeTools -----------------------------
(***************************************************************************)
(* Updating npm, Corepack and pnpm under one Node.js, and continuing an    *)
(* update that failed: internal/nodetools with its adapter, and the        *)
(* continuation rules of internal/execution and internal/plan.             *)
(*                                                                         *)
(* A Plan is seen as what its ID covers.  A draft (Plan 0.4.0) and the     *)
(* executable continuation (0.5.0) made from it have the same content, so  *)
(* they are one value here.  The executor is seen step by step, without    *)
(* its saves, which the module Executor has: an operation whose log failed *)
(* leaves the same record as one that was killed.                          *)
(***************************************************************************)
EXTENDS Naturals, FiniteSets, Sequences

CONSTANTS None,          \* no Plan, no snapshot
          TTL,           \* lifetime of a Plan
          Newest,        \* the newest version of any tool
          Options,       \* what is asked for: a version of each selected tool
          MaxTime,       \* bounds on the clock,
          MaxFaults,     \*   on crashes and changes by other programs,
          MaxOperations  \*   and on the operations, new ones counted twice

ASSUME BoundAssumption ==
    {TTL, MaxTime, MaxFaults, MaxOperations} \subseteq Nat

npm == 1
corepack == 2
pnpm == 3

\* In the order of their rank, which is the order of the actions of a Plan.
Tools == {npm, corepack, pnpm}

\* Version 1 is installed at first, and 0 says that a tool is absent.  The
\* build stands for the control digest of a package, which tells two
\* installations of one version apart.
Targets == 2..(Newest - 1)
Packages == [version: 0..Newest, build: {0, 1}]
Package(v, b) == [version |-> v, build |-> b]
Absent == Package(0, 0)
Providers == {"npm", "corepack"}

ASSUME OptionsAssumption ==
    /\ Newest \in Nat /\ Newest > 2
    /\ \A targets \in Options :
         /\ DOMAIN targets \in (SUBSET Tools) \ {{}}
         /\ targets \in [DOMAIN targets -> Targets]

VARIABLES
    clock,
    drift,      \* number of changes made by other programs
    crashes,    \* number of executors killed
    installed,  \* tool -> package; of pnpm under Corepack, its version
    provider,   \* what provides pnpm
    control,    \* the NVM script, default alias and active version
    prepared,   \* the Plan under review, or None
    disk,       \* Operation Records on disk, by operation ID
    phase,      \* what the executor does with the last of them, or "idle"
    before,     \* the before snapshot of its current step, or None
    baseline    \* what the scan before it saw, for the adapter, or None

executing == <<phase, before, baseline>>
faults == <<drift, crashes>>
machine == <<installed, provider, control>>
vars == <<clock, faults, machine, prepared, disk, executing>>

\* Corepack provides pnpm at first; npm is one change by another program away.
Init ==
    /\ clock = 0 /\ drift = 0 /\ crashes = 0
    /\ installed = [t \in Tools |-> Package(1, 0)]
    /\ provider = "corepack"
    /\ control = 0
    /\ prepared = None
    /\ disk = <<>> /\ phase = "idle" /\ before = None /\ baseline = None

-----------------------------------------------------------------------------
(* What a scan sees.                                                       *)

\* The shim of a Corepack-managed pnpm resolves into the Corepack package.
Facts(t) ==
    IF t = pnpm /\ provider = "corepack"
    THEN [version |-> installed[pnpm].version, provider |-> "corepack",
          digest |-> installed[corepack]]
    ELSE [version |-> installed[t].version, provider |-> "npm",
          digest |-> installed[t]]

Present(facts) == facts.version # 0 /\ facts.digest.version # 0

\* Fault: snapshots are compared whole.
WholeEvidence(t) == [facts |-> [u \in Tools |-> Facts(u)], control |-> control]

\* What the snapshots of one action are compared by.
Evidence(t) == [facts |-> Facts(t), control |-> control]

-----------------------------------------------------------------------------
(* Plans.                                                                  *)

Dependencies(t, tools, by) ==
    CASE t = npm -> {}
      [] t = corepack -> {npm} \cap tools
      [] t = pnpm -> (IF by = "corepack" THEN {corepack} ELSE {npm}) \cap tools

\* selectedTargets and normalizeNodeToolTargets: a target must be installed
\* and not newer than what is asked for.
Owned(t) == Present(Facts(t))
Upward(t, target) == Facts(t).version <= target
Selectable(tools, targets) == \A t \in tools : Owned(t) /\ Upward(t, targets[t])

\* BuildNodeTools: a fresh Plan for these tools, of those that have targets.
NodeToolsPlan(tools, targets, created) ==
    [source |-> 0, created |-> created, control |-> control,
     tools |-> tools, targets |-> targets,
     facts |-> [t \in tools |-> Facts(t)],
     deps |-> [t \in tools |-> Dependencies(t, tools, provider)],
     checkpoints |-> <<>>, satisfied |-> {}]

Completed(op) == {t \in op.plan.tools : op.steps[t].state = "completed"}

Remaining(op) == {t \in op.plan.tools : op.steps[t].state # "completed"}

\* revalidateCheckpoint: the action's facts are those that were recorded.
Revalidated(op, t) ==
    /\ control = op.plan.control
    /\ Present(Facts(t)) /\ Facts(t).version = op.plan.targets[t]
    /\ Facts(t).provider = op.plan.facts[t].provider
    /\ Evidence(t) = op.steps[t].after

\* Fault: an operation may be continued before it has ended.
AssessedEarly(op) ==
    /\ Remaining(op) # {}
    /\ \A t \in Completed(op) :
         op.plan.deps[t] \subseteq Completed(op) /\ Revalidated(op, t)

\* AssessContinuation: the source has ended, something remains, and every
\* completed action is still what its checkpoint says.
Eligible(op) ==
    /\ op.state = "failed"
    /\ Remaining(op) # {}
    /\ \A t \in Completed(op) :
         op.plan.deps[t] \subseteq Completed(op) /\ Revalidated(op, t)

\* What completed before: each action with its recorded and current evidence.
Checkpoints(op) ==
    [t \in Completed(op) |->
        [recorded |-> op.steps[t].after, observed |-> Evidence(t)]]

\* The dependencies of what remains that a checkpoint satisfies.
SatisfiedDependencies(op) ==
    {e \in Remaining(op) \X Completed(op) : e[2] \in op.plan.deps[e[1]]}

\* nodeToolsSource: the versions that the actions of the source were to reach.
SourceTargets(op) == [t \in op.plan.tools |-> op.plan.targets[t]]

\* BuildContinuationPlan: a fresh Plan of what remains, bound to the source.
Continuation(id, created) ==
    LET op == disk[id]
    IN  [NodeToolsPlan(Remaining(op), SourceTargets(op), created) EXCEPT
           !.source = id,
           !.checkpoints = Checkpoints(op),
           !.satisfied = SatisfiedDependencies(op)]

\* nodeToolsSource: the dependencies of the source are those of its actions.
SupportedSource(op) ==
    \A t \in op.plan.tools :
        op.plan.deps[t] = Dependencies(t, op.plan.tools,
            IF pnpm \in op.plan.tools THEN op.plan.facts[pnpm].provider ELSE "npm")

\* plan.Validate of a continuation: actions and checkpoints partition the
\* actions of the source, and satisfied dependencies lead from one to the other.
ValidContinuation(plan) ==
    LET checkpoints == DOMAIN plan.checkpoints
    IN  /\ plan.tools # {} /\ plan.tools \cap checkpoints = {}
        /\ plan.tools \cup checkpoints = DOMAIN plan.targets
        /\ \A e \in plan.satisfied :
             e[1] \in plan.tools /\ e[2] \in checkpoints /\ e[2] < e[1]

\* prepareContinuationContext, with the demands of BuildContinuationPlan: it
\* postdates the source, and actions and dependencies are those of the source.
Continues(id, created) ==
    LET op == disk[id]
        fresh == Continuation(id, created)
    IN  /\ SupportedSource(op) /\ Eligible(op)
        /\ Selectable(Remaining(op), SourceTargets(op))
        /\ created > op.updated
        /\ \A t \in fresh.tools :
             /\ fresh.facts[t].provider = op.plan.facts[t].provider
             /\ fresh.deps[t] = op.plan.deps[t] \cap Remaining(op)
        /\ ValidContinuation(fresh)

-----------------------------------------------------------------------------
(* The service.                                                            *)

\* What is counted against MaxOperations.
Cost(operations) ==
    Len(operations) + Cardinality({id \in 1..Len(operations) :
                                      operations[id].plan.source = 0})

Prepare ==
    /\ phase = "idle" /\ Cost(disk) + 2 <= MaxOperations
    /\ \E targets \in Options :
         /\ Selectable(DOMAIN targets, targets)
         /\ prepared' = NodeToolsPlan(DOMAIN targets, targets, clock)
    /\ UNCHANGED <<clock, faults, machine, disk, executing>>

PrepareContinuation ==
    /\ phase = "idle"
    /\ \E id \in 1..Len(disk) :
         /\ Continues(id, clock)
         /\ prepared' = Continuation(id, clock)
    /\ UNCHANGED <<clock, faults, machine, disk, executing>>

\* Fault: the Plan is not built again before it is executed.
RebuildsAlways(plan) == TRUE

\* A second scan gives the same Plan, built with the instant of the first.
Rebuilds(plan) ==
    IF plan.source = 0
    THEN /\ Selectable(plan.tools, plan.targets)
         /\ NodeToolsPlan(plan.tools, plan.targets, plan.created) = plan
    ELSE /\ Continues(plan.source, plan.created)
         /\ Continuation(plan.source, plan.created) = plan

\* Of the snapshots of a step, the record here keeps the one that a checkpoint
\* is compared with, and whether the two of them differ.
PendingStep == [state |-> "pending", changed |-> FALSE, after |-> None]

\* Definition.Build: what is to run the update is installed.
Buildable(t) ==
    installed[IF t = pnpm /\ provider = "corepack" THEN corepack ELSE npm].version # 0

\* The executor accepts a confirmed Plan in time, and writes its record.
\* Nothing marks the Plan as used, so it can be executed again.
Start ==
    /\ clock < prepared.created + TTL
    /\ \A t \in prepared.tools : Buildable(t)
    /\ Cost(Append(disk, [plan |-> prepared])) <= MaxOperations
    /\ disk' = Append(disk, [plan |-> prepared, state |-> "active",
                             updated |-> clock,
                             steps |-> [t \in prepared.tools |-> PendingStep]])
    /\ phase' = "check"
    /\ baseline' = [facts |-> [t \in Tools |-> Facts(t)], control |-> control]
    /\ UNCHANGED <<clock, faults, machine, prepared, before>>

Execute ==
    /\ phase = "idle" /\ prepared # None
    /\ prepared.source = 0 /\ Rebuilds(prepared)
    /\ Start

ExecuteContinuation ==
    /\ phase = "idle" /\ prepared # None
    /\ prepared.source # 0 /\ Rebuilds(prepared)
    /\ Start

-----------------------------------------------------------------------------
(* The executor with the adapter's callbacks.                              *)

Running == Len(disk)
current == disk[Running]

\* The step whose turn it is: the first that is not completed.
Left == current.plan.tools \ Completed(current)

\* Fault: the actions run in the reverse order.
AtLast == CHOOSE t \in Left : \A u \in Left : u <= t

at == CHOOSE t \in Left : \A u \in Left : t <= u

\* The record on disk with this step in this state.
Record(step, state) ==
    disk' = [disk EXCEPT ![Running] =
        [@ EXCEPT !.steps[at] = step, !.state = state, !.updated = clock]]

\* The executor returns with a failure, with a snapshot of these facts, if any.
Return(after) ==
    /\ Record([state |-> "failed", after |-> None,
                changed |-> after # None /\ after # before], "failed")
    /\ phase' = "idle" /\ before' = None /\ baseline' = None

\* A changed Corepack changes what its pnpm resolves to, so the pnpm action
\* that follows compares the version it reports, and Corepack's.
PreflightPasses ==
    /\ control = baseline.control
    /\ LET actual == Facts(at)
           expected == baseline.facts[at]
           targets == current.plan.targets
       IN  IF actual.provider = "corepack" /\ corepack \in DOMAIN targets
           THEN /\ expected.provider = actual.provider
                /\ actual.version = expected.version
                /\ installed[corepack].version = targets[corepack]
           ELSE actual = expected

\* What the step whose turn it is is to reach.
Target == current.plan.targets[at]

\* Preflight, Capture and Satisfied; a step that is satisfied is not run.
CheckStep ==
    /\ phase = "check" /\ PreflightPasses
    /\ before' = Evidence(at)
    /\ IF Facts(at).version = Target
       THEN /\ Record([state |-> "running", changed |-> FALSE,
                        after |-> before'], "active")
            /\ phase' = "verify"
       ELSE /\ Record([PendingStep EXCEPT !.state = "running"], "active")
            /\ phase' = "write"
    /\ UNCHANGED <<clock, faults, machine, prepared, baseline>>

\* A check fails, or the operation is cancelled before the step.
StepRefused ==
    /\ phase = "check"
    /\ Return(None)
    /\ UNCHANGED <<clock, faults, machine, prepared>>

\* A package manager leaves what was there, half of another package, or the
\* target; another Corepack may bring the newest pnpm with it.
Installs ==
    /\ \E package \in {installed[at], Package(installed[at].version, 1),
                       Package(Target, 0)} :
         LET update == [installed EXCEPT ![at] = package]
         IN  installed' \in {update} \cup
                 IF at = corepack /\ provider = "corepack"
                 THEN {[update EXCEPT ![pnpm] = Package(Newest, 0)]} ELSE {}
    /\ UNCHANGED <<provider, control>>

WriteSucceeds ==
    /\ phase = "write"
    /\ Installs
    /\ \E t \in {at} :
         Record([state |-> "running", after |-> Evidence(t)',
                 changed |-> Evidence(t)' # before], "active")
    /\ phase' = "verify"
    /\ UNCHANGED <<clock, faults, prepared, before, baseline>>

\* The snapshot after a failed process is best effort; without one, a process
\* that succeeded has failed too.
WriteFails ==
    /\ phase = "write"
    /\ Installs
    /\ \E t \in {at} : \E after \in {None, Evidence(t)'} : Return(after)
    /\ UNCHANGED <<clock, faults, prepared>>

Verifies ==
    /\ control = baseline.control
    /\ Present(Facts(at)) /\ Facts(at).version = Target
    /\ Facts(at).provider = current.plan.facts[at].provider

VerificationPasses ==
    /\ phase = "verify" /\ Verifies
    /\ phase' = "verified"
    /\ UNCHANGED <<clock, faults, machine, prepared, disk, before, baseline>>

\* The save of a completed step does not look at the machine again.
StepCompletes ==
    /\ phase = "verified"
    /\ LET done == [current.steps[at] EXCEPT !.state = "completed"]
       IN  IF Left = {at}
           THEN Record(done, "completed") /\ phase' = "idle"
           ELSE Record(done, "active") /\ phase' = "check"
    /\ before' = None
    /\ baseline' = IF phase' = "idle" THEN None ELSE baseline
    /\ UNCHANGED <<clock, faults, machine, prepared>>

VerificationFails ==
    /\ phase = "verify"
    /\ Return(current.steps[at].after)
    /\ UNCHANGED <<clock, faults, machine, prepared>>

\* The executor is killed, or a save fails; a write may have gone some way.
Crash ==
    /\ phase # "idle"
    /\ drift + crashes < MaxFaults /\ crashes' = crashes + 1
    /\ IF phase = "write" THEN Installs ELSE UNCHANGED machine
    /\ phase' = "idle" /\ before' = None /\ baseline' = None
    /\ UNCHANGED <<clock, drift, prepared, disk>>

InterruptedSteps(op) ==
    [t \in op.plan.tools |->
        IF op.steps[t].state = "running"
        THEN [op.steps[t] EXCEPT !.state = "failed", !.after = None]
        ELSE op.steps[t]]

\* RecoverInterrupted and a save, of a record that has begun its first step.
Recover ==
    /\ phase = "idle"
    /\ \E id \in 1..Len(disk) :
         /\ disk[id].state = "active"
         /\ \E t \in disk[id].plan.tools : disk[id].steps[t].state # "pending"
         /\ disk' = [disk EXCEPT ![id] =
              [@ EXCEPT !.state = "failed", !.updated = clock,
                        !.steps = InterruptedSteps(disk[id])]]
    /\ UNCHANGED <<clock, faults, machine, prepared, executing>>

-----------------------------------------------------------------------------
(* The rest of the machine.                                                *)

\* Others install version 2 of a tool, or remove it.  A change that precedes the first
\* Plan is another initial state, and is left out.
Other(package) == IF package = Package(2, 0) THEN Absent ELSE Package(2, 0)

Drift ==
    /\ drift + crashes < MaxFaults /\ prepared # None
    /\ drift' = drift + 1
    /\ \/ /\ \E t \in Tools : installed' = [installed EXCEPT ![t] = Other(@)]
          /\ UNCHANGED <<provider, control>>
       \/ /\ provider' \in Providers \ {provider}
          /\ UNCHANGED <<installed, control>>
       \/ /\ control' = 1 - control
          /\ UNCHANGED <<installed, provider>>
    /\ UNCHANGED <<clock, crashes, prepared, disk, executing>>

\* Time passes after an operation; that it passes before one changes nothing.
Tick ==
    /\ phase = "idle" /\ clock < MaxTime
    /\ \E id \in 1..Len(disk) : disk[id].updated = clock
    /\ clock' = clock + 1
    /\ UNCHANGED <<faults, machine, prepared, disk, executing>>

Next ==
    \/ Prepare \/ PrepareContinuation \/ Execute \/ ExecuteContinuation
    \/ CheckStep \/ StepRefused \/ WriteSucceeds \/ WriteFails
    \/ VerificationPasses \/ StepCompletes \/ VerificationFails
    \/ Crash \/ Recover \/ Drift \/ Tick

Spec == Init /\ [][Next]_vars

-----------------------------------------------------------------------------
(* Properties.                                                             *)

StepStates == {"pending", "running", "completed", "failed"}

TypeOK ==
    /\ clock \in 0..MaxTime /\ drift \in 0..MaxFaults /\ crashes \in 0..MaxFaults
    /\ installed \in [Tools -> Packages]
    /\ provider \in Providers /\ control \in {0, 1}
    /\ phase \in {"idle", "check", "write", "verify", "verified"}
    /\ prepared # None => prepared.tools \in (SUBSET Tools) \ {{}}
    /\ Len(disk) <= MaxOperations
    /\ \A id \in 1..Len(disk) :
         /\ disk[id].state \in {"active", "completed", "failed"}
         /\ disk[id].updated \in 0..clock
         /\ disk[id].plan.source \in 0..(id - 1)
         /\ \A t \in disk[id].plan.tools : disk[id].steps[t].state \in StepStates
    /\ phase # "idle" => current.state = "active" /\ Left # {}

\* The operation and all those it continues, directly or not.
Chain(last) ==
    LET chain[id \in 0..last] ==
          IF id = 0 THEN {} ELSE {id} \cup chain[disk[id].plan.source]
    IN  chain[last]

\* Along a chain of continuations, no completed action is done again, and none
\* is begun before those that it depends on in the first Plan of the chain are
\* completed in the chain, although every Plan names only what is left of the
\* one before (D-030, D-038).
ChainsRespectTheFirstPlan ==
    \A id \in 1..Len(disk) :
        LET chain == Chain(id)
            done == UNION {Completed(disk[j]) : j \in chain}
            first == disk[CHOOSE j \in chain : \A k \in chain : j <= k].plan
        IN  /\ \A j, k \in chain : j # k =>
                  Completed(disk[j]) \cap Completed(disk[k]) = {}
            /\ \A t \in disk[id].plan.tools :
                  /\ t \in first.tools
                  /\ disk[id].steps[t].state # "pending" =>
                       first.deps[t] \subseteq done

\* What a continuation says of its source stays true: the source had ended
\* before, was not changed since, and its steps are the checkpoints and the
\* actions of the Plan (D-031: bound to a terminal source; D-039: a source is
\* never rewritten).
ContinuationsMatchTheirSource ==
    \A id \in 1..Len(disk) :
        LET plan == disk[id].plan
            source == disk[plan.source]
        IN  plan.source # 0 =>
              /\ source.state = "failed" /\ source.updated < plan.created
              /\ plan.tools = Remaining(source)
              /\ DOMAIN plan.checkpoints = Completed(source)
              /\ \A t \in Completed(source) :
                   plan.checkpoints[t].recorded = source.steps[t].after
              /\ \A t \in plan.tools :
                   source.plan.deps[t] =
                     plan.deps[t] \cup {d \in Completed(source) : <<t, d>> \in plan.satisfied}

\* Unless another program puts the old state back, one confirmation never
\* covers two changes of a tool: a Plan executed again after it has changed
\* something is refused, although nothing marks it as used (service.go
\* Execute and continuation.go ExecuteContinuation compare the rebuilt ID).
OneConfirmationOneChange ==
    drift = 0 =>
        \A i, j \in 1..Len(disk) :
            i # j /\ disk[i].plan = disk[j].plan =>
                \A t \in disk[i].plan.tools :
                    ~(disk[i].steps[t].changed /\ disk[j].steps[t].changed)

\* A later operation has begun to bring the tool to another version.
Retargeted(id, t) ==
    \E later \in (id + 1)..Len(disk) :
        LET op == disk[later]
        IN  /\ t \in op.plan.tools /\ op.steps[t].state # "pending"
            /\ op.plan.targets[t] # disk[id].plan.targets[t]

\* Without other programs, completed work is lost only to an operation that
\* was told to bring a tool to another version: whatever else followed, an
\* operation that failed can be continued as soon as time has passed, provided
\* that what remains is installed and not newer than asked for.  So no write
\* of an action invalidates the checkpoint of another, and none is repeated
\* for a version that was already reached.
CompletedWorkStaysReusable ==
    drift = 0 /\ phase = "idle" =>
        \A id \in 1..Len(disk) :
            LET op == disk[id]
            IN  /\ op.state = "failed" /\ op.updated < clock
                /\ Selectable(Remaining(op), SourceTargets(op))
                /\ \A t \in Completed(op) : ~Retargeted(id, t)
                => Continues(id, clock)
=============================================================================
