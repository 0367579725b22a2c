---------------------------- MODULE NodeRuntime ----------------------------
(***************************************************************************)
(* The Node.js versions of NVM and its default alias: internal/apply,      *)
(* internal/defaultversion and their adapter internal/adapter/nvm, with    *)
(* the review of what an operation left behind (internal/execution,        *)
(* recovery.go) and the Recovery Manifest (internal/recoverymanifest).     *)
(*                                                                         *)
(* Every Plan here has one action, so a record is one step of the module   *)
(* OperationRecord.  Instants are left out: a Plan that expires is one     *)
(* that the user declines.  Failing saves, timeouts and cancellations of   *)
(* an operation are those of the module Executor.                          *)
(***************************************************************************)
EXTENDS Naturals, FiniteSets, Sequences

CONSTANTS None,          \* no Plan, no snapshot
          Installable,   \* the versions that are asked for by apply
          MaxEvents      \* bound on the operations and the faults, together

Versions == 1..3

\* The version of the shell that runs the program: it stays installed.
Active == 1

\* An apply is an update: NodeUpdateCandidate.
ASSUME InstallableAssumption == Installable \subseteq {v \in Versions : v > Active}
ASSUME BoundAssumption == MaxEvents \in Nat

\* An alias is a version, or the one that follows the newest, or missing.
Newest == 4
Missing == 0
Aliases == Versions \cup {Newest, Missing}

VARIABLES
    nodes,      \* version -> what its directory holds
    alias,      \* the default alias
    script,     \* the digest of nvm.sh
    prepared,   \* the Plan under review with the scan it was made from, or None
    disk,       \* Operation Records, by operation ID
    phase,      \* what the executor does next with the last of them, or "idle"
    baseline,   \* what the scan before it saw, or None
    reviews,    \* operation ID -> the state of its checkpoint, once reviewed
    faults,     \* number of crashes and changes by other programs
    disturbed   \* the operations that another program interfered with

machine == <<nodes, alias, script>>
executing == <<phase, baseline>>
history == <<faults, disturbed>>
vars == <<machine, prepared, disk, executing, reviews, history>>

Snapshots ==
    [alias: Aliases, version: Versions \cup {0}, present: SUBSET Versions,
     target: Versions, ready: BOOLEAN]

ASSUME NoneAssumption == None \notin Snapshots

Op == INSTANCE OperationRecord
        WITH N <- 1, Facts <- Snapshots, NoSnapshot <- None, NoRecord <- None

Init ==
    /\ nodes = [v \in Versions |-> IF v = 3 THEN "absent" ELSE "installed"]
    /\ alias = Newest /\ script = 0
    /\ prepared = None /\ disk = <<>> /\ phase = "idle" /\ baseline = None
    /\ reviews = <<>>
    /\ faults = 0 /\ disturbed = {}

-----------------------------------------------------------------------------
(* What a scan sees.                                                       *)

\* installedVersions counts directories, whatever they hold.
Present == {v \in Versions : nodes[v] # "absent"}

\* The inventory counts executables, as does verifyTargetInstalled.
Installed == {v \in Versions : nodes[v] = "installed"}

\* resolveAlias, over the directories.
Resolved ==
    IF alias \in Present THEN alias
    ELSE IF alias = Newest THEN CHOOSE v \in Present : \A u \in Present : u <= v
    ELSE 0

\* Inspect reads the alias, InspectDefault also resolves it.
Inspects == alias # Missing
InspectsDefault == Inspects /\ Resolved # 0

\* What the environment digest of a Plan covers.
Environment == [installed |-> Installed, default |-> {Resolved} \cap Installed]

Baseline == [script |-> script, alias |-> alias, present |-> Present]

-----------------------------------------------------------------------------
(* Preparing a Plan.                                                       *)

\* kind: install_version, set_default or restore_default.
Plan(kind, version, desired, source) ==
    [kind |-> kind, version |-> version, desired |-> desired, source |-> source,
     script |-> script, alias |-> alias, default |-> Resolved]

\* by: a command of the user, or a manifest, whose Plan nothing executes.
Prepared(plan, by) ==
    [plan |-> plan, environment |-> Environment, baseline |-> Baseline, by |-> by]

\* apply.Prepare does not resolve the alias.
CanInstall(v) == v \in Installable /\ Inspects
CanSet(v) == InspectsDefault /\ {v, Resolved} \subseteq Installed

\* recoverableSnapshots: a set_default, in any state, that is seen to have
\* changed the alias.
Recoverable(op) ==
    /\ op.plan.kind = "set"
    /\ op.step.before # None /\ op.step.after # None
    /\ op.step.before.alias # op.step.after.alias

\* Fault: the snapshots are compared whole.
UnchangedSinceEntirely(op) ==
    /\ alias = op.step.after.alias /\ Resolved = op.step.after.version
    /\ Present = op.step.after.present

\* Nobody chose another default after the operation.
UnchangedSince(op) == alias = op.step.after.alias /\ Resolved = op.step.after.version

CanRestore(id) ==
    /\ Recoverable(disk[id]) /\ InspectsDefault
    /\ UnchangedSince(disk[id])
    /\ disk[id].step.before.version \in Installed

Restore(id) ==
    Plan("restore", disk[id].step.before.version, disk[id].step.before.alias, id)

\* A fault is a crash or a change by another program.
Bounded == Len(disk) + faults < MaxEvents

Idle == phase = "idle" /\ prepared = None

PrepareInstall ==
    /\ Bounded /\ Idle
    /\ \E v \in Versions :
         CanInstall(v) /\ prepared' = Prepared(Plan("install", v, alias, 0), "command")
    /\ UNCHANGED <<machine, disk, executing, reviews, history>>

PrepareSet ==
    /\ Bounded /\ Idle
    /\ \E v \in Versions : CanSet(v) /\ prepared' = Prepared(Plan("set", v, v, 0), "command")
    /\ UNCHANGED <<machine, disk, executing, reviews, history>>

PrepareRestore ==
    /\ Bounded /\ Idle
    /\ \E id \in 1..Len(disk) : CanRestore(id) /\ prepared' = Prepared(Restore(id), "command")
    /\ UNCHANGED <<machine, disk, executing, reviews, history>>

\* The user declines, the Plan expires, or its execution is refused.
Decline ==
    /\ phase = "idle" /\ prepared # None
    /\ prepared' = None
    /\ UNCHANGED <<machine, disk, executing, reviews, history>>

-----------------------------------------------------------------------------
(* Executing it.                                                           *)

\* The Plan built from a second scan has the same ID.  apply takes the digests
\* of the first scan again, defaultversion compares them before.
Rebuilds(p) ==
    /\ Environment = p.environment
    /\ p.plan.kind # "install" =>
         /\ InspectsDefault
         /\ script = p.baseline.script /\ alias = p.baseline.alias
         /\ p.plan.version \in Installed
         /\ p.plan.kind = "set" => p.plan.default \in Installed

\* The adapter of an installation keeps the baseline of the first scan.
Execute ==
    /\ phase = "idle" /\ prepared # None /\ prepared.by = "command"
    /\ Rebuilds(prepared)
    /\ disk' = Append(disk, [plan |-> prepared.plan, state |-> "pending",
                             step |-> Op!NewStep])
    /\ phase' = "preflight"
    /\ baseline' = IF prepared.plan.kind = "install" THEN prepared.baseline
                                                     ELSE Baseline
    /\ prepared' = None
    /\ UNCHANGED <<machine, reviews, history>>

Running == Len(disk)
current == disk[Running]
plan == current.plan

Record(state, step) ==
    disk' = [disk EXCEPT ![Running].state = state, ![Running].step = step]

\* finishFailure.
Return(step, code) ==
    /\ Record("failed", Op!FailedStep(step, "failed", code))
    /\ phase' = "idle" /\ baseline' = None

Started ==
    [current.step EXCEPT !.state = "running", !.invoked = TRUE,
                         !.precondition = "pending"]

\* Fault: the alias is not compared again.
PreflightOfTheScript ==
    /\ InspectsDefault
    /\ script = baseline.script
    /\ plan.kind # "install" => plan.version \in Installed

PreflightPasses ==
    /\ InspectsDefault
    /\ script = baseline.script /\ alias = baseline.alias
    /\ plan.kind # "install" => plan.version \in Installed

Preflight ==
    /\ phase = "preflight"
    /\ IF PreflightPasses
       THEN Record("running", Started) /\ phase' = "capture" /\ UNCHANGED baseline
       ELSE Return([Started EXCEPT !.precondition = "failed"], "PRECONDITION_FAILED")
    /\ UNCHANGED <<machine, prepared, reviews, history>>

\* What Capture records; the snapshot of an installation has no version, and
\* that of a default does not look at the executable.
Snapshot(p) ==
    [alias |-> alias, present |-> Present, target |-> p.version,
     version |-> IF p.kind = "install" THEN 0 ELSE Resolved,
     ready |-> p.kind = "install" /\ p.version \in Installed]

Captures(p) == IF p.kind = "install" THEN Inspects ELSE InspectsDefault

Passed == [current.step EXCEPT !.precondition = "passed"]

CaptureBefore ==
    /\ phase = "capture"
    /\ IF Captures(plan)
       THEN /\ Record("running", [Passed EXCEPT !.before = Snapshot(plan)])
            /\ phase' = "write" /\ UNCHANGED baseline
       ELSE Return([Passed EXCEPT !.precondition = "failed"], "PRECONDITION_FAILED")
    /\ UNCHANGED <<machine, prepared, reviews, history>>

Satisfied ==
    IF plan.kind = "install" THEN plan.version \in Installed
    ELSE alias = plan.desired /\ Resolved = plan.version

\* The process exited with 0, or was not needed, and the state is captured.
Verifying(step) ==
    LET at == [step EXCEPT !.state = "verifying", !.verification = "pending"]
    IN  \E p \in {plan} :
          IF Captures(p)'
          THEN /\ Record("verifying", Op!WithAfter(at, Snapshot(p)'))
               /\ phase' = "verify" /\ UNCHANGED baseline
          ELSE Return([at EXCEPT !.verification = "failed"], "VERIFY_FAILED")

\* Of an installation only the executable is looked at.
Tells == plan.kind # "install" => InspectsDefault

\* The target is reached already.
SkipWrite ==
    /\ phase = "write" /\ Tells /\ Satisfied
    /\ UNCHANGED machine
    /\ Verifying([current.step EXCEPT !.skipped = TRUE])
    /\ UNCHANGED <<prepared, reviews, history>>

\* Whether it is reached cannot be told.
SatisfiedFails ==
    /\ phase = "write" /\ ~Tells
    /\ Return([current.step EXCEPT !.precondition = "failed"], "PRECONDITION_FAILED")
    /\ UNCHANGED <<machine, prepared, reviews, history>>

\* nvm install leaves a part of a version, nvm alias the old or the new alias.
Writes ==
    /\ IF plan.kind = "install"
       THEN /\ \E left \in {nodes[plan.version], "partial", "installed"} :
                 nodes' = [nodes EXCEPT ![plan.version] = left]
            /\ UNCHANGED alias
       ELSE alias' \in {alias, plan.desired} /\ UNCHANGED nodes
    /\ UNCHANGED script

Launches == phase = "write" /\ Tells /\ ~Satisfied

WriteSucceeds ==
    /\ Launches
    /\ Writes
    /\ Verifying(current.step)
    /\ UNCHANGED <<prepared, reviews, history>>

\* A process that failed, or never started; the state is captured if possible.
WriteFails ==
    /\ Launches
    /\ \E code \in {"EXEC_EXIT_NONZERO", "EXEC_START_FAILED"}, p \in {plan} :
         /\ IF code = "EXEC_START_FAILED" THEN UNCHANGED machine ELSE Writes
         /\ \E after \in {None} \cup (IF Captures(p)' THEN {Snapshot(p)'} ELSE {}) :
              Return(IF after = None THEN current.step
                     ELSE Op!WithAfter(current.step, after), code)
    /\ UNCHANGED <<prepared, reviews, history>>

\* Fault: what the default means is not looked at.
VerifiesTheAlias ==
    IF plan.kind = "install"
    THEN /\ Inspects /\ alias = baseline.alias
         /\ baseline.present \cup {plan.version} \subseteq Installed
    ELSE InspectsDefault /\ alias = plan.desired /\ plan.version \in Installed

\* verify and verifyDefault.
Verifies ==
    IF plan.kind = "install"
    THEN /\ Inspects /\ alias = baseline.alias
         /\ baseline.present \cup {plan.version} \subseteq Installed
    ELSE /\ InspectsDefault
         /\ alias = plan.desired /\ Resolved = plan.version
         /\ plan.version \in Installed

VerifyPasses ==
    /\ phase = "verify" /\ Verifies
    /\ Record("completed", [current.step EXCEPT !.state = "completed",
                              !.finished = TRUE, !.verification = "passed"])
    /\ phase' = "idle" /\ baseline' = None
    /\ UNCHANGED <<machine, prepared, reviews, history>>

\* A fresh shell may fail for a reason of its own.
VerifyFails ==
    /\ phase = "verify"
    /\ Return([current.step EXCEPT !.verification = "failed"], "VERIFY_FAILED")
    /\ UNCHANGED <<machine, prepared, reviews, history>>

-----------------------------------------------------------------------------
(* Review and manifest.                                                    *)

Evidence(op) ==
    CASE Op!Changed(op.step) -> "changed"
      [] Op!Uncertain(op.step) -> "uncertain"
      [] OTHER -> "none"

\* Fault: a record is reviewed whatever its state.
ReviewableAlways(op) == op.plan.kind # "restore"

\* A restore is never the source of another.
Reviewable(op) == op.plan.kind # "restore" /\ op.state \in Op!TerminalStates

\* Fault: that the alias still is the one that was set is taken for granted.
MatchesButForTheAlias(op) ==
    /\ script = op.plan.script
    /\ op.plan.kind = "set" => op.step.after.version = op.plan.version
    /\ Present = op.step.after.present

\* revalidateDefaultCheckpoint and revalidateInstallCheckpoint.
Matches(op) ==
    /\ script = op.plan.script
    /\ op.plan.kind = "set" => op.step.after.version = op.plan.version
    /\ Snapshot(op.plan) = op.step.after

\* RevalidateRecovery: only what changed is looked at again.
Checkpoint(op) ==
    CASE Evidence(op) = "none" -> "none"
      [] Evidence(op) = "uncertain" -> "uncertain"
      [] OTHER -> IF Matches(op) THEN "current" ELSE "drifted"

\* A scan that fails leaves no review.
Scans(op) ==
    CASE Evidence(op) # "changed" -> TRUE
      [] OTHER -> Captures(op.plan)

Review ==
    /\ Idle
    /\ \E id \in 1..Len(disk) :
         /\ id \notin DOMAIN reviews
         /\ Reviewable(disk[id]) /\ Scans(disk[id])
         /\ reviews' = [i \in DOMAIN reviews \cup {id} |->
                          IF i = id THEN [evidence |-> Evidence(disk[id]),
                                          checkpoint |-> Checkpoint(disk[id])]
                          ELSE reviews[i]]
    /\ UNCHANGED <<machine, prepared, disk, executing, history>>

\* RecoveryMode of the action that was confirmed.
Mode(op) == IF op.plan.kind = "set" THEN "plan" ELSE "manual"

\* dispositionFor.
Disposition(checkpoint, mode) ==
    CASE checkpoint = "current" /\ mode = "plan" -> "prepare_new_plan"
      [] checkpoint = "current" /\ mode = "manual" -> "manual_action"
      [] checkpoint = "uncertain" -> "investigate_uncertain"
      [] checkpoint = "drifted" -> "reassess_drifted"

\* Build: the items of the Recovery Manifest of these reviews.
Manifest ==
    {[source |-> id, evidence |-> reviews[id].evidence,
      disposition |-> Disposition(reviews[id].checkpoint, Mode(disk[id]))] :
        id \in {i \in DOMAIN reviews : reviews[i].evidence # "none"}}

\* recoverymanifest.PrepareRestore, which hands the one allowed kind of item
\* to defaultversion.PrepareRestore.
OfferRestore ==
    /\ Idle
    /\ \E item \in Manifest :
         /\ item.disposition = "prepare_new_plan"
         /\ CanRestore(item.source)
         /\ prepared' = Prepared(Restore(item.source), "manifest")
    /\ UNCHANGED <<machine, disk, executing, reviews, history>>

-----------------------------------------------------------------------------
(* Crashes and other programs.                                             *)

\* The write may have gone some way.
Crash ==
    /\ phase # "idle"
    /\ Bounded /\ faults' = faults + 1
    /\ IF Launches THEN Writes ELSE UNCHANGED machine
    /\ phase' = "idle" /\ baseline' = None
    /\ UNCHANGED <<prepared, disk, reviews, disturbed>>

\* RecoverInterrupted and a save.
Recover ==
    /\ phase = "idle"
    /\ \E id \in 1..Len(disk) :
         /\ disk[id].state \in Op!ActiveStates
         /\ disk' = [disk EXCEPT ![id].state = "interrupted",
                                 ![id].step = Op!InterruptedStep(@)]
    /\ UNCHANGED <<machine, prepared, executing, reviews, history>>

\* An operation is disturbed by what happens after its last comparison.
OtherProgram ==
    /\ Bounded /\ faults' = faults + 1
    /\ \/ /\ alias' \in Aliases \ {alias} /\ UNCHANGED <<nodes, script>>
       \/ /\ \E v \in Versions \ {Active} : \E left \in {"absent", "installed"} :
               nodes[v] # left /\ nodes' = [nodes EXCEPT ![v] = left]
          /\ UNCHANGED <<alias, script>>
       \/ script' = 1 - script /\ UNCHANGED <<nodes, alias>>
    /\ disturbed' = IF phase \in {"capture", "write", "verify"}
                    THEN disturbed \cup {Running} ELSE disturbed
    /\ UNCHANGED <<prepared, disk, executing, reviews>>

Next ==
    \/ PrepareInstall \/ PrepareSet \/ PrepareRestore \/ Decline \/ Execute
    \/ Preflight \/ CaptureBefore \/ SkipWrite \/ SatisfiedFails
    \/ WriteSucceeds \/ WriteFails \/ VerifyPasses \/ VerifyFails
    \/ Review \/ OfferRestore
    \/ Crash \/ Recover \/ OtherProgram

Spec == Init /\ [][Next]_vars

-----------------------------------------------------------------------------
(* Properties.                                                             *)

TypeOK ==
    /\ nodes \in [Versions -> {"absent", "partial", "installed"}]
    /\ alias \in Aliases /\ script \in {0, 1}
    /\ phase \in {"idle", "preflight", "capture", "write", "verify"}
    /\ Len(disk) <= MaxEvents
    /\ \A id \in 1..Len(disk) :
         /\ disk[id].state \in Op!States
         /\ disk[id].step \in Op!StepRecords /\ Op!ValidStep(disk[id].step)
         /\ disk[id].step.state = disk[id].state
    /\ phase # "idle" => current.state \notin Op!TerminalStates
    /\ reviews \in [DOMAIN reviews ->
                       [evidence: {"changed", "uncertain", "none"},
                        checkpoint: {"current", "drifted", "uncertain", "none"}]]
    /\ DOMAIN reviews \subseteq 1..Len(disk)
    /\ faults \in 0..MaxEvents /\ disturbed \subseteq 1..Len(disk)

\* An operation replaces only the default that was shown in its Plan, and a
\* restore only the one that its source had set: whatever was chosen in
\* between, by another program or another operation, is not overwritten, up to
\* what happens after the last comparison (README.md: a restore stops when the
\* alias was changed after its source operation).
OnlyReviewedDefaultsAreReplaced ==
    \A id \in 1..Len(disk) :
        LET op == disk[id]
        IN  op.plan.kind # "install" /\ op.step.before # None /\ id \notin disturbed =>
              /\ op.step.before.alias = op.plan.alias
              /\ op.plan.kind = "restore" =>
                   op.step.before.alias = disk[op.plan.source].step.after.alias

\* A restore that is reported as completed has put back the alias and the
\* version of before its source, although an alias that follows the newest
\* version may have come to mean another one.
RestorePutsBackWhatWasThere ==
    \A id \in 1..Len(disk) :
        LET op == disk[id]
            was == disk[op.plan.source].step.before
        IN  op.plan.kind = "restore" /\ op.state = "completed" /\ id \notin disturbed =>
              op.step.after.alias = was.alias /\ op.step.after.version = was.version

\* A manifest stays true of the records it was made from, and an offered
\* restore undoes a change that its record proves (D-051, D-052).
ManifestMatchesItsSources ==
    /\ \A id \in DOMAIN reviews :
         /\ disk[id].state \in Op!TerminalStates
         /\ reviews[id].evidence = Evidence(disk[id])
         /\ reviews[id].evidence = "uncertain" <=> reviews[id].checkpoint = "uncertain"
    /\ prepared # None /\ prepared.by = "manifest" =>
         LET source == disk[prepared.plan.source]
         IN  /\ source.plan.kind = "set" /\ Evidence(source) = "changed"
             /\ source.step.after.version = source.plan.version
             /\ prepared.plan.alias = source.step.after.alias

\* The two judgements on a default agree, made by different code from different
\* data: a change whose checkpoint is current can be restored, provided that
\* the version it is restored to is still there.
CurrentIsRestorable ==
    phase = "idle" =>
        \A id \in 1..Len(disk) :
            LET op == disk[id]
            IN  /\ Reviewable(op) /\ op.plan.kind = "set"
                /\ Scans(op) /\ Checkpoint(op) = "current"
                /\ op.step.before.alias # op.step.after.alias
                /\ op.step.before.version \in Installed
                => CanRestore(id)

\* Without faults no operation that follows takes away the way back: as long as
\* the default is the one that an operation has set, however that operation
\* ended and whatever was installed since, it can be restored.
ChangeCanBeUndone ==
    faults = 0 /\ phase = "idle" =>
        \A id \in 1..Len(disk) :
            LET op == disk[id]
            IN  /\ op.plan.kind = "set" /\ Evidence(op) = "changed"
                /\ op.step.before.alias # op.step.after.alias
                /\ alias = op.step.after.alias
                => CanRestore(id)

\* A completed operation that skipped its write is no candidate for recovery
\* (D-041: completed and skipped means unchanged).
SkippedWorkIsNoCandidate ==
    \A id \in 1..Len(disk) :
        disk[id].state = "completed" /\ disk[id].step.skipped =>
            Evidence(disk[id]) = "none"
=============================================================================
