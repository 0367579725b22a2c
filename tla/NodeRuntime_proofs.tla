------------------------- MODULE NodeRuntime_proofs -------------------------
(***************************************************************************)
(* The safety of NodeRuntime for every set of installable versions and     *)
(* every number of operations and faults.  The inductive invariant follows *)
(* a default from the scan that its Plan shows, over the comparisons of    *)
(* the executor, to the snapshots that the record keeps of it.             *)
(***************************************************************************)
EXTENDS NodeRuntime, SequenceTheorems, TLAPS

Plans ==
    [kind: {"install", "set", "restore"}, version: Versions, desired: Aliases,
     source: Nat, script: {0, 1}, alias: Aliases, default: Versions \cup {0}]

Operations == [plan: Plans, state: Op!States, step: Op!StepRecords]

Checkpoints == {"current", "drifted", "uncertain", "none"}
EvidenceKinds == {"changed", "uncertain", "none"}

\* The version that runs the program stays, so that a default that follows the
\* newest version always means one.
MachineInv ==
    /\ nodes \in [Versions -> {"absent", "partial", "installed"}]
    /\ nodes[Active] = "installed"
    /\ alias \in Aliases /\ script \in {0, 1}
    /\ faults \in 0..MaxEvents

RecordInv ==
    /\ disk \in Seq(Operations) /\ Len(disk) <= MaxEvents
    /\ disturbed \subseteq 1..Len(disk)
    /\ phase \in {"idle", "preflight", "capture", "write", "verify"}
    /\ phase # "idle" => Len(disk) > 0 /\ prepared = None
    /\ prepared # None => /\ prepared.plan \in Plans
                          /\ prepared.by = "command" => Len(disk) < MaxEvents
    /\ \A id \in 1..Len(disk) :
         /\ Op!ValidStep(disk[id].step) /\ disk[id].step.state = disk[id].state
         /\ disk[id].state \notin Op!TerminalStates => disk[id].step.error = "none"

\* What the executor knows of its record at each of its statements.
PhaseInv ==
    /\ phase = "preflight" => current.state = "pending"
    /\ phase \in {"capture", "write"} => current.state = "running"
    /\ phase = "verify" => current.state = "verifying"
    /\ phase \in {"preflight", "capture"} => current.step.before = None
    /\ phase \in {"preflight", "capture", "write"} => current.step.after = None
    /\ phase = "write" => current.step.before # None

\* A Plan made when there were n - 1 operations or more: a restore is bound to
\* the snapshots of an earlier record.
Bound(p, n) ==
    /\ p.kind = "set" => p.desired = p.version
    /\ p.kind = "restore" =>
         /\ p.source \in 1..(n - 1)
         /\ disk[p.source].step.before # None /\ disk[p.source].step.after # None
         /\ p.alias = disk[p.source].step.after.alias
         /\ p.desired = disk[p.source].step.before.alias
         /\ p.version = disk[p.source].step.before.version

PlanInv ==
    /\ \A id \in 1..Len(disk) : Bound(disk[id].plan, id)
    /\ prepared # None => Bound(prepared.plan, Len(disk) + 1)

\* The alias that a Plan shows is the one that is compared and photographed.
AliasInv ==
    /\ prepared # None => prepared.plan.alias = prepared.baseline.alias
    /\ phase = "preflight" => baseline.alias = plan.alias
    /\ phase = "capture" /\ Running \notin disturbed => alias = plan.alias
    /\ \A id \in 1..Len(disk) :
         LET op == disk[id]
         IN  op.plan.kind # "install" /\ op.step.before # None /\ id \notin disturbed
               => op.step.before.alias = op.plan.alias

\* What is verified is what was photographed.
VerifiedInv ==
    /\ phase = "verify" /\ Running \notin disturbed =>
         current.step.after = Snapshot(plan)
    /\ \A id \in 1..Len(disk) :
         LET op == disk[id]
         IN  op.plan.kind = "restore" /\ op.state = "completed" /\ id \notin disturbed
               => /\ op.step.after.alias = op.plan.desired
                  /\ op.step.after.version = op.plan.version

\* A record that was reviewed has ended, so that its review stays true of it.
Proven(op) ==
    /\ op.plan.kind = "set" /\ Evidence(op) = "changed"
    /\ op.step.after.version = op.plan.version

ReviewInv ==
    /\ DOMAIN reviews \subseteq 1..Len(disk)
    /\ reviews \in [DOMAIN reviews -> [evidence: EvidenceKinds, checkpoint: Checkpoints]]
    /\ \A id \in DOMAIN reviews :
         LET op == disk[id]
             review == reviews[id]
         IN  /\ op.state \in Op!TerminalStates
             /\ review.evidence = Evidence(op)
             /\ review.evidence = "uncertain" <=> review.checkpoint = "uncertain"
             /\ review.evidence = "none" <=> review.checkpoint = "none"
             /\ op.plan.kind = "set" /\ review.checkpoint = "current" => Proven(op)
    /\ prepared # None /\ prepared.by = "manifest" =>
         /\ prepared.plan.kind = "restore"
         /\ Proven(disk[prepared.plan.source])
         /\ disk[prepared.plan.source].state \in Op!TerminalStates

\* Without faults what a default meant stays installed, and a changed alias
\* is the one that was asked for.
Undoable(op) ==
    op.plan.kind = "set" =>
      /\ op.plan.version \in Installed
      /\ op.step.before # None =>
           /\ op.step.before.version \in Installed
           /\ op.step.after # None /\ op.step.after.alias # op.step.before.alias =>
                op.step.after.alias = op.plan.version
                  /\ op.step.after.version = op.plan.version

UndoInv ==
    faults = 0 =>
      /\ prepared # None /\ prepared.plan.kind = "set" =>
           {prepared.plan.version, Resolved} \subseteq Installed
      /\ phase \in {"preflight", "capture"} /\ plan.kind = "set" =>
           Resolved \in Installed
      /\ phase = "write" /\ plan.kind = "set" => alias = current.step.before.alias
      /\ \A id \in 1..Len(disk) : Undoable(disk[id])

IInv ==
    /\ MachineInv /\ RecordInv /\ PhaseInv /\ PlanInv /\ AliasInv
    /\ VerifiedInv /\ ReviewInv /\ UndoInv

-----------------------------------------------------------------------------
(* What a scan sees.                                                       *)

\* A default that can be resolved means a version that is present, an exact
\* one the version it names.
ScanIsSound ==
    /\ Installed \subseteq Present /\ Present \subseteq Versions
    /\ Active \in Installed
    /\ Resolved \in Versions \cup {0}
    /\ Resolved # 0 => Resolved \in Present
    /\ alias \in Present => Resolved = alias

LEMMA Scanned == MachineInv => ScanIsSound
<1> SUFFICES ASSUME MachineInv PROVE ScanIsSound
  OBVIOUS
<1>1. /\ Installed \subseteq Present /\ Present \subseteq Versions
      /\ Active \in Installed
  BY DEF Installed, Present, MachineInv, Versions, Active
<1>2. \E v \in Present : \A u \in Present : u <= v
  <2>1. Present \subseteq {1, 2, 3} /\ 1 \in Present
    BY <1>1 DEF Versions, Active
  <2>2. CASE 3 \in Present
    BY <2>1, <2>2
  <2>3. CASE 3 \notin Present /\ 2 \in Present
    BY <2>1, <2>3
  <2>4. CASE 3 \notin Present /\ 2 \notin Present
    BY <2>1, <2>4
  <2>5. QED
    BY <2>2, <2>3, <2>4
<1>3. alias \in Present => Resolved = alias
  BY DEF Resolved
<1>4. Resolved \in Present \cup {0}
  <2>1. CASE alias \in Present
    BY <2>1, <1>3
  <2>2. CASE alias \notin Present /\ alias = Newest
    BY <1>2, <2>2 DEF Resolved
  <2>3. CASE alias \notin Present /\ alias # Newest
    BY <2>3 DEF Resolved
  <2>4. QED
    BY <2>1, <2>2, <2>3
<1>5. QED
  BY <1>1, <1>3, <1>4 DEF ScanIsSound

\* A snapshot is of the type that a record keeps, and is never missing.
PhotographsFit ==
    \A p \in Plans : Snapshot(p) \in Snapshots /\ Snapshot(p) # None

LEMMA Photographs == MachineInv => PhotographsFit
<1> SUFFICES ASSUME MachineInv, NEW p \in Plans
             PROVE  Snapshot(p) \in Snapshots /\ Snapshot(p) # None
  BY DEF PhotographsFit
<1>1. /\ alias \in Aliases /\ Present \subseteq Versions
      /\ Resolved \in Versions \cup {0} /\ p.version \in Versions
  BY Scanned DEF MachineInv, Plans, ScanIsSound
<1>2. Snapshot(p) \in Snapshots
  BY <1>1 DEF Snapshot, Snapshots
<1>3. QED
  BY <1>2, NoneAssumption

\* Plans stay bound to records that do not change.
LEMMA PlanStays ==
    ASSUME PlanInv, disk' = disk,
           prepared' # None => Bound(prepared'.plan, Len(disk) + 1)
    PROVE  PlanInv'
<1>1. ASSUME NEW id \in 1..Len(disk)
      PROVE  Bound(disk[id].plan, id)'
  <2>1. Bound(disk[id].plan, id) /\ disk'[id].plan = disk[id].plan
    BY DEF PlanInv
  <2>2. QED
    BY <2>1 DEF Bound
<1>2. prepared' # None => Bound(prepared.plan, Len(disk) + 1)'
  BY DEF Bound
<1>3. Len(disk') = Len(disk)
  OBVIOUS
<1>4. QED
  BY <1>1, <1>2, <1>3 DEF PlanInv

-----------------------------------------------------------------------------
(* Rewriting the record of the operation under way.                        *)

LEMMA CurrentOperation ==
    ASSUME RecordInv, phase # "idle"
    PROVE  /\ Len(disk) \in Nat /\ Running \in 1..Len(disk)
           /\ current \in Operations /\ plan \in Plans
           /\ current.step \in Op!StepRecords /\ current.state \in Op!States
           /\ Op!ValidStep(current.step) /\ current.step.state = current.state
           /\ current.state \notin Op!TerminalStates => current.step.error = "none"
<1>1. disk \in Seq(Operations) /\ Len(disk) > 0
  BY DEF RecordInv
<1>2. Len(disk) \in Nat /\ Running \in 1..Len(disk)
  BY <1>1, LenProperties DEF Running
<1>3. current \in Operations
  BY <1>1, <1>2, ElementOfSeq DEF current
<1>4. QED
  BY <1>2, <1>3 DEF Operations, plan, RecordInv, current

LEMMA Recorded ==
    ASSUME RecordInv, phase # "idle", NEW state \in Op!States,
           NEW step \in Op!StepRecords, Record(state, step)
    PROVE  /\ disk' \in Seq(Operations) /\ Len(disk') = Len(disk)
           /\ Running' = Running /\ plan' = plan
           /\ current' = disk'[Running]
           /\ disk'[Running].plan = plan /\ disk'[Running].state = state
           /\ disk'[Running].step = step
           /\ \A id \in 1..Len(disk) : id # Running => disk'[id] = disk[id]
<1> DEFINE half == [current EXCEPT !.state = state]
           new == [half EXCEPT !.step = step]
<1>1. /\ Len(disk) \in Nat /\ Running \in 1..Len(disk)
      /\ disk \in Seq(Operations) /\ current \in Operations
  BY CurrentOperation DEF RecordInv
<1>2. disk' = [disk EXCEPT ![Running] = new]
  BY <1>1 DEF Record, current
<1>3. half \in Operations /\ half.plan = current.plan /\ half.state = state
  BY <1>1 DEF Operations
<1> HIDE DEF half
<1>4. /\ new \in Operations /\ new.plan = current.plan /\ new.state = state
      /\ new.step = step
  BY <1>3 DEF Operations
<1> HIDE DEF new
<1>5. /\ disk' \in Seq(Operations) /\ Len(disk') = Len(disk)
      /\ disk'[Running] = new
      /\ \A id \in 1..Len(disk) : id # Running => disk'[id] = disk[id]
  BY <1>1, <1>2, <1>4, ExceptSeq
<1>6. Running' = Running /\ current' = disk'[Running]
  BY <1>5 DEF Running, current
<1>7. plan' = plan
  BY <1>4, <1>5, <1>6 DEF plan
<1>8. QED
  BY <1>4, <1>5, <1>6, <1>7 DEF plan

\* The records of the other operations, and what was concluded from them,
\* stay as they are.
LEMMA RecordKeeps ==
    ASSUME IInv, phase # "idle", NEW state \in Op!States,
           NEW step \in Op!StepRecords, Record(state, step),
           Op!ValidStep(step), step.state = state,
           state \notin Op!TerminalStates => step.error = "none",
           phase' \in {"idle", "preflight", "capture", "write", "verify"},
           UNCHANGED <<prepared, reviews, history>>
    PROVE  RecordInv' /\ PlanInv' /\ ReviewInv'
<1>1. /\ Len(disk) \in Nat /\ Running \in 1..Len(disk) /\ Running = Len(disk)
      /\ disk' \in Seq(Operations) /\ Len(disk') = Len(disk)
      /\ \A id \in 1..Len(disk) : id # Running => disk'[id] = disk[id]
      /\ disk'[Running].plan = plan /\ disk'[Running].state = state
      /\ disk'[Running].step = step
      /\ prepared = None /\ Len(disk) <= MaxEvents
      /\ disturbed' = disturbed /\ disturbed \subseteq 1..Len(disk)
  BY CurrentOperation, Recorded DEF IInv, RecordInv, Running, history
<1>2. RecordInv'
  <2>1. ASSUME NEW id \in 1..Len(disk)
        PROVE  /\ Op!ValidStep(disk'[id].step)
               /\ disk'[id].step.state = disk'[id].state
               /\ disk'[id].state \notin Op!TerminalStates
                    => disk'[id].step.error = "none"
    <3>1. CASE id = Running
      BY <1>1, <3>1
    <3>2. CASE id # Running
      BY <1>1, <3>2 DEF IInv, RecordInv
    <3>3. QED
      BY <3>1, <3>2
  <2>2. QED
    BY <1>1, <2>1 DEF RecordInv
<1>3. PlanInv'
  <2>1. ASSUME NEW id \in 1..Len(disk)
        PROVE  Bound(disk[id].plan, id)'
    <3>1. Bound(disk[id].plan, id) /\ disk'[id].plan = disk[id].plan
      BY <1>1 DEF IInv, PlanInv, plan, current
    <3>2. \A i \in 1..(id - 1) : disk'[i] = disk[i]
      BY <1>1
    <3>3. QED
      BY <3>1, <3>2 DEF Bound
  <2>2. QED
    BY <1>1, <2>1 DEF PlanInv
<1>4. ReviewInv'
  <2>1. current.state \notin Op!TerminalStates
    BY DEF IInv, RecordInv, PhaseInv, Op!TerminalStates
  <2>2. \A id \in DOMAIN reviews : id \in 1..Len(disk) /\ id # Running
    BY <2>1 DEF IInv, ReviewInv, current
  <2>3. ASSUME NEW id \in DOMAIN reviews
        PROVE  disk'[id] = disk[id]
    BY <1>1, <2>2
  <2>4. ASSUME NEW id \in DOMAIN reviews
        PROVE  LET op == disk'[id]
                   review == reviews[id]
               IN  /\ op.state \in Op!TerminalStates
                   /\ review.evidence = Evidence(op)
                   /\ review.evidence = "uncertain" <=> review.checkpoint = "uncertain"
                   /\ review.evidence = "none" <=> review.checkpoint = "none"
                   /\ op.plan.kind = "set" /\ review.checkpoint = "current" => Proven(op)
    BY <2>3 DEF IInv, ReviewInv
  <2>5. DOMAIN reviews \subseteq 1..Len(disk) /\ prepared = None
        /\ reviews \in [DOMAIN reviews -> [evidence: EvidenceKinds, checkpoint: Checkpoints]]
    BY <1>1 DEF IInv, ReviewInv
  <2>6. QED
    BY <1>1, <2>4, <2>5 DEF ReviewInv, Proven, Evidence
<1>5. QED
  BY <1>2, <1>3, <1>4

\* What is left to show of a step of the executor that saves its record.
LEMMA StepKeeps ==
    ASSUME IInv, phase # "idle", NEW state \in Op!States,
           NEW step \in Op!StepRecords, Record(state, step),
           Op!ValidStep(step), step.state = state,
           state \notin Op!TerminalStates => step.error = "none",
           phase' \in {"idle", "capture", "write", "verify"},
           UNCHANGED <<prepared, reviews, history>>,
           MachineInv', PhaseInv', faults = 0 => Installed \subseteq Installed',
           plan.kind # "install" /\ step.before # None /\ Running \notin disturbed
             => step.before.alias = plan.alias,
           phase' = "capture" /\ Running \notin disturbed => alias' = plan.alias,
           phase' = "verify" /\ Running \notin disturbed
             => step.after = Snapshot(plan)',
           plan.kind = "restore" /\ state = "completed" /\ Running \notin disturbed
             => /\ step.after.alias = plan.desired
                /\ step.after.version = plan.version,
           faults = 0 /\ plan.kind = "set" =>
             /\ phase' = "capture" => Resolved' \in Installed'
             /\ phase' = "write" => alias' = step.before.alias
             /\ step.before # None =>
                  /\ step.before.version \in Installed'
                  /\ step.after # None /\ step.after.alias # step.before.alias =>
                       step.after.alias = plan.version
                         /\ step.after.version = plan.version
    PROVE  IInv'
<1>1. RecordInv' /\ PlanInv' /\ ReviewInv'
  BY RecordKeeps
<1>2. /\ Len(disk) \in Nat /\ Running \in 1..Len(disk)
      /\ Len(disk') = Len(disk) /\ Running' = Running /\ plan' = plan
      /\ \A id \in 1..Len(disk) : id # Running => disk'[id] = disk[id]
      /\ disk'[Running].plan = plan /\ disk'[Running].state = state
      /\ disk'[Running].step = step /\ current' = disk'[Running]
      /\ disturbed' = disturbed /\ faults' = faults /\ prepared = None
      /\ prepared' = None
  BY CurrentOperation, Recorded DEF IInv, RecordInv, history
<1>3. AliasInv'
  <2>1. ASSUME NEW id \in 1..Len(disk)
        PROVE  LET op == disk'[id]
               IN  op.plan.kind # "install" /\ op.step.before # None
                     /\ id \notin disturbed => op.step.before.alias = op.plan.alias
    <3>1. CASE id = Running
      BY <1>2, <3>1
    <3>2. CASE id # Running
      BY <1>2, <3>2 DEF IInv, AliasInv
    <3>3. QED
      BY <3>1, <3>2
  <2>2. QED
    BY <1>2, <2>1 DEF AliasInv
<1>4. VerifiedInv'
  <2>1. ASSUME NEW id \in 1..Len(disk)
        PROVE  LET op == disk'[id]
               IN  op.plan.kind = "restore" /\ op.state = "completed"
                     /\ id \notin disturbed
                       => /\ op.step.after.alias = op.plan.desired
                          /\ op.step.after.version = op.plan.version
    <3>1. CASE id = Running
      BY <1>2, <3>1
    <3>2. CASE id # Running
      BY <1>2, <3>2 DEF IInv, VerifiedInv
    <3>3. QED
      BY <3>1, <3>2
  <2>2. phase' = "verify" /\ Running \notin disturbed =>
          current'.step.after = Snapshot(plan)'
    BY <1>2
  <2>3. QED
    BY <1>2, <2>1, <2>2 DEF VerifiedInv
<1>5. UndoInv'
  <2> SUFFICES ASSUME faults = 0 PROVE UndoInv'
    BY <1>2 DEF UndoInv
  <2>1. plan.kind = "set" => plan.version \in Installed'
    BY <1>2 DEF IInv, UndoInv, Undoable, plan, current
  <2>2. ASSUME NEW id \in 1..Len(disk)
        PROVE  Undoable(disk[id])'
    <3>1. CASE id = Running
      BY <1>2, <2>1, <3>1 DEF Undoable
    <3>2. CASE id # Running
      BY <1>2, <3>2 DEF IInv, UndoInv, Undoable
    <3>3. QED
      BY <3>1, <3>2
  <2>3. QED
    BY <1>2, <2>2 DEF UndoInv
<1>6. QED
  BY <1>1, <1>3, <1>4, <1>5 DEF IInv

\* Ending a step in failure keeps its snapshots.
LEMMA FailedStepKeeps ==
    ASSUME NEW s \in Op!StepRecords, Op!ValidStep(s), NEW code \in Op!Codes
    PROVE  LET f == Op!FailedStep(s, "failed", code)
           IN  /\ f \in Op!StepRecords /\ Op!ValidStep(f) /\ f.state = "failed"
               /\ f.before = s.before /\ f.after = s.after
<1> DEFINE f == Op!FailedStep(s, "failed", code)
<1>1. /\ f \in Op!StepRecords /\ f.state = "failed" /\ f.finished
      /\ f.before = s.before /\ f.after = s.after /\ f.diff = s.diff
  BY DEF Op!FailedStep, Op!StepRecords, Op!States, Op!TerminalStates,
         Op!CheckStates, Op!Undecided
<1> HIDE DEF f
<1>2. Op!ValidStep(f)
  BY <1>1 DEF Op!ValidStep, Op!Captured
<1>3. QED
  BY <1>1, <1>2 DEF f

\* captureAfter: the diff is there exactly when the snapshots differ.
LEMMA WithAfterKeeps ==
    ASSUME NEW s \in Op!StepRecords, Op!ValidStep(s), s.after = None,
           NEW snapshot \in Snapshots, snapshot # None
    PROVE  LET w == Op!WithAfter(s, snapshot)
           IN  /\ w \in Op!StepRecords /\ Op!ValidStep(w)
               /\ w.state = s.state /\ w.error = s.error
               /\ w.before = s.before /\ w.after = snapshot
<1> DEFINE w == Op!WithAfter(s, snapshot)
<1>1. snapshot \in Op!Snapshots
  BY DEF Op!Snapshots
<1>2. /\ w \in Op!StepRecords
      /\ w.state = s.state /\ w.error = s.error /\ w.finished = s.finished
      /\ w.verification = s.verification
      /\ w.before = s.before /\ w.after = snapshot
      /\ w.diff = IF s.before = None THEN s.diff ELSE s.before # snapshot
  BY <1>1 DEF Op!WithAfter, Op!StepRecords
<1> HIDE DEF w
<1>3. Op!ValidStep(w)
  BY <1>2 DEF Op!ValidStep, Op!Captured
<1>4. QED
  BY <1>2, <1>3 DEF w

\* The executor returns with a failure.
LEMMA ReturnKeeps ==
    ASSUME IInv, phase # "idle", NEW step \in Op!StepRecords, Op!ValidStep(step),
           NEW code \in Op!Codes, Return(step, code),
           UNCHANGED <<prepared, reviews, history>>,
           MachineInv', faults = 0 => Installed \subseteq Installed',
           plan.kind # "install" /\ step.before # None /\ Running \notin disturbed
             => step.before.alias = plan.alias,
           faults = 0 /\ plan.kind = "set" /\ step.before # None =>
             /\ step.before.version \in Installed'
             /\ step.after # None /\ step.after.alias # step.before.alias =>
                  step.after.alias = plan.version
                    /\ step.after.version = plan.version
    PROVE  IInv'
<1> DEFINE f == Op!FailedStep(step, "failed", code)
<1>1. /\ f \in Op!StepRecords /\ Op!ValidStep(f) /\ f.state = "failed"
      /\ f.before = step.before /\ f.after = step.after
  BY FailedStepKeeps
<1>2. Record("failed", f) /\ phase' = "idle"
  BY DEF Return
<1> HIDE DEF f
<1>3. "failed" \in Op!States /\ "failed" \in Op!TerminalStates
  BY DEF Op!States, Op!TerminalStates
<1>4. PhaseInv'
  BY <1>2 DEF PhaseInv
<1>5. QED
  BY <1>1, <1>2, <1>3, <1>4, StepKeeps

\* Nothing changes on the machine.
LEMMA SameMachine ==
    ASSUME MachineInv, UNCHANGED <<machine, history>>
    PROVE  /\ MachineInv' /\ Installed' = Installed /\ Present' = Present
           /\ Resolved' = Resolved /\ alias' = alias
<1>1. nodes' = nodes /\ alias' = alias /\ script' = script /\ faults' = faults
  BY DEF machine, history
<1>2. Installed' = Installed /\ Present' = Present
  BY <1>1 DEF Installed, Present
<1>3. Resolved' = Resolved
  BY <1>1, <1>2 DEF Resolved
<1>4. QED
  BY <1>1, <1>2, <1>3 DEF MachineInv

-----------------------------------------------------------------------------
(* One lemma per statement of the executor.                                *)

LEMMA PreflightKeeps == ASSUME IInv, Preflight PROVE IInv'
<1>1. /\ phase = "preflight" /\ phase # "idle" /\ MachineInv
      /\ UNCHANGED <<machine, prepared, reviews, history>>
      /\ UNCHANGED <<prepared, reviews, history>>
      /\ UNCHANGED <<machine, history>>
  BY DEF Preflight, IInv
<1>2. /\ current.step \in Op!StepRecords /\ Op!ValidStep(current.step)
      /\ current.state = "pending" /\ current.step.state = "pending"
      /\ current.step.error = "none"
      /\ current.step.before = None /\ current.step.after = None
  BY <1>1, CurrentOperation DEF IInv, PhaseInv, Op!TerminalStates
<1>3. /\ Started \in Op!StepRecords /\ Op!ValidStep(Started)
      /\ Started.state = "running" /\ Started.error = "none"
      /\ Started.before = None /\ Started.after = None
  BY <1>2 DEF Started, Op!StepRecords, Op!States, Op!ActiveStates,
              Op!CheckStates, Op!ValidStep, Op!Captured, Op!TerminalStates
<1>4. /\ MachineInv' /\ Installed' = Installed /\ Present' = Present
      /\ Resolved' = Resolved /\ alias' = alias
  BY <1>1, SameMachine
<1>5. CASE /\ PreflightPasses /\ Record("running", Started)
           /\ phase' = "capture"
  <2>1. "running" \in Op!States /\ "running" \notin Op!TerminalStates
    BY DEF Op!States, Op!ActiveStates, Op!TerminalStates
  <2>2. alias' = plan.alias
    BY <1>1, <1>4, <1>5 DEF PreflightPasses, IInv, AliasInv
  <2>3. PhaseInv'
    <3>1. current'.state = "running" /\ current'.step = Started
      BY <1>1, <1>3, <1>5, <2>1, Recorded DEF IInv
    <3>2. QED
      BY <1>3, <1>5, <3>1 DEF PhaseInv
  <2>4. faults = 0 /\ plan.kind = "set" => Resolved' \in Installed'
    BY <1>1, <1>4 DEF IInv, UndoInv
  <2>5. QED
    BY <1>1, <1>3, <1>4, <1>5, <2>1, <2>2, <2>3, <2>4, StepKeeps
<1>6. CASE Return([Started EXCEPT !.precondition = "failed"], "PRECONDITION_FAILED")
  <2> DEFINE t == [Started EXCEPT !.precondition = "failed"]
  <2>1. t \in Op!StepRecords /\ Op!ValidStep(t) /\ t.before = None
    BY <1>3 DEF Op!StepRecords, Op!CheckStates, Op!ValidStep, Op!Captured
  <2>2. "PRECONDITION_FAILED" \in Op!Codes
    BY DEF Op!Codes
  <2> HIDE DEF t
  <2>3. Return(t, "PRECONDITION_FAILED")
    BY <1>6 DEF t
  <2>4. QED
    BY <1>1, <1>4, <2>1, <2>2, <2>3, ReturnKeeps
<1>7. QED
  BY <1>5, <1>6 DEF Preflight

LEMMA CaptureBeforeKeeps == ASSUME IInv, CaptureBefore PROVE IInv'
<1>1. /\ phase = "capture" /\ phase # "idle" /\ MachineInv
      /\ UNCHANGED <<prepared, reviews, history>>
      /\ UNCHANGED <<machine, history>>
  BY DEF CaptureBefore, IInv
<1>2. /\ current.step \in Op!StepRecords /\ Op!ValidStep(current.step)
      /\ current.state = "running" /\ current.step.state = "running"
      /\ current.step.error = "none" /\ plan \in Plans
      /\ current.step.before = None /\ current.step.after = None
  BY <1>1, CurrentOperation DEF IInv, PhaseInv, Op!TerminalStates
<1>3. /\ Passed \in Op!StepRecords /\ Op!ValidStep(Passed)
      /\ Passed.state = "running" /\ Passed.error = "none"
      /\ Passed.before = None /\ Passed.after = None /\ Passed.diff = FALSE
  BY <1>2 DEF Passed, Op!StepRecords, Op!CheckStates, Op!ValidStep, Op!Captured
<1>4. /\ MachineInv' /\ Installed' = Installed /\ Present' = Present
      /\ Resolved' = Resolved /\ alias' = alias
  BY <1>1, SameMachine
<1>5. CASE /\ Record("running", [Passed EXCEPT !.before = Snapshot(plan)])
           /\ phase' = "write"
  <2> DEFINE t == [Passed EXCEPT !.before = Snapshot(plan)]
  <2>1. Snapshot(plan) \in Snapshots /\ Snapshot(plan) # None
    BY <1>1, <1>2, Photographs DEF PhotographsFit
  <2>2. /\ t \in Op!StepRecords /\ Op!ValidStep(t)
        /\ t.state = "running" /\ t.error = "none"
        /\ t.before = Snapshot(plan) /\ t.after = None
    BY <1>3, <2>1
    DEF Op!StepRecords, Op!Snapshots, Op!ValidStep, Op!Captured, Op!TerminalStates
  <2> HIDE DEF t
  <2>3. "running" \in Op!States /\ "running" \notin Op!TerminalStates
    BY DEF Op!States, Op!ActiveStates, Op!TerminalStates
  <2>4. Record("running", t)
    BY <1>5 DEF t
  <2>5. PhaseInv'
    <3>1. current'.state = "running" /\ current'.step = t
      BY <1>1, <2>2, <2>3, <2>4, Recorded DEF IInv
    <3>2. QED
      BY <1>5, <2>1, <2>2, <3>1 DEF PhaseInv
  <2>6. /\ t.before.alias = alias
        /\ plan.kind # "install" => t.before.version = Resolved
    BY <2>2 DEF Snapshot
  <2>7. plan.kind # "install" /\ Running \notin disturbed =>
          t.before.alias = plan.alias
    BY <1>1, <2>6 DEF IInv, AliasInv
  <2>8. faults = 0 /\ plan.kind = "set" => t.before.version \in Installed'
    BY <1>1, <1>4, <2>6 DEF IInv, UndoInv
  <2>9. QED
    BY <1>1, <1>4, <1>5, <2>2, <2>3, <2>4, <2>5, <2>6, <2>7, <2>8, StepKeeps
<1>6. CASE Return([Passed EXCEPT !.precondition = "failed"], "PRECONDITION_FAILED")
  <2> DEFINE t == [Passed EXCEPT !.precondition = "failed"]
  <2>1. t \in Op!StepRecords /\ Op!ValidStep(t) /\ t.before = None
    BY <1>3 DEF Op!StepRecords, Op!CheckStates, Op!ValidStep, Op!Captured
  <2>2. "PRECONDITION_FAILED" \in Op!Codes
    BY DEF Op!Codes
  <2> HIDE DEF t
  <2>3. Return(t, "PRECONDITION_FAILED")
    BY <1>6 DEF t
  <2>4. QED
    BY <1>1, <1>4, <2>1, <2>2, <2>3, ReturnKeeps
<1>7. QED
  BY <1>5, <1>6 DEF CaptureBefore

\* What is known of the current step before its write.
LEMMA BeforeWrite ==
    ASSUME IInv, phase = "write"
    PROVE  /\ current.step \in Op!StepRecords /\ Op!ValidStep(current.step)
           /\ current.state = "running" /\ current.step.state = "running"
           /\ current.step.error = "none" /\ current.step.after = None
           /\ current.step.before # None /\ plan \in Plans
           /\ plan.kind # "install" /\ Running \notin disturbed
                => current.step.before.alias = plan.alias
           /\ faults = 0 /\ plan.kind = "set" =>
                /\ current.step.before.version \in Installed
                /\ current.step.before.alias = alias
                /\ plan.version \in Installed /\ plan.desired = plan.version
<1>1. /\ current.step \in Op!StepRecords /\ Op!ValidStep(current.step)
      /\ current.state = "running" /\ current.step.state = "running"
      /\ current.step.error = "none" /\ current.step.after = None
      /\ current.step.before # None /\ plan \in Plans
      /\ Running \in 1..Len(disk)
  BY CurrentOperation DEF IInv, PhaseInv, Op!TerminalStates
<1>2. plan.kind # "install" /\ Running \notin disturbed
        => current.step.before.alias = plan.alias
  BY <1>1 DEF IInv, AliasInv, current, plan
<1>3. faults = 0 /\ plan.kind = "set" =>
        /\ current.step.before.version \in Installed
        /\ current.step.before.alias = alias
        /\ plan.version \in Installed /\ plan.desired = plan.version
  BY <1>1 DEF IInv, UndoInv, Undoable, PlanInv, Bound, current, plan
<1>4. QED
  BY <1>1, <1>2, <1>3

LEMMA SatisfiedFailsKeeps == ASSUME IInv, SatisfiedFails PROVE IInv'
<1> DEFINE t == [current.step EXCEPT !.precondition = "failed"]
<1>1. /\ phase = "write" /\ phase # "idle" /\ MachineInv
      /\ UNCHANGED <<prepared, reviews, history>>
      /\ UNCHANGED <<machine, history>>
  BY DEF SatisfiedFails, IInv
<1>2. /\ t \in Op!StepRecords /\ Op!ValidStep(t)
      /\ t.before = current.step.before /\ t.after = None
  BY <1>1, BeforeWrite
  DEF Op!StepRecords, Op!CheckStates, Op!ValidStep, Op!Captured
<1>3. MachineInv' /\ Installed' = Installed
  BY <1>1, SameMachine
<1>4. Return(t, "PRECONDITION_FAILED")
  BY DEF SatisfiedFails
<1> HIDE DEF t
<1>5. "PRECONDITION_FAILED" \in Op!Codes
  BY DEF Op!Codes
<1>6. QED
  BY <1>1, <1>2, <1>3, <1>4, <1>5, BeforeWrite, ReturnKeeps

\* A write, however far it has gone, takes no version away and leaves the old
\* default or the one that was asked for.
LEMMA WritesKeep ==
    ASSUME IInv, Launches, Writes
    PROVE  /\ nodes' \in [Versions -> {"absent", "partial", "installed"}]
           /\ nodes'[Active] = "installed"
           /\ alias' \in Aliases /\ script' = script
           /\ Installed \subseteq Installed'
           /\ alias' \in {alias, plan.desired}
<1>1. /\ plan \in Plans /\ MachineInv
      /\ plan.version \in Versions /\ plan.desired \in Aliases
  BY CurrentOperation DEF Launches, IInv, Plans
<1>2. CASE plan.kind = "install"
  <2>1. PICK left \in {nodes[plan.version], "partial", "installed"} :
          nodes' = [nodes EXCEPT ![plan.version] = left]
    BY <1>2 DEF Writes
  <2>2. nodes[plan.version] # "installed"
    BY <1>1, <1>2 DEF Launches, Satisfied, Installed
  <2>3. nodes' \in [Versions -> {"absent", "partial", "installed"}]
    BY <1>1, <2>1 DEF MachineInv
  <2>4. \A v \in Versions : nodes[v] = "installed" => nodes'[v] = "installed"
    BY <1>1, <2>1, <2>2 DEF MachineInv
  <2>5. Active \in Versions
    BY DEF Active, Versions
  <2>6. Installed \subseteq Installed'
    BY <2>4 DEF Installed
  <2>7. QED
    BY <1>1, <1>2, <2>3, <2>4, <2>5, <2>6 DEF MachineInv, Writes
<1>3. CASE plan.kind # "install"
  <2>1. alias' \in {alias, plan.desired} /\ nodes' = nodes /\ script' = script
    BY <1>3 DEF Writes
  <2>2. QED
    BY <1>1, <2>1 DEF MachineInv, Installed
<1>4. QED
  BY <1>2, <1>3

\* The snapshot after a write: without faults, a changed alias is the version
\* that was asked for.
LEMMA AfterWrite ==
    ASSUME IInv, phase = "write", MachineInv',
           faults = 0 => Installed \subseteq Installed',
           plan.kind = "set" => alias' \in {alias, plan.desired},
           NEW p, p = plan
    PROVE  /\ Snapshot(p)' \in Snapshots /\ Snapshot(p)' # None
           /\ faults = 0 /\ plan.kind = "set"
                /\ Snapshot(p)'.alias # current.step.before.alias =>
                  /\ Snapshot(p)'.alias = plan.version
                  /\ Snapshot(p)'.version = plan.version
<1>1. p \in Plans
  BY BeforeWrite
<1>2. Snapshot(p)' \in Snapshots /\ Snapshot(p)' # None
  <2>1. (MachineInv => PhotographsFit)'
    BY Photographs, PTL
  <2>2. QED
    BY <1>1, <2>1 DEF PhotographsFit
<1>3. ASSUME faults = 0, plan.kind = "set",
             Snapshot(p)'.alias # current.step.before.alias
      PROVE  /\ Snapshot(p)'.alias = plan.version
             /\ Snapshot(p)'.version = plan.version
  <2>1. /\ current.step.before.alias = alias
        /\ plan.version \in Installed /\ plan.desired = plan.version
    BY <1>3, BeforeWrite
  <2>2. /\ Snapshot(p)'.alias = alias'
        /\ p.kind # "install" => Snapshot(p)'.version = Resolved'
    BY DEF Snapshot
  <2>3. alias' = plan.version /\ plan.version \in Installed'
    BY <1>3, <2>1, <2>2
  <2>4. (MachineInv => ScanIsSound)'
    BY Scanned, PTL
  <2>5. Resolved' = plan.version
    BY <2>3, <2>4 DEF ScanIsSound
  <2>6. QED
    BY <1>3, <2>2, <2>3, <2>5
<1>4. QED
  BY <1>2, <1>3

\* The process exited with success, or was not needed.
LEMMA VerifyingKeeps ==
    ASSUME IInv, phase = "write", NEW step \in Op!StepRecords,
           Op!ValidStep(step), step.error = "none",
           step.before = current.step.before, step.after = None,
           step.state = "running", Verifying(step),
           UNCHANGED <<prepared, reviews, history>>, MachineInv',
           faults = 0 => Installed \subseteq Installed',
           plan.kind = "set" => alias' \in {alias, plan.desired}
    PROVE  IInv'
<1> DEFINE v == [step EXCEPT !.state = "verifying", !.verification = "pending"]
           f == [v EXCEPT !.verification = "failed"]
<1>1. /\ v \in Op!StepRecords /\ Op!ValidStep(v)
      /\ v.state = "verifying" /\ v.error = "none"
      /\ v.before = current.step.before /\ v.after = None
  BY DEF Op!StepRecords, Op!States, Op!ActiveStates, Op!CheckStates,
         Op!ValidStep, Op!Captured, Op!TerminalStates
<1> HIDE DEF v
<1>2. /\ f \in Op!StepRecords /\ Op!ValidStep(f)
      /\ f.before = current.step.before /\ f.after = None
  BY <1>1
  DEF Op!StepRecords, Op!CheckStates, Op!ValidStep, Op!Captured, Op!TerminalStates
<1>3. PICK p \in {plan} :
        \/ /\ Record("verifying", Op!WithAfter(v, Snapshot(p)'))
           /\ phase' = "verify"
        \/ Return(f, "VERIFY_FAILED")
  BY DEF Verifying, v
<1> HIDE DEF f
<1>4. CASE Return(f, "VERIFY_FAILED")
  <2>1. "VERIFY_FAILED" \in Op!Codes
    BY DEF Op!Codes
  <2>2. /\ plan.kind # "install" /\ Running \notin disturbed
             => f.before.alias = plan.alias
        /\ faults = 0 /\ plan.kind = "set" => f.before.version \in Installed'
    BY <1>2, BeforeWrite
  <2>3. QED
    BY <1>2, <1>4, <2>1, <2>2, ReturnKeeps
<1>5. CASE /\ Record("verifying", Op!WithAfter(v, Snapshot(p)'))
           /\ phase' = "verify"
  <2> DEFINE after == Snapshot(p)'
             w == Op!WithAfter(v, after)
  <2>1. /\ after \in Snapshots /\ after # None
        /\ faults = 0 /\ plan.kind = "set"
             /\ after.alias # current.step.before.alias =>
               after.alias = plan.version /\ after.version = plan.version
    BY <1>3, AfterWrite
  <2> HIDE DEF after
  <2>2. /\ w \in Op!StepRecords /\ Op!ValidStep(w)
        /\ w.state = "verifying" /\ w.error = "none"
        /\ w.before = current.step.before /\ w.after = after
    BY <1>1, <2>1, WithAfterKeeps
  <2>3. Record("verifying", w)
    BY <1>5 DEF after
  <2> HIDE DEF w
  <2>4. "verifying" \in Op!States /\ "verifying" \notin Op!TerminalStates
    BY DEF Op!States, Op!ActiveStates, Op!TerminalStates
  <2>5. current'.state = "verifying" /\ plan' = plan
    BY <2>2, <2>3, <2>4, Recorded DEF IInv
  <2>6. PhaseInv'
    BY <1>5, <2>5 DEF PhaseInv
  <2>7. w.after = Snapshot(plan)'
    BY <1>3, <2>2, <2>5 DEF after, Snapshot
  <2>8. /\ plan.kind # "install" /\ Running \notin disturbed
             => w.before.alias = plan.alias
        /\ faults = 0 /\ plan.kind = "set" =>
             /\ w.before.version \in Installed'
             /\ w.after.alias # w.before.alias =>
                  w.after.alias = plan.version /\ w.after.version = plan.version
    BY <2>1, <2>2, BeforeWrite
  <2>9. QED
    BY <1>5, <2>2, <2>3, <2>4, <2>6, <2>7, <2>8, StepKeeps
<1>6. QED
  BY <1>3, <1>4, <1>5

LEMMA SkipWriteKeeps == ASSUME IInv, SkipWrite PROVE IInv'
<1> DEFINE t == [current.step EXCEPT !.skipped = TRUE]
<1>1. /\ phase = "write" /\ MachineInv /\ UNCHANGED <<machine, history>>
      /\ UNCHANGED <<prepared, reviews, history>>
  BY DEF SkipWrite, IInv
<1>2. /\ t \in Op!StepRecords /\ Op!ValidStep(t) /\ t.error = "none"
      /\ t.before = current.step.before /\ t.after = None
      /\ t.state = "running"
  BY <1>1, BeforeWrite DEF Op!StepRecords, Op!ValidStep, Op!Captured
<1>3. MachineInv' /\ Installed' = Installed /\ alias' = alias
  BY <1>1, SameMachine
<1>4. Verifying(t)
  BY DEF SkipWrite
<1> HIDE DEF t
<1>5. QED
  BY <1>1, <1>2, <1>3, <1>4, VerifyingKeeps

LEMMA WriteSucceedsKeeps == ASSUME IInv, WriteSucceeds PROVE IInv'
<1>1. /\ phase = "write" /\ Launches /\ Writes /\ Verifying(current.step)
      /\ UNCHANGED <<prepared, reviews, history>> /\ faults' = faults
  BY DEF WriteSucceeds, Launches, history
<1>2. MachineInv'
  BY <1>1, WritesKeep DEF IInv, MachineInv
<1>3. QED
  BY <1>1, <1>2, WritesKeep, BeforeWrite, VerifyingKeeps

LEMMA WriteFailsKeeps == ASSUME IInv, WriteFails PROVE IInv'
<1>1. /\ phase = "write" /\ phase # "idle" /\ Launches
      /\ UNCHANGED <<prepared, reviews, history>> /\ faults' = faults
      /\ MachineInv
  BY DEF WriteFails, Launches, history, IInv
<1>2. PICK code \in {"EXEC_EXIT_NONZERO", "EXEC_START_FAILED"}, p \in {plan} :
        /\ IF code = "EXEC_START_FAILED" THEN UNCHANGED machine ELSE Writes
        /\ \E after \in {None} \cup (IF Captures(p)' THEN {Snapshot(p)'} ELSE {}) :
             Return(IF after = None THEN current.step
                    ELSE Op!WithAfter(current.step, after), code)
  BY DEF WriteFails
<1>3. PICK after \in {None, Snapshot(p)'} :
        Return(IF after = None THEN current.step
               ELSE Op!WithAfter(current.step, after), code)
  BY <1>2
<1>4. /\ MachineInv' /\ Installed \subseteq Installed'
      /\ alias' \in {alias, plan.desired}
  <2>1. CASE UNCHANGED machine
    BY <1>1, <2>1, SameMachine
  <2>2. CASE Writes
    BY <1>1, <2>2, WritesKeep DEF MachineInv
  <2>3. QED
    BY <1>2, <2>1, <2>2
<1>5. code \in Op!Codes
  BY DEF Op!Codes
<1>6. CASE after = None
  BY <1>1, <1>3, <1>4, <1>5, <1>6, BeforeWrite, ReturnKeeps
<1>7. CASE after # None
  <2> DEFINE w == Op!WithAfter(current.step, after)
  <2>1. /\ after \in Snapshots
        /\ faults = 0 /\ plan.kind = "set"
             /\ after.alias # current.step.before.alias =>
               after.alias = plan.version /\ after.version = plan.version
    <3>1. after = Snapshot(p)' /\ p = plan
      BY <1>3, <1>7
    <3>2. QED
      BY <1>1, <1>4, <3>1, AfterWrite
  <2>2. /\ w \in Op!StepRecords /\ Op!ValidStep(w)
        /\ w.before = current.step.before /\ w.after = after
    BY <1>1, <1>7, <2>1, BeforeWrite, WithAfterKeeps
  <2>3. Return(w, code)
    BY <1>3, <1>7
  <2> HIDE DEF w
  <2>4. /\ plan.kind # "install" /\ Running \notin disturbed
             => w.before.alias = plan.alias
        /\ faults = 0 /\ plan.kind = "set" =>
             /\ w.before.version \in Installed'
             /\ w.after.alias # w.before.alias =>
                  w.after.alias = plan.version /\ w.after.version = plan.version
    BY <1>1, <1>4, <2>1, <2>2, BeforeWrite
  <2>5. QED
    BY <1>1, <1>4, <1>5, <2>2, <2>3, <2>4, ReturnKeeps
<1>8. QED
  BY <1>6, <1>7

\* What is known of the current step while it is verified.
LEMMA DuringVerification ==
    ASSUME IInv, phase = "verify"
    PROVE  /\ current.step \in Op!StepRecords /\ Op!ValidStep(current.step)
           /\ current.step.error = "none" /\ plan \in Plans
           /\ plan.kind # "install" /\ current.step.before # None
                /\ Running \notin disturbed => current.step.before.alias = plan.alias
           /\ faults = 0 /\ plan.kind = "set" /\ current.step.before # None =>
                /\ current.step.before.version \in Installed
                /\ current.step.after # None
                     /\ current.step.after.alias # current.step.before.alias =>
                     /\ current.step.after.alias = plan.version
                     /\ current.step.after.version = plan.version
<1>1. /\ current.step \in Op!StepRecords /\ Op!ValidStep(current.step)
      /\ current.step.error = "none" /\ plan \in Plans /\ Running \in 1..Len(disk)
  BY CurrentOperation DEF IInv, PhaseInv, Op!TerminalStates
<1>2. plan.kind # "install" /\ current.step.before # None /\ Running \notin disturbed
        => current.step.before.alias = plan.alias
  BY <1>1 DEF IInv, AliasInv, current, plan
<1>3. faults = 0 => Undoable(current)
  BY <1>1 DEF IInv, UndoInv, current
<1>4. QED
  BY <1>1, <1>2, <1>3 DEF Undoable, plan

LEMMA VerifyPassesKeeps == ASSUME IInv, VerifyPasses PROVE IInv'
<1> DEFINE t == [current.step EXCEPT !.state = "completed", !.finished = TRUE,
                                     !.verification = "passed"]
<1>1. /\ phase = "verify" /\ phase # "idle" /\ MachineInv /\ Verifies
      /\ UNCHANGED <<prepared, reviews, history>>
      /\ UNCHANGED <<machine, history>> /\ phase' = "idle"
  BY DEF VerifyPasses, IInv
<1>2. /\ t \in Op!StepRecords /\ Op!ValidStep(t) /\ t.state = "completed"
      /\ t.error = "none"
      /\ t.before = current.step.before /\ t.after = current.step.after
  BY <1>1, DuringVerification
  DEF Op!StepRecords, Op!States, Op!TerminalStates, Op!CheckStates,
      Op!ValidStep, Op!Captured
<1>3. Record("completed", t)
  BY DEF VerifyPasses
<1> HIDE DEF t
<1>4. "completed" \in Op!States
  BY DEF Op!States, Op!TerminalStates
<1>5. MachineInv' /\ Installed' = Installed
  BY <1>1, SameMachine
<1>6. PhaseInv'
  BY <1>1 DEF PhaseInv
<1>7. plan.kind = "restore" /\ Running \notin disturbed =>
        t.after.alias = plan.desired /\ t.after.version = plan.version
  <2>1. Running \notin disturbed => t.after = Snapshot(plan)
    BY <1>1, <1>2 DEF IInv, VerifiedInv
  <2>2. plan.kind = "restore" => /\ Snapshot(plan).alias = plan.desired
                                /\ Snapshot(plan).version = plan.version
    BY <1>1 DEF Verifies, Snapshot
  <2>3. QED
    BY <2>1, <2>2
<1>8. QED
  BY <1>1, <1>2, <1>3, <1>4, <1>5, <1>6, <1>7, DuringVerification, StepKeeps

LEMMA VerifyFailsKeeps == ASSUME IInv, VerifyFails PROVE IInv'
<1> DEFINE t == [current.step EXCEPT !.verification = "failed"]
<1>1. /\ phase = "verify" /\ phase # "idle" /\ MachineInv
      /\ UNCHANGED <<prepared, reviews, history>>
      /\ UNCHANGED <<machine, history>>
      /\ current.step.state = "verifying"
  BY CurrentOperation DEF VerifyFails, IInv, PhaseInv
<1>2. /\ t \in Op!StepRecords /\ Op!ValidStep(t)
      /\ t.before = current.step.before /\ t.after = current.step.after
  BY <1>1, DuringVerification
  DEF Op!StepRecords, Op!CheckStates, Op!ValidStep, Op!Captured, Op!TerminalStates
<1>3. Return(t, "VERIFY_FAILED")
  BY DEF VerifyFails
<1> HIDE DEF t
<1>4. "VERIFY_FAILED" \in Op!Codes
  BY DEF Op!Codes
<1>5. MachineInv' /\ Installed' = Installed
  BY <1>1, SameMachine
<1>6. QED
  BY <1>1, <1>2, <1>3, <1>4, <1>5, DuringVerification, ReturnKeeps

-----------------------------------------------------------------------------
(* Crashes and other programs.                                             *)

\* A fault leaves the records, and what was concluded from them, alone.
LEMMA FaultKeeps ==
    ASSUME IInv, Bounded, faults' = faults + 1,
           UNCHANGED <<prepared, disk, reviews>>
    PROVE  /\ PlanInv' /\ ReviewInv' /\ UndoInv' /\ faults' \in 0..MaxEvents
           /\ \A id \in 1..Len(disk) :
                /\ Op!ValidStep(disk[id].step)' /\ disk[id]' = disk[id]
<1>1. disk' = disk /\ prepared' = prepared /\ reviews' = reviews
  OBVIOUS
<1>2. /\ faults \in Nat /\ Len(disk) \in Nat
      /\ Len(disk) + faults < MaxEvents /\ MaxEvents \in Nat
  BY BoundAssumption DEF IInv, MachineInv, RecordInv, Bounded
<1>3. faults' \in 0..MaxEvents /\ faults' # 0
  BY <1>2
<1>4. UndoInv'
  BY <1>3 DEF UndoInv
<1>5. PlanInv'
  <2>1. prepared' # None => Bound(prepared'.plan, Len(disk) + 1)
    BY <1>1 DEF IInv, PlanInv
  <2>2. QED
    BY <1>1, <2>1, PlanStays DEF IInv
<1>6. ReviewInv'
  BY <1>1 DEF IInv, ReviewInv, Proven, Evidence
<1>7. QED
  BY <1>1, <1>3, <1>4, <1>5, <1>6 DEF IInv, RecordInv

LEMMA CrashKeeps == ASSUME IInv, Crash PROVE IInv'
<1>1. /\ phase # "idle" /\ Bounded /\ faults' = faults + 1 /\ phase' = "idle"
      /\ UNCHANGED <<prepared, disk, reviews>>
      /\ disk' = disk /\ prepared' = prepared /\ disturbed' = disturbed
      /\ prepared = None
  BY DEF Crash, IInv, RecordInv
<1>2. PlanInv' /\ ReviewInv' /\ UndoInv' /\ faults' \in 0..MaxEvents
  BY <1>1, FaultKeeps
<1>3. MachineInv'
  <2>1. CASE Launches /\ Writes
    BY <1>2, <2>1, WritesKeep DEF IInv, MachineInv
  <2>2. CASE UNCHANGED machine
    BY <1>2, <2>2 DEF IInv, MachineInv, machine
  <2>3. QED
    BY <2>1, <2>2 DEF Crash
<1>4. RecordInv'
  BY <1>1 DEF IInv, RecordInv
<1>5. PhaseInv'
  BY <1>1 DEF PhaseInv
<1>6. AliasInv'
  BY <1>1 DEF IInv, AliasInv
<1>7. VerifiedInv'
  BY <1>1 DEF IInv, VerifiedInv
<1>8. QED
  BY <1>2, <1>3, <1>4, <1>5, <1>6, <1>7 DEF IInv

LEMMA OtherProgramKeeps == ASSUME IInv, OtherProgram PROVE IInv'
<1>1. /\ Bounded /\ faults' = faults + 1
      /\ UNCHANGED <<prepared, disk, reviews>>
      /\ disk' = disk /\ prepared' = prepared /\ phase' = phase
      /\ baseline' = baseline
      /\ disturbed' = IF phase \in {"capture", "write", "verify"}
                      THEN disturbed \cup {Running} ELSE disturbed
      /\ Running' = Running /\ current' = current /\ plan' = plan
  BY DEF OtherProgram, executing, Running, current, plan
<1>2. PlanInv' /\ ReviewInv' /\ UndoInv' /\ faults' \in 0..MaxEvents
  BY <1>1, FaultKeeps
<1>3. MachineInv'
  <2>1. CASE alias' \in Aliases \ {alias} /\ UNCHANGED <<nodes, script>>
    BY <1>2, <2>1 DEF IInv, MachineInv
  <2>2. CASE /\ \E v \in Versions \ {Active} : \E left \in {"absent", "installed"} :
                  nodes[v] # left /\ nodes' = [nodes EXCEPT ![v] = left]
             /\ UNCHANGED <<alias, script>>
    <3>1. PICK v \in Versions \ {Active}, left \in {"absent", "installed"} :
            nodes' = [nodes EXCEPT ![v] = left]
      BY <2>2
    <3>2. nodes \in [Versions -> {"absent", "partial", "installed"}]
          /\ nodes[Active] = "installed" /\ Active \in Versions
      BY DEF IInv, MachineInv, Active, Versions
    <3>3. /\ nodes' \in [Versions -> {"absent", "partial", "installed"}]
          /\ nodes'[Active] = "installed"
      BY <3>1, <3>2
    <3>4. QED
      BY <1>2, <2>2, <3>3 DEF IInv, MachineInv
  <2>3. CASE script' = 1 - script /\ UNCHANGED <<nodes, alias>>
    BY <1>2, <2>3 DEF IInv, MachineInv
  <2>4. QED
    BY <2>1, <2>2, <2>3 DEF OtherProgram
<1>4. RecordInv'
  <2>1. phase # "idle" => Running \in 1..Len(disk)
    BY CurrentOperation DEF IInv
  <2>2. disturbed' \subseteq 1..Len(disk)
    BY <1>1, <2>1 DEF IInv, RecordInv
  <2>3. QED
    BY <1>1, <2>2 DEF IInv, RecordInv
<1>5. PhaseInv'
  BY <1>1 DEF IInv, PhaseInv
<1>6. AliasInv'
  BY <1>1 DEF IInv, AliasInv
<1>7. VerifiedInv'
  BY <1>1 DEF IInv, VerifiedInv
<1>8. QED
  BY <1>2, <1>3, <1>4, <1>5, <1>6, <1>7 DEF IInv

\* RecoverInterrupted keeps the snapshots of a step.
LEMMA InterruptedStepKeeps ==
    ASSUME NEW s \in Op!StepRecords, Op!ValidStep(s), s.state \in Op!ActiveStates
    PROVE  LET r == Op!InterruptedStep(s)
           IN  /\ r \in Op!StepRecords /\ Op!ValidStep(r)
               /\ r.state = "interrupted"
               /\ r.before = s.before /\ r.after = s.after
<1> DEFINE r == Op!InterruptedStep(s)
<1>1. /\ r \in Op!StepRecords /\ r.state = "interrupted" /\ r.finished
      /\ r.before = s.before /\ r.after = s.after /\ r.diff = s.diff
  BY DEF Op!InterruptedStep, Op!StepRecords, Op!States, Op!TerminalStates,
         Op!CheckStates, Op!Codes, Op!Undecided
<1> HIDE DEF r
<1>2. Op!ValidStep(r)
  BY <1>1 DEF Op!ValidStep, Op!Captured
<1>3. QED
  BY <1>1, <1>2 DEF r

\* Every record is an operation with a valid step.
LEMMA OneOperation ==
    ASSUME RecordInv, NEW id \in 1..Len(disk)
    PROVE  /\ id \in Nat /\ disk[id] \in Operations
           /\ disk[id].plan \in Plans /\ disk[id].state \in Op!States
           /\ disk[id].step \in Op!StepRecords /\ Op!ValidStep(disk[id].step)
           /\ disk[id].step.state = disk[id].state
<1>1. disk \in Seq(Operations)
  BY DEF RecordInv
<1>2. Len(disk) \in Nat
  BY <1>1, LenProperties
<1>3. disk[id] \in Operations /\ id \in Nat
  BY <1>1, <1>2, ElementOfSeq
<1>4. QED
  BY <1>3 DEF Operations, RecordInv

LEMMA RecoverKeeps == ASSUME IInv, Recover PROVE IInv'
<1>1. /\ phase = "idle" /\ phase' = "idle" /\ prepared' = prepared
      /\ reviews' = reviews /\ faults' = faults /\ disturbed' = disturbed
      /\ UNCHANGED <<machine, history>> /\ MachineInv
      /\ disk \in Seq(Operations) /\ Len(disk) \in Nat /\ baseline' = baseline
  BY DEF Recover, executing, history, IInv, RecordInv
<1>2. PICK n \in 1..Len(disk) :
        /\ disk[n].state \in Op!ActiveStates
        /\ disk' = [disk EXCEPT ![n].state = "interrupted",
                                ![n].step = Op!InterruptedStep(@)]
  BY DEF Recover
<1> DEFINE op == disk[n]
           r == Op!InterruptedStep(op.step)
           half == [op EXCEPT !.state = "interrupted"]
           new == [half EXCEPT !.step = r]
<1>3. /\ op \in Operations /\ op.step \in Op!StepRecords /\ Op!ValidStep(op.step)
      /\ op.step.state = op.state
  BY OneOperation DEF IInv
<1>4. /\ r \in Op!StepRecords /\ Op!ValidStep(r) /\ r.state = "interrupted"
      /\ r.before = op.step.before /\ r.after = op.step.after
  BY <1>2, <1>3, InterruptedStepKeeps
<1>5. disk' = [disk EXCEPT ![n] = new]
  BY <1>1, <1>2
<1> HIDE DEF r
<1>6. "interrupted" \in Op!States /\ "interrupted" \in Op!TerminalStates
  BY DEF Op!States, Op!TerminalStates
<1>7. half \in Operations /\ half.plan = op.plan /\ half.state = "interrupted"
  BY <1>3, <1>6 DEF Operations
<1> HIDE DEF half
<1>8. /\ new \in Operations /\ new.plan = op.plan /\ new.state = "interrupted"
      /\ new.step = r
  BY <1>4, <1>7 DEF Operations
<1> HIDE DEF new
<1>9. /\ disk' \in Seq(Operations) /\ Len(disk') = Len(disk) /\ disk'[n] = new
      /\ \A id \in 1..Len(disk) : id # n => disk'[id] = disk[id]
  BY <1>1, <1>5, <1>8, ExceptSeq
<1>10. /\ \A id \in 1..Len(disk) :
            /\ disk'[id].plan = disk[id].plan
            /\ disk'[id].step.before = disk[id].step.before
            /\ disk'[id].step.after = disk[id].step.after
            /\ disk'[id].state = "completed" => disk[id].state = "completed"
  BY <1>4, <1>8, <1>9
<1>11. /\ MachineInv' /\ Installed' = Installed /\ Resolved' = Resolved
  BY <1>1, SameMachine
<1>12. RecordInv'
  <2>1. ASSUME NEW id \in 1..Len(disk)
        PROVE  /\ Op!ValidStep(disk'[id].step)
               /\ disk'[id].step.state = disk'[id].state
               /\ disk'[id].state \notin Op!TerminalStates
                    => disk'[id].step.error = "none"
    <3>1. CASE id = n
      BY <1>4, <1>6, <1>8, <1>9, <3>1
    <3>2. CASE id # n
      BY <1>9, <3>2 DEF IInv, RecordInv
    <3>3. QED
      BY <3>1, <3>2
  <2>2. QED
    BY <1>1, <1>9, <2>1 DEF IInv, RecordInv
<1>13. PhaseInv'
  BY <1>1 DEF PhaseInv
<1>14. PlanInv'
  <2>1. ASSUME NEW plan_, NEW k \in 1..(Len(disk) + 1), Bound(plan_, k)
        PROVE  /\ plan_.kind = "set" => plan_.desired = plan_.version
               /\ plan_.kind = "restore" =>
                    /\ plan_.source \in 1..(k - 1)
                    /\ disk'[plan_.source].step.before # None
                    /\ disk'[plan_.source].step.after # None
                    /\ plan_.alias = disk'[plan_.source].step.after.alias
                    /\ plan_.desired = disk'[plan_.source].step.before.alias
                    /\ plan_.version = disk'[plan_.source].step.before.version
    <3>1. plan_.kind = "restore" => plan_.source \in 1..Len(disk)
      BY <1>1, <2>1 DEF Bound
    <3>2. QED
      BY <1>10, <2>1, <3>1 DEF Bound
  <2>2. ASSUME NEW id \in 1..Len(disk)
        PROVE  Bound(disk[id].plan, id)'
    <3>1. Bound(disk[id].plan, id) /\ id \in 1..(Len(disk) + 1)
      BY <1>1 DEF IInv, PlanInv
    <3> DEFINE q == disk[id].plan
    <3>2. /\ q.kind = "set" => q.desired = q.version
          /\ q.kind = "restore" =>
               /\ q.source \in 1..(id - 1)
               /\ disk'[q.source].step.before # None
               /\ disk'[q.source].step.after # None
               /\ q.alias = disk'[q.source].step.after.alias
               /\ q.desired = disk'[q.source].step.before.alias
               /\ q.version = disk'[q.source].step.before.version
      BY <2>1, <3>1
    <3>3. disk'[id].plan = q
      BY <1>10
    <3>4. QED
      BY <3>2, <3>3 DEF Bound
  <2>3. prepared' # None => Bound(prepared.plan, Len(disk) + 1)'
    <3>1. Len(disk) + 1 \in 1..(Len(disk) + 1)
      BY <1>1
    <3>2. prepared # None => Bound(prepared.plan, Len(disk) + 1)
      BY DEF IInv, PlanInv
    <3>3. QED
      BY <1>1, <1>9, <2>1, <3>1, <3>2 DEF Bound
  <2>4. QED
    BY <1>9, <2>2, <2>3 DEF PlanInv
<1>15. AliasInv'
  BY <1>1, <1>9, <1>10 DEF IInv, AliasInv
<1>16. VerifiedInv'
  BY <1>1, <1>9, <1>10 DEF IInv, VerifiedInv
<1>17. ReviewInv'
  <2>1. n \notin DOMAIN reviews
    BY <1>2 DEF IInv, ReviewInv, Op!ActiveStates, Op!TerminalStates
  <2>2. \A id \in DOMAIN reviews : disk'[id] = disk[id]
    BY <1>9, <2>1 DEF IInv, ReviewInv
  <2>3. prepared # None /\ prepared.by = "manifest" =>
          disk'[prepared.plan.source] = disk[prepared.plan.source]
    <3>1. prepared # None /\ prepared.by = "manifest" =>
            /\ prepared.plan.source \in 1..Len(disk)
            /\ prepared.plan.source # n
      <4> SUFFICES ASSUME prepared # None, prepared.by = "manifest"
                   PROVE  /\ prepared.plan.source \in 1..Len(disk)
                          /\ prepared.plan.source # n
        OBVIOUS
      <4>1. /\ prepared.plan.kind = "restore"
            /\ disk[prepared.plan.source].state \in Op!TerminalStates
        BY DEF IInv, ReviewInv
      <4>2. prepared.plan.source # n
        BY <1>2, <4>1 DEF Op!ActiveStates, Op!TerminalStates
      <4>3. prepared.plan.source \in 1..(Len(disk) + 1 - 1)
        <5>1. Bound(prepared.plan, Len(disk) + 1)
          BY DEF IInv, PlanInv
        <5>2. QED
          BY <4>1, <5>1 DEF Bound
      <4>4. QED
        BY <1>1, <4>2, <4>3
    <3>2. QED
      BY <1>9, <3>1
  <2>4. ASSUME NEW id \in DOMAIN reviews
        PROVE  LET o == disk'[id]
                   review == reviews[id]
               IN  /\ o.state \in Op!TerminalStates
                   /\ review.evidence = Evidence(o)
                   /\ review.evidence = "uncertain" <=> review.checkpoint = "uncertain"
                   /\ review.evidence = "none" <=> review.checkpoint = "none"
                   /\ o.plan.kind = "set" /\ review.checkpoint = "current" => Proven(o)
    BY <2>2 DEF IInv, ReviewInv
  <2>5. prepared # None /\ prepared.by = "manifest" =>
          /\ prepared.plan.kind = "restore"
          /\ Proven(disk'[prepared.plan.source])
          /\ disk'[prepared.plan.source].state \in Op!TerminalStates
    BY <2>3 DEF IInv, ReviewInv
  <2>6. /\ DOMAIN reviews \subseteq 1..Len(disk')
        /\ reviews \in [DOMAIN reviews -> [evidence: EvidenceKinds,
                                           checkpoint: Checkpoints]]
    BY <1>9 DEF IInv, ReviewInv
  <2>7. QED
    BY <1>1, <2>4, <2>5, <2>6 DEF ReviewInv, Proven, Evidence
<1>18. UndoInv'
  <2>1. \A id \in 1..Len(disk) : Undoable(disk[id]) => Undoable(disk[id])'
    BY <1>10, <1>11 DEF Undoable
  <2>2. QED
    BY <1>1, <1>9, <1>11, <2>1 DEF IInv, UndoInv
<1>19. QED
  BY <1>11, <1>12, <1>13, <1>14, <1>15, <1>16, <1>17, <1>18 DEF IInv

-----------------------------------------------------------------------------
(* Plans and their review.                                                 *)

\* A Plan is prepared, withdrawn, or left as it was, while nothing runs.
LEMMA ReadyKeeps ==
    ASSUME IInv, UNCHANGED <<machine, disk, executing, reviews, history>>,
           prepared' # None =>
             /\ phase = "idle" /\ prepared'.plan \in Plans
             /\ prepared'.by = "command" => Len(disk) < MaxEvents
             /\ Bound(prepared'.plan, Len(disk) + 1)
             /\ prepared'.plan.alias = prepared'.baseline.alias
             /\ faults = 0 /\ prepared'.plan.kind = "set" =>
                  {prepared'.plan.version, Resolved} \subseteq Installed
             /\ prepared'.by = "manifest" =>
                  /\ prepared'.plan.kind = "restore"
                  /\ Proven(disk[prepared'.plan.source])
                  /\ disk[prepared'.plan.source].state \in Op!TerminalStates
    PROVE  IInv'
<1>1. /\ disk' = disk /\ phase' = phase /\ baseline' = baseline
      /\ reviews' = reviews /\ faults' = faults /\ disturbed' = disturbed
      /\ UNCHANGED <<machine, history>> /\ MachineInv
      /\ phase # "idle" => prepared = None
      /\ Running' = Running /\ current' = current /\ plan' = plan
  BY DEF executing, history, IInv, RecordInv, Running, current, plan
<1>2. /\ MachineInv' /\ Installed' = Installed /\ Present' = Present
      /\ Resolved' = Resolved /\ alias' = alias
  BY <1>1, SameMachine
<1>3. RecordInv'
  BY <1>1 DEF IInv, RecordInv
<1>4. PhaseInv'
  BY <1>1 DEF IInv, PhaseInv
<1>5. PlanInv'
  BY <1>1, PlanStays DEF IInv
<1>6. AliasInv'
  BY <1>1, <1>2 DEF IInv, AliasInv
<1>7. VerifiedInv'
  BY <1>1, <1>2 DEF IInv, VerifiedInv, Snapshot
<1>8. ReviewInv'
  BY <1>1 DEF IInv, ReviewInv, Proven, Evidence
<1>9. UndoInv'
  BY <1>1, <1>2 DEF IInv, UndoInv, Undoable
<1>10. QED
  BY <1>2, <1>3, <1>4, <1>5, <1>6, <1>7, <1>8, <1>9 DEF IInv

LEMMA DeclineKeeps == ASSUME IInv, Decline PROVE IInv'
<1>1. prepared' = None
      /\ UNCHANGED <<machine, disk, executing, reviews, history>>
  BY DEF Decline
<1>2. QED
  BY <1>1, ReadyKeeps

\* A Plan is built from the scan it is stored with.
LEMMA PlanIsOfThisScan ==
    ASSUME IInv, NEW kind \in {"install", "set", "restore"},
           NEW version \in Versions, NEW desired \in Aliases, NEW source \in Nat
    PROVE  LET p == Plan(kind, version, desired, source)
           IN  /\ p \in Plans /\ p.alias = alias
               /\ p.kind = kind /\ p.version = version
               /\ p.desired = desired /\ p.source = source
<1>1. /\ alias \in Aliases /\ script \in {0, 1}
      /\ Resolved \in Versions \cup {0}
  BY Scanned DEF IInv, MachineInv, ScanIsSound
<1>2. QED
  BY <1>1 DEF Plan, Plans

\* A Plan that is not a restore, and that a command made.
LEMMA PreparesKeeps ==
    ASSUME IInv, Bounded, Idle, NEW kind \in {"install", "set"},
           NEW v \in Versions, NEW desired \in Aliases,
           kind = "set" => desired = v /\ {v, Resolved} \subseteq Installed,
           prepared' = Prepared(Plan(kind, v, desired, 0), "command"),
           UNCHANGED <<machine, disk, executing, reviews, history>>
    PROVE  IInv'
<1> DEFINE p == Plan(kind, v, desired, 0)
<1>1. /\ p \in Plans /\ p.alias = alias /\ p.kind = kind /\ p.version = v
      /\ p.desired = desired
  BY PlanIsOfThisScan
<1> HIDE DEF p
<1>2. /\ prepared'.plan = p /\ prepared'.by = "command"
      /\ prepared'.baseline.alias = alias
  BY DEF p, Prepared, Baseline
<1>3. Len(disk) < MaxEvents
  <2>1. /\ faults \in Nat /\ Len(disk) \in Nat
        /\ Len(disk) + faults < MaxEvents /\ MaxEvents \in Nat
    BY BoundAssumption DEF IInv, MachineInv, RecordInv, Bounded
  <2>2. QED
    BY <2>1
<1>4. Bound(prepared'.plan, Len(disk) + 1)
  BY <1>1, <1>2 DEF Bound
<1>5. QED
  BY <1>1, <1>2, <1>3, <1>4, ReadyKeeps DEF Idle

LEMMA PrepareInstallKeeps == ASSUME IInv, PrepareInstall PROVE IInv'
<1>1. PICK v \in Versions :
        prepared' = Prepared(Plan("install", v, alias, 0), "command")
  BY DEF PrepareInstall
<1>2. alias \in Aliases
  BY DEF IInv, MachineInv
<1>3. QED
  BY <1>1, <1>2, PreparesKeeps DEF PrepareInstall

LEMMA PrepareSetKeeps == ASSUME IInv, PrepareSet PROVE IInv'
<1>1. PICK v \in Versions :
        CanSet(v) /\ prepared' = Prepared(Plan("set", v, v, 0), "command")
  BY DEF PrepareSet
<1>2. v \in Aliases
  BY DEF Aliases
<1>3. QED
  BY <1>1, <1>2, PreparesKeeps DEF PrepareSet, CanSet

\* A restore is bound to the snapshots of the record it undoes.
LEMMA RestoreIsBound ==
    ASSUME IInv, NEW id \in 1..Len(disk), CanRestore(id)
    PROVE  /\ Restore(id) \in Plans /\ Restore(id).kind = "restore"
           /\ Restore(id).source = id /\ Restore(id).alias = alias
           /\ Bound(Restore(id), Len(disk) + 1)
<1> DEFINE before == disk[id].step.before
<1>1. /\ disk[id].step \in Op!StepRecords /\ id \in Nat /\ Len(disk) \in Nat
  BY OneOperation DEF IInv, RecordInv
<1>2. before # None /\ disk[id].step.after # None
      /\ alias = disk[id].step.after.alias
  BY DEF CanRestore, Recoverable, UnchangedSince
<1>3. before \in Snapshots
  BY <1>1, <1>2 DEF Op!StepRecords, Op!Snapshots
<1>4. before.alias \in Aliases /\ before.version \in Versions
  BY <1>3 DEF Snapshots, CanRestore, Installed
<1>5. /\ Restore(id) \in Plans /\ Restore(id).alias = alias
      /\ Restore(id).kind = "restore" /\ Restore(id).version = before.version
      /\ Restore(id).desired = before.alias /\ Restore(id).source = id
  BY <1>1, <1>4, PlanIsOfThisScan DEF Restore
<1>6. id \in 1..(Len(disk) + 1 - 1)
  BY <1>1
<1>7. QED
  BY <1>2, <1>5, <1>6 DEF Bound

\* By a command or, of a record whose change is proven, by a manifest.
LEMMA RestoresKeeps ==
    ASSUME IInv, Idle, NEW by \in {"command", "manifest"},
           NEW id \in 1..Len(disk), CanRestore(id),
           by = "command" => Bounded,
           by = "manifest" => /\ Proven(disk[id])
                              /\ disk[id].state \in Op!TerminalStates,
           prepared' = Prepared(Restore(id), by),
           UNCHANGED <<machine, disk, executing, reviews, history>>
    PROVE  IInv'
<1>1. /\ Restore(id) \in Plans /\ Restore(id).kind = "restore"
      /\ Restore(id).source = id /\ Restore(id).alias = alias
      /\ Bound(Restore(id), Len(disk) + 1)
  BY RestoreIsBound
<1>2. /\ prepared'.plan = Restore(id) /\ prepared'.by = by
      /\ prepared'.baseline.alias = alias
  BY DEF Prepared, Baseline
<1>3. by = "command" => Len(disk) < MaxEvents
  <2>1. /\ faults \in Nat /\ Len(disk) \in Nat /\ MaxEvents \in Nat
    BY BoundAssumption DEF IInv, MachineInv, RecordInv
  <2>2. QED
    BY <2>1 DEF Bounded
<1>4. QED
  BY <1>1, <1>2, <1>3, ReadyKeeps DEF Idle

LEMMA PrepareRestoreKeeps == ASSUME IInv, PrepareRestore PROVE IInv'
<1>1. PICK id \in 1..Len(disk) :
        CanRestore(id) /\ prepared' = Prepared(Restore(id), "command")
  BY DEF PrepareRestore
<1>2. QED
  BY <1>1, RestoresKeeps DEF PrepareRestore

LEMMA OnlyCurrentIsPrepared ==
    ASSUME NEW checkpoint \in {"current", "drifted", "uncertain"},
           NEW mode \in {"plan", "manual"},
           Disposition(checkpoint, mode) = "prepare_new_plan"
    PROVE  checkpoint = "current" /\ mode = "plan"
<1>1. CASE checkpoint = "current" /\ mode = "manual"
  BY <1>1 DEF Disposition
<1>2. CASE checkpoint = "uncertain"
  BY <1>2 DEF Disposition
<1>3. CASE checkpoint = "drifted"
  BY <1>3 DEF Disposition
<1>4. QED
  BY <1>1, <1>2, <1>3

\* Only a change that its checkpoint found again is offered to be undone.
LEMMA OfferRestoreKeeps == ASSUME IInv, OfferRestore PROVE IInv'
<1>1. PICK id \in DOMAIN reviews :
        /\ reviews[id].evidence # "none"
        /\ Disposition(reviews[id].checkpoint, Mode(disk[id])) = "prepare_new_plan"
        /\ CanRestore(id) /\ prepared' = Prepared(Restore(id), "manifest")
  BY DEF OfferRestore, Manifest
<1>2. /\ reviews[id].checkpoint \in {"current", "drifted", "uncertain"}
      /\ id \in 1..Len(disk) /\ disk[id].state \in Op!TerminalStates
      /\ disk[id].plan.kind = "set" /\ reviews[id].checkpoint = "current"
           => Proven(disk[id])
  BY <1>1 DEF IInv, ReviewInv, Checkpoints
<1>3. /\ Mode(disk[id]) \in {"plan", "manual"}
      /\ Mode(disk[id]) = "plan" => disk[id].plan.kind = "set"
  BY DEF Mode
<1>4. reviews[id].checkpoint = "current" /\ Mode(disk[id]) = "plan"
  BY <1>1, <1>2, <1>3, OnlyCurrentIsPrepared
<1>5. QED
  BY <1>1, <1>2, <1>3, <1>4, RestoresKeeps DEF OfferRestore

\* A review changes nothing but the reviews, and is of a record that has ended.
LEMMA ReviewKeeps == ASSUME IInv, Review PROVE IInv'
<1>1. /\ UNCHANGED <<machine, prepared, disk, executing, history>>
      /\ UNCHANGED <<machine, history>> /\ MachineInv
      /\ disk' = disk /\ phase' = phase /\ baseline' = baseline
      /\ prepared' = prepared /\ faults' = faults /\ disturbed' = disturbed
      /\ prepared = None /\ phase = "idle"
  BY DEF Review, Idle, executing, history, IInv
<1>2. PICK id \in 1..Len(disk) :
        /\ Reviewable(disk[id])
        /\ reviews' = [i \in DOMAIN reviews \cup {id} |->
                         IF i = id THEN [evidence |-> Evidence(disk[id]),
                                         checkpoint |-> Checkpoint(disk[id])]
                         ELSE reviews[i]]
  BY DEF Review
<1> DEFINE op == disk[id]
           new == [evidence |-> Evidence(op), checkpoint |-> Checkpoint(op)]
<1>3. Evidence(op) \in EvidenceKinds
  BY DEF Evidence, EvidenceKinds
<1>4. /\ Checkpoint(op) \in Checkpoints
      /\ Evidence(op) = "uncertain" <=> Checkpoint(op) = "uncertain"
      /\ Evidence(op) = "none" <=> Checkpoint(op) = "none"
      /\ Checkpoint(op) = "current" => Matches(op) /\ Evidence(op) = "changed"
  <2>1. CASE Evidence(op) = "none"
    BY <2>1 DEF Checkpoint, Checkpoints
  <2>2. CASE Evidence(op) = "uncertain"
    BY <2>2 DEF Checkpoint, Checkpoints
  <2>3. CASE Evidence(op) = "changed"
    BY <2>3 DEF Checkpoint, Checkpoints
  <2>4. QED
    BY <1>3, <2>1, <2>2, <2>3 DEF EvidenceKinds
<1>5. op.plan.kind = "set" /\ Checkpoint(op) = "current" => Proven(op)
  BY <1>4 DEF Matches, Proven
<1>6. op.state \in Op!TerminalStates
  BY <1>2 DEF Reviewable
<1>7. /\ new \in [evidence: EvidenceKinds, checkpoint: Checkpoints]
      /\ new.evidence = Evidence(op) /\ new.checkpoint = Checkpoint(op)
  BY <1>3, <1>4
<1>8. /\ DOMAIN reviews' = DOMAIN reviews \cup {id}
      /\ reviews'[id] = new
      /\ \A i \in DOMAIN reviews' : i # id => i \in DOMAIN reviews
                                              /\ reviews'[i] = reviews[i]
      /\ reviews' \in [DOMAIN reviews' -> [evidence: EvidenceKinds,
                                           checkpoint: Checkpoints]]
  BY <1>2, <1>7 DEF IInv, ReviewInv
<1> HIDE DEF new
<1>9. ReviewInv'
  <2>1. ASSUME NEW i \in DOMAIN reviews'
        PROVE  LET o == disk[i]
                   review == reviews'[i]
               IN  /\ o.state \in Op!TerminalStates
                   /\ review.evidence = Evidence(o)
                   /\ review.evidence = "uncertain" <=> review.checkpoint = "uncertain"
                   /\ review.evidence = "none" <=> review.checkpoint = "none"
                   /\ o.plan.kind = "set" /\ review.checkpoint = "current" => Proven(o)
    <3>1. CASE i = id
      BY <1>4, <1>5, <1>6, <1>7, <1>8, <3>1
    <3>2. CASE i # id
      BY <1>8, <3>2 DEF IInv, ReviewInv
    <3>3. QED
      BY <3>1, <3>2
  <2>2. DOMAIN reviews' \subseteq 1..Len(disk)
    BY <1>8 DEF IInv, ReviewInv
  <2>3. QED
    BY <1>1, <1>8, <2>1, <2>2 DEF ReviewInv, Proven, Evidence
<1>10. /\ MachineInv' /\ Installed' = Installed /\ Resolved' = Resolved
       /\ alias' = alias
  BY <1>1, SameMachine
<1>11. RecordInv'
  BY <1>1 DEF IInv, RecordInv
<1>12. PhaseInv' /\ PlanInv'
  BY <1>1, PlanStays DEF IInv, PhaseInv
<1>13. AliasInv' /\ VerifiedInv'
  BY <1>1 DEF IInv, AliasInv, VerifiedInv
<1>14. UndoInv'
  BY <1>1, <1>10 DEF IInv, UndoInv, Undoable
<1>15. QED
  BY <1>9, <1>10, <1>11, <1>12, <1>13, <1>14 DEF IInv

\* A confirmed Plan is executed only if a second scan sees what it shows.
LEMMA ExecuteKeeps == ASSUME IInv, Execute PROVE IInv'
<1> DEFINE n == Len(disk)
           p == prepared.plan
           new == [plan |-> p, state |-> "pending", step |-> Op!NewStep]
<1>1. /\ phase = "idle" /\ prepared # None /\ prepared.by = "command"
      /\ Rebuilds(prepared) /\ phase' = "preflight" /\ prepared' = None
      /\ baseline' = IF p.kind = "install" THEN prepared.baseline ELSE Baseline
      /\ reviews' = reviews /\ faults' = faults /\ disturbed' = disturbed
      /\ UNCHANGED <<machine, history>> /\ MachineInv
      /\ disk \in Seq(Operations) /\ n \in Nat
      /\ p \in Plans /\ n < MaxEvents /\ MaxEvents \in Nat
      /\ disturbed \subseteq 1..n
  BY BoundAssumption DEF Execute, history, IInv, RecordInv
<1>2. /\ Op!NewStep \in Op!StepRecords /\ Op!ValidStep(Op!NewStep)
      /\ Op!NewStep.state = "pending" /\ Op!NewStep.error = "none"
      /\ Op!NewStep.before = None /\ Op!NewStep.after = None
      /\ "pending" \in Op!States
  BY DEF Op!NewStep, Op!StepRecords, Op!States, Op!CheckStates, Op!Codes,
         Op!Snapshots, Op!ValidStep, Op!Captured, Op!TerminalStates
<1>3. new \in Operations
  BY <1>1, <1>2 DEF Operations
<1>4. new.plan = p /\ new.state = "pending" /\ new.step = Op!NewStep
  OBVIOUS
<1>5. disk' = Append(disk, new)
  BY DEF Execute
<1> HIDE DEF new
<1>6. /\ disk' \in Seq(Operations) /\ Len(disk') = n + 1
      /\ disk'[n + 1] = new
      /\ \A id \in 1..n : disk'[id] = disk[id]
  BY <1>1, <1>3, <1>5, AppendProperties
<1>7. /\ Running' = n + 1 /\ current' = new /\ plan' = p
  BY <1>4, <1>6 DEF Running, current, plan
<1>8. /\ MachineInv' /\ Installed' = Installed /\ Resolved' = Resolved
      /\ alias' = alias
  BY <1>1, SameMachine
<1>9. \A id \in 1..(n + 1) : id \in 1..n \/ id = n + 1
  BY <1>1
<1>10. RecordInv'
  <2>1. Len(disk') <= MaxEvents /\ Len(disk') > 0 /\ disturbed' \subseteq 1..(n + 1)
    BY <1>1, <1>6
  <2>2. ASSUME NEW id \in 1..(n + 1)
        PROVE  /\ Op!ValidStep(disk'[id].step)
               /\ disk'[id].step.state = disk'[id].state
               /\ disk'[id].state \notin Op!TerminalStates
                    => disk'[id].step.error = "none"
    <3>1. CASE id = n + 1
      BY <1>2, <1>4, <1>6, <3>1
    <3>2. CASE id \in 1..n
      BY <1>6, <3>2 DEF IInv, RecordInv
    <3>3. QED
      BY <1>9, <3>1, <3>2
  <2>3. QED
    BY <1>1, <1>6, <2>1, <2>2 DEF RecordInv
<1>11. PhaseInv'
  BY <1>1, <1>2, <1>4, <1>7 DEF PhaseInv
<1>12. PlanInv'
  <2>1. ASSUME NEW id \in 1..(n + 1)
        PROVE  Bound(disk[id].plan, id)'
    <3>1. CASE id = n + 1
      <4>1. Bound(p, n + 1)
        BY <1>1 DEF IInv, PlanInv
      <4>2. p.kind = "restore" => p.source \in 1..n
        BY <1>1, <4>1 DEF Bound
      <4>3. p.kind = "restore" => disk'[p.source] = disk[p.source]
        BY <1>6, <4>2
      <4>4. disk'[id].plan = p
        BY <1>4, <1>6, <3>1
      <4>5. QED
        BY <3>1, <4>1, <4>3, <4>4 DEF Bound
    <3>2. CASE id \in 1..n
      <4>1. Bound(disk[id].plan, id) /\ disk'[id].plan = disk[id].plan
        BY <1>6, <3>2 DEF IInv, PlanInv
      <4>2. disk[id].plan.kind = "restore" => disk[id].plan.source \in 1..n
        BY <1>1, <3>2, <4>1 DEF Bound
      <4>3. disk[id].plan.kind = "restore" =>
              disk'[disk[id].plan.source] = disk[disk[id].plan.source]
        BY <1>6, <4>2
      <4>4. QED
        BY <4>1, <4>3 DEF Bound
    <3>3. QED
      BY <1>9, <3>1, <3>2
  <2>2. QED
    BY <1>1, <1>6, <2>1 DEF PlanInv
<1>13. AliasInv'
  <2>1. baseline'.alias = p.alias
    <3>1. p.alias = prepared.baseline.alias
      BY <1>1 DEF IInv, AliasInv
    <3>2. p.kind # "install" => alias = prepared.baseline.alias
      BY <1>1 DEF Rebuilds
    <3>3. Baseline.alias = alias
      BY DEF Baseline
    <3>4. QED
      BY <1>1, <3>1, <3>2, <3>3
  <2>2. ASSUME NEW id \in 1..(n + 1)
        PROVE  LET op == disk'[id]
               IN  op.plan.kind # "install" /\ op.step.before # None
                     /\ id \notin disturbed => op.step.before.alias = op.plan.alias
    <3>1. CASE id = n + 1
      BY <1>2, <1>4, <1>6, <3>1
    <3>2. CASE id \in 1..n
      BY <1>6, <3>2 DEF IInv, AliasInv
    <3>3. QED
      BY <1>9, <3>1, <3>2
  <2>3. QED
    BY <1>1, <1>6, <1>7, <2>1, <2>2 DEF AliasInv
<1>14. VerifiedInv'
  <2>1. ASSUME NEW id \in 1..(n + 1)
        PROVE  LET op == disk'[id]
               IN  op.plan.kind = "restore" /\ op.state = "completed"
                     /\ id \notin disturbed
                       => /\ op.step.after.alias = op.plan.desired
                          /\ op.step.after.version = op.plan.version
    <3>1. CASE id = n + 1
      BY <1>4, <1>6, <3>1
    <3>2. CASE id \in 1..n
      BY <1>6, <3>2 DEF IInv, VerifiedInv
    <3>3. QED
      BY <1>9, <3>1, <3>2
  <2>2. QED
    BY <1>1, <1>6, <2>1 DEF VerifiedInv
<1>15. ReviewInv'
  <2>1. DOMAIN reviews \subseteq 1..n
    BY DEF IInv, ReviewInv
  <2>2. ASSUME NEW id \in DOMAIN reviews
        PROVE  LET o == disk'[id]
                   review == reviews[id]
               IN  /\ o.state \in Op!TerminalStates
                   /\ review.evidence = Evidence(o)
                   /\ review.evidence = "uncertain" <=> review.checkpoint = "uncertain"
                   /\ review.evidence = "none" <=> review.checkpoint = "none"
                   /\ o.plan.kind = "set" /\ review.checkpoint = "current" => Proven(o)
    <3>1. disk'[id] = disk[id]
      BY <1>6, <2>1
    <3>2. QED
      BY <3>1 DEF IInv, ReviewInv
  <2>3. DOMAIN reviews \subseteq 1..Len(disk')
    BY <1>1, <1>6, <2>1
  <2>4. reviews \in [DOMAIN reviews -> [evidence: EvidenceKinds,
                                        checkpoint: Checkpoints]]
    BY DEF IInv, ReviewInv
  <2>5. QED
    BY <1>1, <2>2, <2>3, <2>4 DEF ReviewInv, Proven, Evidence
<1>16. UndoInv'
  <2> SUFFICES ASSUME faults = 0 PROVE UndoInv'
    BY <1>1 DEF UndoInv
  <2>1. p.kind = "set" => {p.version, Resolved} \subseteq Installed
    BY <1>1 DEF IInv, UndoInv
  <2>2. ASSUME NEW id \in 1..(n + 1)
        PROVE  Undoable(disk[id])'
    <3>1. CASE id = n + 1
      BY <1>2, <1>4, <1>6, <1>8, <2>1, <3>1 DEF Undoable
    <3>2. CASE id \in 1..n
      BY <1>6, <1>8, <3>2 DEF IInv, UndoInv, Undoable
    <3>3. QED
      BY <1>9, <3>1, <3>2
  <2>3. QED
    BY <1>1, <1>6, <1>7, <1>8, <2>1, <2>2 DEF UndoInv
<1>17. QED
  BY <1>8, <1>10, <1>11, <1>12, <1>13, <1>14, <1>15, <1>16 DEF IInv

-----------------------------------------------------------------------------
(* The invariant is inductive.                                             *)

LEMMA InitEstablishes == Init => IInv
<1> SUFFICES ASSUME Init PROVE IInv
  OBVIOUS
<1>1. /\ disk = <<>> /\ Len(disk) = 0 /\ phase = "idle" /\ prepared = None
      /\ faults = 0 /\ disturbed = {} /\ MaxEvents \in Nat
  BY BoundAssumption DEF Init
<1>2. DOMAIN reviews = {}
      /\ reviews \in [DOMAIN reviews -> [evidence: EvidenceKinds,
                                         checkpoint: Checkpoints]]
  BY DEF Init
<1>3. MachineInv
  BY <1>1 DEF Init, MachineInv, Versions, Active, Aliases, Newest
<1>4. RecordInv
  BY <1>1 DEF RecordInv
<1>5. PhaseInv /\ PlanInv /\ AliasInv /\ VerifiedInv /\ UndoInv
  BY <1>1 DEF PhaseInv, PlanInv, AliasInv, VerifiedInv, UndoInv
<1>6. ReviewInv
  BY <1>1, <1>2 DEF ReviewInv
<1>7. QED
  BY <1>3, <1>4, <1>5, <1>6 DEF IInv

LEMMA StutterKeeps == ASSUME IInv, UNCHANGED vars PROVE IInv'
<1>1. /\ UNCHANGED <<machine, disk, executing, reviews, history>>
      /\ UNCHANGED <<machine, history>> /\ prepared' = prepared
      /\ disk' = disk /\ phase' = phase /\ baseline' = baseline
      /\ reviews' = reviews /\ faults' = faults /\ disturbed' = disturbed
      /\ MachineInv
      /\ Running' = Running /\ current' = current /\ plan' = plan
  BY DEF vars, executing, history, IInv, Running, current, plan
<1>2. /\ MachineInv' /\ Installed' = Installed /\ Present' = Present
      /\ Resolved' = Resolved /\ alias' = alias
  BY <1>1, SameMachine
<1>3. RecordInv' /\ PhaseInv'
  BY <1>1 DEF IInv, RecordInv, PhaseInv
<1>8. PlanInv'
  <2>1. prepared' # None => Bound(prepared'.plan, Len(disk) + 1)
    BY <1>1 DEF IInv, PlanInv
  <2>2. QED
    BY <1>1, <2>1, PlanStays DEF IInv
<1>4. AliasInv' /\ VerifiedInv'
  BY <1>1, <1>2 DEF IInv, AliasInv, VerifiedInv, Snapshot
<1>5. ReviewInv'
  BY <1>1 DEF IInv, ReviewInv, Proven, Evidence
<1>6. UndoInv'
  BY <1>1, <1>2 DEF IInv, UndoInv, Undoable
<1>7. QED
  BY <1>2, <1>3, <1>4, <1>5, <1>6, <1>8 DEF IInv

LEMMA NextKeeps == IInv /\ [Next]_vars => IInv'
<1> SUFFICES ASSUME IInv, [Next]_vars PROVE IInv'
  OBVIOUS
<1>1. CASE \/ PrepareInstall \/ PrepareSet \/ PrepareRestore \/ Decline \/ Execute
           \/ Review \/ OfferRestore
  BY <1>1, PrepareInstallKeeps, PrepareSetKeeps, PrepareRestoreKeeps,
     DeclineKeeps, ExecuteKeeps, ReviewKeeps, OfferRestoreKeeps
<1>2. CASE Preflight \/ CaptureBefore \/ SkipWrite \/ SatisfiedFails
  BY <1>2, PreflightKeeps, CaptureBeforeKeeps, SkipWriteKeeps, SatisfiedFailsKeeps
<1>3. CASE WriteSucceeds \/ WriteFails \/ VerifyPasses \/ VerifyFails
  BY <1>3, WriteSucceedsKeeps, WriteFailsKeeps, VerifyPassesKeeps, VerifyFailsKeeps
<1>4. CASE Crash \/ Recover \/ OtherProgram
  BY <1>4, CrashKeeps, RecoverKeeps, OtherProgramKeeps
<1>5. CASE UNCHANGED vars
  BY <1>5, StutterKeeps
<1>6. QED
  BY <1>1, <1>2, <1>3, <1>4, <1>5 DEF Next

\* The inductive invariant holds of every reachable state: the alias in the
\* Plan, in the scan before its execution and in the snapshots of its record is
\* one and the same unless another program interfered.
THEOREM Inductive == Spec => []IInv
BY InitEstablishes, NextKeeps, PTL DEF Spec

-----------------------------------------------------------------------------
(* What it gives.                                                          *)

\* Type correctness of the machine, of every record that the executor of
\* internal/execution writes of a Node.js operation, and of the reviews.
THEOREM TypeCorrect == Spec => []TypeOK
<1>1. IInv => TypeOK
  <2> SUFFICES ASSUME IInv PROVE TypeOK
    OBVIOUS
  <2>1. phase # "idle" => current.state \notin Op!TerminalStates
    BY DEF IInv, RecordInv, PhaseInv, Op!TerminalStates
  <2>2. \A id \in 1..Len(disk) :
          /\ disk[id].state \in Op!States
          /\ disk[id].step \in Op!StepRecords /\ Op!ValidStep(disk[id].step)
          /\ disk[id].step.state = disk[id].state
    BY OneOperation DEF IInv
  <2>3. QED
    BY <2>1, <2>2
    DEF IInv, TypeOK, MachineInv, RecordInv, ReviewInv, EvidenceKinds, Checkpoints
<1>2. QED
  BY <1>1, Inductive, PTL

\* Whatever other programs do between review and execution, the default that
\* defaultversion replaces is the one its Plan showed, and the one a restore
\* replaces is the one its source operation had set.
THEOREM ReviewedDefaultsOnly == Spec => []OnlyReviewedDefaultsAreReplaced
<1>1. IInv => OnlyReviewedDefaultsAreReplaced
  <2> SUFFICES ASSUME IInv, NEW id \in 1..Len(disk),
                      disk[id].plan.kind # "install", disk[id].step.before # None,
                      id \notin disturbed
               PROVE  LET op == disk[id]
                      IN  /\ op.step.before.alias = op.plan.alias
                          /\ op.plan.kind = "restore" =>
                               op.step.before.alias =
                                 disk[op.plan.source].step.after.alias
    BY DEF OnlyReviewedDefaultsAreReplaced
  <2>1. disk[id].step.before.alias = disk[id].plan.alias
    BY DEF IInv, AliasInv
  <2>2. Bound(disk[id].plan, id)
    BY DEF IInv, PlanInv
  <2>3. QED
    BY <2>1, <2>2 DEF Bound
<1>2. QED
  BY <1>1, Inductive, PTL

\* A restore that verifyDefault let complete has put back the alias and the
\* version that the snapshot before its source recorded.
THEOREM RestoresPutBack == Spec => []RestorePutsBackWhatWasThere
<1>1. IInv => RestorePutsBackWhatWasThere
  <2> SUFFICES ASSUME IInv, NEW id \in 1..Len(disk),
                      disk[id].plan.kind = "restore", disk[id].state = "completed",
                      id \notin disturbed
               PROVE  LET op == disk[id]
                          was == disk[op.plan.source].step.before
                      IN  /\ op.step.after.alias = was.alias
                          /\ op.step.after.version = was.version
    BY DEF RestorePutsBackWhatWasThere
  <2>1. /\ disk[id].step.after.alias = disk[id].plan.desired
        /\ disk[id].step.after.version = disk[id].plan.version
    BY DEF IInv, VerifiedInv
  <2>2. Bound(disk[id].plan, id)
    BY DEF IInv, PlanInv
  <2>3. QED
    BY <2>1, <2>2 DEF Bound
<1>2. QED
  BY <1>1, Inductive, PTL

\* Records change after a review only while they are active, so that a Recovery
\* Manifest stays true, and what it offers to undo is proven.
THEOREM ManifestsAreTrue == Spec => []ManifestMatchesItsSources
<1>1. IInv => ManifestMatchesItsSources
  <2> SUFFICES ASSUME IInv PROVE ManifestMatchesItsSources
    OBVIOUS
  <2>1. \A id \in DOMAIN reviews :
          /\ disk[id].state \in Op!TerminalStates
          /\ reviews[id].evidence = Evidence(disk[id])
          /\ reviews[id].evidence = "uncertain" <=> reviews[id].checkpoint = "uncertain"
    BY DEF IInv, ReviewInv
  <2>2. prepared # None /\ prepared.by = "manifest" =>
          LET source == disk[prepared.plan.source]
          IN  /\ source.plan.kind = "set" /\ Evidence(source) = "changed"
              /\ source.step.after.version = source.plan.version
    BY DEF IInv, ReviewInv, Proven
  <2>3. prepared # None /\ prepared.by = "manifest" =>
          prepared.plan.alias = disk[prepared.plan.source].step.after.alias
    BY DEF IInv, ReviewInv, PlanInv, Bound
  <2>4. QED
    BY <2>1, <2>2, <2>3 DEF ManifestMatchesItsSources
<1>2. QED
  BY <1>1, Inductive, PTL

\* Evidence of a change is a diff between two snapshots.
LEMMA ChangeIsCaptured ==
    ASSUME RecordInv, NEW id \in 1..Len(disk), Evidence(disk[id]) = "changed"
    PROVE  disk[id].step.before # None /\ disk[id].step.after # None
<1>1. Op!ValidStep(disk[id].step)
  BY OneOperation
<1>2. Op!Changed(disk[id].step)
  BY DEF Evidence
<1>3. QED
  BY <1>1, <1>2 DEF Op!Changed, Op!ValidStep, Op!Captured

\* What revalidateDefaultCheckpoint calls current, PrepareRestore accepts.
THEOREM CurrentCanBeRestored == Spec => []CurrentIsRestorable
<1>1. IInv => CurrentIsRestorable
  <2> SUFFICES ASSUME IInv, NEW id \in 1..Len(disk),
                      disk[id].plan.kind = "set", Scans(disk[id]),
                      Checkpoint(disk[id]) = "current",
                      disk[id].step.before.alias # disk[id].step.after.alias,
                      disk[id].step.before.version \in Installed
               PROVE  CanRestore(id)
    BY DEF CurrentIsRestorable
  <2>1. Evidence(disk[id]) = "changed" /\ Matches(disk[id])
    <3>1. Evidence(disk[id]) \in {"changed", "uncertain", "none"}
      BY DEF Evidence
    <3>2. Evidence(disk[id]) # "none" /\ Evidence(disk[id]) # "uncertain"
      BY DEF Checkpoint
    <3>3. QED
      BY <3>1, <3>2 DEF Checkpoint
  <2>2. disk[id].step.before # None /\ disk[id].step.after # None
    BY <2>1, ChangeIsCaptured DEF IInv
  <2>3. InspectsDefault
    BY <2>1 DEF Scans, Captures
  <2>4. Snapshot(disk[id].plan).alias = alias
        /\ Snapshot(disk[id].plan).version = Resolved
    BY DEF Snapshot
  <2>5. UnchangedSince(disk[id])
    BY <2>1, <2>4 DEF Matches, UnchangedSince
  <2>6. QED
    BY <2>2, <2>3, <2>5 DEF CanRestore, Recoverable
<1>2. QED
  BY <1>1, Inductive, PTL

\* Without faults a later operation never takes away the way back from a
\* default that defaultversion has set.
THEOREM WayBackStays == Spec => []ChangeCanBeUndone
<1>1. IInv => ChangeCanBeUndone
  <2> SUFFICES ASSUME IInv, faults = 0, NEW id \in 1..Len(disk),
                      disk[id].plan.kind = "set", Evidence(disk[id]) = "changed",
                      disk[id].step.before.alias # disk[id].step.after.alias,
                      alias = disk[id].step.after.alias
               PROVE  CanRestore(id)
    BY DEF ChangeCanBeUndone
  <2>1. disk[id].step.before # None /\ disk[id].step.after # None
    BY ChangeIsCaptured DEF IInv
  <2>2. /\ disk[id].plan.version \in Installed
        /\ disk[id].step.before.version \in Installed
        /\ disk[id].step.after.alias = disk[id].plan.version
        /\ disk[id].step.after.version = disk[id].plan.version
    BY <2>1 DEF IInv, UndoInv, Undoable
  <2>3. alias \in Present /\ Resolved = alias /\ alias \in Versions
    BY <2>2, Scanned DEF IInv, ScanIsSound
  <2>4. InspectsDefault
    BY <2>3 DEF InspectsDefault, Inspects, Missing, Versions
  <2>5. UnchangedSince(disk[id])
    BY <2>2, <2>3 DEF UnchangedSince
  <2>6. QED
    BY <2>1, <2>2, <2>4, <2>5 DEF CanRestore, Recoverable
<1>2. QED
  BY <1>1, Inductive, PTL
=============================================================================
