-------------------------- MODULE Executor_proofs --------------------------
(***************************************************************************)
(* The safety of Executor for every Plan length, every dependency relation *)
(* and every set of facts.  The inductive invariant relates the record in  *)
(* memory, its lagging copy on disk and the set of launched processes at   *)
(* each statement of Execute.  The last part shows that Executor           *)
(* implements OperationHistory.                                            *)
(***************************************************************************)
EXTENDS MC_Executor, SequenceTheorems, TLAPS

-----------------------------------------------------------------------------
(***************************************************************************)
(* Lemmas about the rewrites of an Operation Record: each keeps the record *)
(* well typed, and a valid record valid when the transition it adds is one *)
(* validTransition allows.                                                 *)
(***************************************************************************)

\* Extending a valid history by an allowed transition keeps it valid.
LEMMA HistoryExtends ==
    ASSUME NEW h \in Seq(States), NEW s \in States, NEW t \in States,
           ValidHistory(h, s), ValidTransition(s, t)
    PROVE  /\ Append(h, t) \in Seq(States)
           /\ ValidHistory(Append(h, t), t)
<1> DEFINE g == Append(h, t)
<1>1. /\ g \in Seq(States) /\ Len(h) \in Nat /\ Len(g) = Len(h) + 1
      /\ g[Len(g)] = t /\ \A k \in 1..Len(h) : g[k] = h[k]
  BY AppendProperties
<1>2. Len(h) >= 1
  BY EmptySeq, <1>1 DEF ValidHistory
<1>3. g # <<>> /\ g[1] = "pending"
  BY <1>1, <1>2 DEF ValidHistory
<1>4. ASSUME NEW k \in 1..(Len(g) - 1)
      PROVE  ValidTransition(g[k], g[k + 1])
  <2>1. CASE k = Len(h)
    BY <2>1, <1>1, <1>2 DEF ValidHistory
  <2>2. CASE k \in 1..(Len(h) - 1)
    <3>1. k \in 1..Len(h) /\ k + 1 \in 1..Len(h)
      BY <2>2, <1>1
    <3>2. ValidTransition(h[k], h[k + 1])
      BY <2>2 DEF ValidHistory
    <3>3. QED
      BY <3>1, <3>2, <1>1
  <2>3. QED
    BY <2>1, <2>2, <1>1, <1>2
<1>5. QED
  BY <1>1, <1>3, <1>4 DEF ValidHistory

\* Taking back a last transition leaves a valid history that ends in a state
\* from which that transition was allowed.
LEMMA HistoryShrinks ==
    ASSUME NEW h \in Seq(States), NEW s \in States,
           ValidHistory(h, s), Len(h) > 1
    PROVE  LET g == SubSeq(h, 1, Len(h) - 1)
           IN  /\ g \in Seq(States)
               /\ ValidHistory(g, h[Len(h) - 1])
               /\ h[Len(h) - 1] \in States
               /\ ValidTransition(h[Len(h) - 1], s)
<1> DEFINE n == Len(h) - 1
           g == SubSeq(h, 1, n)
<1>1. n \in Nat /\ n >= 1 /\ Len(h) \in Nat
  BY LenProperties
<1>2. /\ g \in Seq(States) /\ Len(g) = n
      /\ \A k \in 1..n : g[k] = h[k]
  BY <1>1, SubSeqProperties
<1>3. g # <<>> /\ g[1] = "pending" /\ g[Len(g)] = h[n]
  <2> HIDE DEF n, g
  <2>1. g # <<>>
    BY <1>1, <1>2, EmptySeq
  <2>2. g[1] = h[1] /\ g[Len(g)] = h[n]
    BY <1>1, <1>2
  <2>3. QED
    BY <2>1, <2>2 DEF ValidHistory
<1>4. \A k \in 1..(Len(g) - 1) : ValidTransition(g[k], g[k + 1])
  <2> SUFFICES ASSUME NEW k \in 1..(n - 1)
               PROVE  ValidTransition(g[k], g[k + 1])
    BY <1>2
  <2>1. k \in 1..n /\ k + 1 \in 1..n /\ k \in 1..(Len(h) - 1)
    BY <1>1
  <2>2. QED
    BY <2>1, <1>2 DEF ValidHistory
<1>5. h[n] \in States
  BY <1>1, ElementOfSeq
<1>6. ValidTransition(h[n], s)
  BY <1>1 DEF ValidHistory
<1>7. QED
  BY <1>2, <1>3, <1>4, <1>5, <1>6 DEF ValidHistory

-----------------------------------------------------------------------------
\* A record that has not ended stays valid when one step is replaced by a
\* valid one.
LEMMA SetStepKeeps ==
    ASSUME NEW r \in Records, NEW i \in Positions, NEW s \in StepRecords
    PROVE  /\ SetStep(r, i, s) \in Records
           /\ SetStep(r, i, s).state = r.state
           /\ SetStep(r, i, s).finished = r.finished
           /\ SetStep(r, i, s).transitions = r.transitions
           /\ SetStep(r, i, s).steps[i] = s
           /\ \A j \in Positions \ {i} : SetStep(r, i, s).steps[j] = r.steps[j]
           /\ ValidRecord(r) /\ ValidStep(s) /\ r.state # "completed"
                => ValidRecord(SetStep(r, i, s))
<1>1. /\ SetStep(r, i, s) \in Records
      /\ SetStep(r, i, s).state = r.state
      /\ SetStep(r, i, s).finished = r.finished
      /\ SetStep(r, i, s).transitions = r.transitions
      /\ SetStep(r, i, s).steps[i] = s
      /\ \A j \in Positions \ {i} : SetStep(r, i, s).steps[j] = r.steps[j]
  BY DEF SetStep, Records
<1>2. ValidRecord(r) /\ ValidStep(s) /\ r.state # "completed"
        => ValidRecord(SetStep(r, i, s))
  BY <1>1 DEF ValidRecord
<1>3. QED
  BY <1>1, <1>2

\* Moving a record along an allowed transition to a state that is not
\* terminal keeps it valid.
LEMMA MoveToKeeps ==
    ASSUME NEW r \in Records, NEW t \in States
    PROVE  /\ MoveTo(r, t).state = t
           /\ MoveTo(r, t).finished = r.finished
           /\ MoveTo(r, t).transitions = Append(r.transitions, t)
           /\ MoveTo(r, t).steps = r.steps
           /\ MoveTo(r, t) \in Records
           /\ ValidRecord(r) /\ ValidTransition(r.state, t)
                => ValidHistory(MoveTo(r, t).transitions, t)
           /\ ValidRecord(r) /\ ValidTransition(r.state, t)
                /\ t \notin TerminalStates => ValidRecord(MoveTo(r, t))
<1>1. /\ MoveTo(r, t).state = t
      /\ MoveTo(r, t).finished = r.finished
      /\ MoveTo(r, t).transitions = Append(r.transitions, t)
      /\ MoveTo(r, t).steps = r.steps
  BY DEF MoveTo, Records
<1>2. MoveTo(r, t) \in Records
  <2>1. Append(r.transitions, t) \in Seq(States)
    BY AppendProperties DEF Records
  <2>2. QED
    BY <2>1 DEF MoveTo, Records
<1>3. ValidRecord(r) /\ ValidTransition(r.state, t)
        => ValidHistory(MoveTo(r, t).transitions, t)
  BY <1>1, HistoryExtends DEF ValidRecord, Records
<1>4. ValidRecord(r) /\ ValidTransition(r.state, t) /\ t \notin TerminalStates
        => ValidRecord(MoveTo(r, t))
  BY <1>1, <1>3 DEF ValidRecord, TerminalStates
<1>5. QED
  BY <1>1, <1>2, <1>3, <1>4

\* captureAfter: the diff is there exactly when the snapshots differ.
LEMMA WithAfterKeeps ==
    ASSUME NEW s \in StepRecords, ValidStep(s), s.after = NoSnapshot,
           NEW snapshot \in Facts
    PROVE  LET w == WithAfter(s, snapshot)
           IN  /\ w \in StepRecords /\ ValidStep(w)
               /\ w.state = s.state /\ w.invoked = s.invoked
               /\ w.skipped = s.skipped /\ w.error = s.error
               /\ w.precondition = s.precondition
               /\ w.verification = s.verification /\ w.before = s.before
<1> DEFINE w == WithAfter(s, snapshot)
<1>1. snapshot \in Snapshots /\ snapshot # NoSnapshot
  BY SnapshotAssumption DEF Snapshots
<1>2. /\ w \in StepRecords
      /\ w.state = s.state /\ w.invoked = s.invoked
      /\ w.skipped = s.skipped /\ w.error = s.error
      /\ w.precondition = s.precondition
      /\ w.verification = s.verification /\ w.before = s.before
      /\ w.finished = s.finished /\ w.after = snapshot
      /\ w.diff = IF s.before = NoSnapshot THEN s.diff
                  ELSE s.before # snapshot
  BY <1>1 DEF WithAfter, StepRecords
<1> HIDE DEF w
<1>3. ValidStep(w)
  BY <1>1, <1>2 DEF ValidStep, Captured
<1>4. QED
  BY <1>2, <1>3 DEF w

\* finishFailure: the step and the record get the same terminal state.
LEMMA FailedKeeps ==
    ASSUME NEW r \in Records, ValidRecord(r), NEW i \in Positions,
           NEW state \in TerminalStates \ {"completed"}, NEW code \in Codes,
           ValidTransition(r.state, state)
    PROVE  LET f == Failed(r, i, state, code)
           IN  /\ f \in Records /\ ValidRecord(f)
               /\ f.state = state
               /\ \A j \in Positions \ {i} : f.steps[j] = r.steps[j]
               /\ f.steps[i] = FailedStep(r.steps[i], state, code)
<1> DEFINE s == FailedStep(r.steps[i], state, code)
           m == MoveTo(SetStep(r, i, s), state)
           f == [m EXCEPT !.finished = TRUE]
<1>1. Failed(r, i, state, code) = f
  BY DEF Failed
<1>2. r.steps[i] \in StepRecords /\ ValidStep(r.steps[i])
  BY DEF Records, ValidRecord
<1>3. s \in StepRecords
  BY <1>2 DEF FailedStep, StepRecords, States, CheckStates, Undecided
<1>4. ValidStep(s)
  BY <1>2 DEF FailedStep, ValidStep, Captured, StepRecords
<1>5. state \in States /\ r.state # "completed"
  BY DEF States, ValidTransition
<1> HIDE DEF s
<1>6. /\ SetStep(r, i, s) \in Records /\ ValidRecord(SetStep(r, i, s))
      /\ SetStep(r, i, s).state = r.state
      /\ SetStep(r, i, s).steps[i] = s
      /\ \A j \in Positions \ {i} : SetStep(r, i, s).steps[j] = r.steps[j]
  BY <1>3, <1>4, <1>5, SetStepKeeps
<1>7. /\ m \in Records /\ m.state = state
      /\ ValidHistory(m.transitions, state)
      /\ m.steps = SetStep(r, i, s).steps
  BY <1>5, <1>6, MoveToKeeps
<1>8. /\ f \in Records /\ f.state = state /\ f.finished = TRUE
      /\ f.steps = m.steps /\ f.transitions = m.transitions
  <2> HIDE DEF m
  <2>1. QED
    BY <1>7 DEF Records
<1>9. ValidRecord(f)
  <2>1. \A j \in Positions : ValidStep(f.steps[j])
    BY <1>4, <1>6, <1>7, <1>8 DEF ValidRecord
  <2> HIDE DEF f
  <2>2. QED
    BY <2>1, <1>7, <1>8 DEF ValidRecord
<1>10. QED
  BY <1>1, <1>6, <1>7, <1>8, <1>9 DEF s

\* logFailure: whatever the unsaved record was, what Execute returns is a
\* valid failed record.
LEMMA LogFailedKeeps ==
    ASSUME NEW r \in Records, ValidRecord(r), NEW i \in Positions
    PROVE  /\ LogFailed(r, i) \in Records
           /\ ValidRecord(LogFailed(r, i))
           /\ LogFailed(r, i).state = "failed"
           /\ \A j \in Positions \ {i} :
                LogFailed(r, i).steps[j] = r.steps[j]
           /\ LogFailed(r, i).steps[i] =
                [r.steps[i] EXCEPT !.state = "failed", !.finished = TRUE,
                                   !.error = "LOG_WRITE_FAILED"]
<1> DEFINE s == [r.steps[i] EXCEPT !.state = "failed", !.finished = TRUE,
                                   !.error = "LOG_WRITE_FAILED"]
           w == WithoutLostTerminal(r.transitions)
           g == Append(w, "failed")
           f == [state |-> "failed", finished |-> TRUE,
                 steps |-> [r.steps EXCEPT ![i] = s], transitions |-> g]
<1>1. LogFailed(r, i) = f
  BY DEF LogFailed
<1>2. r.steps[i] \in StepRecords /\ ValidStep(r.steps[i])
  BY DEF Records, ValidRecord
<1>3. s \in StepRecords
  BY <1>2 DEF StepRecords, States, TerminalStates, Codes
<1>4. ValidStep(s)
  BY <1>2 DEF ValidStep, Captured, StepRecords
<1>5. g \in Seq(States) /\ ValidHistory(g, "failed")
  <2> DEFINE h == r.transitions
  <2>1. h \in Seq(States) /\ r.state \in States /\ ValidHistory(h, r.state)
        /\ "failed" \in States
    BY DEF Records, ValidRecord, States, TerminalStates
  <2>2. CASE Len(h) > 1 /\ h[Len(h)] \in TerminalStates
    <3>1. /\ w \in Seq(States) /\ ValidHistory(w, h[Len(h) - 1])
          /\ h[Len(h) - 1] \in States
          /\ ValidTransition(h[Len(h) - 1], r.state)
      BY <2>1, <2>2, HistoryShrinks DEF WithoutLostTerminal
    <3>2. ValidTransition(h[Len(h) - 1], "failed")
      BY <3>1 DEF ValidTransition
    <3>3. QED
      BY <2>1, <3>1, <3>2, HistoryExtends
  <2>3. CASE ~(Len(h) > 1 /\ h[Len(h)] \in TerminalStates)
    <3>1. w = h
      BY <2>3 DEF WithoutLostTerminal
    <3>2. Len(h) \in Nat /\ Len(h) # 0
      BY <2>1, LenProperties, EmptySeq DEF ValidHistory
    <3>3. r.state \notin TerminalStates
      <4>1. CASE Len(h) > 1
        BY <4>1, <2>1, <2>3 DEF ValidHistory
      <4>2. CASE Len(h) = 1
        BY <4>2, <2>1 DEF ValidHistory, TerminalStates
      <4>3. Len(h) = 1 \/ Len(h) > 1
        <5> HIDE DEF h
        <5>1. QED
          BY <3>2
      <4>4. QED
        BY <4>1, <4>2, <4>3
    <3>4. ValidTransition(r.state, "failed")
      BY <2>1, <3>3 DEF ValidTransition, States, ActiveStates
    <3>5. QED
      BY <2>1, <3>1, <3>4, HistoryExtends
  <2>4. QED
    BY <2>2, <2>3
<1> HIDE DEF s, g
<1>6. f \in Records
  BY <1>3, <1>5 DEF Records, States, TerminalStates
<1>7. \A j \in Positions : ValidStep(f.steps[j])
  BY <1>4 DEF ValidRecord, Records
<1>8. ValidRecord(f)
  BY <1>5, <1>7 DEF ValidRecord
<1>9. f.steps[i] = s /\ \A j \in Positions \ {i} : f.steps[j] = r.steps[j]
  BY DEF Records
<1>10. QED
  BY <1>1, <1>6, <1>8, <1>9 DEF s

\* RecoverInterrupted: only steps that were active change, and none of them
\* becomes completed.
LEMMA InterruptedKeeps ==
    ASSUME NEW r \in Records
    PROVE  /\ Interrupted(r) \in Records
           /\ Interrupted(r).state = "interrupted"
           /\ \A j \in Positions :
                Interrupted(r).steps[j] = InterruptedStep(r.steps[j])
<1> DEFINE q == [r EXCEPT !.steps =
                   [i \in Positions |-> InterruptedStep(r.steps[i])]]
           m == MoveTo(q, "interrupted")
<1>1. ASSUME NEW i \in Positions
      PROVE  InterruptedStep(r.steps[i]) \in StepRecords
  <2> DEFINE s == r.steps[i]
  <2>1. s \in StepRecords
    BY DEF Records
  <2> HIDE DEF s
  <2>2. InterruptedStep(s) \in StepRecords
    <3>1. CASE s.state \in ActiveStates
      <4>1. Undecided(s.verification) \in CheckStates
        BY <2>1 DEF Undecided, StepRecords, CheckStates
      <4>2. "interrupted" \in States /\ "EXEC_INTERRUPTED" \in Codes
        BY DEF States, TerminalStates, Codes
      <4>3. QED
        BY <2>1, <3>1, <4>1, <4>2 DEF InterruptedStep, StepRecords
    <3>2. CASE s.state \notin ActiveStates
      BY <2>1, <3>2 DEF InterruptedStep
    <3>3. QED
      BY <3>1, <3>2
  <2>3. QED
    BY <2>2 DEF s
<1>2. /\ q \in Records
      /\ \A j \in Positions : q.steps[j] = InterruptedStep(r.steps[j])
  BY <1>1 DEF Records
<1>3. /\ m \in Records /\ m.state = "interrupted" /\ m.steps = q.steps
  BY <1>2, MoveToKeeps DEF States, TerminalStates
<1>4. Interrupted(r) = [m EXCEPT !.finished = TRUE]
  BY DEF Interrupted
<1> HIDE DEF m
<1>5. QED
  BY <1>2, <1>3, <1>4 DEF Records

\* An interrupted step keeps everything a later reader relies on.
LEMMA InterruptedStepKeeps ==
    ASSUME NEW s \in StepRecords
    PROVE  LET t == InterruptedStep(s)
           IN  /\ t.invoked = s.invoked /\ t.skipped = s.skipped
               /\ t.precondition = s.precondition /\ t.before = s.before
               /\ t.after = s.after /\ t.diff = s.diff
               /\ t.state = IF s.state \in ActiveStates THEN "interrupted"
                            ELSE s.state
               /\ t.error = IF s.state \in ActiveStates
                            THEN "EXEC_INTERRUPTED" ELSE s.error
<1>1. CASE s.state \in ActiveStates
  BY <1>1 DEF InterruptedStep, StepRecords
<1>2. CASE s.state \notin ActiveStates
  BY <1>2 DEF InterruptedStep
<1>3. QED
  BY <1>1, <1>2

-----------------------------------------------------------------------------

\* Statements at which the step is running in memory, at which its
\* precondition has passed, at which its before snapshot is on disk, and at
\* which its process cannot have been started yet.
Doing == {"preflight", "capture", "satisfied", "run", "process",
          "capture_failed", "capture_after"}
Checked == {"capture", "satisfied", "run", "process", "capture_failed",
            "capture_after", "verify", "verified"}
Verifying == {"verify", "verified"}
Photographed == Checked \ {"capture"}
BeforeLaunch == {"next", "preflight", "capture", "satisfied", "run"}

Unfinished == {"pending"} \cup ActiveStates

\* A step as a launched process must find it, in memory and on disk.
Ahead(s, i) ==
    /\ s.invoked /\ ~s.skipped
    /\ s.state # "pending"
    /\ s.precondition \in {"passed", "failed"}
    /\ i \in Captures => s.before # NoSnapshot

\* The record in memory while Execute runs.
MemoryInv ==
    pc \in Working =>
      /\ memory \in Records /\ ValidRecord(memory)
      /\ memory.state \in Unfinished
      /\ \A j \in Positions : j < at => memory.steps[j].state = "completed"
      /\ \A j \in Positions : j > at => memory.steps[j] = NewStep
      /\ pc = "next" => Step = NewStep /\ memory.state # "verifying"
      /\ pc \in Doing =>
           /\ memory.state = "running" /\ Step.state = "running"
           /\ Step.after = NoSnapshot
      /\ pc \in Verifying =>
           memory.state = "verifying" /\ Step.state = "verifying"
      /\ pc # "next" => Step.invoked /\ Step.error = "none"
      /\ pc \in Checked => Step.precondition = "passed"
      /\ pc \in Photographed /\ at \in Captures => Step.before # NoSnapshot
      /\ pc \in BeforeLaunch => ~Step.skipped

\* The record on disk: valid and a completed prefix at all times; while
\* Execute runs it lags behind memory in the current step only.
DiskInv ==
    /\ disk # NoRecord => ValidRecord(disk) /\ CompletedPrefix(disk)
    /\ pc = "idle" => disk = NoRecord /\ memory = NoRecord
                      /\ at = 1 /\ launched = {}
    /\ pc \in Working =>
         /\ disk \in Records
         /\ disk.state \in Unfinished
         /\ \A j \in Positions \ {at} : disk.steps[j] = memory.steps[j]
         /\ pc = "next" => disk = memory
         /\ pc # "next" => /\ disk.steps[at].invoked
                           /\ disk.steps[at].state \in ActiveStates
         /\ pc \in Photographed =>
              /\ disk.steps[at].precondition = "passed"
              /\ at \in Captures => disk.steps[at].before # NoSnapshot
         /\ pc \in BeforeLaunch => ~disk.steps[at].skipped

\* Where the launched processes are, and what is known of their steps.
LaunchInv ==
    /\ \A i \in launched : disk # NoRecord /\ Ahead(disk.steps[i], i)
    /\ DependenciesFirst
    /\ pc \in Working =>
         /\ \A i \in launched : i <= at /\ Ahead(memory.steps[i], i)
         /\ pc \in BeforeLaunch => at \notin launched

\* What Execute has returned, or has not yet.
ReturnInv ==
    /\ ~refused
    /\ pc \in Working \cup {"idle"} => error = "none"
    /\ pc = "capture_failed" =>
         failure \in Codes \ {"none", "LOG_WRITE_FAILED"}
    /\ pc = "returned" /\ memory # NoRecord =>
         ValidRecord(memory) /\ memory.state \in TerminalStates
    /\ ReturnAgreesWithDisk

\* What a record that is not yet settled still owes: a step whose process was
\* started is completed, still active, or already recovery evidence.
AccountedOrActive(r) ==
    \A i \in launched :
        \/ r.steps[i].state \in {"completed"} \cup ActiveStates
        \/ RecoveryEvidence(r.steps[i])

EvidenceInv ==
    /\ Settled(disk) =>
         \A i \in Positions : disk.steps[i].state \notin ActiveStates
    /\ ~InheritedPipes =>
         /\ pc = "capture_failed" /\ at \in launched =>
              failure \in WriteMayHaveStarted
         /\ pc = "returned" /\ memory # NoRecord => Accounted(memory)
         /\ disk # NoRecord => AccountedOrActive(disk)

IInv == TypeOK /\ MemoryInv /\ DiskInv /\ LaunchInv /\ ReturnInv /\ EvidenceInv

-----------------------------------------------------------------------------
(* Steps of a record.                                                      *)

\* Every step of a record, its position included, is well typed and valid.
LEMMA CurrentStep ==
    ASSUME TypeOK, MemoryInv, pc \in Working
    PROVE  /\ memory \in Records /\ ValidRecord(memory)
           /\ Step \in StepRecords /\ ValidStep(Step)
           /\ memory.state \in States \ TerminalStates
           /\ at \in Positions /\ env[at] \in Facts
           /\ env[at] \in Snapshots /\ env[at] # NoSnapshot
<1>1. memory \in Records /\ ValidRecord(memory) /\ at \in Positions
      /\ memory.state \in Unfinished
  BY DEF TypeOK, MemoryInv
<1>2. Step \in StepRecords /\ ValidStep(Step)
  BY <1>1 DEF Step, Records, ValidRecord
<1>3. env[at] \in Facts /\ env[at] \in Snapshots /\ env[at] # NoSnapshot
  BY <1>1, SnapshotAssumption DEF TypeOK, Snapshots
<1>4. memory.state \in States \ TerminalStates
  BY <1>1 DEF Unfinished, States, ActiveStates, TerminalStates
<1>5. QED
  BY <1>1, <1>2, <1>3, <1>4

\* Replacing the current step by a valid one.
LEMMA WithStepKeeps ==
    ASSUME TypeOK, MemoryInv, pc \in Working,
           NEW s \in StepRecords, ValidStep(s)
    PROVE  /\ WithStep(s) \in Records /\ ValidRecord(WithStep(s))
           /\ WithStep(s).state = memory.state
           /\ WithStep(s).steps[at] = s
           /\ \A j \in Positions \ {at} :
                WithStep(s).steps[j] = memory.steps[j]
<1>1. /\ memory \in Records /\ ValidRecord(memory) /\ at \in Positions
      /\ memory.state # "completed"
  BY CurrentStep DEF TerminalStates
<1>2. QED
  BY <1>1, SetStepKeeps DEF WithStep

-----------------------------------------------------------------------------
(* Evidence.                                                               *)

\* A started step that ends in failure is evidence whatever was captured,
\* if its error code says that the process may have started.
LEMMA FailureIsEvidence ==
    ASSUME NEW s \in StepRecords, NEW i, Ahead(s, i),
           NEW state \in TerminalStates, NEW code \in WriteMayHaveStarted
    PROVE  /\ RecoveryEvidence(FailedStep(s, state, code))
           /\ RecoveryEvidence([s EXCEPT !.state = "failed", !.finished = TRUE,
                                         !.error = "LOG_WRITE_FAILED"])
<1>1. LET f == FailedStep(s, state, code)
      IN  /\ f.state = state /\ f.error = code /\ f.invoked = s.invoked
          /\ f.skipped = s.skipped /\ f.diff = s.diff
  BY DEF FailedStep, StepRecords
<1>2. state # "pending"
  BY DEF TerminalStates
<1>3. RecoveryEvidence(FailedStep(s, state, code))
  BY <1>1, <1>2 DEF RecoveryEvidence, Changed, Uncertain, Ahead
<1>4. LET f == [s EXCEPT !.state = "failed", !.finished = TRUE,
                         !.error = "LOG_WRITE_FAILED"]
      IN  /\ f.state = "failed" /\ f.error = "LOG_WRITE_FAILED"
          /\ f.invoked = s.invoked /\ f.skipped = s.skipped
          /\ f.diff = s.diff
  BY DEF StepRecords
<1>5. QED
  BY <1>3, <1>4
  DEF RecoveryEvidence, Changed, Uncertain, Ahead, WriteMayHaveStarted

\* While Execute runs, the evidence needs no invariant of its own.
LEMMA WorkingEvidence ==
    TypeOK /\ MemoryInv /\ DiskInv /\ LaunchInv /\ pc \in Working =>
        ~Settled(disk) /\ disk # NoRecord /\ AccountedOrActive(disk)
<1> SUFFICES ASSUME TypeOK, MemoryInv, DiskInv, LaunchInv, pc \in Working
             PROVE  ~Settled(disk) /\ disk # NoRecord /\ AccountedOrActive(disk)
  OBVIOUS
<1>1. ~Settled(disk) /\ disk # NoRecord
  BY NoRecordAssumption
  DEF DiskInv, Settled, Unfinished, ActiveStates, TerminalStates
<1>2. ASSUME NEW i \in launched
      PROVE  disk.steps[i].state \in {"completed"} \cup ActiveStates
  <2>1. i \in Positions /\ at \in Positions /\ i <= at
    BY DEF TypeOK, LaunchInv
  <2>2. CASE i = at
    BY <2>2 DEF DiskInv, LaunchInv, BeforeLaunch
  <2>3. CASE i # at
    BY <2>1, <2>3 DEF DiskInv, MemoryInv, Positions
  <2>4. QED
    BY <2>2, <2>3
<1>3. QED
  BY <1>1, <1>2 DEF AccountedOrActive

-----------------------------------------------------------------------------
(* The ways in which a statement of Execute ends.                          *)

\* Execute returns because its record could not be saved.
LEMMA ReturnsLogFailure ==
    ASSUME IInv, pc \in Working, NEW r \in Records, ValidRecord(r),
           \A j \in Positions \ {at} : r.steps[j] = memory.steps[j],
           at \in launched => Ahead(r.steps[at], at),
           LogFailure(r), failure' = failure, UnchangedWorld
    PROVE  IInv'
<1> USE DEF LogFailure, UnchangedWorld
<1>1. /\ LogFailed(r, at) \in Records /\ ValidRecord(LogFailed(r, at))
      /\ LogFailed(r, at).state = "failed"
  BY LogFailedKeeps DEF IInv, TypeOK
<1>2. TypeOK'
  BY <1>1 DEF IInv, TypeOK, Labels, Codes, ReturnInv
<1>3. MemoryInv'
  BY DEF MemoryInv, Working
<1>4. DiskInv'
  BY DEF IInv, DiskInv, Working, CompletedPrefix
<1>5. LaunchInv'
  BY DEF IInv, LaunchInv, DependenciesFirst, Working
<1>6. ReturnInv'
  <2>1. disk # NoRecord => disk.state # "completed"
    BY DEF IInv, DiskInv, Unfinished, ActiveStates
  <2>2. ReturnAgreesWithDisk'
    BY <2>1 DEF ReturnAgreesWithDisk
  <2>3. QED
    BY <1>1, <2>2 DEF IInv, ReturnInv, Working, TerminalStates
<1>7. ASSUME NEW i \in launched
      PROVE  \/ memory'.steps[i].state = "completed"
             \/ RecoveryEvidence(memory'.steps[i])
  <2>1. i \in Positions /\ at \in Positions /\ i <= at
    BY DEF IInv, TypeOK, LaunchInv
  <2>2. CASE i = at
    <3>1. r.steps[at] \in StepRecords /\ Ahead(r.steps[at], at)
      BY <2>1, <2>2 DEF Records
    <3>2. memory'.steps[at] =
            [r.steps[at] EXCEPT !.state = "failed", !.finished = TRUE,
                                !.error = "LOG_WRITE_FAILED"]
      BY <2>1, LogFailedKeeps
    <3>3. "EXEC_TIMEOUT" \in WriteMayHaveStarted /\ "failed" \in TerminalStates
      BY DEF WriteMayHaveStarted, TerminalStates
    <3>4. QED
      BY <2>2, <3>1, <3>2, <3>3, FailureIsEvidence
  <2>3. CASE i # at
    <3>1. memory'.steps[i] = r.steps[i]
      <4>1. \A j \in Positions \ {at} : LogFailed(r, at).steps[j] = r.steps[j]
        BY <2>1, LogFailedKeeps, Zenon
      <4>2. QED
        BY <2>1, <2>3, <4>1
    <3>2. r.steps[i].state = "completed"
      BY <2>1, <2>3 DEF IInv, MemoryInv, Positions
    <3>3. QED
      BY <3>1, <3>2
  <2>4. QED
    BY <2>2, <2>3
<1>8. EvidenceInv'
  <2>1. ~Settled(disk) /\ disk # NoRecord /\ AccountedOrActive(disk)
    BY WorkingEvidence DEF IInv
  <2>2. QED
    BY <1>7, <2>1 DEF EvidenceInv, Accounted, AccountedOrActive, Settled
<1>9. QED
  BY <1>2, <1>3, <1>4, <1>5, <1>6, <1>8 DEF IInv

\* Execute returns because the current step failed.
LEMMA ReturnsFailure ==
    ASSUME IInv, pc \in Working, NEW r \in Records, ValidRecord(r),
           NEW state \in TerminalStates \ {"completed"},
           NEW code \in Codes \ {"none", "LOG_WRITE_FAILED"},
           ValidTransition(r.state, state),
           \A j \in Positions \ {at} : r.steps[j] = memory.steps[j],
           at \in launched => Ahead(r.steps[at], at),
           at \in launched /\ ~InheritedPipes => code \in WriteMayHaveStarted,
           FinishFailure(r, state, code), UnchangedWorld
    PROVE  IInv'
<1> DEFINE f == Failed(r, at, state, code)
<1>1. at \in Positions /\ TypeOK /\ MemoryInv
  BY DEF IInv, TypeOK
<1>2. /\ f \in Records /\ ValidRecord(f) /\ f.state = state
      /\ \A j \in Positions \ {at} : f.steps[j] = r.steps[j]
      /\ f.steps[at] = FailedStep(r.steps[at], state, code)
  BY <1>1, FailedKeeps
<1>3. /\ Save(f) /\ error' = code /\ pc' = "returned" /\ UNCHANGED <<at, refused>>
      \/ LogFailure(f)
  BY DEF FinishFailure
<1>4. failure' = failure
  BY DEF FinishFailure
<1>5. CASE LogFailure(f)
  <2>1. at \in launched => Ahead(f.steps[at], at)
    <3>1. r.steps[at] \in StepRecords
      BY <1>1 DEF Records
    <3>2. QED
      BY <1>2, <3>1 DEF FailedStep, Ahead, StepRecords, TerminalStates
  <2> HIDE DEF f
  <2>2. QED
    BY <1>2, <1>4, <1>5, <2>1, ReturnsLogFailure
<1>6. CASE /\ Save(f) /\ error' = code /\ pc' = "returned"
           /\ UNCHANGED <<at, refused>>
  <2> HIDE DEF f
  <2>1. disk' = f /\ memory' = f /\ f # NoRecord
    BY <1>2, <1>6, NoRecordAssumption DEF Save
  <2>2. \A j \in Positions : j < at => f.steps[j].state = "completed"
    BY <1>1, <1>2 DEF MemoryInv, Positions
  <2>3. \A j \in Positions : j > at => f.steps[j].state = "pending"
    BY <1>1, <1>2 DEF MemoryInv, Positions, NewStep
  <2>4. TypeOK'
    BY <1>2, <1>4, <1>6, <2>1 DEF IInv, TypeOK, Labels, UnchangedWorld
  <2>5. MemoryInv'
    BY <1>6 DEF MemoryInv, Working
  <2>6. CompletedPrefix(f)
    BY <1>1, <2>2, <2>3 DEF CompletedPrefix, Positions
  <2>7. DiskInv'
    BY <1>2, <1>6, <2>1, <2>6 DEF DiskInv, Working
  <2>8. ASSUME NEW i \in launched
        PROVE  i \in Positions /\ i <= at /\ Ahead(f.steps[i], i)
    <3>1. i \in Positions /\ i <= at /\ Ahead(memory.steps[i], i)
      BY DEF IInv, LaunchInv, TypeOK
    <3>2. CASE i # at
      BY <1>2, <3>1, <3>2
    <3>3. CASE i = at
      <4>1. Ahead(r.steps[at], at) /\ r.steps[at] \in StepRecords
        BY <1>1, <3>3 DEF Records
      <4>2. Ahead(f.steps[at], at)
        BY <1>2, <4>1 DEF FailedStep, Ahead, StepRecords, TerminalStates
      <4>3. QED
        BY <3>1, <3>3, <4>2
    <3>4. QED
      BY <3>2, <3>3
  <2>9. DependenciesFirst'
    <3> SUFFICES ASSUME NEW i \in launched, NEW d \in Dependencies[i]
                 PROVE  f.steps[d].state = "completed"
      BY <2>1 DEF DependenciesFirst, UnchangedWorld
    <3>1. i \in Positions /\ d \in Positions /\ d < i /\ i <= at
      BY <2>8, DependencyAssumption
    <3>2. QED
      BY <1>1, <2>2, <3>1 DEF Positions
  <2>10. LaunchInv'
    BY <1>6, <2>1, <2>8, <2>9 DEF LaunchInv, Working, UnchangedWorld
  <2>11. ReturnInv'
    BY <1>2, <1>6, <2>1 DEF IInv, ReturnInv, ReturnAgreesWithDisk, Working
  <2>12. EvidenceInv'
    <3>1. \A i \in Positions : f.steps[i].state \notin ActiveStates
      <4>1. r.steps[at] \in StepRecords
        BY <1>1 DEF Records
      <4>2. f.steps[at].state = state
        BY <1>2, <4>1 DEF FailedStep, StepRecords
      <4>3. QED
        BY <1>1, <2>2, <2>3, <4>2 DEF Positions, ActiveStates, TerminalStates
    <3>2. ASSUME NEW i \in launched, ~InheritedPipes
          PROVE  f.steps[i].state = "completed" \/ RecoveryEvidence(f.steps[i])
      <4>1. CASE i = at
        <5>1. r.steps[at] \in StepRecords /\ Ahead(r.steps[at], at)
              /\ code \in WriteMayHaveStarted
          BY <1>1, <3>2, <4>1 DEF Records
        <5>2. QED
          BY <1>2, <4>1, <5>1, FailureIsEvidence
      <4>2. CASE i # at
        BY <1>1, <2>2, <2>8, <4>2 DEF Positions
      <4>3. QED
        BY <4>1, <4>2
    <3>3. launched' = launched
      BY DEF UnchangedWorld
    <3>4. QED
      BY <1>6, <2>1, <3>1, <3>2, <3>3
      DEF EvidenceInv, Accounted, AccountedOrActive
  <2>13. QED
    BY <2>4, <2>5, <2>7, <2>10, <2>11, <2>12 DEF IInv
<1>7. QED
  BY <1>3, <1>5, <1>6

\* Execute goes on after a save: memory and disk hold the same record.
LEMMA GoesOnSaved ==
    ASSUME IInv, pc \in Working \cup {"idle"},
           NEW r \in Records, ValidRecord(r),
           disk' = r, memory' = r, pc' \in Working \ {"capture_failed"},
           at' \in Positions, at' >= at,
           UNCHANGED <<failure, error, refused>>, UnchangedWorld,
           MemoryInv',
           \A i \in launched : i <= at' /\ Ahead(r.steps[i], i),
           pc' \in BeforeLaunch => at' \notin launched
    PROVE  IInv'
<1> USE DEF UnchangedWorld
<1>1. TypeOK'
  BY DEF IInv, TypeOK, Working
<1>2. r # NoRecord /\ pc' # "idle" /\ pc' # "returned"
  BY NoRecordAssumption DEF Working
<1>3. /\ r.state \in Unfinished
      /\ \A j \in Positions : j < at' => r.steps[j].state = "completed"
      /\ \A j \in Positions : j > at' => r.steps[j] = NewStep
      /\ pc' = "next" => r.steps[at'] = NewStep
      /\ pc' # "next" => /\ r.steps[at'].invoked
                         /\ r.steps[at'].state \in ActiveStates
      /\ pc' \in Photographed =>
           /\ r.steps[at'].precondition = "passed"
           /\ at' \in Captures => r.steps[at'].before # NoSnapshot
      /\ pc' \in BeforeLaunch => ~r.steps[at'].skipped
  BY DEF MemoryInv, Step, Doing, Verifying, Checked, Photographed, ActiveStates, Working,
         Labels
<1>4. CompletedPrefix(r)
  BY <1>3 DEF CompletedPrefix, Positions, NewStep
<1>5. DiskInv'
  BY <1>2, <1>3, <1>4 DEF DiskInv
<1>6. DependenciesFirst'
  <2> SUFFICES ASSUME NEW i \in launched, NEW d \in Dependencies[i]
               PROVE  r.steps[d].state = "completed"
    BY <1>2 DEF DependenciesFirst
  <2>1. i \in Positions /\ d \in Positions /\ d < i /\ i <= at'
    BY DependencyAssumption DEF IInv, TypeOK
  <2>2. QED
    BY <1>3, <2>1 DEF Positions
<1>7. LaunchInv'
  BY <1>2, <1>6 DEF LaunchInv
<1>8. ReturnInv'
  BY <1>2 DEF IInv, ReturnInv, ReturnAgreesWithDisk
<1>9. (TypeOK /\ MemoryInv /\ DiskInv /\ LaunchInv /\ pc \in Working =>
         ~Settled(disk) /\ disk # NoRecord /\ AccountedOrActive(disk))'
  BY WorkingEvidence, PTL
<1>10. EvidenceInv'
  BY <1>1, <1>2, <1>5, <1>7, <1>9 DEF EvidenceInv
<1>11. QED
  BY <1>1, <1>5, <1>7, <1>8, <1>10 DEF IInv

\* Execute goes on without a save, at most with a changed current step.
LEMMA GoesOnUnsaved ==
    ASSUME IInv, pc \in Working \ {"next"}, pc' \in Working \ {"next"},
           UNCHANGED <<at, disk, error, refused, env, cancelled, drift>>,
           disturbed' \subseteq Positions,
           memory' \in Records, MemoryInv',
           \A j \in Positions \ {at} : memory'.steps[j] = memory.steps[j],
           failure' \in Codes,
           pc' = "capture_failed" =>
             /\ failure' \notin {"none", "LOG_WRITE_FAILED"}
             /\ at \in launched' /\ ~InheritedPipes =>
                  failure' \in WriteMayHaveStarted,
           launched' \in {launched, launched \cup {at}},
           pc' \in Photographed => pc \in Photographed,
           pc' \in BeforeLaunch => pc \in BeforeLaunch /\ launched' = launched,
           at \in launched' =>
             Ahead(disk.steps[at], at) /\ Ahead(memory'.steps[at], at)
    PROVE  IInv'
<1>1. TypeOK'
  BY DEF IInv, TypeOK, Working
<1>2. /\ disk \in Records /\ disk # NoRecord /\ at \in Positions
      /\ pc # "idle" /\ pc' # "idle" /\ pc' # "returned"
      /\ \A j \in Positions : j < at => disk.steps[j].state = "completed"
  BY NoRecordAssumption
  DEF IInv, DiskInv, MemoryInv, TypeOK, Working, Positions
<1>3. DiskInv'
  BY <1>2 DEF IInv, DiskInv, CompletedPrefix
<1>4. DependenciesFirst'
  <2> SUFFICES ASSUME NEW i \in launched', NEW d \in Dependencies[i]
               PROVE  disk.steps[d].state = "completed"
    BY <1>2 DEF DependenciesFirst
  <2>1. CASE i \in launched
    BY <2>1 DEF IInv, LaunchInv, DependenciesFirst
  <2>2. CASE i = at
    BY <1>2, <2>2, DependencyAssumption
  <2>3. QED
    BY <2>1, <2>2
<1>5. LaunchInv'
  <2>1. ASSUME NEW i \in launched'
        PROVE  /\ disk # NoRecord /\ Ahead(disk.steps[i], i)
               /\ i <= at /\ Ahead(memory'.steps[i], i)
    <3>1. CASE i = at
      BY <1>2, <3>1 DEF Positions
    <3>2. CASE i # at
      BY <1>2, <3>2 DEF IInv, LaunchInv, TypeOK
    <3>3. QED
      BY <3>1, <3>2
  <2>2. pc' \in BeforeLaunch => at \notin launched'
    BY DEF IInv, LaunchInv, Working
  <2>3. QED
    BY <1>4, <2>1, <2>2 DEF LaunchInv
<1>6. ReturnInv'
  BY <1>2 DEF IInv, ReturnInv, ReturnAgreesWithDisk
<1>7. (TypeOK /\ MemoryInv /\ DiskInv /\ LaunchInv /\ pc \in Working =>
         ~Settled(disk) /\ disk # NoRecord /\ AccountedOrActive(disk))'
  BY WorkingEvidence, PTL
<1>8. EvidenceInv'
  BY <1>1, <1>2, <1>3, <1>5, <1>7 DEF EvidenceInv
<1>9. QED
  BY <1>1, <1>3, <1>5, <1>6, <1>8 DEF IInv

\* A failed check of the preparation, before any process can have started.
LEMMA PreparationFails ==
    ASSUME IInv, pc \in {"preflight", "capture", "satisfied"},
           PreconditionFails, UnchangedWorld
    PROVE  IInv'
<1> DEFINE s == [Step EXCEPT !.precondition = "failed"]
<1>1. TypeOK /\ MemoryInv /\ pc \in Working /\ memory.state = "running"
  BY DEF IInv, MemoryInv, Working, Labels, Doing
<1>2. s \in StepRecords /\ ValidStep(s)
  <2>1. Step \in StepRecords /\ ValidStep(Step)
    BY <1>1, CurrentStep
  <2>2. QED
    BY <2>1 DEF StepRecords, CheckStates, ValidStep, Captured
<1>3. at \notin launched
  BY <1>1 DEF IInv, LaunchInv, BeforeLaunch
<1> HIDE DEF s
<1>4. /\ WithStep(s) \in Records /\ ValidRecord(WithStep(s))
      /\ WithStep(s).state = "running"
      /\ \A j \in Positions \ {at} : WithStep(s).steps[j] = memory.steps[j]
  BY <1>1, <1>2, WithStepKeeps
<1>5. /\ "failed" \in TerminalStates \ {"completed"}
      /\ "PRECONDITION_FAILED" \in Codes \ {"none", "LOG_WRITE_FAILED"}
      /\ ValidTransition("running", "failed")
  BY DEF TerminalStates, Codes, ValidTransition
<1>6. FinishFailure(WithStep(s), "failed", "PRECONDITION_FAILED")
  BY DEF PreconditionFails, s
<1>7. QED
  BY <1>1, <1>3, <1>4, <1>5, <1>6, ReturnsFailure

-----------------------------------------------------------------------------
(* One lemma per statement of Execute.                                     *)

LEMMA AcceptKeeps == ASSUME IInv, Accept PROVE IInv'
<1> USE DEF Accept, UnchangedWorld
<1>1. NewStep \in StepRecords /\ ValidStep(NewStep)
  BY DEF NewStep, StepRecords, States, CheckStates, Codes, Snapshots,
         ValidStep, Captured, TerminalStates
<1>2. /\ NewRecord \in Records /\ NewRecord.state = "pending"
      /\ NewRecord.transitions = <<"pending">>
      /\ \A i \in Positions : NewRecord.steps[i] = NewStep
  <2>1. <<"pending">> \in Seq(States) /\ "pending" \in States
    BY DEF States
  <2>2. QED
    BY <1>1, <2>1 DEF NewRecord, Records
<1>3. ValidRecord(NewRecord)
  <2>1. ValidHistory(<<"pending">>, "pending")
    BY DEF ValidHistory
  <2>2. QED
    BY <1>1, <1>2, <2>1 DEF ValidRecord, TerminalStates
<1>4. disk = NoRecord /\ memory = NoRecord /\ launched = {} /\ pc = "idle"
      /\ at = 1 /\ error = "none" /\ ~refused
  BY DEF IInv, DiskInv, ReturnInv
<1>5. CASE /\ Save(NewRecord)
           /\ pc' = "next" /\ UNCHANGED <<error, refused>>
  <2>1. 1 \in Positions /\ \A j \in Positions : ~(j < 1)
    BY StepCountAssumption DEF Positions
  <2> HIDE DEF NewRecord
  <2>2. disk' = NewRecord /\ memory' = NewRecord /\ at' = 1
    BY <1>4, <1>5 DEF Save
  <2>3. MemoryInv'
    <3>1. ~NewStep.skipped
      BY DEF NewStep
    <3>2. QED
      BY <1>2, <1>3, <1>5, <2>1, <2>2, <3>1
      DEF MemoryInv, Step, Doing, Verifying, Checked, Photographed, BeforeLaunch,
          Unfinished
  <2>4. QED
    BY <1>2, <1>3, <1>4, <1>5, <2>1, <2>2, <2>3, GoesOnSaved
    DEF Working, Labels
<1>6. CASE /\ pc' = "returned" /\ error' = "LOG_WRITE_FAILED"
           /\ refused' = ~ValidRecord(NewRecord)
           /\ UNCHANGED <<memory, disk>>
  <2>1. TypeOK'
    BY <1>3, <1>6 DEF IInv, TypeOK, Labels, Codes
  <2>2. EvidenceInv'
    BY <1>4, <1>6 DEF EvidenceInv, Settled
  <2>3. QED
    BY <1>3, <1>4, <1>6, <2>1, <2>2
    DEF IInv, MemoryInv, DiskInv, LaunchInv, DependenciesFirst, ReturnInv,
        ReturnAgreesWithDisk, Working
<1>7. QED
  BY <1>5, <1>6

LEMMA StopBeforeStepKeeps == ASSUME IInv, StopBeforeStep PROVE IInv'
<1> USE DEF StopBeforeStep
<1>1. /\ pc \in Working /\ at \notin launched
      /\ memory \in Records /\ ValidRecord(memory)
      /\ memory.state \in {"pending", "running"}
  BY DEF IInv, MemoryInv, LaunchInv, BeforeLaunch, Working, Labels,
         Unfinished, ActiveStates
<1>2. /\ "cancelled" \in TerminalStates \ {"completed"}
      /\ "EXEC_CANCELLED" \in Codes \ {"none", "LOG_WRITE_FAILED"}
      /\ ValidTransition(memory.state, "cancelled")
  BY <1>1 DEF TerminalStates, Codes, ValidTransition
<1>3. QED
  BY <1>1, <1>2, ReturnsFailure

LEMMA StartStepKeeps == ASSUME IInv, StartStep PROVE IInv'
<1> DEFINE s == [Step EXCEPT !.state = "running", !.invoked = TRUE,
                             !.precondition = "pending",
                             !.verification = "not_run"]
           w == WithStep(s)
           r == MoveTo(w, "running")
<1>1. /\ TypeOK /\ MemoryInv /\ pc = "next" /\ pc \in Working
      /\ Step = NewStep /\ memory.state \in {"pending", "running"}
  BY DEF StartStep, IInv, MemoryInv, Working, Labels, Unfinished, ActiveStates
<1>2. /\ s \in StepRecords /\ ValidStep(s)
      /\ s.state = "running" /\ s.invoked /\ ~s.skipped
      /\ s.after = NoSnapshot /\ s.error = "none"
  <2>1. Step \in StepRecords /\ ValidStep(Step)
    BY <1>1, CurrentStep
  <2>2. QED
    BY <1>1, <2>1 DEF NewStep, StepRecords, States, ActiveStates, CheckStates,
       ValidStep, Captured, TerminalStates
<1> HIDE DEF s
<1>3. /\ w \in Records /\ ValidRecord(w) /\ w.state = memory.state
      /\ w.steps[at] = s
      /\ \A j \in Positions \ {at} : w.steps[j] = memory.steps[j]
  BY <1>1, <1>2, WithStepKeeps
<1>4. /\ r \in Records /\ ValidRecord(r) /\ r.state = "running"
      /\ r.steps = w.steps
  <2>1. /\ ValidTransition(memory.state, "running")
        /\ "running" \in States \ TerminalStates
    BY <1>1 DEF ValidTransition, States, ActiveStates, TerminalStates
  <2> HIDE DEF w
  <2>2. QED
    BY <1>3, <2>1, MoveToKeeps
<1>5. SaveThen(r, "preflight", at) /\ UnchangedWorld
  BY DEF StartStep, s
<1> HIDE DEF w, r
<1>6. CASE LogFailure(r)
  <2>1. at \notin launched
    BY <1>1 DEF IInv, LaunchInv, BeforeLaunch
  <2>2. QED
    BY <1>1, <1>3, <1>4, <1>5, <1>6, <2>1, ReturnsLogFailure DEF SaveThen
<1>7. CASE /\ Save(r) /\ pc' = "preflight" /\ at' = at
           /\ UNCHANGED <<error, refused>>
  <2>1. disk' = r /\ memory' = r /\ failure' = failure
    BY <1>5, <1>7 DEF Save, SaveThen
  <2>2. \A j \in Positions : /\ j < at => r.steps[j].state = "completed"
                             /\ j > at => r.steps[j] = NewStep
    BY <1>1, <1>3, <1>4 DEF MemoryInv, Working, TypeOK, Positions
  <2>3. MemoryInv'
    BY <1>2, <1>3, <1>4, <1>7, <2>1, <2>2
    DEF MemoryInv, Step, Doing, Verifying, Checked, Photographed, BeforeLaunch,
        Unfinished, ActiveStates
  <2>4. \A i \in launched : i # at /\ i <= at /\ Ahead(r.steps[i], i)
    BY <1>1, <1>3, <1>4 DEF IInv, LaunchInv, BeforeLaunch, TypeOK
  <2>5. at \in Positions /\ at >= at
    BY <1>1 DEF TypeOK, Positions
  <2>6. QED
    BY <1>1, <1>4, <1>5, <1>7, <2>1, <2>3, <2>4, <2>5, GoesOnSaved
    DEF Working, Labels
<1>8. QED
  BY <1>5, <1>6, <1>7 DEF SaveThen

LEMMA PreflightKeeps == ASSUME IInv, Preflight PROVE IInv'
<1> DEFINE s == [Step EXCEPT !.precondition = "passed"]
<1>1. /\ TypeOK /\ MemoryInv /\ pc = "preflight" /\ pc \in Working
      /\ pc \in BeforeLaunch /\ at \notin launched
  BY DEF Preflight, IInv, LaunchInv, Working, Labels, BeforeLaunch
<1>2. CASE PreconditionFails
  BY <1>1, <1>2, PreparationFails DEF Preflight
<1>3. CASE /\ memory' = WithStep(s) /\ pc' = "capture"
           /\ UNCHANGED <<at, disk, failure, error, refused>>
  <2>1. Step \in StepRecords /\ ValidStep(Step) /\ memory.state = "running"
        /\ Step.state = "running" /\ Step.after = NoSnapshot
        /\ Step.invoked /\ Step.error = "none" /\ ~Step.skipped
    BY <1>1, CurrentStep DEF MemoryInv, Doing, BeforeLaunch
  <2>2. /\ s \in StepRecords /\ ValidStep(s)
        /\ s.state = "running" /\ s.after = NoSnapshot
        /\ s.invoked /\ s.error = "none" /\ ~s.skipped
        /\ s.precondition = "passed"
    BY <2>1 DEF StepRecords, CheckStates, ValidStep, Captured
  <2> HIDE DEF s
  <2>3. /\ memory' \in Records /\ ValidRecord(memory')
        /\ memory'.state = "running" /\ memory'.steps[at] = s
        /\ \A j \in Positions \ {at} : memory'.steps[j] = memory.steps[j]
    BY <1>1, <1>3, <2>1, <2>2, WithStepKeeps
  <2>4. MemoryInv'
    BY <1>1, <1>3, <2>2, <2>3
    DEF MemoryInv, TypeOK, Step, Doing, Verifying, Checked, Photographed, BeforeLaunch,
        Unfinished, ActiveStates, Positions
  <2>5. QED
    BY <1>1, <1>3, <2>3, <2>4, GoesOnUnsaved
    DEF Preflight, UnchangedWorld, Working, Labels, TypeOK, BeforeLaunch,
        Photographed, Checked
<1>4. QED
  BY <1>2, <1>3 DEF Preflight

LEMMA CaptureBeforeKeeps == ASSUME IInv, CaptureBefore PROVE IInv'
<1> DEFINE s == [Step EXCEPT !.before =
                   IF at \in Captures THEN env[at] ELSE @]
           r == WithStep(s)
<1>1. /\ TypeOK /\ MemoryInv /\ pc = "capture" /\ pc \in Working
      /\ pc \in BeforeLaunch /\ at \notin launched
  BY DEF CaptureBefore, IInv, LaunchInv, Working, Labels, BeforeLaunch
<1>2. CASE PreconditionFails
  BY <1>1, <1>2, PreparationFails DEF CaptureBefore
<1>3. /\ Step \in StepRecords /\ ValidStep(Step) /\ memory.state = "running"
      /\ Step.state = "running" /\ Step.after = NoSnapshot
      /\ Step.invoked /\ Step.error = "none" /\ ~Step.skipped
      /\ Step.precondition = "passed"
      /\ env[at] \in Snapshots /\ env[at] # NoSnapshot
  BY <1>1, CurrentStep DEF MemoryInv, Doing, Verifying, Checked, BeforeLaunch
<1>4. /\ s \in StepRecords /\ ValidStep(s)
      /\ s.state = "running" /\ s.after = NoSnapshot
      /\ s.invoked /\ s.error = "none" /\ ~s.skipped
      /\ s.precondition = "passed"
      /\ at \in Captures => s.before # NoSnapshot
  BY <1>3 DEF StepRecords, ValidStep, Captured, TerminalStates
<1> HIDE DEF s
<1>5. /\ r \in Records /\ ValidRecord(r) /\ r.state = "running"
      /\ r.steps[at] = s
      /\ \A j \in Positions \ {at} : r.steps[j] = memory.steps[j]
  BY <1>1, <1>3, <1>4, WithStepKeeps
<1> HIDE DEF r
<1>6. CASE SaveThen(r, "satisfied", at)
  <2>1. UnchangedWorld
    BY DEF CaptureBefore
  <2>2. CASE LogFailure(r)
    BY <1>1, <1>5, <1>6, <2>1, <2>2, ReturnsLogFailure DEF SaveThen
  <2>3. CASE /\ Save(r) /\ pc' = "satisfied" /\ at' = at
             /\ UNCHANGED <<error, refused>>
    <3>1. disk' = r /\ memory' = r /\ failure' = failure
      BY <1>6, <2>3 DEF Save, SaveThen
    <3>2. MemoryInv'
      BY <1>1, <1>4, <1>5, <2>3, <3>1
      DEF MemoryInv, TypeOK, Step, Doing, Verifying, Checked, Photographed, BeforeLaunch,
          Unfinished, ActiveStates, Positions
    <3>3. \A i \in launched : i # at /\ i <= at /\ Ahead(r.steps[i], i)
      BY <1>1, <1>5 DEF IInv, LaunchInv, BeforeLaunch, TypeOK
    <3>4. at \in Positions /\ at >= at
      BY <1>1 DEF TypeOK, Positions
    <3>5. QED
      BY <1>1, <1>5, <2>1, <2>3, <3>1, <3>2, <3>3, <3>4, GoesOnSaved
      DEF Working, Labels
  <2>4. QED
    BY <1>6, <2>2, <2>3 DEF SaveThen
<1>7. QED
  BY <1>2, <1>6 DEF CaptureBefore, r, s

LEMMA CheckSatisfiedKeeps == ASSUME IInv, CheckSatisfied PROVE IInv'
<1> DEFINE s == [Step EXCEPT !.skipped = TRUE]
<1>1. /\ TypeOK /\ MemoryInv /\ pc = "satisfied" /\ pc \in Working
      /\ pc \in BeforeLaunch /\ at \notin launched
  BY DEF CheckSatisfied, IInv, LaunchInv, Working, Labels, BeforeLaunch
<1>2. /\ Step \in StepRecords /\ ValidStep(Step) /\ memory.state = "running"
      /\ Step.state = "running" /\ Step.after = NoSnapshot
      /\ Step.invoked /\ Step.error = "none" /\ ~Step.skipped
      /\ Step.precondition = "passed"
      /\ at \in Captures => Step.before # NoSnapshot
  BY <1>1, CurrentStep
  DEF MemoryInv, Doing, Verifying, Checked, Photographed, BeforeLaunch
<1>3. CASE PreconditionFails
  BY <1>1, <1>3, PreparationFails DEF CheckSatisfied
<1>4. CASE /\ memory' = WithStep(s) /\ pc' = "capture_after"
           /\ UNCHANGED <<at, disk, failure, error, refused>>
  <2>1. /\ s \in StepRecords /\ ValidStep(s)
        /\ s.state = "running" /\ s.after = NoSnapshot
        /\ s.invoked /\ s.error = "none" /\ s.precondition = "passed"
        /\ at \in Captures => s.before # NoSnapshot
    BY <1>2 DEF StepRecords, ValidStep, Captured
  <2> HIDE DEF s
  <2>2. /\ memory' \in Records /\ ValidRecord(memory')
        /\ memory'.state = "running" /\ memory'.steps[at] = s
        /\ \A j \in Positions \ {at} : memory'.steps[j] = memory.steps[j]
    BY <1>1, <1>2, <1>4, <2>1, WithStepKeeps
  <2>3. MemoryInv'
    BY <1>1, <1>4, <2>1, <2>2
    DEF MemoryInv, TypeOK, Step, Doing, Verifying, Checked, Photographed, BeforeLaunch,
        Unfinished, ActiveStates, Positions
  <2>4. QED
    BY <1>1, <1>4, <2>2, <2>3, GoesOnUnsaved
    DEF CheckSatisfied, UnchangedWorld, Working, Labels, TypeOK, BeforeLaunch,
        Photographed, Checked
<1>5. CASE /\ pc' = "run"
           /\ UNCHANGED <<at, memory, disk, failure, error, refused>>
  <2>1. MemoryInv'
    BY <1>1, <1>5
    DEF MemoryInv, Working, Labels, Step, Doing, Verifying, Checked, Photographed,
        BeforeLaunch
  <2>2. memory' \in Records
    BY <1>1, <1>5, CurrentStep
  <2>3. QED
    BY <1>1, <1>5, <2>1, <2>2, GoesOnUnsaved
    DEF CheckSatisfied, UnchangedWorld, Working, Labels, TypeOK, BeforeLaunch,
        Photographed, Checked
<1>6. QED
  BY <1>3, <1>4, <1>5 DEF CheckSatisfied

LEMMA LaunchProcessKeeps == ASSUME IInv, LaunchProcess PROVE IInv'
<1> USE DEF LaunchProcess
<1>1. /\ TypeOK /\ MemoryInv /\ pc = "run" /\ pc \in Working
  BY DEF IInv, Working, Labels
<1>2. memory \in Records /\ at \in Positions
  BY <1>1, CurrentStep
<1>3. MemoryInv'
  BY <1>1
  DEF MemoryInv, Working, Labels, Step, Doing, Verifying, Checked, Photographed,
      BeforeLaunch
<1>4. Ahead(memory.steps[at], at)
  BY <1>1
  DEF MemoryInv, Ahead, Step, Doing, Verifying, Checked, Photographed, BeforeLaunch
<1>5. Ahead(disk.steps[at], at)
  BY <1>1
  DEF IInv, DiskInv, Ahead, Doing, Verifying, Checked, Photographed, BeforeLaunch,
      ActiveStates
<1>6. QED
  BY <1>1, <1>2, <1>3, <1>4, <1>5, GoesOnUnsaved
  DEF Working, Labels, TypeOK, BeforeLaunch, Photographed, Checked

\* The process, or the attempt to start one, ends: only pc and failure change.
LEMMA RunEnds ==
    ASSUME IInv, pc \in {"run", "process"},
           pc' \in {"capture_failed", "capture_after"},
           UNCHANGED <<at, memory, disk, error, refused>>, UnchangedWorld,
           failure' \in Codes,
           pc' = "capture_failed" =>
             /\ failure' \notin {"none", "LOG_WRITE_FAILED"}
             /\ at \in launched /\ ~InheritedPipes =>
                  failure' \in WriteMayHaveStarted
    PROVE  IInv'
<1>1. /\ TypeOK /\ MemoryInv /\ pc \in Working
      /\ pc' \in Working \ {"next"} /\ pc # "next"
  BY DEF IInv, Working, Labels
<1>2. memory \in Records
  BY <1>1, CurrentStep
<1>3. MemoryInv'
  BY <1>1
  DEF MemoryInv, Working, Labels, Step, Doing, Verifying, Checked, Photographed,
      BeforeLaunch
<1>4. at \in launched =>
        Ahead(disk.steps[at], at) /\ Ahead(memory.steps[at], at)
  BY <1>1 DEF IInv, LaunchInv
<1>5. QED
  BY <1>1, <1>2, <1>3, <1>4, GoesOnUnsaved
  DEF TypeOK, UnchangedWorld, BeforeLaunch, Photographed, Checked

LEMMA ProcessKeeps ==
    ASSUME IInv, ProcessNotStarted \/ ProcessSucceeds \/ ProcessFails
    PROVE  IInv'
<1>1. CASE ProcessNotStarted
  <2>1. at \notin launched
    BY <1>1 DEF ProcessNotStarted, IInv, LaunchInv, BeforeLaunch, Working, Labels
  <2>2. QED
    BY <1>1, <2>1, RunEnds DEF ProcessNotStarted, Codes
<1>2. CASE ProcessSucceeds
  BY <1>2, RunEnds DEF ProcessSucceeds, IInv, TypeOK
<1>3. CASE ProcessFails
  BY <1>3, RunEnds DEF ProcessFails, ProcessFailures, Codes, WriteMayHaveStarted
<1>4. QED
  BY <1>1, <1>2, <1>3

LEMMA FinishFailedProcessKeeps == ASSUME IInv, FinishFailedProcess PROVE IInv'
<1>1. /\ TypeOK /\ MemoryInv /\ pc = "capture_failed" /\ pc \in Working
      /\ memory.state = "running" /\ Step.after = NoSnapshot
  BY DEF FinishFailedProcess, IInv, MemoryInv, Working, Labels, Doing
<1>2. /\ Step \in StepRecords /\ ValidStep(Step) /\ env[at] \in Facts
      /\ at \in Positions
  BY <1>1, CurrentStep
<1>3. PICK s \in {Step} \cup
                 (IF at \in Captures THEN {WithAfter(Step, env[at])} ELSE {}) :
        FinishFailure(WithStep(s), FailureState(failure), failure)
  BY DEF FinishFailedProcess
<1>4. /\ s \in StepRecords /\ ValidStep(s)
      /\ s.state = Step.state /\ s.invoked = Step.invoked
      /\ s.skipped = Step.skipped /\ s.precondition = Step.precondition
      /\ s.before = Step.before
  <2>1. CASE s = Step
    BY <1>2, <2>1
  <2>2. CASE s = WithAfter(Step, env[at])
    BY <1>1, <1>2, <2>2, WithAfterKeeps
  <2>3. QED
    BY <2>1, <2>2
<1>5. /\ WithStep(s) \in Records /\ ValidRecord(WithStep(s))
      /\ WithStep(s).state = "running" /\ WithStep(s).steps[at] = s
      /\ \A j \in Positions \ {at} : WithStep(s).steps[j] = memory.steps[j]
  BY <1>1, <1>4, WithStepKeeps
<1>6. at \in launched => Ahead(WithStep(s).steps[at], at)
  BY <1>1, <1>4, <1>5 DEF IInv, LaunchInv, Ahead, Step
<1>7. failure \in Codes \ {"none", "LOG_WRITE_FAILED"}
  BY <1>1 DEF IInv, ReturnInv
<1>8. /\ FailureState(failure) \in TerminalStates \ {"completed"}
      /\ ValidTransition("running", FailureState(failure))
  BY DEF FailureState, TerminalStates, ValidTransition
<1>9. UnchangedWorld
  BY DEF FinishFailedProcess
<1>10. at \in launched /\ ~InheritedPipes => failure \in WriteMayHaveStarted
  BY <1>1 DEF IInv, EvidenceInv
<1>11. QED
  BY <1>1, <1>3, <1>5, <1>6, <1>7, <1>8, <1>9, <1>10, ReturnsFailure

LEMMA CaptureAfterKeeps == ASSUME IInv, CaptureAfter PROVE IInv'
<1> DEFINE v == [Step EXCEPT !.state = "verifying",
                             !.verification = "pending"]
           c == IF at \in Captures THEN WithAfter(v, env[at]) ELSE v
           f == [v EXCEPT !.verification = "failed"]
           r == MoveTo(WithStep(c), "verifying")
           q == MoveTo(WithStep(f), "verifying")
<1>1. /\ TypeOK /\ MemoryInv /\ pc = "capture_after" /\ pc \in Working
      /\ memory.state = "running" /\ UnchangedWorld
  BY DEF CaptureAfter, IInv, MemoryInv, Working, Labels, Doing
<1>2. /\ Step \in StepRecords /\ ValidStep(Step) /\ Step.state = "running"
      /\ Step.after = NoSnapshot /\ Step.invoked /\ Step.error = "none"
      /\ Step.precondition = "passed"
      /\ at \in Captures => Step.before # NoSnapshot
      /\ at \in Positions /\ env[at] \in Facts
  BY <1>1, CurrentStep DEF MemoryInv, Doing, Verifying, Checked, Photographed
<1>3. /\ v \in StepRecords /\ ValidStep(v) /\ v.state = "verifying"
      /\ v.after = NoSnapshot /\ v.invoked /\ v.error = "none"
      /\ v.precondition = "passed" /\ v.before = Step.before
      /\ v.skipped = Step.skipped
  BY <1>2 DEF StepRecords, States, ActiveStates, CheckStates, ValidStep,
              Captured, TerminalStates
<1> HIDE DEF v
<1>4. /\ f \in StepRecords /\ ValidStep(f) /\ f.state = "verifying"
      /\ f.invoked /\ f.precondition = "passed" /\ f.before = Step.before
      /\ f.skipped = Step.skipped
  BY <1>3 DEF StepRecords, CheckStates, ValidStep, Captured, TerminalStates
<1>5. /\ c \in StepRecords /\ ValidStep(c) /\ c.state = "verifying"
      /\ c.invoked /\ c.error = "none" /\ c.precondition = "passed"
      /\ c.before = Step.before /\ c.skipped = Step.skipped
  BY <1>2, <1>3, WithAfterKeeps
<1> HIDE DEF f, c
<1>6. ASSUME NEW s \in StepRecords, ValidStep(s)
      PROVE  LET m == MoveTo(WithStep(s), "verifying")
             IN  /\ m \in Records /\ ValidRecord(m) /\ m.state = "verifying"
                 /\ m.steps[at] = s
                 /\ \A j \in Positions \ {at} : m.steps[j] = memory.steps[j]
  <2>1. /\ WithStep(s) \in Records /\ ValidRecord(WithStep(s))
        /\ WithStep(s).state = "running" /\ WithStep(s).steps[at] = s
        /\ \A j \in Positions \ {at} :
             WithStep(s).steps[j] = memory.steps[j]
    BY <1>1, <1>6, WithStepKeeps
  <2>2. /\ ValidTransition("running", "verifying")
        /\ "verifying" \in States \ TerminalStates
    BY DEF ValidTransition, States, ActiveStates, TerminalStates
  <2>3. QED
    BY <2>1, <2>2, MoveToKeeps
<1>7. at \in launched => Ahead(Step, at)
  BY <1>1 DEF IInv, LaunchInv, Step
<1>8. CASE FinishFailure(q, "failed", "VERIFY_FAILED")
  <2>1. /\ q \in Records /\ ValidRecord(q) /\ q.state = "verifying"
        /\ q.steps[at] = f
        /\ \A j \in Positions \ {at} : q.steps[j] = memory.steps[j]
    BY <1>4, <1>6
  <2>2. at \in launched => Ahead(q.steps[at], at)
    BY <1>4, <1>7, <2>1 DEF Ahead
  <2>3. /\ "failed" \in TerminalStates \ {"completed"}
        /\ "VERIFY_FAILED" \in Codes \ {"none", "LOG_WRITE_FAILED"}
        /\ "VERIFY_FAILED" \in WriteMayHaveStarted
        /\ ValidTransition("verifying", "failed")
    BY DEF TerminalStates, Codes, WriteMayHaveStarted, ValidTransition
  <2> HIDE DEF q
  <2>4. QED
    BY <1>1, <1>8, <2>1, <2>2, <2>3, ReturnsFailure
<1>9. CASE SaveThen(r, "verify", at)
  <2>1. /\ r \in Records /\ ValidRecord(r) /\ r.state = "verifying"
        /\ r.steps[at] = c
        /\ \A j \in Positions \ {at} : r.steps[j] = memory.steps[j]
    BY <1>5, <1>6
  <2> HIDE DEF r
  <2>2. CASE LogFailure(r)
    <3>1. at \in launched => Ahead(r.steps[at], at)
      BY <1>5, <1>7, <2>1 DEF Ahead
    <3>2. QED
      BY <1>1, <1>9, <2>1, <2>2, <3>1, ReturnsLogFailure DEF SaveThen
  <2>3. CASE /\ Save(r) /\ pc' = "verify" /\ at' = at
             /\ UNCHANGED <<error, refused>>
    <3>1. disk' = r /\ memory' = r /\ failure' = failure
      BY <1>9, <2>3 DEF Save, SaveThen
    <3>2. MemoryInv'
      BY <1>1, <1>2, <1>5, <2>1, <2>3, <3>1
      DEF MemoryInv, TypeOK, Step, Doing, Verifying, Checked, Photographed, BeforeLaunch,
          Unfinished, ActiveStates, Positions
    <3>3. \A i \in launched : i <= at /\ Ahead(r.steps[i], i)
      BY <1>1, <1>5, <1>7, <2>1 DEF IInv, LaunchInv, TypeOK, Ahead
    <3>4. at \in Positions /\ at >= at /\ pc' \notin BeforeLaunch
      BY <1>2, <2>3 DEF Positions, BeforeLaunch
    <3>5. QED
      BY <1>1, <2>1, <2>3, <3>1, <3>2, <3>3, <3>4, GoesOnSaved
      DEF Working, Labels
  <2>4. QED
    BY <1>9, <2>2, <2>3 DEF SaveThen
<1>10. QED
  BY <1>8, <1>9 DEF CaptureAfter, c, v, f

LEMMA VerifyFailsKeeps == ASSUME IInv, VerifyFails PROVE IInv'
<1> DEFINE s == [Step EXCEPT !.verification = "failed"]
<1>1. /\ TypeOK /\ MemoryInv /\ pc = "verify" /\ pc \in Working
      /\ memory.state = "verifying" /\ Step.state = "verifying"
      /\ UnchangedWorld
  BY DEF VerifyFails, IInv, MemoryInv, Verifying, Working, Labels
<1>2. /\ s \in StepRecords /\ ValidStep(s)
      /\ s.state = Step.state /\ s.invoked = Step.invoked
      /\ s.skipped = Step.skipped /\ s.precondition = Step.precondition
      /\ s.before = Step.before
  <2>1. Step \in StepRecords /\ ValidStep(Step)
    BY <1>1, CurrentStep
  <2>2. QED
    BY <1>1, <2>1 DEF StepRecords, CheckStates, ValidStep, Captured
<1> HIDE DEF s
<1>3. /\ WithStep(s) \in Records /\ ValidRecord(WithStep(s))
      /\ WithStep(s).state = "verifying" /\ WithStep(s).steps[at] = s
      /\ \A j \in Positions \ {at} : WithStep(s).steps[j] = memory.steps[j]
  BY <1>1, <1>2, WithStepKeeps
<1>4. at \in launched => Ahead(WithStep(s).steps[at], at)
  BY <1>1, <1>2, <1>3 DEF IInv, LaunchInv, Ahead, Step
<1>5. /\ "failed" \in TerminalStates \ {"completed"}
      /\ "VERIFY_FAILED" \in Codes \ {"none", "LOG_WRITE_FAILED"}
      /\ "VERIFY_FAILED" \in WriteMayHaveStarted
      /\ ValidTransition("verifying", "failed")
  BY DEF TerminalStates, Codes, WriteMayHaveStarted, ValidTransition
<1>6. FinishFailure(WithStep(s), "failed", "VERIFY_FAILED")
  BY DEF VerifyFails, s
<1>7. QED
  BY <1>1, <1>3, <1>4, <1>5, <1>6, ReturnsFailure

\* The verification itself changes nothing that is recorded.
LEMMA VerifyPassesKeeps == ASSUME IInv, VerifyPasses PROVE IInv'
<1> USE DEF VerifyPasses
<1>1. /\ TypeOK /\ MemoryInv /\ pc = "verify" /\ pc \in Working
      /\ pc' = "verified" /\ disturbed' \subseteq Positions
  BY DEF IInv, TypeOK, Working, Labels
<1>2. memory \in Records
  BY <1>1, CurrentStep
<1>3. MemoryInv'
  BY <1>1
  DEF MemoryInv, Working, Labels, Step, Doing, Verifying, Checked, Photographed,
      BeforeLaunch
<1>4. at \in launched =>
        Ahead(disk.steps[at], at) /\ Ahead(memory.steps[at], at)
  BY <1>1 DEF IInv, LaunchInv
<1>5. QED
  BY <1>1, <1>2, <1>3, <1>4, GoesOnUnsaved
  DEF TypeOK, Working, Labels, BeforeLaunch, Photographed, Checked

\* The completion of a step, and with the last of them of the operation.
LEMMA SaveCompletionKeeps == ASSUME IInv, SaveCompletion PROVE IInv'
<1> DEFINE w == WithStep(CompletedStep)
           r == MoveTo(w, "running")
           m == MoveTo(w, "completed")
           q == [m EXCEPT !.finished = TRUE]
<1>1. /\ TypeOK /\ MemoryInv /\ pc = "verified" /\ pc \in Working
      /\ memory.state = "verifying" /\ UnchangedWorld
  BY DEF SaveCompletion, IInv, MemoryInv, Verifying, Working, Labels
<1>2. /\ Step \in StepRecords /\ ValidStep(Step) /\ Step.error = "none"
      /\ Step.precondition = "passed" /\ at \in Positions
  BY <1>1, CurrentStep DEF MemoryInv, Checked
<1>3. /\ CompletedStep \in StepRecords /\ ValidStep(CompletedStep)
      /\ CompletedStep.state = "completed"
      /\ CompletedStep.invoked = Step.invoked
      /\ CompletedStep.skipped = Step.skipped
      /\ CompletedStep.precondition = Step.precondition
      /\ CompletedStep.before = Step.before
  BY <1>2 DEF CompletedStep, StepRecords, States, TerminalStates, CheckStates,
              ValidStep, Captured
<1>4. /\ w \in Records /\ ValidRecord(w)
      /\ w.state = "verifying" /\ w.steps[at] = CompletedStep
      /\ \A j \in Positions \ {at} : w.steps[j] = memory.steps[j]
  BY <1>1, <1>3, WithStepKeeps
<1>5. /\ \A j \in Positions : j <= at => w.steps[j].state = "completed"
      /\ \A j \in Positions : j > at => w.steps[j] = NewStep
  BY <1>1, <1>2, <1>3, <1>4 DEF MemoryInv, Positions
<1>6. \A i \in launched : i \in Positions /\ i <= at /\ Ahead(w.steps[i], i)
  <2>1. at \in launched => Ahead(CompletedStep, at)
    BY <1>1, <1>3 DEF IInv, LaunchInv, Ahead, Step
  <2>2. QED
    BY <1>1, <1>4, <2>1 DEF IInv, LaunchInv, TypeOK
<1> HIDE DEF w
<1>7. CASE at < N /\ SaveThen(r, "next", at + 1)
  <2>1. /\ r \in Records /\ ValidRecord(r) /\ r.state = "running"
        /\ r.steps = w.steps
    <3>1. /\ ValidTransition("verifying", "running")
          /\ "running" \in States \ TerminalStates
      BY DEF ValidTransition, States, ActiveStates, TerminalStates
    <3>2. QED
      BY <1>4, <3>1, MoveToKeeps
  <2> HIDE DEF r
  <2>2. CASE LogFailure(r)
    BY <1>1, <1>4, <1>6, <1>7, <2>1, <2>2, ReturnsLogFailure DEF SaveThen
  <2>3. CASE /\ Save(r) /\ pc' = "next" /\ at' = at + 1
             /\ UNCHANGED <<error, refused>>
    <3>1. disk' = r /\ memory' = r /\ failure' = failure
      BY <1>7, <2>3 DEF Save, SaveThen
    <3>2. at' \in Positions /\ at' > at /\ at' >= at
          /\ \A j \in Positions : (j < at' <=> j <= at) /\ (j >= at' <=> j > at)
      BY <1>2, <1>7, <2>3, StepCountAssumption DEF Positions
    <3>3. ~NewStep.skipped
      BY DEF NewStep
    <3>4. /\ \A j \in Positions : j < at' => r.steps[j].state = "completed"
          /\ \A j \in Positions : j > at' => r.steps[j] = NewStep
          /\ r.steps[at'] = NewStep
      BY <1>2, <1>5, <2>1, <3>2 DEF Positions
    <3>5. MemoryInv'
      BY <2>1, <2>3, <3>1, <3>3, <3>4
      DEF MemoryInv, Step, Doing, Verifying, Checked, Photographed, BeforeLaunch,
          Unfinished, ActiveStates
    <3>6. \A i \in launched : i <= at' /\ i # at' /\ Ahead(r.steps[i], i)
      BY <1>2, <1>6, <2>1, <3>2 DEF Positions
    <3>7. QED
      BY <1>1, <2>1, <2>3, <3>1, <3>2, <3>5, <3>6, GoesOnSaved
      DEF Working, Labels
  <2>4. QED
    BY <1>7, <2>2, <2>3 DEF SaveThen
<1>8. CASE ~(at < N) /\ SaveThen(q, "returned", at)
  <2>1. \A j \in Positions : w.steps[j].state = "completed"
    BY <1>2, <1>5, <1>8, StepCountAssumption DEF Positions
  <2>2. /\ m \in Records /\ m.state = "completed"
        /\ ValidHistory(m.transitions, "completed") /\ m.steps = w.steps
    <3>1. /\ ValidTransition("verifying", "completed")
          /\ "completed" \in States
      BY DEF ValidTransition, States, TerminalStates
    <3>2. QED
      BY <1>4, <3>1, MoveToKeeps
  <2> HIDE DEF m
  <2>3. /\ q \in Records /\ q.state = "completed" /\ q.finished = TRUE
        /\ q.transitions = m.transitions /\ q.steps = w.steps
    BY <2>2 DEF Records
  <2> HIDE DEF q
  <2>4. ValidRecord(q)
    BY <1>4, <2>1, <2>2, <2>3 DEF ValidRecord
  <2>5. CASE LogFailure(q)
    BY <1>1, <1>4, <1>6, <1>8, <2>3, <2>4, <2>5, ReturnsLogFailure DEF SaveThen
  <2>6. CASE /\ Save(q) /\ pc' = "returned" /\ at' = at
             /\ UNCHANGED <<error, refused>>
    <3>1. disk' = q /\ memory' = q /\ failure' = failure /\ q # NoRecord
      BY <1>8, <2>3, <2>6, NoRecordAssumption DEF Save, SaveThen
    <3>2. TypeOK'
      BY <1>1, <2>3, <2>6, <3>1 DEF TypeOK, Labels, UnchangedWorld
    <3>3. MemoryInv'
      BY <2>6 DEF MemoryInv, Working
    <3>4. DiskInv'
      BY <2>1, <2>3, <2>4, <2>6, <3>1 DEF DiskInv, CompletedPrefix, Working
    <3>5. DependenciesFirst'
      <4>1. \A i \in launched : \A d \in Dependencies[i] : d \in Positions
        BY <1>1, DependencyAssumption DEF TypeOK
      <4>2. QED
        BY <1>1, <2>1, <2>3, <3>1, <4>1 DEF DependenciesFirst, UnchangedWorld
    <3>6. LaunchInv'
      BY <1>1, <1>6, <2>3, <2>6, <3>1, <3>5
      DEF LaunchInv, Working, UnchangedWorld
    <3>7. ReturnInv'
      BY <1>1, <2>3, <2>4, <2>6, <3>1
      DEF IInv, ReturnInv, ReturnAgreesWithDisk, Working, TerminalStates
    <3>8. EvidenceInv'
      <4>1. launched \subseteq Positions /\ launched' = launched
        BY <1>1 DEF TypeOK, UnchangedWorld
      <4>2. QED
        BY <2>1, <2>3, <2>6, <3>1, <4>1
        DEF EvidenceInv, Accounted, AccountedOrActive, ActiveStates
    <3>9. QED
      BY <3>2, <3>3, <3>4, <3>6, <3>7, <3>8 DEF IInv
  <2>7. QED
    BY <1>8, <2>5, <2>6 DEF SaveThen
<1>9. QED
  BY <1>7, <1>8 DEF SaveCompletion, w

-----------------------------------------------------------------------------
(* The rest of the machine.                                                *)

LEMMA RecoverKeeps == ASSUME IInv, Recover PROVE IInv'
<1> USE DEF Recover, Killed
<1>1. /\ disk \in Records /\ disk' = Interrupted(disk)
      /\ ValidRecord(disk') /\ disk.state \in ActiveStates
      /\ pc \in {"returned", "orphaned", "crashed"}
      /\ UNCHANGED <<executing, history>>
  BY DEF IInv, TypeOK
<1>2. /\ disk' \in Records /\ disk'.state = "interrupted"
      /\ disk' # NoRecord
      /\ \A j \in Positions : disk'.steps[j] = InterruptedStep(disk.steps[j])
  BY <1>1, InterruptedKeeps, NoRecordAssumption
<1>3. ASSUME NEW j \in Positions
      PROVE  /\ disk'.steps[j].state = "completed"
                  <=> disk.steps[j].state = "completed"
             /\ disk'.steps[j].state = "pending"
                  <=> disk.steps[j].state = "pending"
             /\ Ahead(disk.steps[j], j) => Ahead(disk'.steps[j], j)
  <2>1. disk.steps[j] \in StepRecords
    BY <1>1 DEF Records
  <2>2. QED
    BY <1>2, <2>1, InterruptedStepKeeps DEF Ahead, ActiveStates
<1>4. TypeOK'
  BY <1>1, <1>2 DEF IInv, TypeOK, executing, history
<1>5. MemoryInv'
  BY <1>1 DEF MemoryInv, Working, executing
<1>6. DiskInv'
  BY <1>1, <1>2, <1>3 DEF IInv, DiskInv, CompletedPrefix, Working, executing
<1>7. LaunchInv'
  <2>1. \A i \in launched : i \in Positions
                           /\ \A d \in Dependencies[i] : d \in Positions
    BY DependencyAssumption DEF IInv, TypeOK
  <2>2. QED
    BY <1>1, <1>2, <1>3, <2>1
    DEF IInv, LaunchInv, DependenciesFirst, Working, executing, history
<1>8. ReturnInv'
  <2>1. disk # NoRecord /\ disk.state \notin TerminalStates
    BY <1>1 DEF ActiveStates, TerminalStates
  <2>2. pc = "returned" => error = "LOG_WRITE_FAILED"
    BY <2>1 DEF IInv, ReturnInv, ReturnAgreesWithDisk
  <2>3. ReturnAgreesWithDisk'
    BY <1>1, <1>2, <2>2 DEF ReturnAgreesWithDisk, executing
  <2>4. QED
    BY <1>1, <2>3 DEF IInv, ReturnInv, Working, executing, history
<1>9. EvidenceInv'
  <2>1. ASSUME NEW i \in launched, AccountedOrActive(disk)
        PROVE  \/ disk'.steps[i].state = "completed"
               \/ RecoveryEvidence(disk'.steps[i])
    <3>1. i \in Positions /\ disk.steps[i] \in StepRecords
          /\ Ahead(disk.steps[i], i)
      BY <1>1 DEF IInv, TypeOK, LaunchInv, Records
    <3>2. CASE disk.steps[i].state = "completed"
      BY <1>3, <3>1, <3>2
    <3>3. CASE disk.steps[i].state \in ActiveStates
      <4>1. LET t == disk'.steps[i]
            IN  /\ t.state = "interrupted" /\ t.error = "EXEC_INTERRUPTED"
                /\ t.invoked /\ ~t.skipped
        BY <1>2, <3>1, <3>3, InterruptedStepKeeps DEF Ahead
      <4>2. QED
        BY <4>1
        DEF RecoveryEvidence, Changed, Uncertain, WriteMayHaveStarted
    <3>4. CASE /\ RecoveryEvidence(disk.steps[i])
               /\ disk.steps[i].state \notin ActiveStates
      <4>1. disk'.steps[i] = disk.steps[i]
        BY <1>2, <3>1, <3>4 DEF InterruptedStep
      <4>2. QED
        BY <3>4, <4>1
    <3>5. QED
      BY <2>1, <3>2, <3>3, <3>4 DEF AccountedOrActive
  <2>2. \A j \in Positions : disk'.steps[j].state \notin ActiveStates
    <3>1. TAKE j \in Positions
    <3>2. disk.steps[j] \in StepRecords
      BY <1>1 DEF Records
    <3>3. QED
      BY <1>2, <3>2, InterruptedStepKeeps DEF ActiveStates
  <2>3. UNCHANGED <<pc, at, memory, failure, launched>> /\ disk # NoRecord
    BY <1>1 DEF executing, history
  <2>4. ~InheritedPipes => AccountedOrActive(disk)
    BY <2>3 DEF IInv, EvidenceInv
  <2>5. QED
    BY <2>1, <2>2, <2>3, <2>4
    DEF IInv, EvidenceInv, Accounted, AccountedOrActive
<1>10. QED
  BY <1>4, <1>5, <1>6, <1>7, <1>8, <1>9 DEF IInv

LEMMA DeathKeeps == ASSUME IInv, Crash \/ OrphanEnds PROVE IInv'
<1> USE DEF Crash, OrphanEnds, history
<1>1. TypeOK'
  BY DEF IInv, TypeOK, Labels
<1>2. MemoryInv'
  BY DEF MemoryInv, Working
<1>3. DiskInv'
  BY DEF IInv, DiskInv, Working, CompletedPrefix
<1>4. LaunchInv'
  BY DEF IInv, LaunchInv, DependenciesFirst, Working
<1>5. ReturnInv'
  BY DEF IInv, ReturnInv, ReturnAgreesWithDisk, Working
<1>6. EvidenceInv'
  BY DEF IInv, EvidenceInv, Settled, AccountedOrActive
<1>7. QED
  BY <1>1, <1>2, <1>3, <1>4, <1>5, <1>6 DEF IInv

\* What other programs do to the environment and to the context leaves the
\* record and the executor alone.
LEMMA WorldKeeps ==
    ASSUME IInv, ProcessWrites \/ Cancel \/ EnvironmentChanges \/ UNCHANGED vars
    PROVE  IInv'
<1>1. UNCHANGED <<pc, at, memory, disk, failure, error, launched, refused>>
  BY DEF ProcessWrites, Cancel, EnvironmentChanges, vars, executing, history
<1>2. env' \in [Positions -> Facts]
  <2>1. env \in [Positions -> Facts]
    BY DEF IInv, TypeOK
  <2>2. QED
    BY <2>1 DEF ProcessWrites, Cancel, EnvironmentChanges, vars
<1>3. cancelled' \in BOOLEAN /\ drift' \in 0..MaxDrift
  <2>1. cancelled \in BOOLEAN /\ drift \in 0..MaxDrift /\ MaxDrift \in Nat
    BY BoundAssumption DEF IInv, TypeOK
  <2>2. cancelled' = cancelled \/ cancelled' = TRUE
    BY DEF ProcessWrites, Cancel, EnvironmentChanges, vars
  <2>3. drift' = drift \/ (drift < MaxDrift /\ drift' = drift + 1)
    BY DEF ProcessWrites, Cancel, EnvironmentChanges, vars
  <2>4. drift' \in 0..MaxDrift
    BY <2>1, <2>3
  <2>5. QED
    BY <2>1, <2>2, <2>4
<1>4. TypeOK'
  <2>1. disturbed' \subseteq Positions
    BY DEF IInv, TypeOK, ProcessWrites, Cancel, EnvironmentChanges, vars, history
  <2>2. QED
    BY <1>1, <1>2, <1>3, <2>1 DEF IInv, TypeOK
<1>5. MemoryInv' /\ DiskInv' /\ LaunchInv' /\ ReturnInv' /\ EvidenceInv'
  BY <1>1
  DEF IInv, MemoryInv, DiskInv, LaunchInv, ReturnInv, Step, CompletedPrefix,
      DependenciesFirst, ReturnAgreesWithDisk, EvidenceInv, Settled, Accounted,
      AccountedOrActive
<1>6. QED
  BY <1>4, <1>5 DEF IInv

-----------------------------------------------------------------------------
(* The theorems.                                                           *)

LEMMA InitEstablishes == Init => IInv
<1> SUFFICES ASSUME Init PROVE IInv
  OBVIOUS
<1>1. TypeOK
  <2>1. 1 \in Positions /\ 0 \in 0..MaxDrift
    BY StepCountAssumption, BoundAssumption DEF Positions
  <2>2. env \in [Positions -> Facts]
    BY DEF Init
  <2>3. QED
    BY <2>1, <2>2 DEF Init, TypeOK, Labels, Codes
<1>2. QED
  BY <1>1
  DEF Init, IInv, MemoryInv, DiskInv, LaunchInv, DependenciesFirst, ReturnInv,
      ReturnAgreesWithDisk, EvidenceInv, Settled, Working

LEMMA NextKeeps == IInv /\ [Next]_vars => IInv'
<1> SUFFICES ASSUME IInv, [Next]_vars PROVE IInv'
  OBVIOUS
<1>1. CASE Accept
  BY <1>1, AcceptKeeps
<1>2. CASE Work
  <2>1. CASE StopBeforeStep \/ StartStep
    BY <2>1, StopBeforeStepKeeps, StartStepKeeps
  <2>2. CASE Preflight \/ CaptureBefore \/ CheckSatisfied
    BY <2>2, PreflightKeeps, CaptureBeforeKeeps, CheckSatisfiedKeeps
  <2>3. CASE LaunchProcess \/ ProcessNotStarted \/ ProcessSucceeds
             \/ ProcessFails
    BY <2>3, LaunchProcessKeeps, ProcessKeeps
  <2>4. CASE FinishFailedProcess \/ CaptureAfter
    BY <2>4, FinishFailedProcessKeeps, CaptureAfterKeeps
  <2>5. CASE VerifyFails \/ VerifyPasses \/ SaveCompletion
    BY <2>5, VerifyFailsKeeps, VerifyPassesKeeps, SaveCompletionKeeps
  <2>6. QED
    BY <1>2, <2>1, <2>2, <2>3, <2>4, <2>5 DEF Work
<1>3. CASE Recover
  BY <1>3, RecoverKeeps
<1>4. CASE Crash \/ OrphanEnds
  BY <1>4, DeathKeeps
<1>5. CASE ProcessWrites \/ Cancel \/ EnvironmentChanges \/ UNCHANGED vars
  BY <1>5, WorldKeeps
<1>6. QED
  BY <1>1, <1>2, <1>3, <1>4, <1>5 DEF Next

\* The inductive invariant holds of every reachable state.
THEOREM Inductive == Spec => []IInv
BY InitEstablishes, NextKeeps, PTL DEF Spec

\* Type correctness of the executor, of its record and of the stored copy.
THEOREM TypeCorrect == Spec => []TypeOK
<1>1. IInv => TypeOK
  BY DEF IInv
<1>2. QED
  BY <1>1, Inductive, PTL

\* However long the Plan, the store's validation never refuses a record that
\* Execute builds, and what Execute returns is a valid terminal record.
THEOREM RecordsAreValid == Spec => []EveryRecordIsValid
<1>1. IInv => EveryRecordIsValid
  BY DEF IInv, ReturnInv, EveryRecordIsValid, Settled
<1>2. QED
  BY <1>1, Inductive, PTL

\* However long the Plan and wherever the executor is killed, a process that
\* was started is on disk as begun, checked and photographed.
THEOREM WritesAreAnnounced == Spec => []WriteAhead
<1>1. IInv => WriteAhead
  BY DEF IInv, LaunchInv, WriteAhead, Ahead
<1>2. QED
  BY <1>1, Inductive, PTL

\* For every dependency relation, no process is started before the actions
\* it depends on are completed on disk.
THEOREM DependenciesAreFirst == Spec => []DependenciesFirst
<1>1. IInv => DependenciesFirst
  BY DEF IInv, LaunchInv
<1>2. QED
  BY <1>1, Inductive, PTL

\* Whatever is found on disk is a completed prefix, at most one other step,
\* and a pending rest.
THEOREM DiskIsAPrefix == Spec => []HistoryIsAPrefix
<1>1. IInv => HistoryIsAPrefix
  BY DEF IInv, DiskInv, HistoryIsAPrefix
<1>2. QED
  BY <1>1, Inductive, PTL

\* The caller and a reader of the disk are told the same, except when the log
\* failed, and then the disk never shows a completed operation.
THEOREM CallerAndDiskAgree == Spec => []ReturnAgreesWithDisk
<1>1. IInv => ReturnAgreesWithDisk
  BY DEF IInv, ReturnInv
<1>2. QED
  BY <1>1, Inductive, PTL

\* Where a descendant cannot keep the output pipes open, every write process
\* that was started is a completed step or a recovery candidate of every
\* terminal record, whatever failed and wherever the executor was killed.
THEOREM WritesAreAccountedFor ==
    ASSUME ~InheritedPipes
    PROVE  Spec => []EveryWriteIsAccountedFor
<1>1. IInv => EveryWriteIsAccountedFor
  <2> SUFFICES ASSUME IInv PROVE EveryWriteIsAccountedFor
    OBVIOUS
  <2>1. Settled(disk) => Accounted(disk)
    <3> SUFFICES ASSUME Settled(disk), NEW i \in launched
                 PROVE  \/ disk.steps[i].state = "completed"
                        \/ RecoveryEvidence(disk.steps[i])
      BY DEF Accounted
    <3>1. i \in Positions
      BY DEF IInv, TypeOK
    <3>2. AccountedOrActive(disk)
      BY DEF IInv, EvidenceInv, Settled
    <3>3. disk.steps[i].state \notin ActiveStates
      BY <3>1 DEF IInv, EvidenceInv
    <3>4. QED
      BY <3>2, <3>3 DEF AccountedOrActive
  <2>2. pc = "returned" /\ Settled(memory) => Accounted(memory)
    BY DEF IInv, EvidenceInv, Settled
  <2>3. QED
    BY <2>1, <2>2 DEF EveryWriteIsAccountedFor
<1>2. QED
  BY <1>1, Inductive, PTL

-----------------------------------------------------------------------------
(***************************************************************************)
(* Executor implements OperationHistory: whatever the length of the Plan,  *)
(* the dependencies and the facts, the record on disk moves only as the    *)
(* history of an operation may, one step of the executor being one step of *)
(* that history or none.                                                   *)
(***************************************************************************)

\* The state that the record on disk has at each statement of Execute: what
\* the moves of the history need in addition to the invariant IInv.
ProgressInv ==
    /\ pc \in Doing => disk.state = "running"
    /\ pc \in Verifying => disk.state = "verifying"

HInv == IInv /\ ProgressInv

\* A completion appears on disk only after its verification, and stays there.
Completes ==
    /\ CompletedOnDisk \subseteq CompletedOnDisk'
    /\ \A i \in CompletedOnDisk' \ CompletedOnDisk : i = at /\ pc = "verified"

Moves == ProgressInv' /\ [History!Next]_(History!record) /\ Completes

Before == {i \in Positions : i < at}

-----------------------------------------------------------------------------
(* The mapping.                                                            *)

\* A record in which only one step may be active.
LEMMA OnlyActive ==
    ASSUME NEW r, NEW a \in Positions,
           \A j \in Positions \ {a} : r.steps[j].state \notin ActiveStates
    PROVE  (IF \E i \in Positions : r.steps[i].state \in ActiveStates
            THEN CHOOSE i \in Positions : r.steps[i].state \in ActiveStates
            ELSE 0)
           = IF r.steps[a].state \in ActiveStates THEN a ELSE 0
<1>1. CASE r.steps[a].state \in ActiveStates
  <2>1. \E i \in Positions : r.steps[i].state \in ActiveStates
    BY <1>1
  <2>2. (CHOOSE i \in Positions : r.steps[i].state \in ActiveStates) = a
    BY <1>1
  <2>3. QED
    BY <1>1, <2>1, <2>2
<1>2. CASE r.steps[a].state \notin ActiveStates
  BY <1>2
<1>3. QED
  BY <1>1, <1>2

\* What the history shows while Execute runs.
LEMMA HistoryBefore ==
    ASSUME HInv, pc \in Working
    PROVE  /\ disk \in Records /\ disk # NoRecord /\ at \in Positions
           /\ Status = disk.state
           /\ InProgress = IF pc = "next" THEN 0 ELSE at
           /\ CompletedOnDisk = Before
<1>1. /\ disk \in Records /\ disk # NoRecord /\ at \in Positions
      /\ \A j \in Positions \ {at} : disk.steps[j] = memory.steps[j]
      /\ \A j \in Positions : j < at => memory.steps[j].state = "completed"
      /\ \A j \in Positions : j > at => memory.steps[j] = NewStep
  BY NoRecordAssumption DEF HInv, IInv, TypeOK, DiskInv, MemoryInv
<1>2. /\ \A j \in Positions : j < at => disk.steps[j].state = "completed"
      /\ \A j \in Positions : j > at => disk.steps[j].state = "pending"
  BY <1>1 DEF Positions, NewStep
<1>3. \A j \in Positions \ {at} : disk.steps[j].state \notin ActiveStates
  BY <1>1, <1>2 DEF Positions, ActiveStates
<1>4. disk.steps[at].state \in (IF pc = "next" THEN {"pending"} ELSE ActiveStates)
  BY <1>1 DEF HInv, IInv, DiskInv, MemoryInv, Step, NewStep
<1>5. InProgress = IF pc = "next" THEN 0 ELSE at
  BY <1>1, <1>3, <1>4, OnlyActive DEF InProgress, ActiveStates
<1>6. CompletedOnDisk = Before
  <2>1. disk.steps[at].state # "completed"
    BY <1>4 DEF ActiveStates
  <2>2. QED
    BY <1>1, <1>2, <2>1 DEF CompletedOnDisk, Before, Positions
<1>7. QED
  BY <1>1, <1>5, <1>6 DEF Status

\* What it shows once Execute has saved a record.
LEMMA HistoryAfter ==
    ASSUME HInv, pc \in Working, NEW r \in Records, disk' = r,
           \A j \in Positions \ {at} : r.steps[j] = memory.steps[j]
    PROVE  /\ Status' = r.state
           /\ InProgress' = IF r.steps[at].state \in ActiveStates THEN at ELSE 0
           /\ CompletedOnDisk' =
                Before \cup (IF r.steps[at].state = "completed" THEN {at} ELSE {})
<1>1. /\ r # NoRecord /\ at \in Positions
      /\ \A j \in Positions : j < at => r.steps[j].state = "completed"
      /\ \A j \in Positions : j > at => r.steps[j].state = "pending"
  BY NoRecordAssumption
  DEF HInv, IInv, TypeOK, MemoryInv, Positions, NewStep
<1>2. \A j \in Positions \ {at} : r.steps[j].state \notin ActiveStates
  BY <1>1 DEF Positions, ActiveStates
<1>3. InProgress' = IF r.steps[at].state \in ActiveStates THEN at ELSE 0
  BY <1>1, <1>2, OnlyActive DEF InProgress
<1>4. CompletedOnDisk' =
        Before \cup (IF r.steps[at].state = "completed" THEN {at} ELSE {})
  BY <1>1 DEF CompletedOnDisk, Before, Positions
<1>5. QED
  BY <1>1, <1>3, <1>4 DEF Status

\* A step that leaves the record on disk alone is not seen.
LEMMA DiskStays ==
    ASSUME disk' = disk, ProgressInv'
    PROVE  Moves
<1>1. Status' = Status /\ InProgress' = InProgress
      /\ CompletedOnDisk' = CompletedOnDisk
  BY DEF Status, InProgress, CompletedOnDisk
<1>2. QED
  BY <1>1 DEF Moves, Completes, History!record

-----------------------------------------------------------------------------
(* The ways in which a statement of Execute leaves the history.            *)

\* Replacing the current step, with or without moving the record on.
LEMMA Rewritten ==
    ASSUME HInv, pc \in Working, NEW s \in StepRecords, NEW t \in States
    PROVE  /\ WithStep(s) \in Records /\ WithStep(s).state = memory.state
           /\ WithStep(s).steps[at] = s
           /\ \A j \in Positions \ {at} : WithStep(s).steps[j] = memory.steps[j]
           /\ MoveTo(WithStep(s), t) \in Records
           /\ MoveTo(WithStep(s), t).state = t
           /\ MoveTo(WithStep(s), t).steps[at] = s
           /\ \A j \in Positions \ {at} :
                MoveTo(WithStep(s), t).steps[j] = memory.steps[j]
<1>1. memory \in Records /\ at \in Positions
  BY DEF HInv, IInv, TypeOK, MemoryInv
<1>2. /\ WithStep(s) \in Records /\ WithStep(s).state = memory.state
      /\ WithStep(s).steps[at] = s
      /\ \A j \in Positions \ {at} : WithStep(s).steps[j] = memory.steps[j]
  BY <1>1, SetStepKeeps DEF WithStep
<1>3. /\ MoveTo(WithStep(s), t) \in Records
      /\ MoveTo(WithStep(s), t).state = t
      /\ MoveTo(WithStep(s), t).steps = WithStep(s).steps
  BY <1>2, MoveToKeeps
<1>4. QED
  BY <1>2, <1>3

\* A save that fails is not seen, and Execute returns.
LEMMA LogFailureMoves ==
    ASSUME NEW r, LogFailure(r)
    PROVE  Moves
<1>1. disk' = disk /\ pc' = "returned"
  BY DEF LogFailure
<1>2. ProgressInv'
  BY <1>1 DEF ProgressInv, Doing, Verifying
<1>3. QED
  BY <1>1, <1>2, DiskStays

\* A failure that is saved ends the history.
LEMMA FailureMoves ==
    ASSUME HInv, pc \in Working, NEW r \in Records, ValidRecord(r),
           NEW state \in History!Ends, NEW code \in Codes,
           ValidTransition(r.state, state),
           \A j \in Positions \ {at} : r.steps[j] = memory.steps[j],
           FinishFailure(r, state, code),
           \/ disk.state = "pending" /\ state = "cancelled"
           \/ disk.state = "running"
           \/ disk.state = "verifying" /\ state # "timed_out"
    PROVE  Moves
<1> DEFINE f == Failed(r, at, state, code)
<1>1. at \in Positions /\ state \in TerminalStates \ {"completed"}
  BY DEF HInv, IInv, TypeOK, History!Ends, TerminalStates
<1>2. /\ f \in Records /\ f.state = state
      /\ \A j \in Positions \ {at} : f.steps[j] = r.steps[j]
      /\ f.steps[at] = FailedStep(r.steps[at], state, code)
  BY <1>1, FailedKeeps
<1>3. f.steps[at].state = state
  <2>1. r.steps[at] \in StepRecords
    BY <1>1 DEF Records
  <2>2. FailedStep(r.steps[at], state, code).state = state
    <3>1. \A s \in StepRecords : FailedStep(s, state, code).state = state
      BY DEF FailedStep, StepRecords
    <3>2. QED
      BY <2>1, <3>1
  <2> HIDE DEF f
  <2>3. QED
    BY <1>2, <2>2
<1>4. CASE LogFailure(f)
  BY <1>4, LogFailureMoves
<1>5. CASE Save(f) /\ pc' = "returned"
  <2> HIDE DEF f
  <2>1. disk' = f
    BY <1>5 DEF Save
  <2>2. state \notin ActiveStates /\ state # "completed"
    BY DEF History!Ends, ActiveStates
  <2>3. Status' = state /\ InProgress' = 0 /\ CompletedOnDisk' = Before
    <3>1. \A j \in Positions \ {at} : f.steps[j] = memory.steps[j]
      BY <1>2
    <3>2. /\ Status' = f.state
          /\ InProgress' = IF f.steps[at].state \in ActiveStates THEN at ELSE 0
          /\ CompletedOnDisk' = Before \cup
               (IF f.steps[at].state = "completed" THEN {at} ELSE {})
      BY <1>2, <2>1, <3>1, HistoryAfter
    <3>3. QED
      BY <1>2, <1>3, <2>2, <3>2
  <2>4. Status = disk.state /\ CompletedOnDisk = Before
    BY HistoryBefore
  <2>5. History!End
    BY <2>3, <2>4 DEF History!End, History!Ends
  <2>6. ProgressInv'
    BY <1>5 DEF ProgressInv, Doing, Verifying
  <2>7. QED
    BY <2>3, <2>4, <2>5, <2>6 DEF Moves, Completes, History!Next
<1>6. QED
  BY <1>4, <1>5 DEF FinishFailure

\* A failed check of the preparation.
LEMMA PreparationMoves ==
    ASSUME HInv, pc \in Working, pc \in Doing, PreconditionFails
    PROVE  Moves
<1> DEFINE s == [Step EXCEPT !.precondition = "failed"]
<1>1. TypeOK /\ MemoryInv /\ disk.state = "running" /\ memory.state = "running"
      /\ Step.state = "running"
  BY DEF HInv, IInv, ProgressInv, MemoryInv
<1>2. Step \in StepRecords /\ ValidStep(Step)
  BY <1>1, CurrentStep
<1>3. s \in StepRecords /\ ValidStep(s)
  BY <1>1, <1>2 DEF StepRecords, CheckStates, ValidStep, Captured
<1> HIDE DEF s
<1>4. /\ WithStep(s) \in Records /\ ValidRecord(WithStep(s))
      /\ WithStep(s).state = "running"
      /\ \A j \in Positions \ {at} : WithStep(s).steps[j] = memory.steps[j]
  BY <1>1, <1>3, WithStepKeeps
<1>5. /\ "failed" \in History!Ends /\ "PRECONDITION_FAILED" \in Codes
      /\ ValidTransition("running", "failed")
  BY DEF History!Ends, Codes, ValidTransition
<1>6. FinishFailure(WithStep(s), "failed", "PRECONDITION_FAILED")
  BY DEF PreconditionFails, s
<1>7. QED
  BY <1>1, <1>4, <1>5, <1>6, FailureMoves

-----------------------------------------------------------------------------
(* One lemma per action that saves.                                        *)

\* The first record opens the history.
LEMMA AcceptMoves == ASSUME HInv, Accept PROVE Moves
<1>1. disk = NoRecord /\ pc = "idle"
  BY DEF Accept, HInv, IInv, DiskInv
<1>2. CASE pc' = "returned" /\ disk' = disk
  BY <1>2, DiskStays DEF ProgressInv, Doing, Verifying
<1>3. CASE Save(NewRecord) /\ pc' = "next"
  <2>1. disk' = NewRecord /\ disk' # NoRecord
    <3>1. IInv' /\ pc' \in Working
      BY <1>3, AcceptKeeps DEF HInv, Working, Labels
    <3>2. QED
      BY <1>3, <3>1, NoRecordAssumption DEF Save, IInv, DiskInv
  <2>2. \A i \in Positions : disk'.steps[i].state = "pending"
    BY <2>1 DEF NewRecord, NewStep
  <2>3. Status' = "pending"
    BY <2>1 DEF Status, NewRecord
  <2>4. InProgress' = 0
    BY <2>1, <2>2 DEF InProgress, ActiveStates
  <2>5. CompletedOnDisk' = {}
    BY <2>1, <2>2 DEF CompletedOnDisk
  <2>6. Status = "absent" /\ InProgress = 0 /\ CompletedOnDisk = {}
    BY <1>1 DEF Status, InProgress, CompletedOnDisk
  <2>7. History!Open
    BY <2>3, <2>4, <2>5, <2>6 DEF History!Open
  <2>8. ProgressInv'
    BY <1>3 DEF ProgressInv, Doing, Verifying
  <2>9. QED
    BY <2>5, <2>6, <2>7, <2>8 DEF Moves, Completes, History!Next
<1>4. QED
  BY <1>2, <1>3 DEF Accept

\* Cancelled between two actions.
LEMMA StopBeforeStepMoves == ASSUME HInv, StopBeforeStep PROVE Moves
<1>1. /\ pc = "next" /\ pc \in Working /\ memory \in Records
      /\ ValidRecord(memory) /\ disk = memory
      /\ memory.state \in {"pending", "running"}
  BY DEF StopBeforeStep, HInv, IInv, MemoryInv, DiskInv, Working, Labels,
         Unfinished, ActiveStates
<1>2. /\ "cancelled" \in History!Ends /\ "EXEC_CANCELLED" \in Codes
      /\ ValidTransition(memory.state, "cancelled")
      /\ FinishFailure(memory, "cancelled", "EXEC_CANCELLED")
  BY <1>1 DEF History!Ends, Codes, ValidTransition, StopBeforeStep
<1>3. QED
  BY <1>1, <1>2, FailureMoves

\* The next action begins, after the actions it depends on.
LEMMA StartStepMoves == ASSUME HInv, StartStep PROVE Moves
<1> DEFINE s == [Step EXCEPT !.state = "running", !.invoked = TRUE,
                             !.precondition = "pending",
                             !.verification = "not_run"]
           r == MoveTo(WithStep(s), "running")
<1>1. /\ pc = "next" /\ pc \in Working /\ at \in Positions
      /\ disk = memory /\ memory.state \in {"pending", "running"}
      /\ TypeOK /\ MemoryInv
  BY DEF StartStep, HInv, IInv, TypeOK, MemoryInv, DiskInv, Working, Labels,
         Unfinished, ActiveStates
<1>2. s \in StepRecords /\ s.state = "running"
  BY <1>1, CurrentStep
  DEF StepRecords, States, ActiveStates, CheckStates
<1>3. SaveThen(r, "preflight", at)
  BY DEF StartStep
<1> HIDE DEF s
<1>4. /\ r \in Records /\ r.state = "running" /\ r.steps[at] = s
      /\ \A j \in Positions \ {at} : r.steps[j] = memory.steps[j]
  BY <1>1, <1>2, Rewritten DEF States, ActiveStates
<1> HIDE DEF r
<1>5. CASE LogFailure(r)
  BY <1>5, LogFailureMoves
<1>6. CASE Save(r) /\ pc' = "preflight" /\ at' = at
  <2>1. disk' = r
    BY <1>6 DEF Save
  <2>2. Status' = "running" /\ InProgress' = at /\ CompletedOnDisk' = Before
    BY <1>1, <1>2, <1>4, <2>1, HistoryAfter DEF ActiveStates
  <2>3. /\ Status \in {"pending", "running"} /\ InProgress = 0
        /\ CompletedOnDisk = Before
    BY <1>1, HistoryBefore
  <2>4. at \in 1..N /\ at \notin Before /\ Dependencies[at] \subseteq Before
    BY <1>1, DependencyAssumption DEF Before, Positions
  <2>5. History!Begin(at)
    BY <2>2, <2>3, <2>4 DEF History!Begin
  <2>6. ProgressInv'
    BY <1>4, <1>6, <2>1 DEF ProgressInv, Verifying
  <2>7. QED
    BY <2>2, <2>3, <2>4, <2>5, <2>6
    DEF Moves, Completes, History!Next, History!Actions
<1>7. QED
  BY <1>3, <1>5, <1>6 DEF SaveThen

\* Checks and snapshots are not seen.
LEMMA PreflightMoves == ASSUME HInv, Preflight PROVE Moves
<1>1. /\ pc = "preflight" /\ pc \in Working /\ pc \in Doing
      /\ disk.state = "running"
  BY DEF Preflight, Working, Labels, Doing, HInv, ProgressInv, Verifying
<1>2. CASE PreconditionFails
  BY <1>1, <1>2, PreparationMoves
<1>3. CASE pc' = "capture" /\ disk' = disk
  BY <1>1, <1>3, DiskStays DEF ProgressInv, Verifying
<1>4. QED
  BY <1>2, <1>3 DEF Preflight

LEMMA CaptureBeforeMoves == ASSUME HInv, CaptureBefore PROVE Moves
<1> DEFINE s == [Step EXCEPT !.before =
                   IF at \in Captures THEN env[at] ELSE @]
           r == WithStep(s)
<1>1. /\ pc = "capture" /\ pc \in Working /\ pc \in Doing
      /\ disk.state = "running" /\ memory.state = "running"
      /\ Step.state = "running" /\ TypeOK /\ MemoryInv
  BY DEF CaptureBefore, Working, Labels, Doing, HInv, IInv, MemoryInv,
         ProgressInv
<1>2. Step \in StepRecords /\ env[at] \in Snapshots
  BY <1>1, CurrentStep
<1>3. s \in StepRecords /\ s.state = "running"
  BY <1>1, <1>2 DEF StepRecords
<1>4. CASE PreconditionFails
  BY <1>1, <1>4, PreparationMoves
<1>5. CASE SaveThen(r, "satisfied", at)
  <2> HIDE DEF s
  <2>1. /\ r \in Records /\ r.state = "running" /\ r.steps[at] = s
        /\ \A j \in Positions \ {at} : r.steps[j] = memory.steps[j]
    BY <1>1, <1>3, Rewritten DEF States
  <2> HIDE DEF r
  <2>2. CASE LogFailure(r)
    BY <2>2, LogFailureMoves
  <2>3. CASE Save(r) /\ pc' = "satisfied" /\ at' = at
    <3>1. disk' = r
      BY <2>3 DEF Save
    <3>2. Status' = "running" /\ InProgress' = at /\ CompletedOnDisk' = Before
      BY <1>1, <1>3, <2>1, <3>1, HistoryAfter DEF ActiveStates
    <3>3. /\ Status = "running" /\ InProgress = at
          /\ CompletedOnDisk = Before
      BY <1>1, HistoryBefore
    <3>4. ProgressInv'
      BY <2>1, <2>3, <3>1 DEF ProgressInv, Verifying
    <3>5. QED
      BY <3>2, <3>3, <3>4 DEF Moves, Completes, History!record
  <2>4. QED
    BY <1>5, <2>2, <2>3 DEF SaveThen
<1>6. QED
  BY <1>4, <1>5 DEF CaptureBefore

\* The process failed.
LEMMA FinishFailedProcessMoves == ASSUME HInv, FinishFailedProcess PROVE Moves
<1>1. /\ TypeOK /\ MemoryInv /\ pc = "capture_failed" /\ pc \in Working
      /\ memory.state = "running" /\ disk.state = "running"
      /\ Step.after = NoSnapshot
  BY DEF FinishFailedProcess, HInv, IInv, MemoryInv, ProgressInv, Working,
         Labels, Doing
<1>2. /\ Step \in StepRecords /\ ValidStep(Step) /\ env[at] \in Facts
  BY <1>1, CurrentStep
<1>3. PICK s \in {Step} \cup
                 (IF at \in Captures THEN {WithAfter(Step, env[at])} ELSE {}) :
        FinishFailure(WithStep(s), FailureState(failure), failure)
  BY DEF FinishFailedProcess
<1>4. s \in StepRecords /\ ValidStep(s)
  <2>1. CASE s = Step
    BY <1>2, <2>1
  <2>2. CASE s = WithAfter(Step, env[at])
    BY <1>1, <1>2, <2>2, WithAfterKeeps
  <2>3. QED
    BY <2>1, <2>2
<1>5. /\ WithStep(s) \in Records /\ ValidRecord(WithStep(s))
      /\ WithStep(s).state = "running"
      /\ \A j \in Positions \ {at} : WithStep(s).steps[j] = memory.steps[j]
  BY <1>1, <1>4, WithStepKeeps
<1>6. /\ FailureState(failure) \in History!Ends /\ failure \in Codes
      /\ ValidTransition("running", FailureState(failure))
  BY <1>1 DEF FailureState, History!Ends, ValidTransition, TypeOK
<1>7. QED
  BY <1>1, <1>3, <1>5, <1>6, FailureMoves

\* The action is to be verified, or its state could not be captured.
LEMMA CaptureAfterMoves == ASSUME HInv, CaptureAfter PROVE Moves
<1> DEFINE v == [Step EXCEPT !.state = "verifying",
                             !.verification = "pending"]
           c == IF at \in Captures THEN WithAfter(v, env[at]) ELSE v
           f == [v EXCEPT !.verification = "failed"]
           r == MoveTo(WithStep(c), "verifying")
           q == MoveTo(WithStep(f), "verifying")
<1>1. /\ TypeOK /\ MemoryInv /\ pc = "capture_after" /\ pc \in Working
      /\ memory.state = "running" /\ disk.state = "running"
  BY DEF CaptureAfter, HInv, IInv, MemoryInv, ProgressInv, Working, Labels,
         Doing
<1>2. /\ Step \in StepRecords /\ ValidStep(Step) /\ Step.state = "running"
      /\ Step.after = NoSnapshot /\ env[at] \in Facts
  BY <1>1, CurrentStep DEF MemoryInv, Doing
<1>3. /\ v \in StepRecords /\ ValidStep(v) /\ v.state = "verifying"
      /\ v.after = NoSnapshot
  BY <1>2 DEF StepRecords, States, ActiveStates, CheckStates, ValidStep,
              Captured, TerminalStates
<1> HIDE DEF v
<1>4. f \in StepRecords /\ ValidStep(f)
  BY <1>3 DEF StepRecords, CheckStates, ValidStep, Captured, TerminalStates
<1>5. c \in StepRecords /\ c.state = "verifying"
  BY <1>2, <1>3, WithAfterKeeps
<1> HIDE DEF f, c
<1>6. CASE FinishFailure(q, "failed", "VERIFY_FAILED")
  <2>1. /\ WithStep(f) \in Records /\ ValidRecord(WithStep(f))
        /\ WithStep(f).state = "running"
    BY <1>1, <1>4, WithStepKeeps
  <2>2. /\ ValidTransition("running", "verifying")
        /\ "verifying" \in States \ TerminalStates
    BY DEF ValidTransition, States, ActiveStates, TerminalStates
  <2>3. /\ q \in Records /\ ValidRecord(q) /\ q.state = "verifying"
        /\ \A j \in Positions \ {at} : q.steps[j] = memory.steps[j]
    BY <1>1, <1>4, <2>1, <2>2, MoveToKeeps, Rewritten
  <2>4. /\ "failed" \in History!Ends /\ "VERIFY_FAILED" \in Codes
        /\ ValidTransition("verifying", "failed")
    BY DEF History!Ends, Codes, ValidTransition
  <2> HIDE DEF q
  <2>5. QED
    BY <1>1, <1>6, <2>3, <2>4, FailureMoves
<1>7. CASE SaveThen(r, "verify", at)
  <2>1. /\ r \in Records /\ r.state = "verifying" /\ r.steps[at] = c
        /\ \A j \in Positions \ {at} : r.steps[j] = memory.steps[j]
    BY <1>1, <1>5, Rewritten DEF States, ActiveStates
  <2> HIDE DEF r
  <2>2. CASE LogFailure(r)
    BY <2>2, LogFailureMoves
  <2>3. CASE Save(r) /\ pc' = "verify" /\ at' = at
    <3>1. disk' = r
      BY <2>3 DEF Save
    <3>2. /\ Status' = "verifying" /\ InProgress' = at
          /\ CompletedOnDisk' = Before
      BY <1>1, <1>5, <2>1, <3>1, HistoryAfter DEF ActiveStates
    <3>3. /\ Status = "running" /\ InProgress = at /\ at # 0
          /\ CompletedOnDisk = Before
      BY <1>1, HistoryBefore DEF Positions
    <3>4. History!Verify
      BY <3>2, <3>3 DEF History!Verify
    <3>5. ProgressInv'
      BY <2>1, <2>3, <3>1 DEF ProgressInv, Doing, Verifying
    <3>6. QED
      BY <3>2, <3>3, <3>4, <3>5 DEF Moves, Completes, History!Next
  <2>4. QED
    BY <1>7, <2>2, <2>3 DEF SaveThen
<1>8. QED
  BY <1>6, <1>7 DEF CaptureAfter, c, v, f

\* The verification failed.
LEMMA VerifyFailsMoves == ASSUME HInv, VerifyFails PROVE Moves
<1> DEFINE s == [Step EXCEPT !.verification = "failed"]
<1>1. /\ TypeOK /\ MemoryInv /\ pc = "verify" /\ pc \in Working
      /\ memory.state = "verifying" /\ Step.state = "verifying"
      /\ disk.state = "verifying"
  BY DEF VerifyFails, HInv, IInv, MemoryInv, ProgressInv, Verifying, Working,
         Labels
<1>2. s \in StepRecords /\ ValidStep(s)
  <2>1. Step \in StepRecords /\ ValidStep(Step)
    BY <1>1, CurrentStep
  <2>2. QED
    BY <1>1, <2>1 DEF StepRecords, CheckStates, ValidStep, Captured
<1> HIDE DEF s
<1>3. /\ WithStep(s) \in Records /\ ValidRecord(WithStep(s))
      /\ WithStep(s).state = "verifying"
      /\ \A j \in Positions \ {at} : WithStep(s).steps[j] = memory.steps[j]
  BY <1>1, <1>2, WithStepKeeps
<1>4. /\ "failed" \in History!Ends /\ "VERIFY_FAILED" \in Codes
      /\ ValidTransition("verifying", "failed")
  BY DEF History!Ends, Codes, ValidTransition
<1>5. FinishFailure(WithStep(s), "failed", "VERIFY_FAILED")
  BY DEF VerifyFails, s
<1>6. QED
  BY <1>1, <1>3, <1>4, <1>5, FailureMoves

\* The one action that completes another action, and the operation with the
\* last of them.
LEMMA SaveCompletionMoves == ASSUME HInv, SaveCompletion PROVE Moves
<1> DEFINE w == WithStep(CompletedStep)
           r == MoveTo(w, "running")
           m == MoveTo(w, "completed")
           q == [m EXCEPT !.finished = TRUE]
<1>1. /\ TypeOK /\ MemoryInv /\ pc = "verified" /\ pc \in Working
      /\ disk.state = "verifying" /\ at \in Positions
  BY DEF SaveCompletion, HInv, IInv, TypeOK, ProgressInv, Verifying, Working,
         Labels
<1>2. CompletedStep \in StepRecords /\ CompletedStep.state = "completed"
  BY <1>1, CurrentStep
  DEF CompletedStep, StepRecords, States, TerminalStates, CheckStates
<1>3. /\ r \in Records /\ r.state = "running" /\ r.steps[at] = CompletedStep
      /\ \A j \in Positions \ {at} : r.steps[j] = memory.steps[j]
  BY <1>1, <1>2, Rewritten DEF States, ActiveStates
<1>4. /\ m \in Records /\ m.state = "completed"
      /\ m.steps[at] = CompletedStep
      /\ \A j \in Positions \ {at} : m.steps[j] = memory.steps[j]
  BY <1>1, <1>2, Rewritten DEF States, TerminalStates
<1> HIDE DEF m
<1>5. /\ q \in Records /\ q.state = "completed"
      /\ q.steps[at] = CompletedStep
      /\ \A j \in Positions \ {at} : q.steps[j] = memory.steps[j]
  BY <1>4 DEF Records
<1>6. /\ Status = "verifying" /\ InProgress = at /\ CompletedOnDisk = Before
  BY <1>1, HistoryBefore
<1> HIDE DEF r, q
<1>7. CASE LogFailure(r) \/ LogFailure(q)
  BY <1>7, LogFailureMoves
<1>8. ASSUME CompletedOnDisk' = Before \cup {at}
      PROVE  Completes
  BY <1>1, <1>6, <1>8 DEF Completes
<1>9. CASE at < N /\ Save(r) /\ pc' = "next"
  <2>1. disk' = r
    BY <1>9 DEF Save
  <2>2. /\ Status' = "running" /\ InProgress' = 0
        /\ CompletedOnDisk' = Before \cup {at}
    BY <1>1, <1>2, <1>3, <2>1, HistoryAfter DEF ActiveStates
  <2>3. Before \cup {at} # 1..N
    <3>1. N \in 1..N /\ N # at /\ N \notin Before
      BY <1>1, <1>9, StepCountAssumption DEF Before, Positions
    <3>2. QED
      BY <3>1
  <2>4. History!Finish
    BY <1>6, <2>2, <2>3 DEF History!Finish, History!Actions
  <2>5. ProgressInv'
    BY <1>9 DEF ProgressInv, Doing, Verifying
  <2>6. QED
    BY <1>8, <2>2, <2>4, <2>5 DEF Moves, History!Next
<1>10. CASE ~(at < N) /\ Save(q) /\ pc' = "returned"
  <2>1. disk' = q
    BY <1>10 DEF Save
  <2>2. /\ Status' = "completed" /\ InProgress' = 0
        /\ CompletedOnDisk' = Before \cup {at}
    BY <1>1, <1>2, <1>5, <2>1, HistoryAfter DEF ActiveStates
  <2>3. Before \cup {at} = 1..N
    BY <1>1, <1>10, StepCountAssumption DEF Before, Positions
  <2>4. History!Finish
    BY <1>6, <2>2, <2>3 DEF History!Finish, History!Actions
  <2>5. ProgressInv'
    BY <1>10 DEF ProgressInv, Doing, Verifying
  <2>6. QED
    BY <1>8, <2>2, <2>4, <2>5 DEF Moves, History!Next
<1>11. QED
  BY <1>7, <1>9, <1>10 DEF SaveCompletion, SaveThen, r, q, m

\* Recovering a record that was left active ends its history.
LEMMA RecoverMoves == ASSUME HInv, Recover PROVE Moves
<1>1. /\ disk \in Records /\ disk # NoRecord /\ disk.state \in ActiveStates
      /\ disk' = Interrupted(disk) /\ pc' = pc /\ pc \in Killed \cup {"returned"}
  BY DEF Recover, HInv, IInv, TypeOK, executing
<1>2. /\ disk' \in Records /\ disk' # NoRecord /\ disk'.state = "interrupted"
      /\ \A j \in Positions : disk'.steps[j] = InterruptedStep(disk.steps[j])
  BY <1>1, InterruptedKeeps, NoRecordAssumption
<1>3. ASSUME NEW j \in Positions
      PROVE  /\ disk'.steps[j].state \notin ActiveStates
             /\ disk'.steps[j].state = "completed"
                  <=> disk.steps[j].state = "completed"
  <2>1. disk.steps[j] \in StepRecords
    BY <1>1 DEF Records
  <2>2. QED
    BY <1>2, <2>1, InterruptedStepKeeps DEF ActiveStates
<1>4. Status' = "interrupted" /\ InProgress' = 0
  BY <1>2, <1>3 DEF Status, InProgress
<1>5. CompletedOnDisk' = CompletedOnDisk
  BY <1>1, <1>2, <1>3 DEF CompletedOnDisk
<1>6. Status \in {"running", "verifying"}
  BY <1>1 DEF Status, ActiveStates
<1>7. History!End
  BY <1>4, <1>5, <1>6 DEF History!End, History!Ends
<1>8. ProgressInv'
  BY <1>1 DEF ProgressInv, Doing, Verifying, Killed
<1>9. QED
  BY <1>5, <1>7, <1>8 DEF Moves, Completes, History!Next

-----------------------------------------------------------------------------
(* The rest, which nobody who reads the disk sees.                         *)

LEMMA UnseenMoves ==
    ASSUME HInv,
           \/ CheckSatisfied \/ LaunchProcess \/ ProcessNotStarted
           \/ ProcessSucceeds \/ ProcessFails \/ ProcessWrites \/ OrphanEnds
           \/ VerifyPasses \/ Crash \/ Cancel \/ EnvironmentChanges
           \/ UNCHANGED vars
    PROVE  Moves
<1>1. CASE CheckSatisfied
  <2>1. pc = "satisfied" /\ pc \in Working /\ pc \in Doing
        /\ disk.state = "running"
    BY <1>1 DEF CheckSatisfied, Working, Labels, Doing, HInv, ProgressInv, Verifying
  <2>2. CASE PreconditionFails
    BY <2>1, <2>2, PreparationMoves
  <2>3. CASE disk' = disk /\ pc' \in {"capture_after", "run"}
    BY <2>1, <2>3, DiskStays DEF ProgressInv, Verifying
  <2>4. QED
    BY <1>1, <2>2, <2>3 DEF CheckSatisfied
<1>2. CASE LaunchProcess \/ ProcessNotStarted \/ ProcessSucceeds
           \/ ProcessFails
  <2>1. /\ pc \in Doing /\ disk' = disk
        /\ pc' \in {"process", "capture_failed", "capture_after"}
    BY <1>2
    DEF LaunchProcess, ProcessNotStarted, ProcessSucceeds, ProcessFails, Doing
  <2>2. ProgressInv'
    BY <2>1 DEF HInv, ProgressInv, Verifying
  <2>3. QED
    BY <2>1, <2>2, DiskStays
<1>3. CASE ProcessWrites \/ Cancel \/ EnvironmentChanges \/ UNCHANGED vars
  <2>1. disk' = disk /\ pc' = pc
    BY <1>3
    DEF ProcessWrites, Cancel, EnvironmentChanges, vars, executing
  <2>2. ProgressInv'
    BY <2>1 DEF HInv, ProgressInv, Verifying
  <2>3. QED
    BY <2>1, <2>2, DiskStays
<1>4. CASE OrphanEnds \/ Crash
  <2>1. disk' = disk /\ pc' \in Killed
    BY <1>4 DEF OrphanEnds, Crash, Killed
  <2>2. ProgressInv'
    BY <2>1 DEF ProgressInv, Doing, Verifying, Killed
  <2>3. QED
    BY <2>1, <2>2, DiskStays
<1>5. CASE VerifyPasses
  <2>1. disk' = disk /\ pc = "verify" /\ pc' = "verified"
    BY <1>5 DEF VerifyPasses
  <2>2. ProgressInv'
    BY <2>1 DEF HInv, ProgressInv, Doing, Verifying
  <2>3. QED
    BY <2>1, <2>2, DiskStays
<1>6. QED
  BY <1>1, <1>2, <1>3, <1>4, <1>5

LEMMA NextMoves == HInv /\ [Next]_vars => Moves
<1> SUFFICES ASSUME HInv, [Next]_vars PROVE Moves
  OBVIOUS
<1>1. CASE Accept
  BY <1>1, AcceptMoves
<1>2. CASE Work
  <2>1. CASE StopBeforeStep \/ StartStep \/ Preflight \/ CaptureBefore
    BY <2>1, StopBeforeStepMoves, StartStepMoves, PreflightMoves,
       CaptureBeforeMoves
  <2>2. CASE CheckSatisfied \/ LaunchProcess \/ ProcessNotStarted
             \/ ProcessSucceeds \/ ProcessFails \/ VerifyPasses
    BY <2>2, UnseenMoves
  <2>3. CASE FinishFailedProcess \/ CaptureAfter \/ VerifyFails
             \/ SaveCompletion
    BY <2>3, FinishFailedProcessMoves, CaptureAfterMoves, VerifyFailsMoves,
       SaveCompletionMoves
  <2>4. QED
    BY <1>2, <2>1, <2>2, <2>3 DEF Work
<1>3. CASE Recover
  BY <1>3, RecoverMoves
<1>4. CASE ProcessWrites \/ OrphanEnds \/ Crash \/ Cancel
           \/ EnvironmentChanges \/ UNCHANGED vars
  BY <1>4, UnseenMoves
<1>5. QED
  BY <1>1, <1>2, <1>3, <1>4 DEF Next

LEMMA InitMaps == Init => HInv /\ History!Init
<1> SUFFICES ASSUME Init PROVE ProgressInv /\ History!Init
  BY InitEstablishes DEF HInv
<1>1. History!Init
  BY DEF Init, History!Init, Status, InProgress, CompletedOnDisk
<1>2. ProgressInv
  BY DEF Init, ProgressInv, Doing, Verifying
<1>3. QED
  BY <1>1, <1>2

LEMMA HistoryInvariant == Spec => []HInv
<1>1. HInv /\ [Next]_vars => HInv'
  BY NextKeeps, NextMoves DEF HInv, Moves
<1>2. QED
  BY <1>1, InitMaps, PTL DEF Spec

\* Refinement: whatever the Plan, wherever the executor is killed and whatever
\* save fails, a reader of the disk sees a history that opens, begins its
\* actions one at a time after those they depend on, counts one as done only
\* after its verification, and ends once.
THEOREM DiskIsAHistory == Spec => ImplementsHistory
<1>1. HInv /\ [Next]_vars => [History!Next]_(History!record)
  BY NextMoves DEF Moves
<1>2. Init => History!Init
  BY InitMaps
<1>3. QED
  BY <1>1, <1>2, HistoryInvariant, PTL DEF Spec, ImplementsHistory, History!Spec

-----------------------------------------------------------------------------
(***************************************************************************)
(* What a completed step is worth.  The facts of a step can be changed by  *)
(* its own process, which must be over before the step is verified, and by *)
(* other programs.                                                         *)
(***************************************************************************)

\* A verification that is not saved yet holds as a saved one does, and a
\* process that outlives its executor belongs to a step that is not completed.
FactsInv ==
    /\ CompletionIsVerified
    /\ pc = "verified" => env[at] = Target \/ at \in disturbed
    /\ pc = "orphaned" => at \notin CompletedOnDisk

\* The step under way is not completed on disk.
LEMMA UnderWay ==
    ASSUME HInv, pc \in Working
    PROVE  at \notin CompletedOnDisk
<1>1. CompletedOnDisk = Before /\ at \in Positions
  BY HistoryBefore
<1>2. QED
  BY <1>1 DEF Before, Positions

\* A completion that is saved has been verified, if nothing moves meanwhile.
LEMMA FactsStay ==
    ASSUME HInv, FactsInv, Completes, UNCHANGED <<env, disturbed>>
    PROVE  CompletionIsVerified'
BY DEF FactsInv, Completes, CompletionIsVerified

LEMMA FactsKept ==
    ASSUME HInv, FactsInv, [Next]_vars
    PROVE  FactsInv'
<1>1. Completes
  BY NextMoves DEF Moves
<1>2. CASE Accept \/ (Work /\ ~VerifyPasses)
  <2>1. UNCHANGED <<env, disturbed>>
    BY <1>2
    DEF Work, Accept, StopBeforeStep, StartStep, Preflight, CaptureBefore,
        CheckSatisfied, LaunchProcess, ProcessNotStarted, ProcessSucceeds,
        ProcessFails, FinishFailedProcess, CaptureAfter, VerifyFails,
        SaveCompletion, UnchangedWorld
  <2>2. pc' \notin {"verified", "orphaned"}
    BY <1>2
    DEF Work, Accept, StopBeforeStep, StartStep, Preflight, CaptureBefore,
        CheckSatisfied, LaunchProcess, ProcessNotStarted, ProcessSucceeds,
        ProcessFails, FinishFailedProcess, CaptureAfter, VerifyFails,
        SaveCompletion, PreconditionFails, FinishFailure, SaveThen, LogFailure
  <2>3. QED
    BY <1>1, <2>1, <2>2, FactsStay DEF FactsInv
<1>3. CASE VerifyPasses
  <2>1. /\ pc = "verify" /\ pc \in Working /\ pc' = "verified"
        /\ env[at] = Target /\ UNCHANGED <<at, disk, env>>
        /\ disturbed' = disturbed \ {at}
    BY <1>3 DEF VerifyPasses, Working, Labels
  <2>2. at \notin CompletedOnDisk /\ CompletedOnDisk' = CompletedOnDisk
    BY <2>1, UnderWay DEF CompletedOnDisk
  <2>3. QED
    BY <2>1, <2>2 DEF FactsInv, CompletionIsVerified
<1>4. CASE ProcessWrites
  <2>1. /\ pc \in {"process", "orphaned"} /\ UNCHANGED <<pc, at, disk, disturbed>>
        /\ \A i \in Positions : i # at => env'[i] = env[i]
    BY <1>4 DEF ProcessWrites, executing, history, HInv, IInv, TypeOK
  <2>2. at \notin CompletedOnDisk /\ CompletedOnDisk' = CompletedOnDisk
    BY <2>1, UnderWay DEF CompletedOnDisk, FactsInv, Working, Labels
  <2>3. CompletedOnDisk \subseteq Positions
    BY DEF CompletedOnDisk
  <2>4. QED
    BY <2>1, <2>2, <2>3 DEF FactsInv, CompletionIsVerified
<1>5. CASE EnvironmentChanges
  <2>1. UNCHANGED <<pc, at, disk>> /\ at \in Positions
    BY <1>5 DEF EnvironmentChanges, executing, HInv, IInv, TypeOK
  <2>2. PICK k \in Positions : /\ disturbed' = disturbed \cup {k}
                               /\ \A i \in Positions : i # k => env'[i] = env[i]
    BY <1>5 DEF EnvironmentChanges, HInv, IInv, TypeOK
  <2>3. CompletedOnDisk' = CompletedOnDisk /\ CompletedOnDisk \subseteq Positions
    BY <2>1 DEF CompletedOnDisk
  <2>4. QED
    BY <2>1, <2>2, <2>3 DEF FactsInv, CompletionIsVerified
<1>6. CASE Recover \/ Cancel \/ UNCHANGED vars
  <2>1. UNCHANGED <<pc, at, env, disturbed>>
    BY <1>6 DEF Recover, Cancel, vars, executing, history
  <2>2. pc = "orphaned" => CompletedOnDisk' \subseteq CompletedOnDisk
    BY <1>1 DEF Completes
  <2>3. QED
    BY <1>1, <2>1, <2>2, FactsStay DEF FactsInv
<1>7. CASE Crash \/ OrphanEnds
  <2>1. /\ UNCHANGED <<at, disk, env, disturbed>> /\ pc' \in Killed
        /\ pc' = "orphaned" => pc = "process"
    BY <1>7 DEF Crash, OrphanEnds, history, Killed
  <2>2. pc' = "orphaned" => at \notin CompletedOnDisk
    BY <2>1, UnderWay DEF Working, Labels
  <2>3. CompletedOnDisk' = CompletedOnDisk
    BY <2>1 DEF CompletedOnDisk
  <2>4. QED
    BY <1>1, <2>1, <2>2, <2>3, FactsStay DEF FactsInv, Killed
<1>8. QED
  BY <1>2, <1>3, <1>4, <1>5, <1>6, <1>7 DEF Next

\* For every Plan and every set of facts, nothing that an operation does on
\* its own takes a completed step from its target: if its facts are not there,
\* another program has changed them since they were verified.
THEOREM CompletionsAreVerified == Spec => []CompletionIsVerified
<1>1. Init => FactsInv
  BY DEF Init, FactsInv, CompletionIsVerified, CompletedOnDisk
<1>2. HInv /\ FactsInv /\ [Next]_vars => FactsInv'
  BY FactsKept
<1>3. FactsInv => CompletionIsVerified
  BY DEF FactsInv
<1>4. QED
  BY <1>1, <1>2, <1>3, HistoryInvariant, PTL DEF Spec
=============================================================================
