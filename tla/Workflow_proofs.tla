--------------------------- MODULE Workflow_proofs ---------------------------
(***************************************************************************)
(* The safety of the staged workflow for every number of stages, every     *)
(* clock and every number of operations.  The first part is about the      *)
(* Workflow Record alone: each of its transitions leads from a valid       *)
(* record to a valid one.  The second part is the inductive invariant that *)
(* ties the record, the prepared stage and the Operation Records together. *)
(***************************************************************************)
EXTENDS Workflow, SequenceTheorems, WellFoundedInduction, TLAPS

StageRecords ==
    [state: StageStates, plan: PlanIDs \cup {None}, operation: Nat \cup {None},
     digest: Operations \cup {None}, started: Nat \cup {None},
     finished: Nat \cup {None}]

Transitions ==
    [stage: Stages, from: StageStates, to: StageStates, workflow: WorkflowStates,
     at: Nat]

Records ==
    [created: Nat, updated: Nat, state: WorkflowStates, started: Nat \cup {None},
     finished: Nat \cup {None}, transitions: Seq(Transitions),
     stages: [Stages -> StageRecords]]

-----------------------------------------------------------------------------
(* What makes a Workflow Record valid, in the parts that a step rebuilds.  *)

States(r) == [i \in Stages |-> r.stages[i].state]

\* The stages before i are completed and those after it are pending.
At(states, i) ==
    /\ \A j \in 1..(i - 1) : states[j] = "completed"
    /\ \A j \in (i + 1)..Last : states[j] = "pending"

\* The history leads to the states and the instants of the stages.
Replays(r) ==
    LET last == Len(r.transitions)
    IN  /\ \A n \in 1..last : ValidTransition(r, n)
        /\ r.updated = IF last = 0 THEN r.created ELSE r.transitions[last].at
        /\ States(r) = Replayed(r, last)
        /\ r.state = StateFromStages(States(r))
        /\ \A i \in Stages :
             /\ r.stages[i].started = TimeOf(r, i, {"running"})
             /\ r.stages[i].finished = TimeOf(r, i, TerminalStates)

\* Every stage has the IDs that its state demands, and its own Plan.
Binds(r) ==
    /\ \A i \in Stages : /\ ValidBinding(r.stages[i])
                         /\ r.stages[i].plan # None => r.stages[i].plan.stage = i
    /\ Distinct(r, [i \in Stages |-> r.stages[i].operation])

StartsOf(r) == {k \in 1..Len(r.transitions) : r.transitions[k].to = "running"}

FirstStart(r) ==
    IF StartsOf(r) = {} THEN None
    ELSE r.transitions[CHOOSE k \in StartsOf(r) : \A j \in StartsOf(r) : k <= j].at

\* A record whose stage i is the one the workflow is at, up to the instants
\* of the workflow.
Core(r, i) ==
    /\ r \in Records /\ i \in Stages
    /\ At(States(r), i)
    /\ Replays(r) /\ Binds(r)

Well(r, i) ==
    /\ Core(r, i)
    /\ r.started = FirstStart(r)
    /\ r.finished = IF r.state \in TerminalStates THEN r.updated ELSE None
    /\ Len(r.transitions) > 0

-----------------------------------------------------------------------------
(* Sets of positions.                                                      *)

\* A set of numbers that is not empty has a least one.
LEMMA Least ==
    ASSUME NEW S \in SUBSET Nat, S # {}
    PROVE  \E k \in S : \A j \in S : k <= j
<1> DEFINE R == OpToRel(<, Nat)
<1>1. IsWellFoundedOn(R, Nat)
  BY NatLessThanWellFounded
<1>2. \A x, y \in Nat : x < y => <<x, y>> \in R
  BY DEF OpToRel
<1> HIDE DEF R
<1>3. PICK k \in S : \A y \in S : ~(<<y, k>> \in R)
  BY <1>1, WFMin
<1>4. \A j \in S : ~(j < k) /\ j \in Nat /\ k \in Nat
  BY <1>2, <1>3
<1>5. \A j \in S : k <= j
  BY <1>4
<1>6. QED
  BY <1>5

\* A set of numbers up to n that is not empty has a greatest one.
LEMMA Greatest ==
    ASSUME NEW n \in Nat, NEW S \in SUBSET (1..n), S # {}
    PROVE  \E k \in S : \A j \in S : j <= k
<1> DEFINE D == {n - k : k \in S}
<1>1. \A k \in S : k \in 1..n /\ n - k \in Nat
  OBVIOUS
<1>2. D \in SUBSET Nat /\ D # {}
  BY <1>1
<1>3. PICK d \in D : \A e \in D : d <= e
  <2> HIDE DEF D
  <2> QED
    BY <1>2, Least
<1>4. PICK k \in S : d = n - k
  BY <1>3
<1>5. \A j \in S : n - k <= n - j
  BY <1>3, <1>4
<1>6. \A j \in S : j <= k
  BY <1>1, <1>5
<1>7. QED
  BY <1>6

-----------------------------------------------------------------------------
(* The state of a workflow.                                                *)

\* At most one stage is neither completed nor pending, so it decides.
LEMMA StateIsDecided ==
    ASSUME NEW states \in [Stages -> StageStates], NEW i \in Stages, At(states, i)
    PROVE  /\ states[i] \in AbnormalStates => StateFromStages(states) = states[i]
           /\ states[i] = "running" => StateFromStages(states) = "running"
           /\ states[i] = "completed" =>
                StateFromStages(states) = IF i = Last THEN "completed" ELSE "pending"
           /\ states[i] \in {"pending", "ready", "planned"} =>
                StateFromStages(states) = "pending"
           /\ StateFromStages(states) \in WorkflowStates
<1>1. /\ Last \in Nat /\ i \in 1..Last
      /\ \A j \in Stages : j # i => states[j] \in {"completed", "pending"}
      /\ \A j \in Stages : j < i => states[j] = "completed"
      /\ \A j \in Stages : j > i => states[j] = "pending"
  BY StageAssumption DEF At, Stages
<1>2. states[i] \in StageStates
  OBVIOUS
<1>3. CASE states[i] \in AbnormalStates
  <2>1. \A j \in Stages : states[j] \in AbnormalStates => j = i
    BY <1>1 DEF AbnormalStates
  <2>2. \A j \in 1..(i - 1) : states[j] \notin AbnormalStates
    BY <1>1, <2>1 DEF Stages
  <2>3. (CHOOSE k \in Stages : /\ states[k] \in AbnormalStates
                               /\ \A j \in 1..(k - 1) : states[j] \notin AbnormalStates)
          = i
    BY <1>3, <2>1, <2>2
  <2>4. StateFromStages(states) = states[i]
    BY <1>3, <2>3 DEF StateFromStages
  <2>5. QED
    BY <1>3, <2>4 DEF AbnormalStates, WorkflowStates, TerminalStates
<1>4. CASE states[i] \notin AbnormalStates
  <2>1. \A j \in Stages : states[j] \notin AbnormalStates
    BY <1>1, <1>4 DEF AbnormalStates
  <2>2. CASE states[i] = "running"
    BY <2>1, <2>2 DEF StateFromStages, WorkflowStates, AbnormalStates
  <2>3. CASE states[i] # "running"
    <3>1. \A j \in Stages : states[j] # "running"
      BY <1>1, <2>3
    <3>2. StateFromStages(states) =
            IF \A j \in Stages : states[j] = "completed" THEN "completed" ELSE "pending"
      BY <2>1, <3>1 DEF StateFromStages
    <3>3. CASE states[i] = "completed" /\ i = Last
      <4>1. \A j \in Stages : states[j] = "completed"
        BY <1>1, <3>3 DEF Stages
      <4>2. QED
        BY <3>2, <3>3, <4>1 DEF WorkflowStates, TerminalStates, AbnormalStates
    <3>4. CASE states[i] = "completed" /\ i # Last
      <4>1. i + 1 \in Stages /\ i + 1 > i
        BY <1>1, <3>4 DEF Stages
      <4>2. states[i + 1] = "pending"
        BY <1>1, <4>1
      <4>3. StateFromStages(states) = "pending"
        BY <3>2, <4>1, <4>2
      <4>4. QED
        BY <3>4, <4>3 DEF WorkflowStates, AbnormalStates
    <3>5. CASE states[i] # "completed"
      BY <1>4, <2>3, <3>2, <3>5 DEF WorkflowStates
    <3>6. QED
      BY <3>3, <3>4, <3>5
  <2>4. QED
    BY <2>2, <2>3
<1>5. QED
  BY <1>3, <1>4

-----------------------------------------------------------------------------
(* One more transition.                                                    *)

\* The history of m is that of r and one more transition.
Prolongs(m, r, e) ==
    /\ r.transitions \in Seq(Transitions) /\ e \in Transitions
    /\ m.transitions = Append(r.transitions, e)

LEMMA OneMore ==
    ASSUME NEW m, NEW r, NEW e, Prolongs(m, r, e)
    PROVE  LET T == r.transitions
               U == m.transitions
           IN  /\ U \in Seq(Transitions) /\ Len(T) \in Nat
               /\ Len(U) = Len(T) + 1 /\ U[Len(T) + 1] = e
               /\ \A k \in 1..Len(T) : U[k] = T[k]
               /\ 1..Len(U) = 1..Len(T) \cup {Len(T) + 1}
<1> DEFINE T == r.transitions
           U == m.transitions
<1>1. T \in Seq(Transitions) /\ e \in Transitions /\ U = Append(T, e)
  BY DEF Prolongs
<1> HIDE DEF T, U
<1>2. Len(T) \in Nat /\ Len(U) = Len(T) + 1
  BY <1>1, AppendProperties, LenProperties
<1>3. 1..(Len(T) + 1) = 1..Len(T) \cup {Len(T) + 1}
  BY <1>2
<1>4. QED
  BY <1>1, <1>2, <1>3, AppendProperties DEF T, U

\* The states of the stages follow the last transition of each of them.
LEMMA ReplayOneMore ==
    ASSUME NEW r, NEW m, NEW e, Prolongs(m, r, e)
    PROVE  /\ \A n \in 0..Len(r.transitions) : Replayed(m, n) = Replayed(r, n)
           /\ \A i \in Stages :
                Replayed(m, Len(r.transitions) + 1)[i] =
                  IF i = e.stage THEN e.to ELSE Replayed(r, Len(r.transitions))[i]
<1> DEFINE T == r.transitions
           U == m.transitions
           last == Len(T)
           OwnT(n, i) == {k \in 1..n : r.transitions[k].stage = i}
           OwnU(n, i) == {k \in 1..n : m.transitions[k].stage = i}
           Latest(S) == CHOOSE k \in S : \A j \in S : j <= k
<1>1. /\ last \in Nat /\ Len(U) = last + 1 /\ U[last + 1] = e
      /\ \A k \in 1..last : U[k] = T[k]
  BY OneMore
<1>2. \A n : Replayed(r, n) = [i_ \in Stages |->
          IF OwnT(n, i_) = {} THEN "pending" ELSE T[Latest(OwnT(n, i_))].to]
  BY DEF Replayed
<1>3. \A n : Replayed(m, n) = [i_ \in Stages |->
          IF OwnU(n, i_) = {} THEN "pending" ELSE U[Latest(OwnU(n, i_))].to]
  BY DEF Replayed
<1>4. ASSUME NEW n \in 0..last, NEW i \in Stages
      PROVE  /\ OwnU(n, i) = OwnT(n, i)
             /\ OwnT(n, i) # {} => Latest(OwnT(n, i)) \in 1..last
  <2>1. OwnU(n, i) = OwnT(n, i)
    <3>1. \A k \in 1..n : k \in 1..last
      BY <1>1
    <3>2. \A k \in 1..n : U[k] = T[k]
      BY <1>1, <3>1
    <3>3. QED
      BY <3>2
  <2>2. ASSUME OwnT(n, i) # {}
        PROVE  Latest(OwnT(n, i)) \in 1..last
    <3>1. OwnT(n, i) \in SUBSET (1..last)
      BY <1>1
    <3> HIDE DEF OwnT
    <3>2. \E k \in OwnT(n, i) : \A j \in OwnT(n, i) : j <= k
      BY <1>1, <2>2, <3>1, Greatest
    <3>3. Latest(OwnT(n, i)) \in OwnT(n, i)
      BY <3>2
    <3>4. QED
      BY <3>1, <3>3
  <2>3. QED
    BY <2>1, <2>2
<1>5. ASSUME NEW i \in Stages
      PROVE  IF e.stage = i THEN /\ OwnU(last + 1, i) # {}
                                 /\ Latest(OwnU(last + 1, i)) = last + 1
             ELSE OwnU(last + 1, i) = OwnU(last, i)
  <2>1. OwnU(last + 1, i) = IF e.stage = i THEN OwnU(last, i) \cup {last + 1}
                                           ELSE OwnU(last, i)
    BY <1>1
  <2>2. CASE e.stage = i
    <3>1. last + 1 \in OwnU(last + 1, i)
      BY <2>1, <2>2
    <3>2. \A j \in OwnU(last + 1, i) : j \in Nat /\ j <= last + 1
      BY <1>1
    <3> HIDE DEF OwnU
    <3>3. \A k \in OwnU(last + 1, i) :
            (\A j \in OwnU(last + 1, i) : j <= k) <=> k = last + 1
      BY <1>1, <3>1, <3>2
    <3>4. Latest(OwnU(last + 1, i)) = last + 1
      BY <3>1, <3>3
    <3>5. QED
      BY <2>2, <3>1, <3>4
  <2>3. QED
    BY <2>1, <2>2
<1> HIDE DEF OwnT, OwnU, Latest
<1>6. ASSUME NEW n \in 0..last
      PROVE  Replayed(m, n) = Replayed(r, n)
  <2>1. ASSUME NEW i \in Stages
        PROVE  Replayed(m, n)[i] = Replayed(r, n)[i]
    BY <1>1, <1>2, <1>3, <1>4
  <2>2. QED
    BY <1>2, <1>3, <2>1
<1>7. ASSUME NEW i \in Stages
      PROVE  Replayed(m, last + 1)[i] = IF i = e.stage THEN e.to
                                        ELSE Replayed(r, last)[i]
  <2>1. Replayed(m, last + 1)[i] = IF i = e.stage THEN e.to ELSE Replayed(m, last)[i]
    BY <1>1, <1>3, <1>5
  <2>2. Replayed(m, last) = Replayed(r, last)
    BY <1>1, <1>6
  <2>3. QED
    BY <2>1, <2>2
<1>8. QED
  BY <1>6, <1>7

\* What a stage did first, and when, does not change.
LEMMA TimeOneMore ==
    ASSUME NEW r, NEW m, NEW e, Prolongs(m, r, e), NEW i, NEW states
    PROVE  /\ ~(e.stage = i /\ e.to \in states) =>
                TimeOf(m, i, states) = TimeOf(r, i, states)
           /\ e.stage = i /\ e.to \in states /\ TimeOf(r, i, states) = None =>
                TimeOf(m, i, states) = e.at
<1> DEFINE T == r.transitions
           U == m.transitions
           last == Len(T)
           OwnT == {k \in 1..Len(r.transitions) : r.transitions[k].stage = i
                                                  /\ r.transitions[k].to \in states}
           OwnU == {k \in 1..Len(m.transitions) : m.transitions[k].stage = i
                                                  /\ m.transitions[k].to \in states}
<1>1. /\ last \in Nat /\ Len(U) = last + 1 /\ U[last + 1] = e
      /\ \A k \in 1..last : U[k] = T[k]
      /\ 1..Len(U) = 1..last \cup {last + 1}
  BY OneMore
<1>2. /\ TimeOf(r, i, states) = IF OwnT = {} THEN None ELSE T[CHOOSE k \in OwnT : TRUE].at
      /\ TimeOf(m, i, states) = IF OwnU = {} THEN None ELSE U[CHOOSE k \in OwnU : TRUE].at
  BY DEF TimeOf
<1>3. OwnT \subseteq 1..last
  OBVIOUS
<1>4. /\ ~(e.stage = i /\ e.to \in states) => OwnU = OwnT
      /\ e.stage = i /\ e.to \in states => OwnU = OwnT \cup {last + 1}
  BY <1>1
<1>5. OwnT # {} => TimeOf(r, i, states) \in Nat
  <2> SUFFICES ASSUME OwnT # {} PROVE TimeOf(r, i, states) \in Nat
    OBVIOUS
  <2> DEFINE first == CHOOSE k \in OwnT : TRUE
  <2>1. first \in 1..last
    BY <1>3
  <2>2. T[first] \in Transitions
    BY <1>1, <2>1, ElementOfSeq DEF Prolongs
  <2>3. QED
    BY <1>2, <2>2 DEF Transitions
<1> HIDE DEF OwnT, OwnU
<1>6. CASE ~(e.stage = i /\ e.to \in states)
  <2>1. OwnU = OwnT
    BY <1>4, <1>6
  <2>2. CASE OwnT = {}
    BY <1>2, <1>6, <2>1, <2>2
  <2>3. CASE OwnT # {}
    <3>1. (CHOOSE k \in OwnT : TRUE) \in 1..last
      BY <1>3, <2>3
    <3>2. QED
      BY <1>1, <1>2, <1>6, <2>1, <2>3, <3>1
  <2>4. QED
    BY <2>2, <2>3
<1>7. CASE e.stage = i /\ e.to \in states /\ TimeOf(r, i, states) = None
  <2>1. OwnU = {last + 1}
    BY <1>4, <1>5, <1>7, UnsetInstantAssumption
  <2>2. QED
    BY <1>1, <1>2, <1>7, <2>1
<1>8. QED
  BY <1>6, <1>7

\* The instant of the first start is set once.
LEMMA FirstStartOneMore ==
    ASSUME NEW r, NEW m, NEW e, Prolongs(m, r, e)
    PROVE  FirstStart(m) = IF e.to = "running" /\ FirstStart(r) = None THEN e.at
                           ELSE FirstStart(r)
<1> DEFINE T == r.transitions
           U == m.transitions
           last == Len(T)
           First(S) == CHOOSE k \in S : \A j \in S : k <= j
<1>1. /\ last \in Nat /\ Len(U) = last + 1 /\ U[last + 1] = e
      /\ \A k \in 1..last : U[k] = T[k]
      /\ 1..Len(U) = 1..last \cup {last + 1}
  BY OneMore
<1>2. /\ FirstStart(r) = IF StartsOf(r) = {} THEN None ELSE T[First(StartsOf(r))].at
      /\ FirstStart(m) = IF StartsOf(m) = {} THEN None ELSE U[First(StartsOf(m))].at
  BY DEF FirstStart
<1>3. StartsOf(r) \in SUBSET (1..last)
  BY DEF StartsOf
<1>4. StartsOf(m) = IF e.to = "running" THEN StartsOf(r) \cup {last + 1} ELSE StartsOf(r)
  BY <1>1 DEF StartsOf
<1>5. CASE StartsOf(r) = {}
  <2>1. FirstStart(r) = None
    BY <1>2, <1>5
  <2>2. CASE e.to = "running"
    <3>1. StartsOf(m) = {last + 1}
      BY <1>4, <1>5, <2>2
    <3>2. First(StartsOf(m)) = last + 1
      BY <1>1, <3>1
    <3>3. QED
      BY <1>1, <1>2, <2>1, <2>2, <3>1, <3>2
  <2>3. CASE e.to # "running"
    BY <1>2, <1>4, <1>5, <2>3
  <2>4. QED
    BY <2>2, <2>3
<1>6. CASE StartsOf(r) # {}
  <2> DEFINE first == First(StartsOf(r))
  <2>1. \E k \in StartsOf(r) : \A j \in StartsOf(r) : k <= j
    <3>1. StartsOf(r) \in SUBSET Nat
      BY <1>1, <1>3
    <3>2. QED
      BY <1>6, <3>1, Least
  <2>2. first \in StartsOf(r) /\ \A j \in StartsOf(r) : first <= j
    BY <2>1
  <2>3. first \in 1..last
    BY <1>3, <2>2
  <2> HIDE DEF first
  <2>4. T[first].at \in Nat
    <3>1. T[first] \in Transitions
      BY <1>1, <2>3, ElementOfSeq DEF Prolongs
    <3>2. QED
      BY <3>1 DEF Transitions
  <2>5. FirstStart(r) = T[first].at /\ FirstStart(r) # None
    BY <1>2, <1>6, <2>4, UnsetInstantAssumption DEF first
  <2>6. \A k \in StartsOf(m) : (\A j \in StartsOf(m) : k <= j) <=> k = first
    <3>1. \A k \in StartsOf(m) : k \in StartsOf(r) \/ k = last + 1
      BY <1>4
    <3>2. \A k \in StartsOf(m) : first <= k /\ k \in Nat
      BY <1>1, <1>3, <2>2, <2>3, <3>1
    <3>3. first \in StartsOf(m)
      BY <1>4, <2>2
    <3>4. QED
      BY <2>3, <3>2, <3>3
  <2>7. StartsOf(m) # {} /\ first \in StartsOf(m)
    BY <1>4, <2>2
  <2>8. First(StartsOf(m)) = first
    BY <2>6, <2>7
  <2>9. QED
    BY <1>1, <1>2, <2>3, <2>5, <2>7, <2>8
<1>7. QED
  BY <1>5, <1>6

\* The transitions that are already there stay valid.
LEMMA TransitionsStay ==
    ASSUME NEW r, NEW m, NEW e, Prolongs(m, r, e), m.created = r.created,
           NEW n \in 1..Len(r.transitions), ValidTransition(r, n)
    PROVE  ValidTransition(m, n)
<1>1. /\ Len(r.transitions) \in Nat
      /\ \A k \in 1..Len(r.transitions) : m.transitions[k] = r.transitions[k]
  BY OneMore
<1>2. n - 1 \in 0..Len(r.transitions) /\ n \in 0..Len(r.transitions)
  BY <1>1
<1>3. Replayed(m, n - 1) = Replayed(r, n - 1) /\ Replayed(m, n) = Replayed(r, n)
  <2>1. \A k \in 0..Len(r.transitions) : Replayed(m, k) = Replayed(r, k)
    BY ReplayOneMore
  <2>2. QED
    BY <1>2, <2>1
<1>4. n # 1 => n - 1 \in 1..Len(r.transitions)
  BY <1>1
<1>5. n # 1 => m.transitions[n - 1] = r.transitions[n - 1]
  BY <1>1, <1>4
<1>6. m.transitions[n] = r.transitions[n]
  BY <1>1
<1>7. QED
  BY <1>3, <1>5, <1>6 DEF ValidTransition

\* One allowed transition of the current stage, bound and dated as its new
\* state demands, keeps a record valid.  The instants of the workflow are
\* looked at apart, because they are set before or after it.
LEMMA OneMoreIsCore ==
    ASSUME NEW r, NEW i, Core(r, i), NEW m \in Records, NEW s \in StageRecords,
           NEW at \in Nat, NEW e \in Transitions, e.stage = i,
           e.from = r.stages[i].state, e.to = s.state, e.workflow = m.state,
           e.at = at,
           m.created = r.created, m.updated = at,
           m.state = StateFromStages(States(m)),
           m.stages = [r.stages EXCEPT ![i] = s],
           m.transitions = Append(r.transitions, e),
           at >= r.updated, Len(r.transitions) = 0 => at = r.created,
           AllowedTransition(r.stages[i].state, s.state),
           ValidBinding(s), s.plan # None => s.plan.stage = i,
           s.operation # None =>
             \A j \in Stages : j # i => r.stages[j].operation # s.operation,
           s.started = IF s.state = "running" THEN at ELSE r.stages[i].started,
           s.finished = IF s.state \in TerminalStates THEN at
                        ELSE r.stages[i].finished
    PROVE  Core(m, i) /\ Len(m.transitions) > 0
           /\ FirstStart(m) = IF s.state = "running" /\ FirstStart(r) = None THEN at
                              ELSE FirstStart(r)
<1> DEFINE last == Len(r.transitions)
<1>1. /\ r \in Records /\ i \in Stages /\ At(States(r), i) /\ Replays(r) /\ Binds(r)
      /\ r.transitions \in Seq(Transitions) /\ r.stages \in [Stages -> StageRecords]
      /\ m.stages \in [Stages -> StageRecords]
      /\ r.updated \in Nat /\ r.created \in Nat
      /\ r.stages[i] \in StageRecords
  BY DEF Core, Records
<1>2. /\ e \in Transitions /\ e.stage = i /\ e.to = s.state /\ e.at = at
      /\ e.from = r.stages[i].state /\ e.workflow = m.state
      /\ m.transitions = Append(r.transitions, e)
  OBVIOUS
<1>3. Prolongs(m, r, e)
  BY <1>1, <1>2 DEF Prolongs
<1>4. /\ last \in Nat /\ Len(m.transitions) = last + 1
      /\ m.transitions[last + 1] = e
      /\ \A k \in 1..last : m.transitions[k] = r.transitions[k]
      /\ 1..Len(m.transitions) = 1..last \cup {last + 1}
  BY <1>3, OneMore
<1>5. /\ m.stages[i] = s
      /\ \A j \in Stages : j # i => m.stages[j] = r.stages[j]
  BY <1>1
<1>6. States(m) = [States(r) EXCEPT ![i] = s.state]
  BY <1>1, <1>5 DEF States
<1>7. At(States(m), i)
  <2>1. \A j \in Stages : j # i => States(m)[j] = States(r)[j]
    BY <1>6 DEF States
  <2>2. /\ \A j \in 1..(i - 1) : j \in Stages /\ j # i
        /\ \A j \in (i + 1)..Last : j \in Stages /\ j # i
    BY <1>1, StageAssumption DEF Stages
  <2>3. QED
    BY <1>1, <2>1, <2>2 DEF At
<1>8. Replayed(r, last) = States(r)
  BY <1>1 DEF Replays
<1>9. /\ Replayed(m, last) = States(r) /\ Replayed(m, last + 1) = States(m)
  <2>1. \A k \in 0..Len(r.transitions) : Replayed(m, k) = Replayed(r, k)
    BY <1>3, ReplayOneMore
  <2>2. \A j \in Stages : Replayed(m, Len(r.transitions) + 1)[j] =
                            IF j = e.stage THEN e.to
                            ELSE Replayed(r, Len(r.transitions))[j]
    BY <1>3, ReplayOneMore
  <2>3. \A j \in Stages : Replayed(m, last + 1)[j] = IF j = i THEN s.state
                                                     ELSE Replayed(r, last)[j]
    BY <1>2, <2>2
  <2>4. last \in 0..last
    BY <1>4
  <2>5. \A j \in Stages : Replayed(m, last + 1)[j] = States(m)[j]
    BY <1>6, <1>8, <2>3 DEF States
  <2>6. Replayed(m, last + 1) = States(m)
    BY <2>5 DEF Replayed, States
  <2>7. QED
    BY <1>8, <2>1, <2>4, <2>6
<1>10. ValidTransition(m, last + 1)
  <2>1. at >= IF last + 1 = 1 THEN m.created ELSE m.transitions[last + 1 - 1].at
    <3>1. CASE last = 0
      BY <1>1, <1>4, <3>1
    <3>2. CASE last # 0
      <4>1. r.updated = r.transitions[last].at
        BY <1>1, <3>2 DEF Replays
      <4>2. last \in 1..last /\ last + 1 - 1 = last /\ last + 1 # 1
        BY <1>4, <3>2
      <4>3. m.transitions[last + 1 - 1] = r.transitions[last]
        BY <1>4, <4>2
      <4>4. QED
        BY <4>1, <4>2, <4>3
    <3>3. QED
      BY <3>1, <3>2
  <2>2. last + 1 = 1 => at = m.created
    BY <1>4
  <2>3. Replayed(m, last + 1 - 1) = States(r)
    <3>1. last + 1 - 1 = last
      BY <1>4
    <3>2. QED
      BY <1>9, <3>1
  <2>4. States(r)[i] = r.stages[i].state
    BY <1>1 DEF States
  <2>5. DependenciesComplete(States(r), i, s.state)
    BY <1>1 DEF DependenciesComplete, At
  <2>6. QED
    BY <1>2, <1>4, <1>9, <2>1, <2>2, <2>3, <2>4, <2>5 DEF ValidTransition
<1>11. \A n \in 1..Len(m.transitions) : ValidTransition(m, n)
  <2>1. ASSUME NEW n \in 1..last
        PROVE  ValidTransition(m, n)
    <3>1. ValidTransition(r, n)
      BY <1>1 DEF Replays
    <3>2. QED
      BY <1>1, <1>3, <3>1, TransitionsStay
  <2>2. QED
    BY <1>4, <1>10, <2>1
<1>12. ASSUME NEW j \in Stages
       PROVE  /\ m.stages[j].started = TimeOf(m, j, {"running"})
              /\ m.stages[j].finished = TimeOf(m, j, TerminalStates)
  <2>1. /\ r.stages[j].started = TimeOf(r, j, {"running"})
        /\ r.stages[j].finished = TimeOf(r, j, TerminalStates)
    BY <1>1 DEF Replays
  <2> DEFINE Follows(states) ==
               /\ ~(e.stage = j /\ e.to \in states) =>
                    TimeOf(m, j, states) = TimeOf(r, j, states)
               /\ e.stage = j /\ e.to \in states /\ TimeOf(r, j, states) = None =>
                    TimeOf(m, j, states) = e.at
  <2>2. ASSUME NEW states PROVE Follows(states)
    BY <1>3, TimeOneMore
  <2> HIDE DEF Follows
  <2>3. Follows({"running"}) /\ Follows(TerminalStates)
    BY <2>2
  <2>4. /\ e.to # "running" \/ e.stage # j =>
             TimeOf(m, j, {"running"}) = TimeOf(r, j, {"running"})
        /\ e.stage = j /\ e.to = "running" /\ TimeOf(r, j, {"running"}) = None =>
             TimeOf(m, j, {"running"}) = e.at
    BY <2>3 DEF Follows
  <2>5. /\ ~(e.stage = j /\ e.to \in TerminalStates) =>
             TimeOf(m, j, TerminalStates) = TimeOf(r, j, TerminalStates)
        /\ e.stage = j /\ e.to \in TerminalStates
             /\ TimeOf(r, j, TerminalStates) = None =>
             TimeOf(m, j, TerminalStates) = e.at
    BY <2>3 DEF Follows
  <2>6. CASE j # i
    BY <1>2, <1>5, <2>1, <2>4, <2>5, <2>6
  <2>7. CASE j = i
    <3>1. ValidBinding(r.stages[i])
      BY <1>1 DEF Binds
    <3>2. s.state = "running" => r.stages[i].started = None
      BY <3>1 DEF AllowedTransition, ValidBinding, TerminalStates, AbnormalStates
    <3>3. s.state \in TerminalStates => r.stages[i].finished = None
      BY <3>1 DEF AllowedTransition, ValidBinding, TerminalStates, AbnormalStates
    <3>4. QED
      BY <1>2, <1>5, <2>1, <2>4, <2>5, <2>7, <3>2, <3>3
  <2>8. QED
    BY <2>6, <2>7
<1>13. m.updated = IF Len(m.transitions) = 0 THEN m.created
                   ELSE m.transitions[Len(m.transitions)].at
  BY <1>2, <1>4
<1>14. Replays(m)
  BY <1>4, <1>9, <1>11, <1>12, <1>13 DEF Replays
<1>15. Binds(m)
  <2>1. ASSUME NEW j \in Stages
        PROVE  /\ ValidBinding(m.stages[j])
               /\ m.stages[j].plan # None => m.stages[j].plan.stage = j
    <3>1. CASE j = i
      BY <1>5, <3>1
    <3>2. CASE j # i
      BY <1>1, <1>5, <3>2 DEF Binds
    <3>3. QED
      BY <3>1, <3>2
  <2>2. ASSUME NEW j \in Stages, NEW k \in Stages, j # k,
               m.stages[j].operation # None
        PROVE  m.stages[j].operation # m.stages[k].operation
    <3>1. CASE j = i
      BY <1>5, <2>2, <3>1
    <3>2. CASE k = i
      BY <1>5, <2>2, <3>2
    <3>3. CASE j # i /\ k # i
      BY <1>1, <1>5, <2>2, <3>3 DEF Binds, Distinct
    <3>4. QED
      BY <3>1, <3>2, <3>3
  <2>3. QED
    BY <2>1, <2>2 DEF Binds, Distinct
<1>16. FirstStart(m) = IF s.state = "running" /\ FirstStart(r) = None THEN at
                       ELSE FirstStart(r)
  BY <1>2, <1>3, FirstStartOneMore
<1>17. QED
  BY <1>1, <1>4, <1>7, <1>14, <1>15, <1>16 DEF Core

\* The instants of the workflow are no part of the core.
LEMMA OtherInstants ==
    ASSUME NEW r, NEW i, Core(r, i), NEW q \in Records,
           q.created = r.created, q.updated = r.updated, q.state = r.state,
           q.transitions = r.transitions, q.stages = r.stages
    PROVE  Core(q, i) /\ FirstStart(q) = FirstStart(r)
<1>1. \A n : Replayed(q, n) = Replayed(r, n)
  BY DEF Replayed
<1>2. \A n : ValidTransition(q, n) <=> ValidTransition(r, n)
  BY <1>1 DEF ValidTransition
<1>3. \A j, states : TimeOf(q, j, states) = TimeOf(r, j, states)
  BY DEF TimeOf
<1>4. States(q) = States(r)
  BY DEF States
<1>5. Replays(q)
  <2>1. Replays(r)
    BY DEF Core
  <2>2. \A j \in Stages : /\ q.stages[j].started = TimeOf(q, j, {"running"})
                         /\ q.stages[j].finished = TimeOf(q, j, TerminalStates)
    BY <1>3, <2>1 DEF Replays
  <2>3. \A n \in 1..Len(q.transitions) : ValidTransition(q, n)
    BY <1>2, <2>1 DEF Replays
  <2>4. States(q) = Replayed(q, Len(q.transitions))
    BY <1>1, <1>4, <2>1 DEF Replays
  <2>5. QED
    BY <1>4, <2>1, <2>2, <2>3, <2>4 DEF Replays
<1>6. Binds(q)
  BY DEF Core, Binds, Distinct
<1>7. FirstStart(q) = FirstStart(r)
  BY DEF FirstStart, StartsOf
<1>8. QED
  BY <1>4, <1>5, <1>6, <1>7 DEF Core

\* What Moved writes.
LEMMA MovedFields ==
    ASSUME NEW r \in Records, NEW i \in Stages, NEW s \in StageRecords,
           NEW at \in Nat, At(States(r), i)
    PROVE  LET m == Moved(r, i, s, at)
           IN  /\ m \in Records
               /\ m.created = r.created /\ m.updated = at
               /\ m.started = r.started /\ m.finished = r.finished
               /\ m.stages = [r.stages EXCEPT ![i] = s]
               /\ m.state = StateFromStages(States(m))
               /\ \E e \in Transitions :
                    /\ e.stage = i /\ e.from = r.stages[i].state /\ e.to = s.state
                    /\ e.workflow = m.state /\ e.at = at
                    /\ m.transitions = Append(r.transitions, e)
<1> DEFINE stages == [r.stages EXCEPT ![i] = s]
           states == [j \in Stages |-> stages[j].state]
           state == StateFromStages(states)
           e == [stage |-> i, from |-> r.stages[i].state, to |-> s.state,
                 workflow |-> state, at |-> at]
           m == Moved(r, i, s, at)
<1>1. /\ stages \in [Stages -> StageRecords] /\ stages[i] = s
      /\ \A j \in Stages : j # i => stages[j] = r.stages[j]
  BY DEF Records
<1> HIDE DEF stages
<1>2. states \in [Stages -> StageStates]
  BY <1>1 DEF StageRecords
<1>3. At(states, i)
  <2>1. \A j \in Stages : j # i => states[j] = States(r)[j]
    BY <1>1 DEF States
  <2>2. /\ \A j \in 1..(i - 1) : j \in Stages /\ j # i
        /\ \A j \in (i + 1)..Last : j \in Stages /\ j # i
    BY StageAssumption DEF Stages
  <2>3. QED
    BY <2>1, <2>2 DEF At
<1> HIDE DEF states
<1>4. state \in WorkflowStates
  BY <1>2, <1>3, StateIsDecided
<1> HIDE DEF state
<1>5. /\ e \in Transitions /\ e.stage = i /\ e.from = r.stages[i].state
      /\ e.to = s.state /\ e.workflow = state /\ e.at = at
  BY <1>4 DEF Transitions, Records, StageRecords
<1>6. m = [r EXCEPT !.stages = stages, !.state = state, !.updated = at,
                    !.transitions = Append(@, e)]
  BY DEF Moved, stages, state, states
<1> HIDE DEF e
<1>7. Append(r.transitions, e) \in Seq(Transitions)
  BY <1>5, AppendProperties DEF Records
<1> DEFINE trail == Append(r.transitions, e)
<1>8. m = [r EXCEPT !.stages = stages, !.state = state, !.updated = at,
                    !.transitions = trail]
  BY <1>6
<1>9. trail \in Seq(Transitions)
  BY <1>7
<1> HIDE DEF trail, m
<1>10. /\ m \in Records /\ m.created = r.created /\ m.updated = at
       /\ m.started = r.started /\ m.finished = r.finished
       /\ m.stages = stages /\ m.state = state /\ m.transitions = trail
  BY <1>1, <1>4, <1>8, <1>9 DEF Records
<1>11. States(m) = states
  BY <1>10 DEF States, states
<1>12. m.state = StateFromStages(States(m))
  BY <1>10, <1>11 DEF state
<1>13. m.transitions = Append(r.transitions, e)
  BY <1>10 DEF trail
<1>14. m.stages = [r.stages EXCEPT ![i] = s]
  BY <1>10 DEF stages
<1>15. QED
  BY <1>5, <1>10, <1>12, <1>13, <1>14 DEF m

\* The core of a record after a transition of its current stage.
LEMMA MovedIsCore ==
    ASSUME NEW r, NEW i, Core(r, i), NEW s \in StageRecords, NEW at \in Nat,
           at >= r.updated, Len(r.transitions) = 0 => at = r.created,
           AllowedTransition(r.stages[i].state, s.state),
           ValidBinding(s), s.plan # None => s.plan.stage = i,
           s.operation # None =>
             \A j \in Stages : j # i => r.stages[j].operation # s.operation,
           s.started = IF s.state = "running" THEN at ELSE r.stages[i].started,
           s.finished = IF s.state \in TerminalStates THEN at
                        ELSE r.stages[i].finished
    PROVE  LET m == Moved(r, i, s, at)
           IN  /\ Core(m, i) /\ Len(m.transitions) > 0
               /\ FirstStart(m) =
                    IF s.state = "running" /\ FirstStart(r) = None THEN at
                    ELSE FirstStart(r)
               /\ m.updated = at
               /\ m.started = r.started /\ m.finished = r.finished
               /\ m.stages[i] = s
               /\ \A j \in Stages : j # i => m.stages[j] = r.stages[j]
               /\ States(m)[i] = s.state
               /\ \A j \in Stages : j # i => States(m)[j] = States(r)[j]
<1> DEFINE m == Moved(r, i, s, at)
<1>1. r \in Records /\ i \in Stages /\ At(States(r), i)
  BY DEF Core
<1>2. /\ m \in Records /\ m.created = r.created /\ m.updated = at
      /\ m.started = r.started /\ m.finished = r.finished
      /\ m.stages = [r.stages EXCEPT ![i] = s]
      /\ m.state = StateFromStages(States(m))
      /\ \E e \in Transitions :
           /\ e.stage = i /\ e.from = r.stages[i].state /\ e.to = s.state
           /\ e.workflow = m.state /\ e.at = at
           /\ m.transitions = Append(r.transitions, e)
  BY <1>1, MovedFields
<1> HIDE DEF m
<1>3. PICK e \in Transitions :
        /\ e.stage = i /\ e.from = r.stages[i].state /\ e.to = s.state
        /\ e.workflow = m.state /\ e.at = at
        /\ m.transitions = Append(r.transitions, e)
  BY <1>2
<1>4. /\ Core(m, i) /\ Len(m.transitions) > 0
      /\ FirstStart(m) = IF s.state = "running" /\ FirstStart(r) = None THEN at
                         ELSE FirstStart(r)
  BY <1>2, <1>3, OneMoreIsCore
<1>5. m.stages[i] = s /\ \A j \in Stages : j # i => m.stages[j] = r.stages[j]
  BY <1>1, <1>2 DEF Records
<1>6. States(m)[i] = s.state /\ \A j \in Stages : j # i => States(m)[j] = States(r)[j]
  BY <1>1, <1>5 DEF States
<1>7. QED
  BY <1>2, <1>4, <1>5, <1>6 DEF m

\* ValidateRecord accepts what is well.
LEMMA WellIsValid == ASSUME NEW r, NEW i, Well(r, i) PROVE ValidRecord(r)
<1>1. Core(r, i) /\ Replays(r) /\ Binds(r) /\ Len(r.transitions) > 0
  BY DEF Well, Core
<1>2. Distinct(r, [j \in Stages |-> r.stages[j].plan])
  BY <1>1 DEF Binds, Distinct
<1>3. Distinct(r, [j \in Stages |-> r.stages[j].operation])
  BY <1>1 DEF Binds
<1>4. r.started = IF StartsOf(r) = {} THEN None
                  ELSE r.transitions[CHOOSE k \in StartsOf(r) :
                                       \A j \in StartsOf(r) : k <= j].at
  BY DEF Well, FirstStart
<1>5. r.updated = r.transitions[Len(r.transitions)].at
  BY <1>1 DEF Replays
<1>6. /\ \A n \in 1..Len(r.transitions) : ValidTransition(r, n)
      /\ r.state = StateFromStages(Replayed(r, Len(r.transitions)))
  BY <1>1 DEF Replays
<1>7. \A j \in Stages :
        /\ r.stages[j].state = Replayed(r, Len(r.transitions))[j]
        /\ r.stages[j].started = TimeOf(r, j, {"running"})
        /\ r.stages[j].finished = TimeOf(r, j, TerminalStates)
        /\ ValidBinding(r.stages[j])
  BY <1>1 DEF Replays, Binds, States
<1>8. r.finished = IF r.state \in TerminalStates THEN r.updated ELSE None
  BY DEF Well
<1>9. QED
  BY <1>1, <1>2, <1>3, <1>4, <1>5, <1>6, <1>7, <1>8 DEF ValidRecord, StartsOf

-----------------------------------------------------------------------------
(* The transitions of a workflow.                                          *)

\* A stage that was only opened has nothing.
LEMMA EmptyStageIsBound ==
    ASSUME NEW state \in {"pending", "ready"}
    PROVE  LET s == EmptyStage(state)
           IN  /\ s \in StageRecords /\ ValidBinding(s) /\ s.state = state
               /\ s.plan = None /\ s.operation = None
               /\ s.started = None /\ s.finished = None
  BY DEF EmptyStage, StageRecords, ValidBinding, StageStates, TerminalStates,
         AbnormalStates

LEMMA CreateIsWell ==
    ASSUME NEW at \in Nat
    PROVE  LET r == NewRecord(at)
           IN  /\ Well(r, 1) /\ r.stages[1].state = "ready" /\ r.updated = at
               /\ \A j \in Stages : /\ r.stages[j].operation = None
                                    /\ r.stages[j].state # "completed"
<1> DEFINE q == [created |-> at, updated |-> at, state |-> "pending",
                 started |-> None, finished |-> None, transitions |-> <<>>,
                 stages |-> [j \in Stages |-> EmptyStage("pending")]]
           s == EmptyStage("ready")
           r == NewRecord(at)
<1>1. /\ \A j \in Stages :
           /\ q.stages[j] \in StageRecords /\ ValidBinding(q.stages[j])
           /\ q.stages[j].state = "pending" /\ q.stages[j].plan = None
           /\ q.stages[j].operation = None /\ q.stages[j].started = None
           /\ q.stages[j].finished = None
  BY EmptyStageIsBound
<1>2. /\ s \in StageRecords /\ ValidBinding(s) /\ s.state = "ready"
      /\ s.plan = None /\ s.operation = None
      /\ s.started = None /\ s.finished = None
  BY EmptyStageIsBound
<1>3. /\ q.created = at /\ q.updated = at /\ q.state = "pending"
      /\ q.started = None /\ q.finished = None
      /\ q.transitions = <<>> /\ Len(q.transitions) = 0
      /\ q.stages \in [Stages -> StageRecords]
  BY <1>1
<1>4. q \in Records
  <2>1. "pending" \in WorkflowStates /\ <<>> \in Seq(Transitions)
    BY DEF WorkflowStates
  <2>2. QED
    BY <1>1, <2>1 DEF Records
<1>5. r = Moved(q, 1, s, at)
  BY DEF NewRecord
<1> HIDE DEF q, s, r
<1>6. 1 \in Stages
  BY StageAssumption DEF Stages
<1>7. /\ States(q) \in [Stages -> StageStates]
      /\ \A j \in Stages : States(q)[j] = "pending"
  BY <1>1 DEF States, StageStates
<1>8. At(States(q), 1)
  <2>1. \A j \in (1 + 1)..Last : j \in Stages
    BY StageAssumption DEF Stages
  <2>2. QED
    BY <1>7, <2>1 DEF At
<1>9. Core(q, 1)
  <2>1. q.state = StateFromStages(States(q))
    BY <1>3, <1>6, <1>7, <1>8, StateIsDecided
  <2>2. States(q) = Replayed(q, 0)
    BY <1>7 DEF Replayed, States
  <2>3. \A j \in Stages : /\ q.stages[j].started = TimeOf(q, j, {"running"})
                         /\ q.stages[j].finished = TimeOf(q, j, TerminalStates)
    BY <1>1, <1>3 DEF TimeOf
  <2>4. Replays(q)
    BY <1>3, <2>1, <2>2, <2>3 DEF Replays
  <2>5. Binds(q)
    BY <1>1 DEF Binds, Distinct
  <2>6. QED
    BY <1>4, <1>6, <1>8, <2>4, <2>5 DEF Core
<1>10. AllowedTransition(q.stages[1].state, s.state)
  BY <1>1, <1>2, <1>6 DEF AllowedTransition
<1>11. FirstStart(q) = None
  BY <1>3 DEF FirstStart, StartsOf
<1>12. /\ Core(r, 1) /\ Len(r.transitions) > 0 /\ FirstStart(r) = None
       /\ r.updated = at /\ r.started = None /\ r.finished = None
       /\ r.stages[1] = s /\ \A j \in Stages : j # 1 => r.stages[j] = q.stages[j]
       /\ States(r)[1] = "ready"
  <2>1. /\ at >= q.updated /\ q.created = at
        /\ s.started = q.stages[1].started /\ s.finished = q.stages[1].finished
        /\ s.state # "running" /\ s.state \notin TerminalStates
    BY <1>1, <1>2, <1>3, <1>6 DEF TerminalStates, AbnormalStates
  <2>2. QED
    BY <1>2, <1>3, <1>5, <1>9, <1>10, <1>11, <2>1, MovedIsCore
<1>13. r.state = "pending"
  <2>1. States(r) \in [Stages -> StageStates] /\ At(States(r), 1)
        /\ r.state = StateFromStages(States(r))
    BY <1>12 DEF Core, Replays, States, Records, StageRecords
  <2>2. QED
    BY <1>6, <1>12, <2>1, StateIsDecided
<1>14. Well(r, 1)
  BY <1>12, <1>13 DEF Well, TerminalStates, AbnormalStates
<1>15. QED
  BY <1>1, <1>2, <1>12, <1>14 DEF r

\* The state of a workflow that is at stage i.
LEMMA StateAtStage ==
    ASSUME NEW r, NEW i, Core(r, i)
    PROVE  /\ i \in Stages /\ r.stages[i] \in StageRecords
           /\ r.stages[i].state \in AbnormalStates => r.state = r.stages[i].state
           /\ r.stages[i].state = "running" => r.state = "running"
           /\ r.stages[i].state = "completed" =>
                r.state = IF i = Last THEN "completed" ELSE "pending"
           /\ r.stages[i].state \in {"pending", "ready", "planned"} =>
                r.state = "pending"
           /\ \A j \in Stages : j < i => r.stages[j].state = "completed"
           /\ \A j \in Stages : j > i => r.stages[j].state = "pending"
<1>1. /\ r \in Records /\ i \in Stages /\ At(States(r), i)
      /\ r.state = StateFromStages(States(r))
  BY DEF Core, Replays
<1>2. /\ States(r) \in [Stages -> StageStates]
      /\ \A j \in Stages : States(r)[j] = r.stages[j].state
      /\ r.stages[i] \in StageRecords
  BY <1>1 DEF States, Records, StageRecords
<1>3. /\ \A j \in Stages : j < i => States(r)[j] = "completed"
      /\ \A j \in Stages : j > i => States(r)[j] = "pending"
  BY <1>1, StageAssumption DEF At, Stages
<1>4. /\ States(r)[i] \in AbnormalStates => r.state = States(r)[i]
      /\ States(r)[i] = "running" => r.state = "running"
      /\ States(r)[i] = "completed" =>
           r.state = IF i = Last THEN "completed" ELSE "pending"
      /\ States(r)[i] \in {"pending", "ready", "planned"} => r.state = "pending"
  BY <1>1, <1>2, StateIsDecided
<1>5. QED
  BY <1>1, <1>2, <1>3, <1>4

\* BindStagePlan.
LEMMA BoundIsWell ==
    ASSUME NEW r, NEW i, Well(r, i), r.stages[i].state = "ready",
           NEW p \in PlanIDs, p.stage = i, NEW at \in Nat, at >= r.updated
    PROVE  LET b == Bound(r, i, p, at)
           IN  /\ Well(b, i) /\ b.updated = at /\ b.state = "pending"
               /\ b.stages[i].state = "planned" /\ b.stages[i].plan = p
               /\ \A j \in Stages : b.stages[j].operation = r.stages[j].operation
               /\ \A j \in Stages : j # i => b.stages[j] = r.stages[j]
<1> DEFINE s == [r.stages[i] EXCEPT !.state = "planned", !.plan = p]
           b == Bound(r, i, p, at)
<1>1. /\ Core(r, i) /\ Len(r.transitions) > 0 /\ r.started = FirstStart(r)
      /\ r.stages[i] \in StageRecords /\ i \in Stages
      /\ ValidBinding(r.stages[i]) /\ r.state = "pending"
      /\ r.finished = None
  <2>1. Core(r, i) /\ r.state = "pending"
    BY StateAtStage DEF Well
  <2>2. QED
    BY <2>1, StateAtStage DEF Well, Core, Binds, TerminalStates, AbnormalStates
<1>2. /\ s \in StageRecords /\ s.state = "planned" /\ s.plan = p
      /\ s.operation = r.stages[i].operation /\ s.digest = r.stages[i].digest
      /\ s.started = r.stages[i].started /\ s.finished = r.stages[i].finished
  BY <1>1 DEF StageRecords, StageStates
<1>3. b = Moved(r, i, s, at)
  BY DEF Bound
<1> HIDE DEF s, b
<1>4. p # None
  BY UnsetAssumption
<1>5. ValidBinding(s) /\ s.operation = None
  BY <1>1, <1>2, <1>4 DEF ValidBinding, TerminalStates, AbnormalStates
<1>6. AllowedTransition(r.stages[i].state, s.state)
  BY <1>2 DEF AllowedTransition
<1>7. s.state # "running" /\ s.state \notin TerminalStates
  BY <1>2 DEF TerminalStates, AbnormalStates
<1>8. /\ Core(b, i) /\ Len(b.transitions) > 0 /\ FirstStart(b) = FirstStart(r)
      /\ b.updated = at /\ b.started = r.started /\ b.finished = r.finished
      /\ b.stages[i] = s /\ \A j \in Stages : j # i => b.stages[j] = r.stages[j]
  BY <1>1, <1>2, <1>3, <1>5, <1>6, <1>7, MovedIsCore
<1>9. b.state = "pending"
  BY <1>2, <1>8, StateAtStage
<1>10. Well(b, i)
  BY <1>1, <1>8, <1>9 DEF Well, TerminalStates, AbnormalStates
<1>11. /\ b.updated = at /\ b.stages[i].state = "planned" /\ b.stages[i].plan = p
       /\ \A j \in Stages : j # i => b.stages[j] = r.stages[j]
  BY <1>2, <1>8
<1>12. b.stages[i].operation = r.stages[i].operation
  BY <1>2, <1>8
<1>13. \A j \in Stages : b.stages[j].operation = r.stages[j].operation
  BY <1>11, <1>12
<1>14. QED
  BY <1>9, <1>10, <1>11, <1>13 DEF b

\* StartStage.
LEMMA StartedIsWell ==
    ASSUME NEW r, NEW i, Well(r, i), r.stages[i].state = "planned",
           NEW o \in Nat, \A j \in Stages : j # i => r.stages[j].operation # o,
           NEW at \in Nat, at >= r.updated
    PROVE  LET b == Started(r, i, o, at)
           IN  /\ Well(b, i) /\ b.updated = at /\ b.state = "running"
               /\ b.stages[i].state = "running"
               /\ b.stages[i].plan = r.stages[i].plan
               /\ b.stages[i].operation = o
               /\ \A j \in Stages : j # i => b.stages[j] = r.stages[j]
<1> DEFINE s == [r.stages[i] EXCEPT !.state = "running", !.operation = o,
                                    !.started = at]
           start == IF r.started = None THEN at ELSE r.started
           q == [r EXCEPT !.started = start]
           b == Started(r, i, o, at)
<1>1. /\ Core(r, i) /\ Len(r.transitions) > 0 /\ r.started = FirstStart(r)
      /\ r.stages[i] \in StageRecords /\ i \in Stages
      /\ ValidBinding(r.stages[i]) /\ r.state = "pending"
      /\ r.finished = None /\ r \in Records
      /\ r.stages[i].plan # None => r.stages[i].plan.stage = i
  <2>1. Core(r, i) /\ r.state = "pending"
    BY StateAtStage DEF Well
  <2>2. QED
    BY <2>1, StateAtStage DEF Well, Core, Binds, TerminalStates, AbnormalStates
<1>2. /\ s \in StageRecords /\ s.state = "running" /\ s.operation = o
      /\ s.plan = r.stages[i].plan /\ s.digest = r.stages[i].digest
      /\ s.started = at /\ s.finished = r.stages[i].finished
  BY <1>1 DEF StageRecords, StageStates
<1>3. b = Moved(q, i, s, at)
  <2>1. q = [r EXCEPT !.started = IF @ = None THEN at ELSE @]
    BY <1>1 DEF Records
  <2>2. QED
    BY <2>1 DEF Started
<1>4. /\ q \in Records /\ q.created = r.created /\ q.updated = r.updated
      /\ q.state = r.state /\ q.transitions = r.transitions
      /\ q.stages = r.stages /\ q.started = start /\ q.finished = r.finished
  <2>1. start \in Nat \cup {None}
    BY <1>1 DEF Records
  <2> HIDE DEF start
  <2>2. QED
    BY <1>1, <2>1 DEF Records
<1> HIDE DEF s, q, b
<1>5. Core(q, i) /\ FirstStart(q) = FirstStart(r)
  BY <1>1, <1>4, OtherInstants
<1>6. o # None
  BY UnsetInstantAssumption
<1>7. at # None
  BY UnsetInstantAssumption
<1>8. ValidBinding(s)
  BY <1>1, <1>2, <1>6, <1>7 DEF ValidBinding, TerminalStates, AbnormalStates
<1>9. AllowedTransition(q.stages[i].state, s.state)
  BY <1>2, <1>4 DEF AllowedTransition
<1>10. s.state \notin TerminalStates
  BY <1>2 DEF TerminalStates, AbnormalStates
<1>11. /\ Core(b, i) /\ Len(b.transitions) > 0
       /\ FirstStart(b) = IF FirstStart(q) = None THEN at ELSE FirstStart(q)
       /\ b.updated = at /\ b.started = q.started /\ b.finished = q.finished
       /\ b.stages[i] = s /\ \A j \in Stages : j # i => b.stages[j] = q.stages[j]
  BY <1>1, <1>2, <1>3, <1>4, <1>5, <1>8, <1>9, <1>10, MovedIsCore
<1>12. b.state = "running"
  BY <1>2, <1>11, StateAtStage
<1>13. Well(b, i)
  BY <1>1, <1>4, <1>5, <1>11, <1>12 DEF Well, TerminalStates, AbnormalStates
<1>14. QED
  BY <1>1, <1>2, <1>4, <1>11, <1>12, <1>13 DEF b

\* FinishStage, up to the opening of the following stage.
LEMMA EndedIsCore ==
    ASSUME NEW r, NEW i, Well(r, i), r.stages[i].state = "running",
           NEW state \in TerminalStates, NEW digest \in Operations,
           NEW at \in Nat, at >= r.updated
    PROVE  LET b == Ended(r, i, state, digest, at)
           IN  /\ Core(b, i) /\ Len(b.transitions) > 0
               /\ b.updated = at /\ b.started = FirstStart(b)
               /\ b.stages[i].state = state /\ b.stages[i].digest = digest
               /\ b.stages[i].plan = r.stages[i].plan
               /\ b.stages[i].operation = r.stages[i].operation
               /\ \A j \in Stages : j # i => b.stages[j] = r.stages[j]
<1> DEFINE s == [r.stages[i] EXCEPT !.state = state, !.digest = digest,
                                    !.finished = at]
           b == Ended(r, i, state, digest, at)
<1>1. /\ Core(r, i) /\ Len(r.transitions) > 0 /\ r.started = FirstStart(r)
      /\ r.stages[i] \in StageRecords /\ i \in Stages
      /\ ValidBinding(r.stages[i])
      /\ r.stages[i].plan # None => r.stages[i].plan.stage = i
      /\ r.stages[i].operation # None => \A j \in Stages : j # i =>
           r.stages[j].operation # r.stages[i].operation
  <2>1. Core(r, i)
    BY DEF Well
  <2>2. QED
    BY <2>1, StateAtStage DEF Well, Core, Binds, Distinct
<1>2. /\ s \in StageRecords /\ s.state = state /\ s.digest = digest
      /\ s.plan = r.stages[i].plan /\ s.operation = r.stages[i].operation
      /\ s.started = r.stages[i].started /\ s.finished = at
  BY <1>1 DEF StageRecords, StageStates
<1>3. b = Moved(r, i, s, at)
  BY DEF Ended
<1> HIDE DEF s, b
<1>4. digest # None /\ at # None
  BY UnsetAssumption, UnsetInstantAssumption
<1>5. state \notin {"pending", "ready", "planned", "running"}
  BY DEF TerminalStates, AbnormalStates
<1>6. ValidBinding(s)
  BY <1>1, <1>2, <1>4, <1>5 DEF ValidBinding
<1>7. AllowedTransition(r.stages[i].state, s.state)
  BY <1>2 DEF AllowedTransition
<1>8. s.state \in TerminalStates /\ s.state # "running"
  BY <1>2, <1>5
<1>9. /\ Core(b, i) /\ Len(b.transitions) > 0 /\ FirstStart(b) = FirstStart(r)
      /\ b.updated = at /\ b.started = r.started
      /\ b.stages[i] = s /\ \A j \in Stages : j # i => b.stages[j] = r.stages[j]
  BY <1>1, <1>2, <1>3, <1>6, <1>7, <1>8, MovedIsCore
<1>10. QED
  BY <1>1, <1>2, <1>9 DEF b

\* The workflow is at the stage after a completed one.
LEMMA NextStage ==
    ASSUME NEW states, NEW i \in Stages, i + 1 \in Stages, At(states, i),
           states[i] = "completed"
    PROVE  At(states, i + 1)
<1>1. i \in Nat /\ Last \in Nat
  BY StageAssumption DEF Stages
<1>2. \A j \in 1..((i + 1) - 1) : j \in 1..(i - 1) \/ j = i
  BY <1>1
<1>3. \A j \in ((i + 1) + 1)..Last : j \in (i + 1)..Last
  BY <1>1
<1>4. /\ \A j \in 1..(i - 1) : states[j] = "completed"
      /\ \A j \in (i + 1)..Last : states[j] = "pending"
  BY DEF At
<1>5. QED
  BY <1>2, <1>3, <1>4 DEF At

\* After a completed stage the following one is ready, after any other end the
\* workflow has ended.
LEMMA FinishedIsWell ==
    ASSUME NEW r, NEW i, Well(r, i), r.stages[i].state = "running",
           NEW state \in TerminalStates, NEW digest \in Operations,
           NEW at \in Nat, at >= r.updated
    PROVE  LET f == Finished(r, i, state, digest, at)
           IN  /\ \E k \in Stages :
                    /\ Well(f, k)
                    /\ f.stages[k].state \in AbnormalStates \cup {"ready", "completed"}
                    /\ f.stages[k].state = "completed" => k = Last
               /\ f.updated = at
               /\ f.stages[i].state = state /\ f.stages[i].digest = digest
               /\ f.stages[i].plan = r.stages[i].plan
               /\ f.stages[i].operation = r.stages[i].operation
               /\ \A j \in Stages : j # i =>
                    \/ f.stages[j] = r.stages[j]
                    \/ f.stages[j].state = "ready" /\ f.stages[j].operation = None
<1> DEFINE b == Ended(r, i, state, digest, at)
           s == EmptyStage("ready")
           opens == state = "completed" /\ i < Last
           opened == IF opens THEN Moved(b, i + 1, s, at) ELSE b
           end == IF opened.state \in TerminalStates THEN at ELSE None
           f == Finished(r, i, state, digest, at)
<1>1. /\ Core(b, i) /\ Len(b.transitions) > 0
      /\ b.updated = at /\ b.started = FirstStart(b)
      /\ b.stages[i].state = state /\ b.stages[i].digest = digest
      /\ b.stages[i].plan = r.stages[i].plan
      /\ b.stages[i].operation = r.stages[i].operation
      /\ \A j \in Stages : j # i => b.stages[j] = r.stages[j]
  BY EndedIsCore
<1>2. f = [opened EXCEPT !.finished = end]
  BY DEF Finished
<1>3. i \in Stages /\ Last \in Nat /\ i \in Nat
  BY <1>1, StageAssumption DEF Core, Stages
<1> HIDE DEF b, f
<1>4. CASE opens
  <2>1. /\ i + 1 \in Stages /\ i + 1 # i /\ opened = Moved(b, i + 1, s, at)
        /\ state = "completed" /\ i + 1 > i
    BY <1>3, <1>4 DEF Stages
  <2>2. b.stages[i + 1].state = "pending" /\ ValidBinding(b.stages[i + 1])
    BY <1>1, <2>1, StateAtStage DEF Core, Binds
  <2>3. b.stages[i + 1].started = None /\ b.stages[i + 1].finished = None
    BY <2>2 DEF ValidBinding, TerminalStates, AbnormalStates
  <2>4. Core(b, i + 1)
    <3>1. States(b)[i] = "completed"
      BY <1>1, <1>3, <2>1 DEF States
    <3>2. At(States(b), i + 1)
      BY <1>1, <2>1, <3>1, NextStage DEF Core
    <3>3. QED
      BY <1>1, <2>1, <3>2 DEF Core
  <2>5. /\ s \in StageRecords /\ ValidBinding(s) /\ s.state = "ready"
        /\ s.plan = None /\ s.operation = None
        /\ s.started = None /\ s.finished = None
    BY EmptyStageIsBound
  <2> HIDE DEF s, opened
  <2>6. AllowedTransition(b.stages[i + 1].state, s.state)
    BY <2>2, <2>5 DEF AllowedTransition
  <2>7. s.state # "running" /\ s.state \notin TerminalStates
    BY <2>5 DEF TerminalStates, AbnormalStates
  <2>8. /\ Core(opened, i + 1) /\ Len(opened.transitions) > 0
        /\ FirstStart(opened) = FirstStart(b)
        /\ opened.updated = at /\ opened.started = b.started
        /\ opened.stages[i + 1] = s
        /\ \A j \in Stages : j # i + 1 => opened.stages[j] = b.stages[j]
    BY <1>1, <2>1, <2>3, <2>4, <2>5, <2>6, <2>7, MovedIsCore
  <2>9. opened.state = "pending"
    BY <2>5, <2>8, StateAtStage
  <2>10. end = None
    BY <2>9 DEF TerminalStates, AbnormalStates
  <2> HIDE DEF end
  <2>11. /\ f \in Records /\ f.created = opened.created /\ f.updated = opened.updated
         /\ f.state = opened.state /\ f.transitions = opened.transitions
         /\ f.stages = opened.stages /\ f.started = opened.started
         /\ f.finished = None
    BY <1>2, <2>8, <2>10 DEF Core, Records
  <2>12. Core(f, i + 1) /\ FirstStart(f) = FirstStart(opened)
    BY <2>8, <2>11, OtherInstants
  <2>13. Well(f, i + 1)
    BY <1>1, <2>8, <2>9, <2>11, <2>12 DEF Well, TerminalStates, AbnormalStates
  <2>14. f.stages[i + 1].state = "ready" /\ f.stages[i + 1].operation = None
    BY <2>5, <2>8, <2>11
  <2>15. \A j \in Stages : j # i + 1 => f.stages[j] = b.stages[j]
    BY <2>8, <2>11
  <2>16. f.updated = at
    BY <2>8, <2>11
  <2>17. QED
    BY <1>1, <1>3, <2>1, <2>13, <2>14, <2>15, <2>16 DEF f
<1>5. CASE ~opens
  <2>1. opened = b
    BY <1>5
  <2>2. state = "completed" => i = Last
    BY <1>3, <1>5 DEF Stages
  <2>3. b.state \in TerminalStates
    BY <1>1, <2>2, StateAtStage DEF TerminalStates
  <2>4. end = at
    BY <2>1, <2>3
  <2> HIDE DEF end, opened
  <2>5. /\ f \in Records /\ f.created = b.created /\ f.updated = b.updated
        /\ f.state = b.state /\ f.transitions = b.transitions
        /\ f.stages = b.stages /\ f.started = b.started /\ f.finished = at
    BY <1>1, <1>2, <2>1, <2>4 DEF Core, Records
  <2>6. Core(f, i) /\ FirstStart(f) = FirstStart(b)
    BY <1>1, <2>5, OtherInstants
  <2>7. Well(f, i)
    BY <1>1, <2>3, <2>5, <2>6 DEF Well
  <2>8. f.stages[i].state \in AbnormalStates \cup {"completed"}
    BY <1>1, <2>5 DEF TerminalStates
  <2>9. QED
    BY <1>1, <1>3, <2>2, <2>5, <2>7, <2>8 DEF f
<1>6. QED
  BY <1>4, <1>5

-----------------------------------------------------------------------------
(* The inductive invariant.  Its parts are stated of any record, disk and  *)
(* instant, so that a step is an instance of a lemma about them.           *)

\* An operation was created after its Plan, and has ended after that.
Dated(op, now) ==
    /\ op.plan.created <= op.created /\ op.created <= now
    /\ op.state = "active" => op.finished = None
    /\ op.state # "active" => /\ op.finished \in Nat
                              /\ op.created <= op.finished /\ op.finished <= now

\* An operation of each earlier stage had completed when the Plan was made.
Earlier(p, d) ==
    \A j \in Stages : j < p.stage =>
        \E done \in 1..Len(d) :
            /\ d[done].plan.stage = j
            /\ d[done].state = "completed"
            /\ d[done].finished <= p.created

DiskAgrees(d, now) ==
    \A id \in 1..Len(d) :
        d[id].id = id /\ Dated(d[id], now) /\ Earlier(d[id].plan, d)

\* The stages are bound to operations of their own on disk, the completed ones
\* to completed operations of their Plan.
BackedStage(s, i, d, updated) ==
    /\ s.operation # None => /\ s.operation \in 1..Len(d)
                             /\ d[s.operation].plan.stage = i
    /\ s.state = "completed" =>
         /\ s.operation \in 1..Len(d)
         /\ d[s.operation] = s.digest
         /\ s.digest.state = "completed" /\ s.digest.plan = s.plan
         /\ s.plan.stage = i
         /\ s.digest.finished <= updated

Backed(r, d) == \A i \in Stages : BackedStage(r.stages[i], i, d, r.updated)

\* The record that the caller holds is one between two stages, or the last.
Between(r, i) ==
    /\ Well(r, i)
    /\ r.stages[i].state \in AbnormalStates \cup {"ready", "completed"}
    /\ r.stages[i].state = "completed" => i = Last

RecordAgrees(r, d, now) ==
    /\ \E i \in Stages : Between(r, i)
    /\ r.updated <= now
    /\ Backed(r, d)

\* The prepared stage continues the record that the caller holds.
PreparedAgrees(p, r, now) ==
    /\ p \in [stage: Stages, plan: PlanIDs, native: BOOLEAN, record: Records]
    /\ r # None /\ r.stages[p.stage].state = "ready"
    /\ p.plan.stage = p.stage
    /\ r.updated <= p.plan.created /\ p.plan.created <= now
    /\ p.record = Bound(r, p.stage, p.plan, p.plan.created)

TypeInv ==
    /\ clock \in 0..MaxTime /\ changes \in 0..MaxChanges
    /\ env \in [Stages -> BOOLEAN]
    /\ disk \in Seq(Operations) /\ Len(disk) <= MaxOperations
    /\ running \in 0..Len(disk)
    /\ returned # None => returned \in Operations

DiskInv == DiskAgrees(disk, clock)

RecordInv == record # None => RecordAgrees(record, disk, clock)

PreparedInv == prepared # None => PreparedAgrees(prepared, record, clock)

\* What is executed, or was returned and not yet attached, is an operation of
\* the prepared stage.  A completed one that was returned is the one on disk.
RunningInv ==
    running # 0 =>
        /\ prepared # None /\ prepared.native /\ returned = None
        /\ disk[running].state = "active" /\ disk[running].plan = prepared.plan

ReturnedInv ==
    returned # None =>
        /\ running = 0 /\ prepared # None /\ prepared.native
        /\ returned.plan = prepared.plan /\ returned.state # "active"
        /\ returned.id \in 1..Len(disk) /\ Dated(returned, clock)
        /\ disk[returned.id].plan = returned.plan
        /\ returned.state = "completed" => disk[returned.id] = returned

IInv ==
    TypeInv /\ DiskInv /\ RecordInv /\ PreparedInv /\ RunningInv /\ ReturnedInv

-----------------------------------------------------------------------------
(* The parts of the invariant as the clock and the disk move on.           *)

\* No operation is forgotten, and a completed one is never written again.
Grows(d, e) ==
    /\ d \in Seq(Operations) /\ e \in Seq(Operations) /\ Len(d) <= Len(e)
    /\ \A id \in 1..Len(d) : /\ e[id].plan = d[id].plan
                             /\ d[id].state = "completed" => e[id] = d[id]

LEMMA EarlierStays ==
    ASSUME NEW d, NEW e, Grows(d, e), NEW p, Earlier(p, d)
    PROVE  Earlier(p, e)
<1> SUFFICES ASSUME NEW j \in Stages, j < p.stage
             PROVE  \E done \in 1..Len(e) : /\ e[done].plan.stage = j
                                            /\ e[done].state = "completed"
                                            /\ e[done].finished <= p.created
  BY DEF Earlier
<1>1. PICK done \in 1..Len(d) : /\ d[done].plan.stage = j
                                /\ d[done].state = "completed"
                                /\ d[done].finished <= p.created
  BY DEF Earlier
<1>2. e[done] = d[done]
  BY <1>1 DEF Grows
<1>3. Len(d) \in Nat /\ Len(e) \in Nat /\ Len(d) <= Len(e)
  BY DEF Grows
<1>4. done \in 1..Len(e)
  BY <1>3
<1>5. QED
  BY <1>1, <1>2, <1>4

LEMMA BackedStays ==
    ASSUME NEW d, NEW e, Grows(d, e), NEW s, NEW i, NEW updated,
           BackedStage(s, i, d, updated)
    PROVE  BackedStage(s, i, e, updated)
<1>1. Len(d) \in Nat /\ Len(e) \in Nat /\ Len(d) <= Len(e)
  BY DEF Grows
<1>2. \A id \in 1..Len(d) : id \in 1..Len(e)
  BY <1>1
<1>3. \A id \in 1..Len(d) : /\ e[id].plan = d[id].plan
                            /\ d[id].state = "completed" => e[id] = d[id]
  BY DEF Grows
<1>4. QED
  BY <1>2, <1>3 DEF BackedStage

LEMMA DatedStays ==
    ASSUME NEW op \in Operations, NEW now \in Nat, NEW later \in Nat,
           now <= later, Dated(op, now)
    PROVE  Dated(op, later)
<1>1. op.created \in Nat
  BY DEF Operations
<1>2. op.created <= later
  BY <1>1 DEF Dated
<1>3. op.finished \in Nat /\ op.finished <= now => op.finished <= later
  OBVIOUS
<1>4. QED
  BY <1>2, <1>3 DEF Dated

\* Time passes.
LEMMA DiskLater ==
    ASSUME NEW d \in Seq(Operations), NEW now \in Nat, NEW later \in Nat,
           now <= later, DiskAgrees(d, now)
    PROVE  DiskAgrees(d, later)
<1>1. \A id \in 1..Len(d) : d[id] \in Operations
  OBVIOUS
<1>2. \A id \in 1..Len(d) : Dated(d[id], later)
  BY <1>1, DatedStays DEF DiskAgrees
<1>3. QED
  BY <1>2 DEF DiskAgrees

LEMMA RecordLater ==
    ASSUME NEW d, NEW e, Grows(d, e), NEW now \in Nat, NEW later \in Nat,
           now <= later, NEW r, RecordAgrees(r, d, now)
    PROVE  RecordAgrees(r, e, later)
<1>1. PICK i \in Stages : Between(r, i)
  BY DEF RecordAgrees
<1>2. r.updated \in Nat /\ r.updated <= now
  BY <1>1 DEF RecordAgrees, Between, Well, Core, Records
<1>3. r.updated <= later
  BY <1>2
<1>4. Backed(r, e)
  BY BackedStays DEF RecordAgrees, Backed
<1>5. QED
  BY <1>1, <1>3, <1>4 DEF RecordAgrees

LEMMA PreparedLater ==
    ASSUME NEW now \in Nat, NEW later \in Nat, now <= later,
           NEW p, NEW r, PreparedAgrees(p, r, now)
    PROVE  PreparedAgrees(p, r, later)
<1>1. p.plan.created \in Nat /\ p.plan.created <= now
  BY DEF PreparedAgrees, PlanIDs
<1>2. p.plan.created <= later
  BY <1>1
<1>3. QED
  BY <1>2 DEF PreparedAgrees

\* An operation on disk becomes terminal.
LEMMA DiskEnds ==
    ASSUME NEW d \in Seq(Operations), NEW now \in Nat, DiskAgrees(d, now),
           NEW id \in 1..Len(d), d[id].state = "active",
           NEW op \in Operations, op.id = d[id].id, op.plan = d[id].plan,
           op.created = d[id].created, op.finished = now, op.state # "active"
    PROVE  LET e == [d EXCEPT ![id] = op]
           IN  /\ Grows(d, e) /\ Len(e) = Len(d) /\ e[id] = op
               /\ DiskAgrees(e, now) /\ Dated(op, now)
<1> DEFINE e == [d EXCEPT ![id] = op]
<1>1. /\ e \in Seq(Operations) /\ Len(e) = Len(d) /\ e[id] = op
      /\ \A k \in 1..Len(d) : k # id => e[k] = d[k]
  OBVIOUS
<1> HIDE DEF e
<1>2. "active" # "completed"
  OBVIOUS
<1>3. \A k \in 1..Len(d) : /\ e[k].plan = d[k].plan
                           /\ d[k].state = "completed" => e[k] = d[k]
  BY <1>1, <1>2
<1>4. Grows(d, e)
  BY <1>1, <1>3 DEF Grows
<1>5. Dated(op, now)
  BY DEF DiskAgrees, Dated
<1>6. \A k \in 1..Len(d) : e[k].id = k
  BY <1>1 DEF DiskAgrees
<1>7. \A k \in 1..Len(d) : Dated(e[k], now)
  BY <1>1, <1>5 DEF DiskAgrees
<1>8. \A k \in 1..Len(d) : Earlier(e[k].plan, d)
  BY <1>3 DEF DiskAgrees
<1>9. \A k \in 1..Len(d) : Earlier(e[k].plan, e)
  BY <1>4, <1>8, EarlierStays
<1>10. DiskAgrees(e, now)
  BY <1>1, <1>6, <1>7, <1>9 DEF DiskAgrees
<1>11. QED
  BY <1>1, <1>4, <1>5, <1>10 DEF e

-----------------------------------------------------------------------------
(* The prepared stage.                                                     *)

\* The ready stage is the one the workflow is at.
LEMMA ReadyStage ==
    ASSUME NEW r, NEW d, NEW now, RecordAgrees(r, d, now),
           NEW i \in Stages, r.stages[i].state = "ready"
    PROVE  Well(r, i)
<1>1. PICK k \in Stages : Well(r, k)
  BY DEF RecordAgrees, Between
<1>2. /\ \A j \in Stages : j < k => r.stages[j].state = "completed"
      /\ \A j \in Stages : j > k => r.stages[j].state = "pending"
  BY <1>1, StateAtStage DEF Well
<1>3. i \in Nat /\ k \in Nat
  BY DEF Stages
<1>4. ~(i < k) /\ ~(i > k)
  BY <1>2
<1>5. i = k
  BY <1>3, <1>4
<1>6. QED
  BY <1>1, <1>5

\* The record that a prepared stage holds: the caller's, with the Plan.
LEMMA PreparedIsWell ==
    ASSUME NEW r, NEW d, NEW now, RecordAgrees(r, d, now),
           NEW p, PreparedAgrees(p, r, now)
    PROVE  /\ Well(p.record, p.stage) /\ p.record.updated = p.plan.created
           /\ p.record.state = "pending"
           /\ p.record.stages[p.stage].state = "planned"
           /\ p.record.stages[p.stage].plan = p.plan
           /\ \A j \in Stages : j # p.stage => p.record.stages[j] = r.stages[j]
<1>1. /\ p.stage \in Stages /\ p.plan \in PlanIDs /\ p.plan.stage = p.stage
      /\ r.stages[p.stage].state = "ready"
      /\ p.record = Bound(r, p.stage, p.plan, p.plan.created)
      /\ p.plan.created >= r.updated
  <2>1. /\ p.stage \in Stages /\ p.plan \in PlanIDs /\ p.plan.stage = p.stage
        /\ r.stages[p.stage].state = "ready"
        /\ p.record = Bound(r, p.stage, p.plan, p.plan.created)
        /\ r.updated <= p.plan.created
    BY DEF PreparedAgrees
  <2>2. p.plan.created \in Nat
    BY <2>1 DEF PlanIDs
  <2>3. QED
    BY <2>1, <2>2
<1>2. p.plan.created \in Nat
  BY <1>1 DEF PlanIDs
<1>3. Well(r, p.stage)
  BY <1>1, ReadyStage
<1>4. LET b == Bound(r, p.stage, p.plan, p.plan.created)
      IN  /\ Well(b, p.stage) /\ b.updated = p.plan.created /\ b.state = "pending"
          /\ b.stages[p.stage].state = "planned" /\ b.stages[p.stage].plan = p.plan
          /\ \A j \in Stages : j # p.stage => b.stages[j] = r.stages[j]
  BY <1>1, <1>2, <1>3, BoundIsWell
<1>5. QED
  BY <1>1, <1>4

\* When an operation is created on the prepared Plan, the earlier stages have
\* completed on disk.
LEMMA PreparedIsNext ==
    ASSUME NEW r, NEW d, NEW now, DiskAgrees(d, now), RecordAgrees(r, d, now),
           NEW p, PreparedAgrees(p, r, now)
    PROVE  Earlier(p.plan, d)
<1>1. /\ p.stage \in Stages /\ p.plan.stage = p.stage /\ p.plan.created \in Nat
      /\ r.stages[p.stage].state = "ready" /\ r.updated <= p.plan.created
  BY DEF PreparedAgrees, PlanIDs
<1>2. Well(r, p.stage)
  BY <1>1, ReadyStage
<1>3. \A j \in Stages : j < p.stage => r.stages[j].state = "completed"
  BY <1>2, StateAtStage DEF Well
<1>4. r.updated \in Nat /\ \A j \in Stages : r.stages[j] \in StageRecords
  BY <1>2 DEF Well, Core, Records
<1> SUFFICES ASSUME NEW j \in Stages, j < p.stage
             PROVE  \E done \in 1..Len(d) : /\ d[done].plan.stage = j
                                            /\ d[done].state = "completed"
                                            /\ d[done].finished <= p.plan.created
  BY <1>1 DEF Earlier
<1> DEFINE s == r.stages[j]
<1>5. BackedStage(s, j, d, r.updated)
  BY DEF RecordAgrees, Backed
<1>6. s.state = "completed" /\ s \in StageRecords
  BY <1>3, <1>4
<1> HIDE DEF s
<1>7. /\ s.operation \in 1..Len(d) /\ d[s.operation] = s.digest
      /\ s.digest.state = "completed" /\ s.digest.plan.stage = j
      /\ s.digest.finished <= r.updated
  BY <1>5, <1>6 DEF BackedStage
<1>8. s.digest.finished \in Nat
  <2>1. Dated(s.digest, now)
    BY <1>7 DEF DiskAgrees
  <2>2. s.digest.state # "active"
    BY <1>7
  <2>3. QED
    BY <2>1, <2>2 DEF Dated
<1>9. QED
  BY <1>1, <1>4, <1>7, <1>8

-----------------------------------------------------------------------------
(* Attaching an operation of the prepared stage.                           *)

\* An operation that has ended on the Plan of the prepared stage.
Attachable(op, p, d, now) ==
    /\ op \in Operations /\ op.state \in TerminalStates /\ op.plan = p.plan
    /\ Dated(op, now)
    /\ op.id \in 1..Len(d) /\ d[op.id].plan = op.plan
    /\ op.state = "completed" => d[op.id] = op

\* The record of the prepared stage after the attachment.
AttachedTo(p, op) ==
    Finished(Started(p.record, p.stage, op.id, op.created),
             p.stage, op.state, op, op.finished)

LEMMA StartOfAttached ==
    ASSUME NEW r, NEW d, NEW now,
           RecordAgrees(r, d, now), NEW p, PreparedAgrees(p, r, now),
           NEW op, Attachable(op, p, d, now)
    PROVE  LET s == Started(p.record, p.stage, op.id, op.created)
           IN  /\ Advances(p.record, p.stage, "planned", op.created)
               /\ Well(s, p.stage) /\ s.updated = op.created /\ s.state = "running"
               /\ s.stages[p.stage].state = "running"
               /\ s.stages[p.stage].plan = p.plan
               /\ s.stages[p.stage].operation = op.id
               /\ \A j \in Stages : j # p.stage => s.stages[j] = r.stages[j]
<1> DEFINE i == p.stage
           q == p.record
           s == Started(q, i, op.id, op.created)
<1>1. /\ i \in Stages /\ p.plan.stage = i
  BY DEF PreparedAgrees
<1>2. /\ Well(q, i) /\ q.updated = p.plan.created /\ q.state = "pending"
      /\ q.stages[i].state = "planned" /\ q.stages[i].plan = p.plan
      /\ \A j \in Stages : j # i => q.stages[j] = r.stages[j]
  BY PreparedIsWell
<1>3. /\ op \in Operations /\ op.id \in Nat /\ op.created \in Nat
      /\ op.plan = p.plan /\ p.plan.created <= op.created
      /\ op.id \in 1..Len(d) /\ d[op.id].plan = op.plan
  BY DEF Attachable, Dated, Operations
<1>4. p.plan.created \in Nat
  BY DEF PreparedAgrees, PlanIDs
<1> HIDE DEF i, q
<1>5. \A j \in Stages : j # i => q.stages[j].operation # op.id
  <2> SUFFICES ASSUME NEW j \in Stages, j # i, r.stages[j].operation = op.id
               PROVE  FALSE
    BY <1>2
  <2>1. BackedStage(r.stages[j], j, d, r.updated)
    BY DEF RecordAgrees, Backed
  <2>2. r.stages[j].operation # None
    BY <1>3, UnsetInstantAssumption
  <2>3. d[op.id].plan.stage = j
    BY <2>1, <2>2 DEF BackedStage
  <2>4. QED
    BY <1>1, <1>3, <2>3
<1>6. op.created >= q.updated
  BY <1>2, <1>3, <1>4
<1>7. /\ Well(s, i) /\ s.updated = op.created /\ s.state = "running"
      /\ s.stages[i].state = "running"
      /\ s.stages[i].plan = q.stages[i].plan
      /\ s.stages[i].operation = op.id
      /\ \A j \in Stages : j # i => s.stages[j] = q.stages[j]
  BY <1>2, <1>3, <1>5, <1>6, StartedIsWell
<1> HIDE DEF s
<1>8. q.state \notin TerminalStates
  BY <1>2 DEF TerminalStates, AbnormalStates
<1>9. Advances(q, i, "planned", op.created)
  BY <1>2, <1>6, <1>8 DEF Advances
<1>10. \A j \in Stages : j # i => s.stages[j] = r.stages[j]
  BY <1>2, <1>7
<1>11. s.stages[i].plan = p.plan
  BY <1>2, <1>7
<1>12. QED
  BY <1>7, <1>9, <1>10, <1>11 DEF s, q, i

\* The workflow accepts it, and its new record agrees with the disk.
LEMMA AttachIsAccepted ==
    ASSUME NEW r, NEW d, NEW now,
           DiskAgrees(d, now), RecordAgrees(r, d, now),
           NEW p, PreparedAgrees(p, r, now),
           NEW op, Attachable(op, p, d, now)
    PROVE  LET s == Started(p.record, p.stage, op.id, op.created)
               a == AttachedTo(p, op)
           IN  /\ op.state \in TerminalStates /\ op.plan = p.plan
               /\ Advances(p.record, p.stage, "planned", op.created)
               /\ ValidRecord(s)
               /\ Advances(s, p.stage, "running", op.finished)
               /\ ValidRecord(a)
               /\ RecordAgrees(a, d, now)
<1> DEFINE i == p.stage
           q == p.record
           s == Started(q, i, op.id, op.created)
           a == AttachedTo(p, op)
<1>1. /\ Advances(q, i, "planned", op.created)
      /\ Well(s, i) /\ s.updated = op.created /\ s.state = "running"
      /\ s.stages[i].state = "running"
      /\ s.stages[i].plan = p.plan
      /\ s.stages[i].operation = op.id
      /\ \A j \in Stages : j # i => s.stages[j] = r.stages[j]
  <2>1. LET x == Started(p.record, p.stage, op.id, op.created)
        IN  /\ Advances(p.record, p.stage, "planned", op.created)
            /\ Well(x, p.stage) /\ x.updated = op.created /\ x.state = "running"
            /\ x.stages[p.stage].state = "running"
            /\ x.stages[p.stage].plan = p.plan
            /\ x.stages[p.stage].operation = op.id
            /\ \A j \in Stages : j # p.stage => x.stages[j] = r.stages[j]
    BY StartOfAttached
  <2>2. QED
    BY <2>1
<1>2. a = Finished(s, i, op.state, op, op.finished)
  BY DEF AttachedTo
<1>3. /\ op \in Operations /\ op.state \in TerminalStates /\ op.plan = p.plan
      /\ op.created <= op.finished /\ op.finished \in Nat /\ op.finished <= now
      /\ op.id \in 1..Len(d) /\ d[op.id].plan = op.plan
      /\ op.state = "completed" => d[op.id] = op
  BY DEF Attachable, Dated, TerminalStates, AbnormalStates
<1>4. op.created \in Nat
  BY <1>3 DEF Operations
<1>5. /\ i \in Stages /\ p.plan.stage = i /\ p.plan.created \in Nat
      /\ r.updated <= p.plan.created
  BY DEF PreparedAgrees, PlanIDs
<1>6. r.updated \in Nat
  BY DEF RecordAgrees, Between, Well, Core, Records
<1>7. r.updated <= op.finished
  <2>1. p.plan.created <= op.created
    BY DEF Attachable, Dated
  <2>2. QED
    BY <1>3, <1>4, <1>5, <1>6, <2>1
<1> HIDE DEF i, q, s
<1>8. op.finished >= s.updated
  BY <1>1, <1>3, <1>4
<1>9. /\ \E k \in Stages :
           /\ Well(a, k)
           /\ a.stages[k].state \in AbnormalStates \cup {"ready", "completed"}
           /\ a.stages[k].state = "completed" => k = Last
      /\ a.updated = op.finished
      /\ a.stages[i].state = op.state /\ a.stages[i].digest = op
      /\ a.stages[i].plan = s.stages[i].plan
      /\ a.stages[i].operation = s.stages[i].operation
      /\ \A j \in Stages : j # i =>
           \/ a.stages[j] = s.stages[j]
           \/ a.stages[j].state = "ready" /\ a.stages[j].operation = None
  <2>1. Well(s, i) /\ s.stages[i].state = "running"
    BY <1>1
  <2>2. /\ op \in Operations /\ op.state \in TerminalStates
        /\ op.finished \in Nat /\ op.finished >= s.updated
    BY <1>3, <1>8
  <2>3. QED
    BY <1>2, <2>1, <2>2, FinishedIsWell
<1> HIDE DEF a
<1>10. \E k \in Stages : Between(a, k)
  BY <1>9 DEF Between
<1>11. ValidRecord(a) /\ ValidRecord(s)
  BY <1>1, <1>9, WellIsValid
<1>12. BackedStage(a.stages[i], i, d, a.updated)
  BY <1>1, <1>3, <1>5, <1>9 DEF BackedStage
<1>13. \A j \in Stages : j # i => BackedStage(a.stages[j], j, d, a.updated)
  <2> SUFFICES ASSUME NEW j \in Stages, j # i
               PROVE  BackedStage(a.stages[j], j, d, a.updated)
    OBVIOUS
  <2>1. CASE a.stages[j] = s.stages[j]
    <3>1. a.stages[j] = r.stages[j]
      BY <1>1, <2>1
    <3>2. BackedStage(r.stages[j], j, d, r.updated)
      BY DEF RecordAgrees, Backed
    <3>3. BackedStage(r.stages[j], j, d, op.finished)
      <4> DEFINE b == r.stages[j]
      <4> SUFFICES ASSUME b.state = "completed"
                   PROVE  b.digest.finished <= op.finished
        BY <3>2 DEF BackedStage
      <4> HIDE DEF b
      <4>1. /\ b.operation \in 1..Len(d) /\ d[b.operation] = b.digest
            /\ b.digest.state = "completed" /\ b.digest.finished <= r.updated
        BY <3>2 DEF b, BackedStage
      <4>2. Dated(b.digest, now) /\ b.digest.state # "active"
        BY <4>1 DEF DiskAgrees
      <4>3. b.digest.finished \in Nat
        BY <4>2 DEF Dated
      <4>4. QED
        BY <1>3, <1>6, <1>7, <4>1, <4>3
    <3>4. QED
      BY <1>9, <3>1, <3>3
  <2>2. CASE a.stages[j].state = "ready" /\ a.stages[j].operation = None
    BY <2>2 DEF BackedStage
  <2>3. QED
    BY <1>9, <2>1, <2>2
<1>14. RecordAgrees(a, d, now)
  BY <1>3, <1>9, <1>10, <1>12, <1>13 DEF RecordAgrees, Backed
<1>15. Advances(s, i, "running", op.finished)
  BY <1>1, <1>8 DEF Advances, TerminalStates, AbnormalStates
<1>16. QED
  BY <1>1, <1>3, <1>11, <1>14, <1>15 DEF s, q, i, a

-----------------------------------------------------------------------------
(* The steps.                                                              *)

LEMMA Numbers ==
    ASSUME TypeInv
    PROVE  /\ clock \in Nat /\ Len(disk) \in Nat /\ running \in Nat
           /\ disk \in Seq(Operations) /\ Grows(disk, disk)
           /\ MaxTime \in Nat /\ MaxChanges \in Nat /\ MaxOperations \in Nat
<1>1. MaxTime \in Nat /\ MaxChanges \in Nat /\ MaxOperations \in Nat
  BY BoundAssumption
<1>2. disk \in Seq(Operations) /\ Len(disk) \in Nat
  BY DEF TypeInv
<1>3. clock \in Nat /\ running \in Nat
  BY <1>1, <1>2 DEF TypeInv
<1>4. Grows(disk, disk)
  BY <1>2 DEF Grows
<1>5. QED
  BY <1>1, <1>2, <1>3, <1>4

\* The clock may advance, the rest of what the invariant is about stays.
LEMMA StaysSafe ==
    ASSUME IInv, clock' \in 0..MaxTime, clock <= clock',
           changes' \in 0..MaxChanges, env' \in [Stages -> BOOLEAN],
           record' = record, prepared' = prepared, running' = running,
           returned' = returned, disk' = disk
    PROVE  IInv'
<1>1. /\ clock \in Nat /\ clock' \in Nat /\ clock <= clock'
      /\ disk \in Seq(Operations) /\ Grows(disk, disk)
  BY Numbers DEF IInv
<1>2. TypeInv'
  BY DEF IInv, TypeInv
<1>3. DiskAgrees(disk, clock')
  BY <1>1, DiskLater DEF IInv, DiskInv
<1>4. record # None => RecordAgrees(record, disk, clock')
  BY <1>1, RecordLater DEF IInv, RecordInv
<1>5. prepared # None => PreparedAgrees(prepared, record, clock')
  BY <1>1, PreparedLater DEF IInv, PreparedInv
<1>6. returned # None => Dated(returned, clock')
  BY <1>1, DatedStays DEF IInv, TypeInv, ReturnedInv
<1>7. DiskInv' /\ RecordInv' /\ PreparedInv'
  BY <1>3, <1>4, <1>5 DEF DiskInv, RecordInv, PreparedInv
<1>8. RunningInv'
  BY DEF IInv, RunningInv
<1>9. ReturnedInv'
  BY <1>6 DEF IInv, ReturnedInv
<1>10. QED
  BY <1>2, <1>7, <1>8, <1>9 DEF IInv

LEMMA InitIsSafe == ASSUME Init PROVE IInv
<1>1. 0 \in 0..MaxTime /\ 0 \in 0..MaxChanges /\ 0 <= MaxOperations
  BY BoundAssumption
<1>2. disk = <<>> /\ Len(disk) = 0 /\ disk \in Seq(Operations)
  BY DEF Init
<1>3. env \in [Stages -> BOOLEAN]
  BY DEF Init
<1>4. TypeInv
  BY <1>1, <1>2, <1>3 DEF Init, TypeInv
<1>5. \A id \in 1..Len(disk) : FALSE
  BY <1>2
<1>6. DiskInv
  BY <1>5 DEF DiskInv, DiskAgrees
<1>7. RecordInv /\ PreparedInv /\ RunningInv /\ ReturnedInv
  BY DEF Init, RecordInv, PreparedInv, RunningInv, ReturnedInv
<1>8. QED
  BY <1>4, <1>6, <1>7 DEF IInv

LEMMA CreateIsSafe == ASSUME IInv, Create PROVE IInv'
<1>1. /\ record' = NewRecord(clock)
      /\ clock' = clock /\ env' = env /\ changes' = changes
      /\ prepared' = prepared /\ running' = running /\ returned' = returned
      /\ disk' = disk /\ record = None
  BY DEF Create, machine
<1>2. prepared = None
  BY <1>1 DEF IInv, PreparedInv, PreparedAgrees
<1>3. running = 0 /\ returned = None
  BY <1>2 DEF IInv, RunningInv, ReturnedInv
<1>4. TypeInv'
  BY <1>1 DEF IInv, TypeInv
<1>5. DiskInv'
  BY <1>1 DEF IInv, DiskInv
<1>6. RecordInv'
  <2> DEFINE r == NewRecord(clock)
  <2>1. clock \in Nat
    BY Numbers DEF IInv
  <2>2. /\ Well(r, 1) /\ r.stages[1].state = "ready" /\ r.updated = clock
        /\ \A j \in Stages : /\ r.stages[j].operation = None
                             /\ r.stages[j].state # "completed"
    BY <2>1, CreateIsWell
  <2> HIDE DEF r
  <2>3. 1 \in Stages /\ Between(r, 1)
    BY <2>2 DEF Between, Well, Core
  <2>4. Backed(r, disk)
    BY <2>2 DEF Backed, BackedStage
  <2>5. RecordAgrees(r, disk, clock)
    BY <2>1, <2>2, <2>3, <2>4 DEF RecordAgrees
  <2>6. record' = r
    BY <1>1 DEF r
  <2>7. QED
    BY <1>1, <2>5, <2>6 DEF RecordInv
<1>7. PreparedInv' /\ RunningInv' /\ ReturnedInv'
  BY <1>1, <1>2, <1>3 DEF PreparedInv, RunningInv, ReturnedInv
<1>8. QED
  BY <1>4, <1>5, <1>6, <1>7 DEF IInv

LEMMA PlanIsMade ==
    ASSUME TypeInv, NEW i \in Stages
    PROVE  /\ NewPlan(i) \in PlanIDs /\ NewPlan(i).stage = i
           /\ NewPlan(i).created = clock
<1> DEFINE S == {k \in Stages : k <= 2 \/ k <= i}
<1>1. S \in SUBSET Stages
  OBVIOUS
<1>2. \A j \in Stages : env[j] \in BOOLEAN
  BY DEF TypeInv
<1>3. Scanned(i) = [j \in S |-> env[j]]
  BY DEF Scanned
<1> HIDE DEF S
<1>4. Scanned(i) \in [S -> BOOLEAN]
  BY <1>1, <1>2, <1>3
<1>5. Scanned(i) \in UNION {[T -> BOOLEAN] : T \in SUBSET Stages}
  BY <1>1, <1>4
<1>6. clock \in Nat
  BY Numbers
<1>7. QED
  BY <1>5, <1>6 DEF NewPlan, PlanIDs

LEMMA PrepareNextIsSafe == ASSUME IInv, PrepareNext PROVE IInv'
<1>1. PICK i \in Stages :
        /\ Advances(record, i, "ready", clock)
        /\ prepared' = [stage |-> i, plan |-> NewPlan(i), native |-> TRUE,
                        record |-> Bound(record, i, NewPlan(i), clock)]
  BY DEF PrepareNext
<1>2. /\ record # None /\ running = 0 /\ returned = None
      /\ record' = record /\ running' = running /\ returned' = returned
      /\ disk' = disk /\ clock' = clock /\ env' = env /\ changes' = changes
  BY DEF PrepareNext, Idle, machine
<1>3. clock \in Nat /\ TypeInv /\ RecordAgrees(record, disk, clock)
  BY <1>2, Numbers DEF IInv, RecordInv
<1>4. record.stages[i].state = "ready" /\ clock >= record.updated
  BY <1>1 DEF Advances
<1>5. Well(record, i)
  BY <1>3, <1>4, ReadyStage
<1> DEFINE p == NewPlan(i)
           b == Bound(record, i, p, clock)
<1>6. p \in PlanIDs /\ p.stage = i /\ p.created = clock
  BY <1>3, PlanIsMade
<1> HIDE DEF p
<1>7. b \in Records
  <2>1. Well(b, i)
    BY <1>3, <1>4, <1>5, <1>6, BoundIsWell
  <2>2. QED
    BY <2>1 DEF Well, Core
<1> HIDE DEF b
<1>8. record.updated \in Nat
  BY <1>5 DEF Well, Core, Records
<1>9. prepared' = [stage |-> i, plan |-> p, native |-> TRUE, record |-> b]
  BY <1>1 DEF p, b
<1>10. PreparedAgrees(prepared', record, clock)
  <2>1. /\ prepared' \in [stage: Stages, plan: PlanIDs, native: BOOLEAN,
                          record: Records]
        /\ prepared'.stage = i /\ prepared'.plan = p /\ prepared'.record = b
    BY <1>6, <1>7, <1>9
  <2>2. record.updated <= clock /\ clock <= clock
    BY <1>3, <1>4, <1>8
  <2>3. b = Bound(record, i, p, clock)
    BY DEF b
  <2>4. QED
    BY <1>2, <1>4, <1>6, <2>1, <2>2, <2>3 DEF PreparedAgrees
<1>11. TypeInv'
  BY <1>2 DEF IInv, TypeInv
<1>12. DiskInv' /\ RecordInv'
  BY <1>2 DEF IInv, DiskInv, RecordInv
<1>13. PreparedInv'
  BY <1>2, <1>10 DEF PreparedInv
<1>14. RunningInv' /\ ReturnedInv'
  BY <1>2 DEF RunningInv, ReturnedInv
<1>15. QED
  BY <1>11, <1>12, <1>13, <1>14 DEF IInv

LEMMA ExecuteIsSafe == ASSUME IInv, Execute PROVE IInv'
<1> DEFINE n == Len(disk) + 1
           o == [id |-> n, plan |-> prepared.plan, created |-> clock,
                 finished |-> None, state |-> "active"]
           d == Append(disk, o)
<1>1. /\ prepared # None /\ prepared.native /\ running = 0 /\ returned = None
      /\ Len(disk) < MaxOperations /\ running' = n /\ disk' = d
      /\ clock' = clock /\ env' = env /\ changes' = changes
      /\ record' = record /\ prepared' = prepared /\ returned' = returned
  BY DEF Execute, Idle, machine, caller
<1>2. /\ clock \in Nat /\ Len(disk) \in Nat /\ disk \in Seq(Operations)
      /\ MaxOperations \in Nat
  BY Numbers DEF IInv
<1>3. PreparedAgrees(prepared, record, clock)
  BY <1>1 DEF IInv, PreparedInv
<1>4. record # None /\ prepared.plan \in PlanIDs /\ prepared.plan.created <= clock
  BY <1>3 DEF PreparedAgrees
<1>5. /\ o \in Operations /\ o.id = n /\ o.plan = prepared.plan
      /\ o.created = clock /\ o.state = "active" /\ o.finished = None
  BY <1>2, <1>4 DEF Operations
<1> HIDE DEF o
<1>6. /\ d \in Seq(Operations) /\ Len(d) = n /\ d[n] = o
      /\ \A k \in 1..Len(disk) : d[k] = disk[k]
  BY <1>2, <1>5, AppendProperties
<1> HIDE DEF d
<1>7. \A k \in 1..n : k \in 1..Len(disk) \/ k = n
  BY <1>2
<1>8. Len(disk) <= n /\ n \in 1..n /\ n \in Nat /\ n # 0
  BY <1>2
<1> HIDE DEF n
<1>9. Grows(disk, d)
  BY <1>2, <1>6, <1>8 DEF Grows
<1>10. RecordAgrees(record, disk, clock)
  BY <1>4 DEF IInv, RecordInv
<1>11. Earlier(prepared.plan, disk)
  BY <1>3, <1>10, PreparedIsNext DEF IInv, DiskInv
<1>12. DiskAgrees(d, clock)
  <2>1. Dated(o, clock)
    BY <1>2, <1>4, <1>5 DEF Dated
  <2>2. d[n].id = n /\ Dated(d[n], clock) /\ Earlier(d[n].plan, d)
    BY <1>5, <1>6, <1>9, <1>11, <2>1, EarlierStays
  <2>3. ASSUME NEW k \in 1..Len(disk)
        PROVE  d[k].id = k /\ Dated(d[k], clock) /\ Earlier(d[k].plan, d)
    <3>1. disk[k].id = k /\ Dated(disk[k], clock) /\ Earlier(disk[k].plan, disk)
      BY DEF IInv, DiskInv, DiskAgrees
    <3>2. d[k] = disk[k]
      BY <1>6
    <3>3. Earlier(disk[k].plan, d)
      BY <1>9, <3>1, EarlierStays
    <3>4. QED
      BY <3>1, <3>2, <3>3
  <2>4. QED
    BY <1>6, <1>7, <2>2, <2>3 DEF DiskAgrees
<1>13. TypeInv'
  <2>1. n <= MaxOperations /\ n \in 0..n
    BY <1>1, <1>2, <1>8 DEF n
  <2>2. QED
    BY <1>1, <1>6, <2>1 DEF IInv, TypeInv
<1>14. DiskInv'
  BY <1>1, <1>12 DEF DiskInv
<1>15. RecordInv'
  <2>1. clock <= clock
    BY <1>2
  <2>2. RecordAgrees(record, d, clock)
    BY <1>2, <1>9, <1>10, <2>1, RecordLater
  <2>3. QED
    BY <1>1, <2>2 DEF RecordInv
<1>16. PreparedInv'
  BY <1>1 DEF IInv, PreparedInv
<1>17. RunningInv'
  BY <1>1, <1>5, <1>6 DEF RunningInv
<1>18. ReturnedInv'
  BY <1>1 DEF ReturnedInv
<1>19. QED
  BY <1>13, <1>14, <1>15, <1>16, <1>17, <1>18 DEF IInv

\* An Operation Record with its end.
EndOf(o, state, at) == [o EXCEPT !.state = state, !.finished = at]

LEMMA EndIsRecorded ==
    ASSUME NEW o \in Operations, NEW state \in TerminalStates, NEW at \in Nat
    PROVE  LET e == EndOf(o, state, at)
           IN  /\ e \in Operations /\ e.id = o.id /\ e.plan = o.plan
               /\ e.created = o.created /\ e.state = state /\ e.finished = at
               /\ e.state # "active" /\ e.state \in TerminalStates
  BY DEF EndOf, Operations, TerminalStates, AbnormalStates

LEMMA WrittenIsTyped ==
    ASSUME TypeInv, Written
    PROVE  env' \in [Stages -> BOOLEAN]
<1>1. env \in [Stages -> BOOLEAN]
  BY DEF TypeInv
<1>2. PICK value \in BOOLEAN : env' = [env EXCEPT ![disk[running].plan.stage] = value]
  BY DEF Written
<1>3. QED
  BY <1>1, <1>2

\* The operation that runs, as the invariant has it.
LEMMA RunningOperation ==
    ASSUME IInv, running # 0
    PROVE  /\ running \in 1..Len(disk) /\ disk[running] \in Operations
           /\ disk[running].state = "active" /\ disk[running].plan = prepared.plan
           /\ disk[running].id = running /\ Dated(disk[running], clock)
           /\ prepared # None /\ prepared.native /\ returned = None
           /\ record # None
<1>1. disk \in Seq(Operations) /\ running \in Nat /\ Len(disk) \in Nat
  BY Numbers DEF IInv
<1>2. running \in 1..Len(disk)
  BY <1>1 DEF IInv, TypeInv
<1>3. disk[running] \in Operations
  BY <1>1, <1>2
<1>4. disk[running].id = running /\ Dated(disk[running], clock)
  BY <1>2 DEF IInv, DiskInv, DiskAgrees
<1>5. /\ prepared # None /\ prepared.native /\ returned = None
      /\ disk[running].state = "active" /\ disk[running].plan = prepared.plan
  BY DEF IInv, RunningInv
<1>6. record # None
  BY <1>5 DEF IInv, PreparedInv, PreparedAgrees
<1>7. QED
  BY <1>2, <1>3, <1>4, <1>5, <1>6

LEMMA OperationEndsIsSafe == ASSUME IInv, OperationEnds PROVE IInv'
<1>1. PICK state \in Outcomes :
        returned' = EndOf(disk[running], state, clock)
  BY DEF OperationEnds, EndedOperation, EndOf
<1>2. /\ running # 0 /\ running' = 0 /\ Written
      /\ disk' = [disk EXCEPT ![running] = returned']
      /\ clock' = clock /\ changes' = changes
      /\ record' = record /\ prepared' = prepared
  BY DEF OperationEnds, caller
<1>3. /\ clock \in Nat /\ Len(disk) \in Nat /\ disk \in Seq(Operations)
  BY Numbers DEF IInv
<1>4. /\ running \in 1..Len(disk) /\ disk[running] \in Operations
      /\ disk[running].state = "active" /\ disk[running].plan = prepared.plan
      /\ disk[running].id = running /\ prepared # None /\ prepared.native
      /\ record # None
  BY <1>2, RunningOperation
<1>5. state \in TerminalStates
  BY OutcomeAssumption
<1> DEFINE op == returned'
           d == [disk EXCEPT ![running] = op]
<1>6. /\ op \in Operations /\ op.id = running /\ op.plan = prepared.plan
      /\ op.created = disk[running].created /\ op.finished = clock
      /\ op.state # "active"
  BY <1>1, <1>3, <1>4, <1>5, EndIsRecorded
<1> HIDE DEF op
<1>7. /\ Grows(disk, d) /\ Len(d) = Len(disk) /\ d[running] = op
      /\ DiskAgrees(d, clock) /\ Dated(op, clock)
  <2>1. DiskAgrees(disk, clock)
    BY DEF IInv, DiskInv
  <2>2. op.plan = disk[running].plan /\ op.id = disk[running].id
    BY <1>4, <1>6
  <2>3. QED
    BY <1>3, <1>4, <1>6, <2>1, <2>2, DiskEnds
<1>8. disk' = d
  BY <1>2 DEF op
<1> HIDE DEF d
<1>9. TypeInv'
  <2>1. env' \in [Stages -> BOOLEAN]
    BY <1>2, WrittenIsTyped DEF IInv
  <2>2. d \in Seq(Operations) /\ 0 \in 0..Len(d)
    BY <1>3, <1>7 DEF Grows
  <2>3. returned' \in Operations
    BY <1>6 DEF op
  <2>4. Len(d) <= MaxOperations
    BY <1>7 DEF IInv, TypeInv
  <2>5. QED
    BY <1>2, <1>8, <2>1, <2>2, <2>3, <2>4 DEF IInv, TypeInv
<1>10. DiskInv'
  BY <1>2, <1>7, <1>8 DEF DiskInv
<1>11. RecordInv'
  <2>1. clock <= clock
    BY <1>3
  <2>2. RecordAgrees(record, disk, clock)
    BY <1>4 DEF IInv, RecordInv
  <2>3. RecordAgrees(record, d, clock)
    BY <1>3, <1>7, <2>1, <2>2, RecordLater
  <2>4. QED
    BY <1>2, <1>8, <2>3 DEF RecordInv
<1>12. PreparedInv'
  BY <1>2 DEF IInv, PreparedInv
<1>13. RunningInv'
  BY <1>2 DEF RunningInv
<1>14. ReturnedInv'
  <2>1. op.id \in 1..Len(d) /\ d[op.id] = op
    BY <1>4, <1>6, <1>7
  <2>2. returned' = op
    BY DEF op
  <2>3. QED
    BY <1>2, <1>4, <1>6, <1>7, <1>8, <2>1, <2>2 DEF ReturnedInv
<1>15. QED
  BY <1>9, <1>10, <1>11, <1>12, <1>13, <1>14 DEF IInv

LEMMA OperationLosesLogIsSafe == ASSUME IInv, OperationLosesLog PROVE IInv'
<1> DEFINE state == "failed"
           op == returned'
<1>1. /\ returned' = EndOf(disk[running], state, clock)
      /\ running # 0 /\ running' = 0 /\ Written
      /\ clock' = clock /\ changes' = changes /\ disk' = disk
      /\ record' = record /\ prepared' = prepared
  BY DEF OperationLosesLog, EndedOperation, EndOf, caller
<1>2. clock \in Nat /\ Len(disk) \in Nat
  BY Numbers DEF IInv
<1>3. /\ running \in 1..Len(disk) /\ disk[running] \in Operations
      /\ disk[running].plan = prepared.plan /\ Dated(disk[running], clock)
      /\ disk[running].id = running /\ prepared # None /\ prepared.native
  BY <1>1, RunningOperation
<1>4. state \in TerminalStates /\ state # "active" /\ state # "completed"
  BY DEF TerminalStates, AbnormalStates
<1> HIDE DEF state
<1>5. /\ op \in Operations /\ op.id = running /\ op.plan = prepared.plan
      /\ op.created = disk[running].created /\ op.finished = clock
      /\ op.state = state
  <2>1. LET e == EndOf(disk[running], state, clock)
        IN  /\ e \in Operations /\ e.id = disk[running].id
            /\ e.plan = disk[running].plan /\ e.created = disk[running].created
            /\ e.state = state /\ e.finished = clock
            /\ e.state # "active" /\ e.state \in TerminalStates
    <3>1. disk[running] \in Operations /\ clock \in Nat
      BY <1>2, <1>3
    <3>2. state \in TerminalStates
      BY <1>4
    <3>3. QED
      BY <3>1, <3>2, EndIsRecorded
  <2>2. QED
    BY <1>1, <1>3, <2>1
<1> HIDE DEF op
<1>6. Dated(op, clock)
  <2>1. op.plan.created <= op.created /\ op.created <= clock
    BY <1>3, <1>5 DEF Dated
  <2>2. clock <= clock
    BY <1>2
  <2>3. QED
    BY <1>2, <1>4, <1>5, <2>1, <2>2 DEF Dated
<1>7. TypeInv'
  <2>1. env' \in [Stages -> BOOLEAN]
    BY <1>1, WrittenIsTyped DEF IInv
  <2>2. 0 \in 0..Len(disk)
    BY <1>2
  <2>3. returned' \in Operations
    BY <1>5 DEF op
  <2>4. QED
    BY <1>1, <2>1, <2>2, <2>3 DEF IInv, TypeInv
<1>8. DiskInv' /\ RecordInv' /\ PreparedInv'
  BY <1>1 DEF IInv, DiskInv, RecordInv, PreparedInv
<1>9. RunningInv'
  BY <1>1 DEF RunningInv
<1>10. ReturnedInv'
  <2>1. op.id \in 1..Len(disk) /\ disk[op.id].plan = op.plan
    BY <1>3, <1>5
  <2>2. returned' = op /\ op.state # "active" /\ op.state # "completed"
    BY <1>4, <1>5 DEF op
  <2>3. QED
    BY <1>1, <1>3, <1>5, <1>6, <2>1, <2>2 DEF ReturnedInv
<1>11. QED
  BY <1>7, <1>8, <1>9, <1>10 DEF IInv

\* The operation that is attached is one of the prepared stage that has ended.
LEMMA ReturnedIsAttachable ==
    ASSUME IInv, returned # None
    PROVE  /\ prepared # None /\ record # None
           /\ Attachable(returned, prepared, disk, clock)
<1>1. /\ running = 0 /\ prepared # None
      /\ returned.plan = prepared.plan /\ returned.state # "active"
      /\ returned.id \in 1..Len(disk) /\ Dated(returned, clock)
      /\ disk[returned.id].plan = returned.plan
      /\ returned.state = "completed" => disk[returned.id] = returned
  BY DEF IInv, ReturnedInv
<1>2. record # None
  BY <1>1 DEF IInv, PreparedInv, PreparedAgrees
<1>3. returned \in Operations
  BY DEF IInv, TypeInv
<1>4. returned.state \in TerminalStates
  BY <1>1, <1>3 DEF Operations
<1>5. QED
  BY <1>1, <1>2, <1>3, <1>4 DEF Attachable

LEMMA DiskIsAttachable ==
    ASSUME IInv, prepared # None, NEW id \in 1..Len(disk),
           disk[id].plan = prepared.plan, disk[id].state # "active"
    PROVE  record # None /\ Attachable(disk[id], prepared, disk, clock)
<1>1. record # None
  BY DEF IInv, PreparedInv, PreparedAgrees
<1>2. disk \in Seq(Operations)
  BY Numbers DEF IInv
<1>3. disk[id] \in Operations
  BY <1>2
<1>4. disk[id].state \in TerminalStates
  BY <1>3 DEF Operations
<1>5. disk[id].id = id /\ Dated(disk[id], clock)
  BY DEF IInv, DiskInv, DiskAgrees
<1>6. QED
  BY <1>1, <1>3, <1>4, <1>5 DEF Attachable

\* An operation of the prepared stage is accepted.
LEMMA EndedCanAttach ==
    ASSUME IInv, prepared # None, record # None,
           NEW op, Attachable(op, prepared, disk, clock)
    PROVE  CanAttach(op) /\ RecordAgrees(Attached(op), disk, clock)
<1>1. /\ DiskAgrees(disk, clock) /\ RecordAgrees(record, disk, clock)
      /\ PreparedAgrees(prepared, record, clock)
  BY DEF IInv, DiskInv, RecordInv, PreparedInv
<1>2. LET s == Started(prepared.record, prepared.stage, op.id, op.created)
          a == AttachedTo(prepared, op)
      IN  /\ op.state \in TerminalStates /\ op.plan = prepared.plan
          /\ Advances(prepared.record, prepared.stage, "planned", op.created)
          /\ ValidRecord(s)
          /\ Advances(s, prepared.stage, "running", op.finished)
          /\ ValidRecord(a)
          /\ RecordAgrees(a, disk, clock)
  BY <1>1, AttachIsAccepted
<1>3. Attached(op) = AttachedTo(prepared, op)
  BY DEF Attached, AttachedTo
<1>4. QED
  BY <1>2, <1>3 DEF CanAttach

LEMMA AttachReturnedIsSafe == ASSUME IInv, AttachReturned PROVE IInv'
<1>1. /\ returned # None /\ record' = Attached(returned)
      /\ prepared' = None /\ returned' = None
      /\ clock' = clock /\ env' = env /\ changes' = changes
      /\ running' = running /\ disk' = disk
  BY DEF AttachReturned, machine
<1>2. RecordAgrees(Attached(returned), disk, clock) /\ running = 0
  <2>1. /\ prepared # None /\ record # None
        /\ Attachable(returned, prepared, disk, clock)
    BY <1>1, ReturnedIsAttachable
  <2>2. running = 0
    BY <1>1 DEF IInv, ReturnedInv
  <2>3. QED
    BY <2>1, <2>2, EndedCanAttach
<1>3. TypeInv' /\ DiskInv'
  BY <1>1 DEF IInv, TypeInv, DiskInv
<1>4. RecordInv'
  BY <1>1, <1>2 DEF RecordInv
<1>5. PreparedInv' /\ RunningInv' /\ ReturnedInv'
  BY <1>1, <1>2 DEF PreparedInv, RunningInv, ReturnedInv
<1>6. QED
  BY <1>3, <1>4, <1>5 DEF IInv

LEMMA AttachFromDiskIsSafe == ASSUME IInv, AttachFromDisk PROVE IInv'
<1>1. PICK id \in 1..Len(disk) :
        CanAttach(disk[id]) /\ record' = Attached(disk[id])
  BY DEF AttachFromDisk
<1>2. /\ prepared # None /\ prepared' = None /\ running = 0 /\ returned = None
      /\ clock' = clock /\ env' = env /\ changes' = changes
      /\ running' = running /\ returned' = returned /\ disk' = disk
  BY DEF AttachFromDisk, Idle, machine
<1>3. disk[id].plan = prepared.plan /\ disk[id].state # "active"
  BY <1>1 DEF CanAttach, TerminalStates, AbnormalStates
<1>4. RecordAgrees(Attached(disk[id]), disk, clock)
  <2>1. record # None /\ Attachable(disk[id], prepared, disk, clock)
    BY <1>2, <1>3, DiskIsAttachable
  <2>2. QED
    BY <1>2, <2>1, EndedCanAttach
<1>5. TypeInv' /\ DiskInv'
  BY <1>2 DEF IInv, TypeInv, DiskInv
<1>6. RecordInv'
  BY <1>1, <1>2, <1>4 DEF RecordInv
<1>7. PreparedInv' /\ RunningInv' /\ ReturnedInv'
  BY <1>2 DEF PreparedInv, RunningInv, ReturnedInv
<1>8. QED
  BY <1>5, <1>6, <1>7 DEF IInv

LEMMA RestartIsSafe == ASSUME IInv, Restart PROVE IInv'
<1>1. /\ prepared # None /\ prepared' = [prepared EXCEPT !.native = FALSE]
      /\ IF running = 0 THEN env' = env ELSE Written
      /\ running' = 0 /\ returned' = None /\ disk' = disk
      /\ clock' = clock /\ changes' = changes /\ record' = record
  BY DEF Restart
<1>2. env' \in [Stages -> BOOLEAN]
  BY <1>1, WrittenIsTyped DEF IInv, TypeInv
<1>3. TypeInv'
  <2>1. 0 \in 0..Len(disk)
    BY Numbers DEF IInv
  <2>2. QED
    BY <1>1, <1>2, <2>1 DEF IInv, TypeInv
<1>4. DiskInv' /\ RecordInv'
  BY <1>1 DEF IInv, DiskInv, RecordInv
<1>5. PreparedInv'
  <2>1. PreparedAgrees(prepared, record, clock)
    BY <1>1 DEF IInv, PreparedInv
  <2> DEFINE p == [prepared EXCEPT !.native = FALSE]
  <2>2. /\ p \in [stage: Stages, plan: PlanIDs, native: BOOLEAN, record: Records]
        /\ p.stage = prepared.stage /\ p.plan = prepared.plan
        /\ p.record = prepared.record
    BY <2>1 DEF PreparedAgrees
  <2> HIDE DEF p
  <2>3. PreparedAgrees(p, record, clock)
    BY <2>1, <2>2 DEF PreparedAgrees
  <2>4. prepared' = p
    BY <1>1 DEF p
  <2>5. QED
    BY <1>1, <2>3, <2>4 DEF PreparedInv
<1>6. RunningInv' /\ ReturnedInv'
  BY <1>1 DEF RunningInv, ReturnedInv
<1>7. QED
  BY <1>3, <1>4, <1>5, <1>6 DEF IInv

LEMMA RecoverIsSafe == ASSUME IInv, Recover PROVE IInv'
<1>1. PICK id \in 1..Len(disk) :
        /\ disk[id].state = "active"
        /\ disk' = [disk EXCEPT ![id].state = "interrupted", ![id].finished = clock]
  BY DEF Recover
<1>2. /\ running = 0 /\ returned = None
      /\ clock' = clock /\ env' = env /\ changes' = changes
      /\ record' = record /\ prepared' = prepared
      /\ running' = running /\ returned' = returned
  BY DEF Recover, Idle, machine, caller
<1>3. /\ clock \in Nat /\ Len(disk) \in Nat /\ disk \in Seq(Operations)
  BY Numbers DEF IInv
<1> DEFINE state == "interrupted"
           op == EndOf(disk[id], state, clock)
           d == [disk EXCEPT ![id] = op]
<1>4. disk[id] \in Operations /\ state \in TerminalStates
  BY <1>3 DEF TerminalStates, AbnormalStates
<1>5. disk' = d
  BY <1>1, <1>3 DEF EndOf
<1> HIDE DEF state
<1>6. /\ op \in Operations /\ op.id = disk[id].id /\ op.plan = disk[id].plan
      /\ op.created = disk[id].created /\ op.finished = clock
      /\ op.state # "active"
  <2>1. clock \in Nat
    BY <1>3
  <2>2. LET e == EndOf(disk[id], state, clock)
        IN  /\ e \in Operations /\ e.id = disk[id].id /\ e.plan = disk[id].plan
            /\ e.created = disk[id].created /\ e.state = state
            /\ e.finished = clock
            /\ e.state # "active" /\ e.state \in TerminalStates
    BY <1>4, <2>1, EndIsRecorded
  <2>3. QED
    BY <2>2
<1> HIDE DEF op
<1>7. /\ Grows(disk, d) /\ Len(d) = Len(disk) /\ DiskAgrees(d, clock)
  <2>1. DiskAgrees(disk, clock)
    BY DEF IInv, DiskInv
  <2>2. disk[id].state = "active"
    BY <1>1
  <2>3. QED
    BY <1>3, <1>6, <2>1, <2>2, DiskEnds
<1> HIDE DEF d
<1>8. TypeInv'
  <2>1. d \in Seq(Operations) /\ 0 \in 0..Len(d)
    BY <1>3, <1>7 DEF Grows
  <2>2. Len(d) <= MaxOperations
    BY <1>7 DEF IInv, TypeInv
  <2>3. QED
    BY <1>2, <1>5, <2>1, <2>2 DEF IInv, TypeInv
<1>9. DiskInv'
  BY <1>2, <1>5, <1>7 DEF DiskInv
<1>10. RecordInv'
  <2>1. clock <= clock
    BY <1>3
  <2>2. record # None => RecordAgrees(record, disk, clock)
    BY DEF IInv, RecordInv
  <2>3. record # None => RecordAgrees(record, d, clock)
    BY <1>3, <1>7, <2>1, <2>2, RecordLater
  <2>4. QED
    BY <1>2, <1>5, <2>3 DEF RecordInv
<1>11. PreparedInv' /\ RunningInv' /\ ReturnedInv'
  BY <1>2 DEF IInv, PreparedInv, RunningInv, ReturnedInv
<1>12. QED
  BY <1>8, <1>9, <1>10, <1>11 DEF IInv

LEMMA TickIsSafe == ASSUME IInv, Tick PROVE IInv'
<1>1. /\ clock < MaxTime /\ clock' = clock + 1
      /\ env' = env /\ changes' = changes
      /\ record' = record /\ prepared' = prepared
      /\ running' = running /\ returned' = returned /\ disk' = disk
  BY DEF Tick, caller
<1>2. clock \in Nat /\ MaxTime \in Nat
  BY Numbers DEF IInv
<1>3. clock' \in 0..MaxTime /\ clock <= clock'
  BY <1>1, <1>2
<1>4. changes' \in 0..MaxChanges /\ env' \in [Stages -> BOOLEAN]
  BY <1>1 DEF IInv, TypeInv
<1>5. QED
  BY <1>1, <1>3, <1>4, StaysSafe

LEMMA EnvironmentChangesIsSafe == ASSUME IInv, EnvironmentChanges PROVE IInv'
<1>1. /\ changes < MaxChanges /\ changes' = changes + 1 /\ clock' = clock
      /\ record' = record /\ prepared' = prepared
      /\ running' = running /\ returned' = returned /\ disk' = disk
  BY DEF EnvironmentChanges, caller
<1>2. env \in [Stages -> BOOLEAN] /\ changes \in 0..MaxChanges
      /\ clock \in 0..MaxTime
  BY DEF IInv, TypeInv
<1>3. clock \in Nat /\ MaxChanges \in Nat
  BY Numbers DEF IInv
<1>4. env' \in [Stages -> BOOLEAN]
  <2>1. PICK i \in Stages : env' = [env EXCEPT ![i] = ~env[i]]
    BY DEF EnvironmentChanges
  <2> DEFINE b == ~env[i]
  <2>2. b \in BOOLEAN /\ env' = [env EXCEPT ![i] = b]
    BY <2>1
  <2> HIDE DEF b
  <2>3. QED
    BY <1>2, <2>2
<1>5. changes' \in 0..MaxChanges /\ clock <= clock' /\ clock' \in 0..MaxTime
  BY <1>1, <1>2, <1>3
<1>6. QED
  BY <1>1, <1>4, <1>5, StaysSafe

LEMMA StutterIsSafe == ASSUME IInv, UNCHANGED vars PROVE IInv'
<1>1. /\ clock' = clock /\ env' = env /\ changes' = changes
      /\ record' = record /\ prepared' = prepared
      /\ running' = running /\ returned' = returned /\ disk' = disk
  BY DEF vars, machine, caller
<1>2. clock \in Nat
  BY Numbers DEF IInv
<1>3. /\ clock' \in 0..MaxTime /\ clock <= clock' /\ changes' \in 0..MaxChanges
      /\ env' \in [Stages -> BOOLEAN]
  BY <1>1, <1>2 DEF IInv, TypeInv
<1>4. QED
  BY <1>1, <1>3, StaysSafe

LEMMA NextIsSafe == ASSUME IInv, [Next]_vars PROVE IInv'
<1>1. CASE Create
  BY <1>1, CreateIsSafe
<1>2. CASE PrepareNext
  BY <1>2, PrepareNextIsSafe
<1>3. CASE Execute
  BY <1>3, ExecuteIsSafe
<1>4. CASE OperationEnds
  BY <1>4, OperationEndsIsSafe
<1>5. CASE OperationLosesLog
  BY <1>5, OperationLosesLogIsSafe
<1>6. CASE AttachReturned
  BY <1>6, AttachReturnedIsSafe
<1>7. CASE AttachFromDisk
  BY <1>7, AttachFromDiskIsSafe
<1>8. CASE Restart
  BY <1>8, RestartIsSafe
<1>9. CASE Recover
  BY <1>9, RecoverIsSafe
<1>10. CASE Tick
  BY <1>10, TickIsSafe
<1>11. CASE EnvironmentChanges
  BY <1>11, EnvironmentChangesIsSafe
<1>12. CASE UNCHANGED vars
  BY <1>12, StutterIsSafe
<1>13. QED
  BY <1>1, <1>2, <1>3, <1>4, <1>5, <1>6, <1>7, <1>8, <1>9, <1>10, <1>11, <1>12
     DEF Next

-----------------------------------------------------------------------------
(* What the invariant says.                                                *)

LEMMA InvariantIsTyped == IInv => TypeOK
<1> SUFFICES ASSUME IInv PROVE TypeOK
  OBVIOUS
<1>1. /\ clock \in Nat /\ Len(disk) \in Nat /\ disk \in Seq(Operations)
      /\ clock \in 0..MaxTime /\ MaxTime \in Nat
  BY Numbers DEF IInv, TypeInv
<1>2. ASSUME NEW id \in 1..Len(disk)
      PROVE  /\ disk[id].id = id /\ disk[id].plan.stage \in Stages
             /\ disk[id].state \in TerminalStates \cup {"active"}
             /\ disk[id].finished \in Instants
  <2> DEFINE op == disk[id]
  <2>1. op \in Operations /\ op.id = id /\ Dated(op, clock)
    BY <1>1 DEF IInv, DiskInv, DiskAgrees
  <2> HIDE DEF op
  <2>2. op.plan.stage \in Stages /\ op.state \in TerminalStates \cup {"active"}
    BY <2>1 DEF Operations, PlanIDs
  <2>3. op.finished \in Instants
    <3>1. CASE op.state = "active"
      BY <2>1, <3>1 DEF Dated, Instants
    <3>2. CASE op.state # "active"
      <4>1. op.finished \in Nat /\ op.finished <= clock
        BY <2>1, <3>2 DEF Dated
      <4>2. QED
        BY <1>1, <4>1 DEF Instants
    <3>3. QED
      BY <3>1, <3>2
  <2>4. QED
    BY <2>1, <2>2, <2>3 DEF op
<1>3. ASSUME record # None
      PROVE  /\ record.state \in WorkflowStates
             /\ \A i \in Stages : record.stages[i].state \in StageStates
             /\ record.updated \in 0..clock
  <2>1. RecordAgrees(record, disk, clock)
    BY <1>3 DEF IInv, RecordInv
  <2>2. record \in Records /\ record.updated <= clock
    BY <2>1 DEF RecordAgrees, Between, Well, Core
  <2>3. record.updated \in Nat
    BY <2>2 DEF Records
  <2>4. \A i \in Stages : record.stages[i] \in StageRecords
    BY <2>2 DEF Records
  <2>5. \A i \in Stages : record.stages[i].state \in StageStates
    BY <2>4 DEF StageRecords
  <2>6. QED
    BY <1>1, <2>2, <2>3, <2>5 DEF Records
<1>4. ASSUME prepared # None
      PROVE  prepared.stage \in Stages /\ prepared.plan.created \in 0..clock
  <2>1. /\ prepared.stage \in Stages /\ prepared.plan \in PlanIDs
        /\ prepared.plan.created <= clock
    BY <1>4 DEF IInv, PreparedInv, PreparedAgrees
  <2>2. prepared.plan.created \in Nat
    BY <2>1 DEF PlanIDs
  <2>3. QED
    BY <1>1, <2>1, <2>2
<1>5. /\ changes \in 0..MaxChanges /\ env \in [Stages -> BOOLEAN]
      /\ running \in 0..Len(disk) /\ Len(disk) <= MaxOperations
  BY DEF IInv, TypeInv
<1>6. QED
  BY <1>1, <1>2, <1>3, <1>4, <1>5 DEF TypeOK

LEMMA InvariantAttaches == IInv => AttachIsNeverRefused
<1> SUFFICES ASSUME IInv, prepared # None
             PROVE  /\ returned # None => CanAttach(returned)
                    /\ \A id \in 1..Len(disk) :
                         disk[id].plan = prepared.plan /\ disk[id].state # "active"
                           => CanAttach(disk[id])
  BY DEF AttachIsNeverRefused
<1>1. ASSUME returned # None PROVE CanAttach(returned)
  BY <1>1, ReturnedIsAttachable, EndedCanAttach
<1>2. ASSUME NEW id \in 1..Len(disk), disk[id].plan = prepared.plan,
             disk[id].state # "active"
      PROVE  CanAttach(disk[id])
  BY <1>2, DiskIsAttachable, EndedCanAttach
<1>3. QED
  BY <1>1, <1>2

LEMMA InvariantIsInOrder == IInv => StagesInOrder
<1> SUFFICES ASSUME IInv, NEW id \in 1..Len(disk), NEW j \in Stages,
                    j < disk[id].plan.stage
             PROVE  \E done \in 1..Len(disk) :
                      /\ disk[done].plan.stage = j
                      /\ disk[done].state = "completed"
                      /\ disk[done].finished <= disk[id].plan.created
  BY DEF StagesInOrder
<1>1. Earlier(disk[id].plan, disk)
  BY DEF IInv, DiskInv, DiskAgrees
<1>2. QED
  BY <1>1 DEF Earlier

LEMMA InvariantIsBacked == IInv => CompletedStagesAreBacked
<1> SUFFICES ASSUME IInv, record # None, NEW i \in Stages,
                    record.stages[i].state = "completed"
             PROVE  LET s == record.stages[i]
                    IN  /\ s.operation \in 1..Len(disk)
                        /\ disk[s.operation] = s.digest
                        /\ s.digest.state = "completed"
                        /\ s.digest.plan = s.plan
                        /\ s.plan.stage = i
  BY DEF CompletedStagesAreBacked
<1>1. BackedStage(record.stages[i], i, disk, record.updated)
  BY DEF IInv, RecordInv, RecordAgrees, Backed
<1>2. QED
  BY <1>1 DEF BackedStage

LEMMA InvariantGoesOn == IInv => CanGoOn
<1> SUFFICES ASSUME IInv, record # None, record.state \notin TerminalStates
             PROVE  \E i \in Stages :
                      /\ \A j \in Stages : record.stages[j].state = "ready" <=> j = i
                      /\ ValidRecord(Bound(record, i, NewPlan(i), clock))
  BY DEF CanGoOn
<1>1. RecordAgrees(record, disk, clock) /\ TypeInv
  BY DEF IInv, RecordInv
<1>2. PICK i \in Stages : Between(record, i)
  BY <1>1 DEF RecordAgrees
<1>3. Well(record, i) /\ Core(record, i)
  BY <1>2 DEF Between, Well
<1>4. record.stages[i].state = "ready"
  <2>1. record.stages[i].state \in AbnormalStates => record.state = record.stages[i].state
    BY <1>3, StateAtStage
  <2>2. record.stages[i].state = "completed" => record.state = "completed"
    BY <1>2, <1>3, StateAtStage DEF Between
  <2>3. record.stages[i].state \in AbnormalStates \cup {"ready", "completed"}
    BY <1>2 DEF Between
  <2>4. QED
    BY <2>1, <2>2, <2>3 DEF TerminalStates
<1>5. \A j \in Stages : record.stages[j].state = "ready" <=> j = i
  <2>1. /\ \A j \in Stages : j < i => record.stages[j].state = "completed"
        /\ \A j \in Stages : j > i => record.stages[j].state = "pending"
    BY <1>3, StateAtStage
  <2>2. \A j \in Stages : j < i \/ j = i \/ j > i
    BY DEF Stages
  <2>3. QED
    BY <1>4, <2>1, <2>2
<1>6. /\ NewPlan(i) \in PlanIDs /\ NewPlan(i).stage = i
      /\ clock \in Nat /\ clock >= record.updated
  <2>1. record.updated \in Nat /\ record.updated <= clock
    BY <1>1, <1>3 DEF RecordAgrees, Core, Records
  <2>2. QED
    BY <1>1, <2>1, PlanIsMade, Numbers
<1>7. Well(Bound(record, i, NewPlan(i), clock), i)
  BY <1>3, <1>4, <1>6, BoundIsWell
<1>8. ValidRecord(Bound(record, i, NewPlan(i), clock))
  BY <1>7, WellIsValid
<1>9. QED
  BY <1>5, <1>8

-----------------------------------------------------------------------------
(* The theorems.                                                           *)

\* The record, the prepared stage and the Operation Records agree whatever is
\* executed, lost, recovered or attached (internal/workflow).
THEOREM Inductive == Spec => []IInv
<1>1. Init => IInv
  BY InitIsSafe
<1>2. IInv /\ [Next]_vars => IInv'
  BY NextIsSafe
<1>3. QED
  BY <1>1, <1>2, PTL DEF Spec

\* Every variable has the type the code gives it, no instant is ahead of the
\* clock.
THEOREM TypeCorrect == Spec => []TypeOK
  BY Inductive, InvariantIsTyped, PTL

\* AttachOperation accepts every operation of the prepared stage that has
\* ended, returned or found on disk: the replay of the whole history that
\* ValidateRecord makes succeeds for any number of stages (execute.go,
\* record.go).
THEOREM AttachNeverRefused == Spec => []AttachIsNeverRefused
  BY Inductive, InvariantAttaches, PTL

\* No operation runs on a Plan made before an operation of each earlier stage
\* had completed, attached or not (prepare.go PrepareNext).
THEOREM PlansInOrder == Spec => []StagesInOrder
  BY Inductive, InvariantIsInOrder, PTL

\* What a completed stage was bound to stays on disk, completed and unchanged:
\* its digest can always be recomputed (execute.go AttachOperation).
THEOREM CompletedAreBacked == Spec => []CompletedStagesAreBacked
  BY Inductive, InvariantIsBacked, PTL

\* A workflow that has not ended has one ready stage, which can be bound to a
\* new Plan at any later instant (record.go BindStagePlan).
THEOREM WorkflowCanGoOn == Spec => []CanGoOn
  BY Inductive, InvariantGoesOn, PTL
=============================================================================
