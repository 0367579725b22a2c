-------------------------- MODULE NodeTools_proofs --------------------------
(***************************************************************************)
(* The safety of updates and continuations of the Node tools for every     *)
(* choice of tools and versions, any number of operations, crashes and     *)
(* changes by other programs.  The inductive invariant has two halves:     *)
(* what a record and the Plan of a continuation say of each other, which   *)
(* holds whatever happens to the machine, and what a machine that other    *)
(* programs leave alone has to do with them.                               *)
(***************************************************************************)
EXTENDS NodeTools, SequenceTheorems, FiniteSetTheorems, WellFoundedInduction, TLAPS

ToolFacts == [version: 0..Newest, provider: Providers, digest: Packages]
Evidences == [facts: ToolFacts, control: {0, 1}]
StepRecords ==
    [state: StepStates, changed: BOOLEAN, after: Evidences \cup {None}]
OperationStates == {"active", "completed", "failed"}

-----------------------------------------------------------------------------
(* The inductive invariant: records and Plans.                             *)

\* A sequence of whatever it holds.
IsLog(d) == d \in Seq({d[i] : i \in DOMAIN d})

IsOperation(op) ==
    op \in [plan: {op.plan}, state: OperationStates, updated: Nat,
            steps: [op.plan.tools -> StepRecords]]

\* The actions of a Plan depend on earlier ones, and none goes back.
Ordered(p) ==
    /\ p.tools \in SUBSET Tools /\ p.tools # {} /\ p.created \in Nat
    /\ p.deps \in [p.tools -> SUBSET Tools] /\ p.facts \in [p.tools -> ToolFacts]
    /\ \A t \in p.tools : \A u \in p.deps[t] : u \in p.tools /\ u < t
    /\ \A t \in p.tools : /\ p.targets[t] \in Targets
                          /\ p.facts[t].version <= p.targets[t]

\* A Plan made when there were n - 1 operations or more: what a continuation
\* says of its source.
Sourced(p, d, n) ==
    /\ p.source \in 0..(n - 1)
    /\ p.source # 0 =>
         LET source == d[p.source]
         IN  /\ source.state = "failed" /\ source.updated < p.created
             /\ p.tools = Remaining(source)
             /\ DOMAIN p.checkpoints = Completed(source)
             /\ \A t \in Completed(source) :
                  p.checkpoints[t].recorded = source.steps[t].after
             /\ \A t \in p.tools :
                  source.plan.deps[t] =
                    p.deps[t] \cup {u \in Completed(source) : <<t, u>> \in p.satisfied}

\* The actions run one after the other, and something remains until the end.
Advancing(op) ==
    /\ \A t, u \in op.plan.tools :
         op.steps[t].state # "pending" /\ u < t => op.steps[u].state = "completed"
    /\ op.state # "completed" => Remaining(op) # {}

TypeInv ==
    /\ clock \in 0..MaxTime /\ drift \in 0..MaxFaults /\ crashes \in 0..MaxFaults
    /\ installed \in [Tools -> Packages]
    /\ provider \in Providers /\ control \in {0, 1}
    /\ phase \in {"idle", "check", "write", "verify", "verified"}
    /\ IsLog(disk) /\ Len(disk) <= MaxOperations

Log(d, now) ==
    \A id \in 1..Len(d) :
        /\ IsOperation(d[id]) /\ d[id].updated <= now
        /\ Ordered(d[id].plan) /\ Sourced(d[id].plan, d, id)
        /\ Advancing(d[id])

LogInv == Log(disk, clock)

PreparedInv ==
    prepared # None => Ordered(prepared) /\ Sourced(prepared, disk, Len(disk) + 1)

\* The step whose turn it is in an operation.
LeftOf(op) == op.plan.tools \ Completed(op)
AtOf(op) == CHOOSE t \in LeftOf(op) : \A u \in LeftOf(op) : t <= u

Underway(op, ph) ==
    /\ op.state = "active"
    /\ ph = "check" => op.steps[AtOf(op)].state = "pending"
    /\ ph \in {"write", "verify", "verified"} =>
         op.steps[AtOf(op)].state = "running"

RunInv == phase # "idle" => Running \in 1..Len(disk) /\ Underway(current, phase)

-----------------------------------------------------------------------------
(* The inductive invariant: a machine that other programs leave alone.     *)

By(t) == IF t = pnpm THEN "corepack" ELSE "npm"

\* A Plan of such a machine.
Made(p) ==
    /\ p.control = 0
    /\ \A t \in p.tools : /\ p.facts[t].provider = By(t)
                          /\ p.deps[t] = Dependencies(t, p.tools, "corepack")

\* How far an update has got: a write never goes back.
Rank(package) == 2 * package.version + package.build

\* The tool is no longer as the Plan shows it, and will not be again.
Beyond(p, t, m) ==
    IF t = pnpm THEN p.facts[t].version < m[t].version
    ELSE Rank(p.facts[t].digest) < Rank(m[t])

\* What a scan of such a machine sees.
FactsOf(m, t) ==
    IF t = pnpm
    THEN [version |-> m[pnpm].version, provider |-> "corepack", digest |-> m[corepack]]
    ELSE [version |-> m[t].version, provider |-> "npm", digest |-> m[t]]

EvidenceOf(m, t) == [facts |-> FactsOf(m, t), control |-> 0]

\* What a Plan and a record show of a tool that was changed.
Calm(op, m) ==
    /\ Made(op.plan)
    /\ \A t \in op.plan.tools : op.steps[t].changed => Beyond(op.plan, t, m)

\* Retargeted, of any log.
RetargetedIn(d, id, t) ==
    \E later \in (id + 1)..Len(d) :
        /\ t \in d[later].plan.tools /\ d[later].steps[t].state # "pending"
        /\ d[later].plan.targets[t] # d[id].plan.targets[t]

\* The tool is as an operation has left it.
AsLeft(op, t, m) ==
    m[t].version = op.plan.targets[t] /\ op.steps[t].after = EvidenceOf(m, t)

\* A completed update is as its checkpoint shows it, until a later operation
\* begins to bring the tool to another version.  Of pnpm no continuation needs
\* to know: it is the last action of its Plan.
Kept(d, m) ==
    \A id \in 1..Len(d) : \A t \in Completed(d[id]) :
        t # pnpm => RetargetedIn(d, id, t) \/ AsLeft(d[id], t, m)

\* No tool is removed.
Undisturbed(m) == \A t \in Tools : m[t] \in Packages /\ m[t].version # 0

MachineInv ==
    drift = 0 => provider = "corepack" /\ control = 0 /\ Undisturbed(installed)

\* A Plan that is executed again had changed nothing.
Single(d) ==
    \A i, j \in 1..Len(d) :
        i < j /\ d[i].plan = d[j].plan =>
            \A t \in d[i].plan.tools : ~d[i].steps[t].changed

CalmInv ==
    drift = 0 =>
        /\ prepared # None => Made(prepared)
        /\ \A id \in 1..Len(disk) : Calm(disk[id], installed)
        /\ Kept(disk, installed)
        /\ Single(disk)

\* What the executor has seen of the step it is at is still so.
Watched(op, ph, bf, bl, m) ==
    LET t == AtOf(op)
    IN  /\ bl.control = 0
        /\ \A u \in op.plan.tools : bl.facts[u] = op.plan.facts[u]
        /\ ph = "write" =>
             /\ bf = EvidenceOf(m, t)
             /\ FactsOf(m, t).version # op.plan.targets[t]
             /\ FactsOf(m, t).version = op.plan.facts[t].version
             /\ t # pnpm => FactsOf(m, t) = op.plan.facts[t]
        /\ ph = "verify" =>
             /\ op.steps[t].after = EvidenceOf(m, t)
             /\ op.steps[t].changed <=> EvidenceOf(m, t) # bf
        /\ ph = "verified" =>
             /\ op.steps[t].after = EvidenceOf(m, t)
             /\ FactsOf(m, t).version = op.plan.targets[t]

StepInv ==
    drift = 0 /\ phase # "idle" =>
        Watched(current, phase, before, baseline, installed)

IInv ==
    /\ TypeInv /\ LogInv /\ PreparedInv /\ RunInv
    /\ MachineInv /\ CalmInv /\ StepInv

-----------------------------------------------------------------------------
(* Sequences of operations.                                                *)

\* The log e is d with the operation at k rewritten.
Rewritten(d, e, k) ==
    /\ Len(e) = Len(d) /\ k \in 1..Len(d)
    /\ \A i \in 1..Len(d) : i # k => e[i] = d[i]

\* The log e is d with one operation more.
Longer(d, e) ==
    /\ Len(e) = Len(d) + 1
    /\ \A i \in 1..Len(d) : e[i] = d[i]

\* A log has as many operations as it has positions.
LEMMA LogLength ==
    ASSUME NEW d, IsLog(d)
    PROVE  Len(d) \in Nat /\ DOMAIN d = 1..Len(d)
BY LenProperties DEF IsLog

\* The empty sequence is a log.
LEMMA EmptyLog == IsLog(<<>>) /\ Len(<<>>) = 0
BY EmptySeq DEF IsLog

\* A sequence whose elements are its own is a log.
LEMMA LogOfSeq ==
    ASSUME NEW S, NEW d \in Seq(S) PROVE IsLog(d)
<1>1. Len(d) \in Nat /\ d \in [1..Len(d) -> S] /\ DOMAIN d = 1..Len(d)
  BY LenProperties
<1> DEFINE D == {d[i] : i \in DOMAIN d}
<1>2. \A i \in 1..Len(d) : d[i] \in D
  BY <1>1
<1> HIDE DEF D
<1>3. d = [i \in 1..Len(d) |-> d[i]]
  BY <1>1
<1>4. d \in [1..Len(d) -> D]
  BY <1>2, <1>3
<1>5. d \in Seq(D)
  BY <1>1, <1>4
<1>6. QED
  BY <1>5 DEF IsLog, D

\* A log is a sequence over any set that holds more.
LEMMA LogOfMore ==
    ASSUME NEW d, IsLog(d), NEW x
    PROVE  d \in Seq({d[i] : i \in DOMAIN d} \cup {x})
<1> DEFINE S == {d[i] : i \in DOMAIN d} \cup {x}
<1>1. Len(d) \in Nat /\ DOMAIN d = 1..Len(d) /\ d = [i \in 1..Len(d) |-> d[i]]
  BY LenProperties DEF IsLog
<1>2. \A i \in 1..Len(d) : d[i] \in S
  BY <1>1
<1> HIDE DEF S
<1>3. d \in [1..Len(d) -> S]
  BY <1>1, <1>2
<1>4. d \in Seq(S)
  BY <1>1, <1>3
<1>5. QED
  BY <1>4 DEF S

\* Appending to a log leaves what it holds.
LEMMA LogAppend ==
    ASSUME NEW d, IsLog(d), NEW x
    PROVE  LET e == Append(d, x)
           IN  IsLog(e) /\ Longer(d, e) /\ e[Len(d) + 1] = x
<1> DEFINE S == {d[i] : i \in DOMAIN d} \cup {x}
<1>1. d \in Seq(S) /\ x \in S
  BY LogOfMore
<1> HIDE DEF S
<1>2. /\ Append(d, x) \in Seq(S) /\ Len(Append(d, x)) = Len(d) + 1
      /\ \A i \in 1..Len(d) : Append(d, x)[i] = d[i]
      /\ Append(d, x)[Len(d) + 1] = x
  BY <1>1, AppendProperties
<1>3. IsLog(Append(d, x))
  BY <1>2, LogOfSeq
<1>4. QED
  BY <1>2, <1>3 DEF Longer

\* Rewriting one operation of a log leaves the others.
LEMMA LogExcept ==
    ASSUME NEW d, IsLog(d), NEW k \in 1..Len(d), NEW x
    PROVE  LET e == [d EXCEPT ![k] = x]
           IN  IsLog(e) /\ Rewritten(d, e, k) /\ e[k] = x
<1> DEFINE S == {d[i] : i \in DOMAIN d} \cup {x}
<1>1. d \in Seq(S) /\ x \in S
  BY LogOfMore
<1> HIDE DEF S
<1>2. /\ [d EXCEPT ![k] = x] \in Seq(S)
      /\ Len([d EXCEPT ![k] = x]) = Len(d)
      /\ \A j \in 1..Len(d) : [d EXCEPT ![k] = x][j] = IF j = k THEN x ELSE d[j]
  BY <1>1, ExceptSeq
<1>3. IsLog([d EXCEPT ![k] = x])
  BY <1>2, LogOfSeq
<1>4. QED
  BY <1>2, <1>3 DEF Rewritten

\* The tools that are left have a first one.
LEMMA FirstTool ==
    ASSUME NEW S, S \subseteq Tools, S # {}
    PROVE  LET first == CHOOSE t \in S : \A u \in S : t <= u
           IN  first \in S /\ \A u \in S : first <= u
<1>1. \A t \in S : t = 1 \/ t = 2 \/ t = 3
  BY DEF Tools, npm, corepack, pnpm
<1>2. \E t \in S : \A u \in S : t <= u
  <2>1. CASE 1 \in S
    BY <1>1, <2>1
  <2>2. CASE 1 \notin S /\ 2 \in S
    BY <1>1, <2>2
  <2>3. CASE 1 \notin S /\ 2 \notin S
    BY <1>1, <2>3
  <2>4. QED
    BY <2>1, <2>2, <2>3
<1>3. QED
  BY <1>2
-----------------------------------------------------------------------------
(* One operation.                                                          *)

\* The record op with this step in this state, as Record writes it.
Stepped(op, t, step, state, now) ==
    [op EXCEPT !.steps[t] = step, !.state = state, !.updated = now]

\* The fields of an operation.
LEMMA OperationFields ==
    ASSUME NEW op, IsOperation(op)
    PROVE  /\ op = [plan |-> op.plan, state |-> op.state, updated |-> op.updated,
                    steps |-> op.steps]
           /\ op.state \in OperationStates /\ op.updated \in Nat
           /\ op.steps \in [op.plan.tools -> StepRecords]
           /\ \A t \in op.plan.tools : op.steps[t] \in StepRecords
BY DEF IsOperation

\* The tools of a Plan are numbers.
LEMMA ToolNumbers == Tools = {1, 2, 3} /\ npm = 1 /\ corepack = 2 /\ pnpm = 3
BY DEF Tools, npm, corepack, pnpm

\* What is left of an operation is what remains of it.
LEMMA LeftRemains == ASSUME NEW op PROVE LeftOf(op) = Remaining(op)
BY DEF LeftOf, Remaining, Completed

\* The step whose turn it is: those before it are completed, those after it
\* have not begun.
LEMMA Turn ==
    ASSUME NEW op, Ordered(op.plan), Advancing(op), op.state # "completed"
    PROVE  LET t == AtOf(op)
           IN  /\ t \in op.plan.tools /\ t \in Tools /\ t \in LeftOf(op)
               /\ op.steps[t].state # "completed"
               /\ \A u \in op.plan.tools : u < t => op.steps[u].state = "completed"
               /\ \A u \in op.plan.tools : t < u => op.steps[u].state = "pending"
<1>1. LeftOf(op) # {} /\ LeftOf(op) \subseteq Tools
  BY LeftRemains DEF Advancing, Ordered, LeftOf
<1>2. AtOf(op) \in LeftOf(op) /\ \A u \in LeftOf(op) : AtOf(op) <= u
  BY <1>1, FirstTool DEF AtOf
<1> DEFINE t == AtOf(op)
<1>3. t \in LeftOf(op) /\ \A u \in LeftOf(op) : t <= u
  BY <1>2
<1> HIDE DEF t
<1>4. t \in op.plan.tools /\ t \in Tools /\ op.plan.tools \subseteq Tools
  BY <1>3 DEF Ordered, LeftOf
<1>5. op.steps[t].state # "completed"
  BY <1>3 DEF LeftOf, Completed
<1>6. \A u \in op.plan.tools : u < t => op.steps[u].state = "completed"
  BY <1>3, <1>4, ToolNumbers DEF LeftOf, Completed
<1>7. \A u \in op.plan.tools : t < u => op.steps[u].state = "pending"
  BY <1>4, <1>5 DEF Advancing
<1>8. QED
  BY <1>3, <1>4, <1>5, <1>6, <1>7 DEF t

\* What a rewritten record holds.
LEMMA SteppedFields ==
    ASSUME NEW op, IsOperation(op), NEW t \in op.plan.tools,
           NEW step \in StepRecords, NEW state \in OperationStates, NEW now \in Nat
    PROVE  LET new == Stepped(op, t, step, state, now)
           IN  /\ IsOperation(new)
               /\ new.plan = op.plan /\ new.state = state /\ new.updated = now
               /\ new.steps[t] = step
               /\ \A u \in op.plan.tools : u # t => new.steps[u] = op.steps[u]
<1> DEFINE steps == [op.steps EXCEPT ![t] = step]
<1>1. /\ steps \in [op.plan.tools -> StepRecords] /\ steps[t] = step
      /\ \A u \in op.plan.tools : u # t => steps[u] = op.steps[u]
  BY OperationFields
<1> DEFINE new == [op EXCEPT !.steps = steps, !.state = state, !.updated = now]
<1>2. Stepped(op, t, step, state, now) = new
  BY DEF Stepped
<1> HIDE DEF steps
<1>3. /\ new.plan = op.plan /\ new.state = state /\ new.updated = now
      /\ new.steps = steps
  BY DEF IsOperation
<1>4. new \in [plan: {op.plan}, state: OperationStates, updated: Nat,
               steps: [op.plan.tools -> StepRecords]]
  BY <1>1 DEF IsOperation
<1>5. IsOperation(new)
  BY <1>3, <1>4 DEF IsOperation
<1>6. QED
  BY <1>1, <1>2, <1>3, <1>5

\* A rewritten record still runs its steps one after the other.
LEMMA SteppedAdvances ==
    ASSUME NEW op, IsOperation(op), Ordered(op.plan), Advancing(op),
           op.state = "active",
           NEW step \in StepRecords, NEW state \in OperationStates, NEW now \in Nat,
           state = "completed" \/ step.state # "completed" \/ LeftOf(op) # {AtOf(op)}
    PROVE  Advancing(Stepped(op, AtOf(op), step, state, now))
<1> DEFINE t == AtOf(op)
           new == Stepped(op, t, step, state, now)
<1>1. /\ t \in op.plan.tools /\ t \in LeftOf(op)
      /\ op.steps[t].state # "completed"
      /\ \A u \in op.plan.tools : u < t => op.steps[u].state = "completed"
      /\ \A u \in op.plan.tools : t < u => op.steps[u].state = "pending"
  BY Turn
<1>2. /\ new.plan = op.plan /\ new.state = state /\ new.steps[t] = step
      /\ \A u \in op.plan.tools : u # t => new.steps[u] = op.steps[u]
  BY <1>1, SteppedFields
<1>3. state = "completed" \/ step.state # "completed" \/ LeftOf(op) # {t}
  OBVIOUS
<1>4. Advancing(op)
  OBVIOUS
<1>5. op.plan.tools \subseteq Tools
  BY DEF Ordered
<1> HIDE DEF t, new
<1>6. ASSUME NEW u \in op.plan.tools, NEW v \in op.plan.tools,
             new.steps[u].state # "pending", v < u
      PROVE  new.steps[v].state = "completed"
  <2>1. CASE u = t
    BY <1>1, <1>2, <1>5, <1>6, <2>1, ToolNumbers
  <2>2. CASE u # t /\ v # t
    BY <1>2, <1>4, <1>6, <2>2 DEF Advancing
  <2>3. CASE u # t /\ v = t
    BY <1>1, <1>2, <1>6, <2>3
  <2>4. QED
    BY <2>1, <2>2, <2>3
<1>7. state # "completed" => Remaining(new) # {}
  <2>1. CASE step.state # "completed"
    BY <1>1, <1>2, <2>1 DEF Remaining
  <2>2. CASE LeftOf(op) # {t}
    <3>1. PICK u \in LeftOf(op) : u # t
      BY <1>1, <2>2
    <3>2. u \in op.plan.tools /\ new.steps[u].state # "completed"
      BY <1>2, <3>1 DEF LeftOf, Completed
    <3>3. QED
      BY <1>2, <3>2 DEF Remaining
  <2>3. QED
    BY <1>3, <2>1, <2>2
<1>8. Advancing(new)
  BY <1>2, <1>6, <1>7 DEF Advancing
<1>9. QED
  BY <1>8 DEF new, t
-----------------------------------------------------------------------------
(* The log.                                                                *)

\* An operation that failed is never written again, so that what a Plan says
\* of its source stays true.
LEMMA SourcedStays ==
    ASSUME NEW d, NEW e, NEW p, NEW n \in Nat, NEW m \in Nat, n <= m,
           Len(d) \in Nat, n <= Len(d) + 1, Sourced(p, d, n),
           \A i \in 1..Len(d) : d[i].state = "failed" => e[i] = d[i]
    PROVE  Sourced(p, e, m)
<1>1. p.source \in 0..(n - 1) /\ p.source \in 0..(m - 1)
  BY DEF Sourced
<1>2. CASE p.source = 0
  BY <1>1, <1>2 DEF Sourced
<1>3. CASE p.source # 0
  <2>1. p.source \in 1..Len(d) /\ d[p.source].state = "failed"
    BY <1>1, <1>3 DEF Sourced
  <2>2. e[p.source] = d[p.source]
    BY <2>1
  <2>3. QED
    BY <1>1, <2>2 DEF Sourced
<1>4. QED
  BY <1>2, <1>3

\* An active operation is rewritten: the log stays as the invariant has it.
LEMMA LogRewritten ==
    ASSUME NEW d, NEW e, NEW k, NEW now, NEW later \in Nat,
           IsLog(d), Log(d, now), now \in Nat, now <= later,
           Rewritten(d, e, k), d[k].state = "active",
           e[k].plan = d[k].plan, IsOperation(e[k]), Advancing(e[k]),
           e[k].updated <= later
    PROVE  /\ Log(e, later)
           /\ \A p : Sourced(p, d, Len(d) + 1) => Sourced(p, e, Len(e) + 1)
<1>1. Len(d) \in Nat /\ Len(e) = Len(d) /\ k \in 1..Len(d)
  BY LogLength DEF Rewritten
<1>2. \A i \in 1..Len(d) : i # k => e[i] = d[i]
  BY DEF Rewritten
<1>3. \A i \in 1..Len(d) : d[i].state = "failed" => e[i] = d[i]
  BY <1>2
<1>4. ASSUME NEW p, NEW n \in Nat, n <= Len(d) + 1, Sourced(p, d, n)
      PROVE  Sourced(p, e, n)
  BY <1>1, <1>3, <1>4, SourcedStays
<1>5. ASSUME NEW id \in 1..Len(e)
      PROVE  /\ IsOperation(e[id]) /\ e[id].updated <= later
             /\ Ordered(e[id].plan) /\ Sourced(e[id].plan, e, id)
             /\ Advancing(e[id])
  <2>1. /\ IsOperation(d[id]) /\ d[id].updated <= now /\ Ordered(d[id].plan)
        /\ Sourced(d[id].plan, d, id) /\ Advancing(d[id])
    BY <1>1 DEF Log
  <2>2. Sourced(d[id].plan, e, id) /\ e[id].plan = d[id].plan
    <3>1. id \in Nat /\ id <= Len(d) + 1
      BY <1>1
    <3>2. Sourced(d[id].plan, e, id)
      BY <1>4, <2>1, <3>1
    <3>3. QED
      BY <1>1, <1>2, <3>2
  <2>3. CASE id = k
    BY <2>1, <2>2, <2>3
  <2>4. CASE id # k
    <3>1. e[id] = d[id]
      BY <1>1, <1>2, <2>4
    <3>2. d[id].updated \in Nat
      BY <2>1, OperationFields
    <3>3. QED
      BY <2>1, <2>2, <3>1, <3>2
  <2>5. QED
    BY <2>3, <2>4
<1>6. Log(e, later)
  BY <1>5 DEF Log
<1>7. ASSUME NEW p, Sourced(p, d, Len(d) + 1)
      PROVE  Sourced(p, e, Len(e) + 1)
  <2>1. Len(d) + 1 \in Nat /\ Len(d) + 1 <= Len(d) + 1
    BY <1>1
  <2>2. Sourced(p, e, Len(d) + 1)
    BY <1>4, <1>7, <2>1
  <2>3. QED
    BY <1>1, <2>2
<1>8. QED
  BY <1>6, <1>7

\* An operation is added: the log stays as the invariant has it.
LEMMA LogLonger ==
    ASSUME NEW d, NEW e, NEW now \in Nat, IsLog(d), Log(d, now), Longer(d, e),
           IsOperation(e[Len(d) + 1]), e[Len(d) + 1].updated <= now,
           Ordered(e[Len(d) + 1].plan), Advancing(e[Len(d) + 1]),
           Sourced(e[Len(d) + 1].plan, d, Len(d) + 1)
    PROVE  /\ Log(e, now)
           /\ \A p : Sourced(p, d, Len(d) + 1) => Sourced(p, e, Len(e) + 1)
<1>1. /\ Len(d) \in Nat /\ Len(e) = Len(d) + 1
      /\ \A i \in 1..Len(d) : e[i] = d[i]
  BY LogLength DEF Longer
<1>2. ASSUME NEW p, NEW n \in Nat, NEW m \in Nat, n <= m, n <= Len(d) + 1,
             Sourced(p, d, n)
      PROVE  Sourced(p, e, m)
  BY <1>1, <1>2, SourcedStays
<1>3. ASSUME NEW id \in 1..Len(e)
      PROVE  /\ IsOperation(e[id]) /\ e[id].updated <= now
             /\ Ordered(e[id].plan) /\ Sourced(e[id].plan, e, id)
             /\ Advancing(e[id])
  <2>1. CASE id = Len(d) + 1
    <3>1. Len(d) + 1 \in Nat /\ Len(d) + 1 <= Len(d) + 1
      BY <1>1
    <3>2. Sourced(e[Len(d) + 1].plan, e, Len(d) + 1)
      BY <1>2, <3>1
    <3>3. QED
      BY <2>1, <3>2
  <2>2. CASE id # Len(d) + 1
    <3>1. id \in 1..Len(d) /\ e[id] = d[id] /\ id \in Nat /\ id <= Len(d) + 1
      BY <1>1, <2>2
    <3>2. /\ IsOperation(d[id]) /\ d[id].updated <= now /\ Ordered(d[id].plan)
          /\ Sourced(d[id].plan, d, id) /\ Advancing(d[id])
      BY <3>1 DEF Log
    <3>3. Sourced(d[id].plan, e, id)
      BY <1>2, <3>1, <3>2
    <3>4. QED
      BY <3>1, <3>2, <3>3
  <2>3. QED
    BY <2>1, <2>2
<1>4. Log(e, now)
  BY <1>3 DEF Log
<1>5. ASSUME NEW p, Sourced(p, d, Len(d) + 1)
      PROVE  Sourced(p, e, Len(e) + 1)
  <2>1. Len(d) + 1 \in Nat /\ Len(e) + 1 \in Nat /\ Len(d) + 1 <= Len(e) + 1
        /\ Len(d) + 1 <= Len(d) + 1
    BY <1>1
  <2>2. QED
    BY <1>2, <1>5, <2>1
<1>6. QED
  BY <1>4, <1>5

\* What the executor saves.
LEMMA RecordWrites ==
    ASSUME IsLog(disk), Running \in 1..Len(disk), IsOperation(current),
           at \in current.plan.tools,
           NEW step, NEW state, Record(step, state)
    PROVE  /\ IsLog(disk') /\ Rewritten(disk, disk', Running)
           /\ Running' = Running /\ current' = disk'[Running]
           /\ current' = Stepped(current, at, step, state, clock)
<1> DEFINE new == Stepped(current, at, step, state, clock)
<1>2. disk' = [disk EXCEPT ![Running] = new]
  BY DEF Record, Stepped, current
<1> HIDE DEF new
<1>3. /\ IsLog(disk') /\ Rewritten(disk, disk', Running)
      /\ disk'[Running] = new
  BY <1>2, LogExcept
<1>4. Running' = Running
  BY <1>3 DEF Running, Rewritten
<1>5. current' = disk'[Running]
  BY <1>4 DEF current
<1>6. QED
  BY <1>3, <1>4, <1>5 DEF new

\* The step whose turn it is in the operation under way.
LEMMA AtOfCurrent == at = AtOf(current) /\ Left = LeftOf(current)
BY DEF at, AtOf, Left, LeftOf

\* The operation under way.
LEMMA CurrentOperation ==
    ASSUME TypeInv, LogInv, RunInv, phase # "idle"
    PROVE  /\ Running \in 1..Len(disk) /\ Running = Len(disk) /\ Len(disk) \in Nat
           /\ current = disk[Running]
           /\ IsOperation(current) /\ Ordered(current.plan) /\ Advancing(current)
           /\ current.state = "active" /\ Underway(current, phase)
           /\ at \in current.plan.tools /\ at \in Tools /\ at \in Left
           /\ clock \in Nat
<1>1. Running \in 1..Len(disk) /\ Running = Len(disk) /\ Len(disk) \in Nat
  BY LogLength DEF TypeInv, RunInv, Running
<1>2. current = disk[Running] /\ Underway(current, phase)
  BY DEF current, RunInv
<1>3. current.state = "active"
  BY <1>2 DEF Underway
<1>4. IsOperation(current) /\ Ordered(current.plan) /\ Advancing(current)
  BY <1>1, <1>2 DEF LogInv, Log
<1>5. at \in current.plan.tools /\ at \in Tools /\ at \in Left
  BY <1>3, <1>4, Turn, AtOfCurrent
<1>6. QED
  BY <1>1, <1>2, <1>3, <1>4, <1>5, BoundAssumption DEF TypeInv
-----------------------------------------------------------------------------
(* Scans and Plans.                                                        *)

MachineTyped ==
    installed \in [Tools -> Packages] /\ provider \in Providers /\ control \in {0, 1}

\* What packages are.
LEMMA PackageValues ==
    /\ Newest \in Nat /\ Newest > 2
    /\ \A p \in Packages : /\ p = Package(p.version, p.build)
                           /\ p.version \in 0..Newest /\ p.build \in {0, 1}
    /\ \A v \in 0..Newest, b \in {0, 1} :
         /\ Package(v, b) \in Packages
         /\ Package(v, b).version = v /\ Package(v, b).build = b
    /\ \A v \in Targets : v \in 0..Newest /\ v # 0
BY OptionsAssumption DEF Packages, Package, Targets

\* What a scan sees has its type.
LEMMA EvidenceTyped ==
    ASSUME MachineTyped, NEW t \in Tools
    PROVE  Facts(t) \in ToolFacts /\ Evidence(t) \in Evidences
<1>1. installed[t] \in Packages /\ installed[corepack] \in Packages
      /\ installed[pnpm] \in Packages
  BY ToolNumbers DEF MachineTyped
<1>2. installed[t].version \in 0..Newest /\ installed[pnpm].version \in 0..Newest
  BY <1>1, PackageValues
<1>3. Facts(t) \in ToolFacts
  BY <1>1, <1>2 DEF Facts, ToolFacts, Providers
<1>4. QED
  BY <1>3 DEF Evidence, Evidences, MachineTyped

\* The same after a step.
LEMMA NextEvidenceTyped ==
    ASSUME MachineTyped', NEW t \in Tools
    PROVE  Facts(t)' \in ToolFacts /\ Evidence(t)' \in Evidences
<1>1. installed'[t] \in Packages /\ installed'[corepack] \in Packages
      /\ installed'[pnpm] \in Packages
  BY ToolNumbers DEF MachineTyped
<1>2. installed'[t].version \in 0..Newest /\ installed'[pnpm].version \in 0..Newest
  BY <1>1, PackageValues
<1>3. Facts(t)' \in ToolFacts
  BY <1>1, <1>2 DEF Facts, ToolFacts, Providers
<1>4. QED
  BY <1>3 DEF Evidence, Evidences, MachineTyped

\* What a scan sees when Corepack provides pnpm and nothing else changed.
LEMMA CalmEvidence ==
    ASSUME provider = "corepack", control = 0, NEW t
    PROVE  Facts(t) = FactsOf(installed, t) /\ Evidence(t) = EvidenceOf(installed, t)
BY DEF Facts, FactsOf, Evidence, EvidenceOf

\* A tool depends on tools of the Plan that run before it.
LEMMA DependenciesAreEarlier ==
    ASSUME NEW tools \in SUBSET Tools, NEW t \in tools, NEW by
    PROVE  /\ Dependencies(t, tools, by) \in SUBSET Tools
           /\ \A u \in Dependencies(t, tools, by) : u \in tools /\ u < t
<1>1. t \in Tools /\ t \in {1, 2, 3}
  BY ToolNumbers
<1>2. CASE t = npm
  BY <1>2, ToolNumbers DEF Dependencies
<1>3. CASE t = corepack
  BY <1>3, ToolNumbers DEF Dependencies
<1>4. CASE t = pnpm
  BY <1>4, ToolNumbers DEF Dependencies
<1>5. QED
  BY <1>1, <1>2, <1>3, <1>4, ToolNumbers

\* The fields of a fresh Plan.
LEMMA FreshFields ==
    ASSUME NEW tools, NEW targets, NEW created
    PROVE  LET p == NodeToolsPlan(tools, targets, created)
           IN  /\ p.source = 0 /\ p.created = created /\ p.control = control
               /\ p.tools = tools /\ p.targets = targets
               /\ p.facts = [t \in tools |-> Facts(t)]
               /\ p.deps = [t \in tools |-> Dependencies(t, tools, provider)]
BY DEF NodeToolsPlan

\* A fresh Plan is ordered, and made for the machine as it is.
LEMMA FreshIsOrdered ==
    ASSUME MachineTyped, NEW tools \in SUBSET Tools, tools # {},
           NEW targets, \A t \in tools : targets[t] \in Targets,
           Selectable(tools, targets), NEW created \in Nat
    PROVE  LET p == NodeToolsPlan(tools, targets, created)
           IN  Ordered(p) /\ (provider = "corepack" /\ control = 0 => Made(p))
<1> DEFINE p == NodeToolsPlan(tools, targets, created)
<1>1. /\ p.source = 0 /\ p.created = created /\ p.control = control
      /\ p.tools = tools /\ p.targets = targets
      /\ p.facts = [t \in tools |-> Facts(t)]
      /\ p.deps = [t \in tools |-> Dependencies(t, tools, provider)]
  BY FreshFields
<1> HIDE DEF p
<1>2. \A t \in tools : t \in Tools /\ Facts(t) \in ToolFacts
  BY EvidenceTyped
<1>3. p.facts \in [p.tools -> ToolFacts]
  BY <1>1, <1>2
<1>4. ASSUME NEW t \in tools
      PROVE  /\ p.deps[t] \in SUBSET Tools
             /\ \A u \in p.deps[t] : u \in p.tools /\ u < t
  <2>1. p.deps[t] = Dependencies(t, tools, provider)
    BY <1>1
  <2>2. QED
    BY <1>1, <2>1, DependenciesAreEarlier
<1>5. p.deps \in [p.tools -> SUBSET Tools]
  BY <1>1, <1>4
<1>6. \A t \in p.tools : /\ p.targets[t] \in Targets
                        /\ p.facts[t].version <= p.targets[t]
  BY <1>1 DEF Selectable, Upward
<1>7. Ordered(p)
  BY <1>1, <1>3, <1>4, <1>5, <1>6 DEF Ordered
<1>8. ASSUME provider = "corepack", control = 0, NEW t \in p.tools
      PROVE  p.facts[t].provider = By(t)
             /\ p.deps[t] = Dependencies(t, p.tools, "corepack")
  BY <1>1, <1>8, CalmEvidence DEF FactsOf, By
<1>9. provider = "corepack" /\ control = 0 => Made(p)
  BY <1>1, <1>8 DEF Made
<1>10. QED
  BY <1>7, <1>9 DEF p

\* The fields of a continuation.
LEMMA ContinuationFields ==
    ASSUME NEW id, NEW created
    PROVE  LET p == Continuation(id, created)
               op == disk[id]
               fresh == NodeToolsPlan(Remaining(op), SourceTargets(op), created)
           IN  /\ p.source = id /\ p.created = created /\ p.control = control
               /\ p.tools = Remaining(op) /\ p.targets = SourceTargets(op)
               /\ p.facts = fresh.facts /\ p.deps = fresh.deps
               /\ p.checkpoints = Checkpoints(op)
               /\ p.satisfied = SatisfiedDependencies(op)
BY DEF Continuation, NodeToolsPlan

\* A continuation is ordered, made for the machine as it is, and says of its
\* source what is so.
LEMMA ContinuationIsSourced ==
    ASSUME TypeInv, LogInv, NEW id \in 1..Len(disk), NEW created \in Nat,
           Continues(id, created)
    PROVE  LET p == Continuation(id, created)
           IN  /\ Ordered(p) /\ Sourced(p, disk, Len(disk) + 1)
               /\ provider = "corepack" /\ control = 0 => Made(p)
<1> DEFINE p == Continuation(id, created)
           op == disk[id]
           fresh == NodeToolsPlan(Remaining(op), SourceTargets(op), created)
<1>1. /\ p.source = id /\ p.created = created /\ p.control = control
      /\ p.tools = Remaining(op) /\ p.targets = SourceTargets(op)
      /\ p.facts = fresh.facts /\ p.deps = fresh.deps
      /\ p.checkpoints = Checkpoints(op)
      /\ p.satisfied = SatisfiedDependencies(op)
  BY ContinuationFields
<1>2. IsOperation(op) /\ Ordered(op.plan) /\ Advancing(op)
  BY DEF LogInv, Log
<1>3. /\ op.state = "failed" /\ Remaining(op) # {}
      /\ Selectable(Remaining(op), SourceTargets(op))
      /\ op.updated < created
      /\ \A t \in p.tools : p.deps[t] = op.plan.deps[t] \cap Remaining(op)
  BY DEF Continues, Eligible
<1>4. fresh.source = 0 /\ fresh.tools = Remaining(op) /\ fresh.control = control
      /\ fresh.created = created /\ fresh.targets = SourceTargets(op)
  BY DEF NodeToolsPlan
<1>5. Remaining(op) \in SUBSET Tools /\ MachineTyped
  BY <1>2 DEF Remaining, Ordered, TypeInv, MachineTyped
<1>6. Ordered(fresh) /\ (provider = "corepack" /\ control = 0 => Made(fresh))
  <2>1. \A t \in Remaining(op) : SourceTargets(op)[t] \in Targets
    BY <1>2 DEF SourceTargets, Remaining, Ordered
  <2>2. QED
    BY <1>3, <1>5, <2>1, FreshIsOrdered
<1> HIDE DEF p, op, fresh
<1>7. Ordered(p)
  BY <1>1, <1>4, <1>6 DEF Ordered
<1>8. provider = "corepack" /\ control = 0 => Made(p)
  BY <1>1, <1>4, <1>6 DEF Made
<1>9. Len(disk) \in Nat
  BY LogLength DEF TypeInv
<1>10. /\ DOMAIN p.checkpoints = Completed(op)
       /\ \A t \in Completed(op) : p.checkpoints[t].recorded = op.steps[t].after
  BY <1>1 DEF Checkpoints
<1>11. ASSUME NEW t \in p.tools
       PROVE  op.plan.deps[t] =
                p.deps[t] \cup {u \in Completed(op) : <<t, u>> \in p.satisfied}
  <2>1. \A u \in Completed(op) : <<t, u>> \in p.satisfied <=> u \in op.plan.deps[t]
    BY <1>1 DEF SatisfiedDependencies
  <2>2. t \in op.plan.tools
    BY <1>1, <1>11 DEF Remaining
  <2>3. \A u \in op.plan.deps[t] : u \in op.plan.tools
    BY <1>2, <2>2 DEF Ordered
  <2>4. \A u \in op.plan.tools : u \in Remaining(op) \/ u \in Completed(op)
    BY DEF Remaining, Completed
  <2>5. p.deps[t] = op.plan.deps[t] \cap Remaining(op)
    BY <1>3
  <2>6. QED
    BY <2>1, <2>3, <2>4, <2>5
<1>12. Sourced(p, disk, Len(disk) + 1)
  <2>1. p.source \in 0..(Len(disk) + 1 - 1) /\ disk[p.source] = op
    BY <1>1, <1>9 DEF op
  <2>2. p.tools = Remaining(op) /\ op.updated < p.created
    BY <1>1, <1>3
  <2>3. QED
    BY <1>3, <1>10, <1>11, <2>1, <2>2 DEF Sourced
<1>13. QED
  BY <1>7, <1>8, <1>12 DEF p
-----------------------------------------------------------------------------
(* A machine that other programs leave alone only moves forward.           *)

\* No update goes back.
Forward(m, n) ==
    \A t \in Tools : IF t = pnpm THEN m[t].version <= n[t].version
                     ELSE Rank(m[t]) <= Rank(n[t])

\* Ranks are numbers that grow with the version.
LEMMA PackageRanks ==
    ASSUME NEW p \in Packages
    PROVE  /\ Rank(p) \in Nat /\ p.version \in Nat
           /\ Rank(p) <= Rank(Package(p.version, 1))
           /\ p # Package(p.version, 1) => Rank(p) < Rank(Package(p.version, 1))
           /\ \A v \in 0..Newest : p.version < v => Rank(p) < Rank(Package(v, 0))
<1>1. /\ p = Package(p.version, p.build) /\ p.version \in 0..Newest
      /\ p.build \in {0, 1} /\ Newest \in Nat
  BY PackageValues
<1>2. p.version \in Nat /\ (p # Package(p.version, 1) => p.build = 0)
  BY <1>1
<1>3. /\ Package(p.version, 1).version = p.version /\ Package(p.version, 1).build = 1
      /\ \A v \in 0..Newest : Package(v, 0).version = v /\ Package(v, 0).build = 0
  BY <1>1, PackageValues
<1>4. QED
  BY <1>1, <1>2, <1>3 DEF Rank

\* What such a machine holds.
LEMMA UndisturbedValues ==
    ASSUME NEW m, Undisturbed(m), NEW t \in Tools
    PROVE  /\ m[t] \in Packages /\ m[t].version # 0
           /\ m[t].version \in 0..Newest /\ m[t].version \in Nat /\ Rank(m[t]) \in Nat
<1>1. m[t] \in Packages /\ m[t].version # 0
  BY DEF Undisturbed
<1>2. QED
  BY <1>1, PackageValues, PackageRanks

\* A machine that stays as it is moves forward.
LEMMA ForwardStays ==
    ASSUME NEW m, Undisturbed(m) PROVE Forward(m, m)
BY UndisturbedValues DEF Forward

\* A write of a tool that is older than its target moves it forward, and what
\* a scan sees of the tool changes only so.
LEMMA WriteMovesForward ==
    ASSUME NEW m \in [Tools -> Packages], Undisturbed(m), NEW t \in Tools,
           NEW target \in Targets, m[t].version < target,
           NEW package \in {m[t], Package(m[t].version, 1), Package(target, 0)},
           NEW n,
           \/ n = [m EXCEPT ![t] = package]
           \/ t = corepack /\ n = [[m EXCEPT ![t] = package] EXCEPT ![pnpm] = Package(Newest, 0)]
    PROVE  /\ n \in [Tools -> Packages] /\ Undisturbed(n) /\ Forward(m, n)
           /\ \A u \in Tools \ {pnpm} : u # t => n[u] = m[u]
           /\ FactsOf(n, t) # FactsOf(m, t) =>
                IF t = pnpm THEN m[t].version < n[t].version
                ELSE Rank(m[t]) < Rank(n[t])
<1> DEFINE newest == Package(Newest, 0)
<1>1. /\ m[t] \in Packages /\ m[t].version # 0 /\ m[t].version \in 0..Newest
      /\ m[t].version \in Nat /\ Rank(m[t]) \in Nat /\ Newest \in Nat
      /\ target \in 0..Newest /\ target # 0
  BY UndisturbedValues, PackageValues
<1>2. /\ newest \in Packages /\ newest.version = Newest /\ newest.version # 0
      /\ Package(m[t].version, 1) \in Packages
      /\ Package(m[t].version, 1).version = m[t].version
      /\ Package(target, 0) \in Packages /\ Package(target, 0).version = target
  BY <1>1, PackageValues
<1>3. /\ package \in Packages /\ package.version # 0
      /\ m[t].version <= package.version /\ package.version \in Nat
      /\ Rank(m[t]) <= Rank(package) /\ Rank(package) \in Nat
      /\ package # m[t] => Rank(m[t]) < Rank(package)
  <2>1. CASE package = m[t]
    BY <1>1, <2>1
  <2>2. CASE package = Package(m[t].version, 1)
    <3>1. /\ Rank(m[t]) <= Rank(package)
          /\ m[t] # package => Rank(m[t]) < Rank(package)
      BY <1>1, <2>2, PackageRanks
    <3>2. Rank(package) \in Nat
      BY <1>2, <2>2, PackageRanks
    <3>3. QED
      BY <1>1, <1>2, <2>2, <3>1, <3>2
  <2>3. CASE package = Package(target, 0)
    <3>1. Rank(m[t]) < Rank(package)
      BY <1>1, <2>3, PackageRanks
    <3>2. Rank(package) \in Nat
      BY <1>2, <2>3, PackageRanks
    <3>3. QED
      BY <1>1, <1>2, <2>3, <3>1, <3>2
  <2>4. QED
    BY <2>1, <2>2, <2>3
<1> HIDE DEF newest
<1>4. \/ n = [m EXCEPT ![t] = package]
      \/ t = corepack /\ n = [[m EXCEPT ![t] = package] EXCEPT ![pnpm] = newest]
  BY DEF newest
<1>5. n[t] = package /\ n \in [Tools -> Packages]
  BY <1>2, <1>3, <1>4, ToolNumbers
<1>6. \A u \in Tools : u # t => \/ n[u] = m[u]
                                \/ t = corepack /\ u = pnpm /\ n[u] = newest
  BY <1>4, ToolNumbers
<1>7. Undisturbed(n)
  <2>1. ASSUME NEW u \in Tools PROVE n[u] \in Packages /\ n[u].version # 0
    BY <1>2, <1>3, <1>5, <1>6, UndisturbedValues
  <2>2. QED
    BY <2>1 DEF Undisturbed
<1>8. Forward(m, n)
  <2>1. ASSUME NEW u \in Tools
        PROVE  IF u = pnpm THEN m[u].version <= n[u].version
               ELSE Rank(m[u]) <= Rank(n[u])
    <3>1. m[u].version \in 0..Newest /\ Rank(m[u]) \in Nat
      BY UndisturbedValues
    <3>2. CASE u = t
      BY <1>3, <1>5, <3>2
    <3>3. CASE n[u] = m[u]
      BY <1>1, <3>1, <3>3
    <3>4. CASE u = pnpm /\ n[u] = newest
      BY <1>1, <1>2, <3>1, <3>4
    <3>5. QED
      BY <1>6, <3>2, <3>3, <3>4
  <2>2. QED
    BY <2>1 DEF Forward
<1>9. ASSUME FactsOf(n, t) # FactsOf(m, t)
      PROVE  IF t = pnpm THEN m[t].version < n[t].version
             ELSE Rank(m[t]) < Rank(n[t])
  <2>1. CASE t = pnpm
    <3>1. n[corepack] = m[corepack]
      BY <1>6, <2>1, ToolNumbers
    <3>2. n[t].version # m[t].version
      BY <1>9, <2>1, <3>1 DEF FactsOf
    <3>3. QED
      BY <1>1, <1>3, <1>5, <2>1, <3>2
  <2>2. CASE t # pnpm
    <3>1. n[t] # m[t]
      BY <1>9, <2>2 DEF FactsOf
    <3>2. QED
      BY <1>3, <1>5, <2>2, <3>1
  <2>3. QED
    BY <2>1, <2>2
<1>10. \A u \in Tools \ {pnpm} : u # t => n[u] = m[u]
  BY <1>6
<1>11. QED
  BY <1>5, <1>7, <1>8, <1>9, <1>10

\* What a Plan shows and a machine have comparable versions.
LEMMA PlanFacts ==
    ASSUME NEW p, Ordered(p), NEW t \in p.tools
    PROVE  /\ t \in Tools /\ p.facts[t] \in ToolFacts
           /\ p.facts[t].version \in Nat /\ Rank(p.facts[t].digest) \in Nat
<1>1. t \in Tools /\ p.facts[t] \in ToolFacts
  BY DEF Ordered
<1>2. p.facts[t].version \in 0..Newest /\ p.facts[t].digest \in Packages
  BY <1>1 DEF ToolFacts
<1>3. QED
  BY <1>1, <1>2, PackageValues, PackageRanks

\* What is beyond a Plan stays so.
LEMMA BeyondStays ==
    ASSUME NEW p, Ordered(p), NEW t \in p.tools, NEW m, NEW n,
           Undisturbed(m), Undisturbed(n), Forward(m, n), Beyond(p, t, m)
    PROVE  Beyond(p, t, n)
<1>1. t \in Tools /\ p.facts[t].version \in Nat /\ Rank(p.facts[t].digest) \in Nat
  BY PlanFacts
<1>2. /\ m[t].version \in Nat /\ Rank(m[t]) \in Nat
      /\ n[t].version \in Nat /\ Rank(n[t]) \in Nat
  BY <1>1, UndisturbedValues
<1>3. CASE t = pnpm
  BY <1>1, <1>2, <1>3 DEF Forward, Beyond
<1>4. CASE t # pnpm
  BY <1>1, <1>2, <1>4 DEF Forward, Beyond
<1>5. QED
  BY <1>3, <1>4

\* What a record shows of its work stays true.
LEMMA CalmStays ==
    ASSUME NEW op, Ordered(op.plan), NEW m, NEW n,
           Undisturbed(m), Undisturbed(n), Forward(m, n), Calm(op, m)
    PROVE  Calm(op, n)
<1>1. ASSUME NEW t \in op.plan.tools, op.steps[t].changed
      PROVE  Beyond(op.plan, t, n)
  BY <1>1, BeyondStays DEF Calm
<1>2. QED
  BY <1>1 DEF Calm

\* A step is written in a record.
LEMMA CalmStepped ==
    ASSUME NEW op, IsOperation(op), NEW m, Calm(op, m),
           NEW t \in op.plan.tools, NEW step \in StepRecords,
           NEW state \in OperationStates, NEW now \in Nat,
           step.changed => Beyond(op.plan, t, m)
    PROVE  Calm(Stepped(op, t, step, state, now), m)
<1> DEFINE new == Stepped(op, t, step, state, now)
<1>1. /\ new.plan = op.plan /\ new.steps[t] = step
      /\ \A u \in op.plan.tools : u # t => new.steps[u] = op.steps[u]
  BY SteppedFields
<1> HIDE DEF new
<1>2. ASSUME NEW u \in new.plan.tools, new.steps[u].changed
      PROVE  Beyond(new.plan, u, m)
  BY <1>1, <1>2 DEF Calm
<1>3. Made(new.plan)
  BY <1>1 DEF Calm
<1>4. QED
  BY <1>2, <1>3 DEF Calm, new
-----------------------------------------------------------------------------
(* A step of the executor.                                                 *)

\* What every step of the executor makes of the machine.
Moves ==
    /\ MachineTyped'
    /\ drift = 0 => /\ provider' = "corepack" /\ control' = 0
                    /\ Undisturbed(installed') /\ Forward(installed, installed')
                    /\ \A u \in Tools \ {pnpm} :
                         \/ installed'[u] = installed[u]
                         \/ /\ phase = "write" /\ u = at
                            /\ installed[u].version # current.plan.targets[u]

LEMMA MachineStays ==
    ASSUME TypeInv, MachineInv, UNCHANGED machine
    PROVE  Moves
BY ForwardStays DEF TypeInv, MachineInv, machine, Moves, MachineTyped

\* What the other operations show of their work stays true.
LEMMA CalmRewritten ==
    ASSUME NEW d, NEW e, NEW k, NEW now, NEW m, NEW n,
           Log(d, now), Rewritten(d, e, k),
           \A id \in 1..Len(d) : Calm(d[id], m),
           Undisturbed(m), Undisturbed(n), Forward(m, n), Calm(e[k], n)
    PROVE  \A id \in 1..Len(e) : Calm(e[id], n)
<1>1. ASSUME NEW id \in 1..Len(e)
      PROVE  Calm(e[id], n)
  <2>1. id \in 1..Len(d)
    BY DEF Rewritten
  <2>2. CASE id = k
    BY <2>2
  <2>3. CASE id # k
    <3>1. e[id] = d[id] /\ Calm(d[id], m)
      BY <2>1, <2>3 DEF Rewritten
    <3>2. Ordered(d[id].plan)
      BY <2>1 DEF Log
    <3>3. Calm(d[id], n)
      BY <3>1, <3>2, CalmStays
    <3>4. QED
      BY <3>1, <3>3
  <2>4. QED
    BY <2>2, <2>3
<1>2. QED
  BY <1>1

\* A begun step stays so, a completed one keeps its checkpoint, and only the
\* last operation writes, and a tool that is not as it wants it.
Careful(d, e, k, m, n) ==
    /\ \A u \in d[k].plan.tools :
          d[k].steps[u].state # "pending" => e[k].steps[u].state # "pending"
    /\ \A u \in Completed(e[k]) : u # pnpm =>
          \/ u \in Completed(d[k]) /\ e[k].steps[u].after = d[k].steps[u].after
          \/ AsLeft(e[k], u, n)
    /\ \A u \in Tools \ {pnpm} :
          \/ n[u] = m[u]
          \/ /\ k = Len(d) /\ u \in d[k].plan.tools
             /\ e[k].steps[u].state # "pending"
             /\ m[u].version # d[k].plan.targets[u]

\* What is completed stays as its checkpoint shows it, or is given another
\* target, when an operation is rewritten that may write one of its tools.
LEMMA KeptRewritten ==
    ASSUME NEW d, NEW e, NEW k, IsLog(d), Rewritten(d, e, k), NEW m, NEW n,
           Kept(d, m), e[k].plan = d[k].plan, \A id \in 1..Len(d) : Ordered(d[id].plan),
           Careful(d, e, k, m, n)
    PROVE  Kept(e, n)
<1>1. /\ Len(d) \in Nat /\ Len(e) = Len(d) /\ k \in 1..Len(d)
      /\ \A i \in 1..Len(d) : i # k => e[i] = d[i]
  BY LogLength DEF Rewritten
<1>2. \A id \in 1..Len(d) : e[id].plan = d[id].plan
  BY <1>1
<1>3. ASSUME NEW id \in 1..Len(d), NEW t, RetargetedIn(d, id, t)
      PROVE  RetargetedIn(e, id, t)
  <2>1. PICK later \in (id + 1)..Len(d) :
          /\ t \in d[later].plan.tools /\ d[later].steps[t].state # "pending"
          /\ d[later].plan.targets[t] # d[id].plan.targets[t]
    BY <1>3 DEF RetargetedIn
  <2>2. later \in 1..Len(d) /\ later \in (id + 1)..Len(e)
    BY <1>1
  <2>3. e[later].steps[t].state # "pending"
    BY <1>1, <2>1, <2>2 DEF Careful
  <2>4. QED
    BY <1>2, <2>1, <2>2, <2>3 DEF RetargetedIn
<1>4. ASSUME NEW id \in 1..Len(d), NEW t \in Completed(d[id]), t # pnpm,
             e[id].steps[t].after = d[id].steps[t].after
      PROVE  RetargetedIn(e, id, t) \/ AsLeft(e[id], t, n)
  <2>1. t \in Tools /\ t \in Tools \ {pnpm}
    BY <1>4 DEF Completed, Ordered
  <2>2. RetargetedIn(d, id, t) \/ AsLeft(d[id], t, m)
    BY <1>4 DEF Kept
  <2>3. CASE RetargetedIn(d, id, t)
    BY <1>3, <2>3
  <2>4. CASE AsLeft(d[id], t, m) /\ n[t] = m[t]
    <3>1. EvidenceOf(n, t) = EvidenceOf(m, t)
      BY <1>4, <2>4 DEF EvidenceOf, FactsOf
    <3>2. QED
      BY <1>2, <1>4, <2>4, <3>1 DEF AsLeft
  <2>5. CASE /\ AsLeft(d[id], t, m) /\ k = Len(d) /\ t \in d[k].plan.tools
             /\ e[k].steps[t].state # "pending"
             /\ m[t].version # d[k].plan.targets[t]
    <3>1. d[k].plan.targets[t] # d[id].plan.targets[t]
      BY <2>5 DEF AsLeft
    <3>2. k \in (id + 1)..Len(e)
      BY <1>1, <2>5, <3>1
    <3>3. QED
      BY <1>2, <2>5, <3>1, <3>2 DEF RetargetedIn
  <2>6. QED
    BY <2>1, <2>2, <2>3, <2>4, <2>5 DEF Careful
<1>5. ASSUME NEW id \in 1..Len(e), NEW t \in Completed(e[id]), t # pnpm
      PROVE  RetargetedIn(e, id, t) \/ AsLeft(e[id], t, n)
  <2>1. CASE id # k
    <3>1. id \in 1..Len(d) /\ e[id] = d[id]
      BY <1>1, <2>1
    <3>2. QED
      BY <1>4, <1>5, <3>1
  <2>2. CASE id = k
    <3>1. CASE AsLeft(e[k], t, n)
      BY <2>2, <3>1
    <3>2. CASE t \in Completed(d[k]) /\ e[k].steps[t].after = d[k].steps[t].after
      BY <1>1, <1>4, <1>5, <2>2, <3>2
    <3>3. QED
      BY <1>5, <2>2, <3>1, <3>2 DEF Careful
  <2>3. QED
    BY <2>1, <2>2
<1>6. QED
  BY <1>5 DEF Kept

\* A new operation, of which no step has begun, takes nothing away.
LEMMA KeptLonger ==
    ASSUME NEW d, NEW e, IsLog(d), Longer(d, e), NEW m, Kept(d, m),
           Completed(e[Len(d) + 1]) = {}
    PROVE  Kept(e, m)
<1>1. /\ Len(d) \in Nat /\ Len(e) = Len(d) + 1
      /\ \A i \in 1..Len(d) : e[i] = d[i]
  BY LogLength DEF Longer
<1>2. ASSUME NEW id \in 1..Len(e), NEW t \in Completed(e[id]), t # pnpm
      PROVE  RetargetedIn(e, id, t) \/ AsLeft(e[id], t, m)
  <2>1. id # Len(d) + 1
    BY <1>2
  <2>2. id \in 1..Len(d) /\ e[id] = d[id]
    BY <1>1, <2>1
  <2>3. RetargetedIn(d, id, t) \/ AsLeft(e[id], t, m)
    BY <1>2, <2>2 DEF Kept
  <2>4. ASSUME RetargetedIn(d, id, t)
        PROVE  RetargetedIn(e, id, t)
    <3>1. PICK later \in (id + 1)..Len(d) :
            /\ t \in d[later].plan.tools /\ d[later].steps[t].state # "pending"
            /\ d[later].plan.targets[t] # d[id].plan.targets[t]
      BY <2>4 DEF RetargetedIn
    <3>2. later \in (id + 1)..Len(e) /\ e[later] = d[later]
      BY <1>1, <2>2
    <3>3. QED
      BY <2>2, <3>1, <3>2 DEF RetargetedIn
  <2>5. QED
    BY <2>3, <2>4
<1>3. QED
  BY <1>2 DEF Kept

\* Only the last operation comes to change something.
LEMMA SingleRewritten ==
    ASSUME NEW d, NEW e, NEW k, IsLog(d), Rewritten(d, e, k), Single(d),
           e[k].plan = d[k].plan,
           \/ k = Len(d)
           \/ \A t \in d[k].plan.tools : e[k].steps[t].changed = d[k].steps[t].changed
    PROVE  Single(e)
<1>1. Len(d) \in Nat /\ Len(e) = Len(d)
      /\ \A i \in 1..Len(d) : i # k => e[i] = d[i]
  BY LogLength DEF Rewritten
<1>2. ASSUME NEW i \in 1..Len(e), NEW j \in 1..Len(e), i < j, e[i].plan = e[j].plan,
             NEW t \in e[i].plan.tools
      PROVE  ~e[i].steps[t].changed
  <2>1. e[i].plan = d[i].plan /\ e[j].plan = d[j].plan
    BY <1>1
  <2>2. ~d[i].steps[t].changed
    BY <1>1, <1>2, <2>1 DEF Single
  <2>3. CASE i # k
    BY <1>1, <2>2, <2>3
  <2>4. CASE i = k
    <3>1. k # Len(d)
      BY <1>1, <1>2, <2>4
    <3>2. QED
      BY <2>1, <2>2, <2>4, <3>1
  <2>5. QED
    BY <2>3, <2>4
<1>3. QED
  BY <1>2 DEF Single

\* What a step of the executor that saves its record keeps.
LEMMA RecordKeeps ==
    ASSUME IInv, phase # "idle", NEW step \in StepRecords,
           NEW state \in OperationStates, Record(step, state), Moves,
           phase' \in {"idle", "check", "write", "verify"},
           UNCHANGED <<clock, faults, prepared>>, step.state # "pending",
           state = "completed" \/ step.state # "completed" \/ Left # {at},
           drift = 0 /\ step.changed => Beyond(current.plan, at, installed'),
           drift = 0 /\ step.state = "completed" /\ at # pnpm =>
               /\ installed'[at].version = current.plan.targets[at]
               /\ step.after = EvidenceOf(installed', at)
    PROVE  /\ TypeInv' /\ LogInv' /\ PreparedInv' /\ MachineInv' /\ CalmInv'
           /\ Running' \in 1..Len(disk') /\ Advancing(current')
           /\ current' = Stepped(current, at, step, state, clock)
<1> DEFINE t == at
<1>1. /\ Running \in 1..Len(disk) /\ Running = Len(disk) /\ Len(disk) \in Nat
      /\ current = disk[Running]
      /\ IsOperation(current) /\ Ordered(current.plan) /\ Advancing(current)
      /\ current.state = "active" /\ t \in current.plan.tools /\ clock \in Nat
  BY CurrentOperation DEF IInv
<1>2. IsLog(disk) /\ Log(disk, clock)
  BY DEF IInv, TypeInv, LogInv
<1>3. /\ IsLog(disk') /\ Rewritten(disk, disk', Running)
      /\ Running' = Running /\ current' = disk'[Running]
      /\ current' = Stepped(current, t, step, state, clock)
  BY <1>1, <1>2, RecordWrites
<1>4. IsOperation(current') /\ current'.plan = current.plan
      /\ current'.updated = clock
  BY <1>1, <1>3, SteppedFields
<1>5. Advancing(current')
  BY <1>1, <1>3, SteppedAdvances, AtOfCurrent
<1>6. /\ Log(disk', clock)
      /\ \A p : Sourced(p, disk, Len(disk) + 1) => Sourced(p, disk', Len(disk') + 1)
  <2> DEFINE d == disk
             e == disk'
             k == Running
  <2>1. /\ IsLog(d) /\ Log(d, clock) /\ Rewritten(d, e, k) /\ d[k].state = "active"
        /\ e[k].plan = d[k].plan /\ IsOperation(e[k]) /\ Advancing(e[k])
        /\ e[k].updated <= clock /\ clock <= clock
    BY <1>1, <1>2, <1>3, <1>4, <1>5
  <2> HIDE DEF d, e, k
  <2>2. Log(e, clock) /\ \A p : Sourced(p, d, Len(d) + 1) => Sourced(p, e, Len(e) + 1)
    BY <1>1, <2>1, LogRewritten
  <2>3. QED
    BY <2>2 DEF d, e
<1>7. clock' = clock /\ drift' = drift /\ crashes' = crashes /\ prepared' = prepared
  BY DEF faults
<1>8. LogInv' /\ PreparedInv'
  BY <1>6, <1>7 DEF LogInv, PreparedInv, IInv
<1>9. Len(disk') = Len(disk)
  BY <1>3 DEF Rewritten
<1>10. TypeInv'
  BY <1>3, <1>7, <1>9 DEF IInv, TypeInv, Moves, MachineTyped
<1>11. MachineInv'
  BY <1>7 DEF MachineInv, Moves
<1>12. ASSUME drift = 0
       PROVE  /\ \A id \in 1..Len(disk') : Calm(disk'[id], installed')
              /\ Kept(disk', installed') /\ Single(disk')
  <2> DEFINE d == disk
             e == disk'
             m == installed
             n == installed'
             k == Running
             op == current
  <2>1. /\ Undisturbed(m) /\ Undisturbed(n) /\ Forward(m, n)
        /\ (\A id \in 1..Len(d) : Calm(d[id], m)) /\ Single(d) /\ Kept(d, m)
        /\ \A u \in Tools \ {pnpm} :
             \/ n[u] = m[u]
             \/ u = t /\ m[u].version # op.plan.targets[u]
    BY <1>12 DEF IInv, MachineInv, CalmInv, Moves
  <2>2. Calm(op, m)
    BY <1>1, <2>1
  <2>3. /\ step.changed => Beyond(op.plan, t, n)
        /\ step.state = "completed" /\ t # pnpm =>
             n[t].version = op.plan.targets[t] /\ step.after = EvidenceOf(n, t)
        /\ op = d[k] /\ e[k] = Stepped(op, t, step, state, clock) /\ e[k].plan = d[k].plan
        /\ Log(d, clock) /\ IsLog(d) /\ Rewritten(d, e, k) /\ k = Len(d)
        /\ IsOperation(op) /\ Ordered(op.plan) /\ t \in op.plan.tools
    BY <1>1, <1>2, <1>3, <1>4, <1>12
  <2> HIDE DEF d, e, m, n, k, op, t
  <2>4. Calm(op, n)
    BY <2>1, <2>2, <2>3, CalmStays
  <2>5. Calm(e[k], n)
    BY <1>1, <2>3, <2>4, CalmStepped
  <2>6. \A id \in 1..Len(e) : Calm(e[id], n)
    BY <2>1, <2>3, <2>5, CalmRewritten
  <2>7. Single(e)
    BY <2>1, <2>3, SingleRewritten
  <2>8. /\ e[k].steps[t] = step
        /\ \A u \in op.plan.tools : u # t => e[k].steps[u] = op.steps[u]
    BY <1>1, <2>3, SteppedFields
  <2>9. \A u \in op.plan.tools :
          d[k].steps[u].state # "pending" => e[k].steps[u].state # "pending"
    BY <2>3, <2>8
  <2>10. ASSUME NEW u \in Completed(e[k]), u # pnpm
         PROVE  \/ u \in Completed(d[k]) /\ e[k].steps[u].after = d[k].steps[u].after
                \/ AsLeft(e[k], u, n)
    <3>1. u \in op.plan.tools /\ e[k].steps[u].state = "completed"
      BY <2>3, <2>10 DEF Completed
    <3>2. CASE u = t
      BY <2>3, <2>8, <2>10, <3>1, <3>2 DEF AsLeft
    <3>3. CASE u # t
      BY <2>3, <2>8, <3>1, <3>3 DEF Completed
    <3>4. QED
      BY <3>2, <3>3
  <2>11. \A u \in Tools \ {pnpm} :
           \/ n[u] = m[u]
           \/ /\ k = Len(d) /\ u \in d[k].plan.tools
              /\ e[k].steps[u].state # "pending"
              /\ m[u].version # d[k].plan.targets[u]
    BY <2>1, <2>3, <2>8
  <2>12. \A id \in 1..Len(d) : Ordered(d[id].plan)
    BY <2>3 DEF Log
  <2>13. Kept(e, n)
    <3>1. Careful(d, e, k, m, n)
      BY <2>3, <2>9, <2>10, <2>11 DEF Careful
    <3>2. IsLog(d) /\ Rewritten(d, e, k) /\ e[k].plan = d[k].plan /\ Kept(d, m)
      BY <2>1, <2>3
    <3>3. QED
      BY <2>12, <3>1, <3>2, KeptRewritten
  <2>14. QED
    BY <2>6, <2>7, <2>13 DEF e, n
<1>13. CalmInv'
  BY <1>7, <1>12 DEF CalmInv, IInv
<1>14. QED
  BY <1>1, <1>3, <1>5, <1>8, <1>9, <1>10, <1>11, <1>13
-----------------------------------------------------------------------------
(* The actions of the executor.                                            *)

\* A step that does not complete keeps its turn.
LEMMA SameTurn ==
    ASSUME NEW op, IsOperation(op), Ordered(op.plan), Advancing(op),
           op.state = "active",
           NEW step \in StepRecords, step.state # "completed",
           NEW state \in OperationStates, NEW now \in Nat
    PROVE  AtOf(Stepped(op, AtOf(op), step, state, now)) = AtOf(op)
<1> DEFINE t == AtOf(op)
           new == Stepped(op, t, step, state, now)
<1>1. t \in op.plan.tools /\ op.steps[t].state # "completed"
  BY Turn
<1>2. /\ new.plan = op.plan /\ new.steps[t] = step
      /\ \A u \in op.plan.tools : u # t => new.steps[u] = op.steps[u]
  BY <1>1, SteppedFields
<1> HIDE DEF t, new
<1>3. \A u \in op.plan.tools : u \in Completed(new) <=> u \in Completed(op)
  BY <1>1, <1>2 DEF Completed
<1>4. LeftOf(new) = LeftOf(op)
  BY <1>2, <1>3 DEF LeftOf
<1>5. AtOf(new) = AtOf(op)
  BY <1>4 DEF AtOf
<1>6. QED
  BY <1>5 DEF new, t

\* The step after one that completes has not begun.
LEMMA NextTurn ==
    ASSUME NEW op, IsOperation(op), Ordered(op.plan), Advancing(op),
           op.state = "active",
           NEW step \in StepRecords, NEW state \in OperationStates, NEW now \in Nat,
           step.state = "completed", state # "completed",
           Advancing(Stepped(op, AtOf(op), step, state, now))
    PROVE  LET new == Stepped(op, AtOf(op), step, state, now)
           IN  new.steps[AtOf(new)].state = "pending"
<1> DEFINE t == AtOf(op)
           new == Stepped(op, t, step, state, now)
           u == AtOf(new)
<1>1. /\ t \in op.plan.tools /\ t \in Tools
      /\ \A v \in op.plan.tools : v < t => op.steps[v].state = "completed"
      /\ \A v \in op.plan.tools : t < v => op.steps[v].state = "pending"
  BY Turn
<1>2. /\ new.plan = op.plan /\ new.state = state /\ new.steps[t] = step
      /\ \A v \in op.plan.tools : v # t => new.steps[v] = op.steps[v]
  BY <1>1, SteppedFields
<1>3. Advancing(new)
  OBVIOUS
<1> HIDE DEF new
<1>4. /\ u \in new.plan.tools /\ u \in Tools
      /\ new.steps[u].state # "completed"
  BY <1>2, <1>3, Turn
<1> HIDE DEF t, u
<1>5. u # t
  BY <1>2, <1>4
<1>6. t < u
  BY <1>1, <1>2, <1>4, <1>5, ToolNumbers
<1>7. new.steps[u].state = "pending"
  BY <1>1, <1>2, <1>4, <1>5, <1>6
<1>8. QED
  BY <1>7 DEF new, t, u

\* The executor returns with a failure.
LEMMA ReturnKeeps ==
    ASSUME IInv, phase # "idle", NEW after, Return(after), Moves,
           UNCHANGED <<clock, faults, prepared>>,
           drift = 0 /\ after # None /\ after # before =>
               Beyond(current.plan, at, installed')
    PROVE  IInv'
<1> DEFINE changed == after # None /\ after # before
           step == [state |-> "failed", after |-> None, changed |-> changed]
<1>1. step \in StepRecords /\ step.state = "failed" /\ step.changed = changed
  BY DEF StepRecords, StepStates
<1>2. Record(step, "failed") /\ phase' = "idle"
  BY DEF Return
<1>3. drift = 0 /\ step.changed => Beyond(current.plan, at, installed')
  BY <1>1
<1> HIDE DEF step
<1>4. TypeInv' /\ LogInv' /\ PreparedInv' /\ MachineInv' /\ CalmInv'
  BY <1>1, <1>2, <1>3, RecordKeeps DEF OperationStates
<1>5. RunInv' /\ StepInv'
  BY <1>2 DEF RunInv, StepInv
<1>6. QED
  BY <1>4, <1>5 DEF IInv

LEMMA StepRefusedKeeps == ASSUME IInv, StepRefused PROVE IInv'
<1>1. phase # "idle" /\ Return(None) /\ UNCHANGED <<clock, faults, prepared>>
  BY DEF StepRefused
<1>2. Moves
  BY MachineStays DEF StepRefused, IInv
<1>3. QED
  BY <1>1, <1>2, ReturnKeeps

LEMMA VerificationFailsKeeps == ASSUME IInv, VerificationFails PROVE IInv'
<1> DEFINE after == current.steps[at].after
<1>1. /\ phase = "verify" /\ Return(after)
      /\ UNCHANGED <<clock, faults, prepared>> /\ installed' = installed
  BY DEF VerificationFails, machine
<1>2. Moves
  BY MachineStays DEF VerificationFails, IInv
<1>3. ASSUME drift = 0, after # before
      PROVE  Beyond(current.plan, at, installed')
  <2>1. Watched(current, phase, before, baseline, installed)
    BY <1>1, <1>3 DEF IInv, StepInv
  <2>2. current.steps[at].changed
    BY <1>1, <1>3, <2>1, AtOfCurrent DEF Watched
  <2>3. /\ Running \in 1..Len(disk) /\ current = disk[Running]
        /\ at \in current.plan.tools
    BY <1>1, CurrentOperation DEF IInv
  <2>4. Calm(current, installed)
    BY <1>3, <2>3 DEF IInv, CalmInv
  <2>5. QED
    BY <1>1, <2>2, <2>3, <2>4 DEF Calm
<1> HIDE DEF after
<1>4. QED
  BY <1>1, <1>2, <1>3, ReturnKeeps
\* What a package manager may do to a machine that nobody else changes.
LEMMA InstallsMoves ==
    ASSUME IInv, phase = "write", Installs, NEW t, t = at
    PROVE  /\ Moves
           /\ drift = 0 =>
                /\ Evidence(t)' = EvidenceOf(installed', t)
                /\ Evidence(t)' # before => Beyond(current.plan, t, installed')
<1>1. /\ t \in Tools /\ t \in current.plan.tools /\ Ordered(current.plan)
      /\ Running \in 1..Len(disk) /\ current = disk[Running]
  BY CurrentOperation DEF IInv
<1> DEFINE target == current.plan.targets[t]
<1>2. PICK package \in {installed[t], Package(installed[t].version, 1),
                       Package(target, 0)} :
        LET update == [installed EXCEPT ![t] = package]
        IN  installed' \in {update} \cup
              IF t = corepack /\ provider = "corepack"
              THEN {[update EXCEPT ![pnpm] = Package(Newest, 0)]} ELSE {}
  BY DEF Installs, Target
<1>3. \/ installed' = [installed EXCEPT ![t] = package]
      \/ t = corepack /\ installed' =
           [[installed EXCEPT ![t] = package] EXCEPT ![pnpm] = Package(Newest, 0)]
  BY <1>2
<1>4. /\ installed \in [Tools -> Packages] /\ provider' = provider /\ control' = control
      /\ provider \in Providers /\ control \in {0, 1}
  BY DEF IInv, TypeInv, Installs
<1>5. package \in Packages /\ Package(Newest, 0) \in Packages /\ target \in Targets
  <2>1. target \in Targets
    BY <1>1 DEF Ordered
  <2>2. /\ target \in 0..Newest /\ Newest \in 0..Newest
        /\ installed[t] \in Packages /\ installed[t].version \in 0..Newest
    BY <1>1, <1>4, <2>1, PackageValues
  <2>3. /\ Package(target, 0) \in Packages /\ Package(Newest, 0) \in Packages
        /\ Package(installed[t].version, 1) \in Packages
    BY <2>2, PackageValues
  <2>4. QED
    BY <1>2, <2>1, <2>2, <2>3
<1> HIDE DEF target
<1>6. MachineTyped'
  BY <1>3, <1>4, <1>5 DEF MachineTyped
<1>7. ASSUME drift = 0
      PROVE  /\ provider' = "corepack" /\ control' = 0
             /\ Undisturbed(installed') /\ Forward(installed, installed')
             /\ \A u \in Tools \ {pnpm} :
                  \/ installed'[u] = installed[u]
                  \/ u = t /\ installed[u].version # current.plan.targets[u]
             /\ Evidence(t)' = EvidenceOf(installed', t)
             /\ EvidenceOf(installed', t) # before => Beyond(current.plan, t, installed')
  <2> DEFINE m == installed
             n == installed'
             p == current.plan
  <2>1. provider = "corepack" /\ control = 0 /\ Undisturbed(m)
    BY <1>7 DEF IInv, MachineInv
  <2>2. /\ before = EvidenceOf(m, t) /\ FactsOf(m, t).version # target
        /\ FactsOf(m, t).version = p.facts[t].version
        /\ t # pnpm => FactsOf(m, t) = p.facts[t]
    BY <1>7, AtOfCurrent DEF IInv, StepInv, Watched, target
  <2>3. /\ provider' = "corepack" /\ control' = 0
        /\ Evidence(t)' = EvidenceOf(n, t)
    BY <1>4, <2>1 DEF Evidence, EvidenceOf, Facts, FactsOf
  <2>4. m[t].version = FactsOf(m, t).version /\ m[t].version \in Nat
    BY <1>1, <2>1, UndisturbedValues DEF FactsOf
  <2>5. m[t].version < target
    <3>1. p.facts[t].version <= target /\ target \in Nat
      BY <1>1, <1>5, PackageValues DEF Ordered, target
    <3>2. m[t].version <= target /\ m[t].version # target
      BY <2>2, <2>4, <3>1
    <3>3. QED
      BY <2>4, <3>1, <3>2
  <2>6. \/ n = [m EXCEPT ![t] = package]
        \/ t = corepack /\ n = [[m EXCEPT ![t] = package] EXCEPT ![pnpm] = Package(Newest, 0)]
    BY <1>3
  <2>7. /\ package \in {m[t], Package(m[t].version, 1), Package(target, 0)}
        /\ m \in [Tools -> Packages]
    BY <1>2, <1>4
  <2> HIDE DEF m, n, p
  <2>8. /\ Undisturbed(n) /\ Forward(m, n)
        /\ \A u \in Tools \ {pnpm} : u # t => n[u] = m[u]
        /\ FactsOf(n, t) # FactsOf(m, t) =>
             IF t = pnpm THEN m[t].version < n[t].version
             ELSE Rank(m[t]) < Rank(n[t])
    BY <1>1, <1>5, <2>1, <2>5, <2>6, <2>7, WriteMovesForward
  <2>9. ASSUME EvidenceOf(n, t) # before
        PROVE  Beyond(p, t, n)
    <3>1. FactsOf(n, t) # FactsOf(m, t)
      BY <2>2, <2>9 DEF EvidenceOf
    <3>2. CASE t = pnpm
      BY <2>2, <2>4, <2>8, <3>1, <3>2 DEF Beyond
    <3>3. CASE t # pnpm
      <4>1. p.facts[t].digest = m[t]
        BY <2>2, <3>3 DEF FactsOf
      <4>2. QED
        BY <2>8, <3>1, <3>3, <4>1 DEF Beyond
    <3>4. QED
      BY <3>2, <3>3
  <2>10. \A u \in Tools \ {pnpm} :
           n[u] = m[u] \/ (u = t /\ m[u].version # p.targets[u])
    BY <1>5, <2>4, <2>5, <2>8, PackageValues DEF target, p
  <2>11. QED
    BY <2>3, <2>8, <2>9, <2>10 DEF m, n, p
<1>8. Moves
  BY <1>6, <1>7 DEF Moves
<1>9. QED
  BY <1>7, <1>8
\* A step goes on.
LEMMA StepGoesOn ==
    ASSUME IInv, phase # "idle", NEW step \in StepRecords, step.state = "running",
           Record(step, "active"), Moves, phase' \in {"write", "verify"},
           UNCHANGED <<clock, faults, prepared>>, NEW t, t = at,
           drift = 0 /\ step.changed => Beyond(current.plan, t, installed'),
           drift = 0 =>
             /\ baseline'.control = 0
             /\ \A u \in current.plan.tools : baseline'.facts[u] = current.plan.facts[u]
             /\ phase' = "write" =>
                  /\ before' = EvidenceOf(installed', t)
                  /\ FactsOf(installed', t).version # current.plan.targets[t]
                  /\ FactsOf(installed', t).version = current.plan.facts[t].version
                  /\ t # pnpm => FactsOf(installed', t) = current.plan.facts[t]
             /\ phase' = "verify" =>
                  /\ step.after = EvidenceOf(installed', t)
                  /\ step.changed <=> EvidenceOf(installed', t) # before'
    PROVE  IInv'
<1> DEFINE op == current
           new == Stepped(op, t, step, "active", clock)
<1>1. /\ IsOperation(op) /\ Ordered(op.plan) /\ Advancing(op)
      /\ op.state = "active" /\ clock \in Nat /\ t \in op.plan.tools /\ t = AtOf(op)
  BY CurrentOperation, AtOfCurrent DEF IInv
<1>2. /\ TypeInv' /\ LogInv' /\ PreparedInv' /\ MachineInv' /\ CalmInv'
      /\ Running' \in 1..Len(disk') /\ current' = new
  BY RecordKeeps DEF OperationStates
<1>3. /\ new.plan = op.plan /\ new.state = "active" /\ new.steps[t] = step
      /\ AtOf(new) = t
  BY <1>1, SteppedFields, SameTurn DEF OperationStates
<1>4. drift' = drift
  BY DEF faults
<1> HIDE DEF new, op
<1>5. Underway(new, phase')
  BY <1>3 DEF Underway
<1>6. RunInv'
  BY <1>2, <1>5 DEF RunInv
<1>7. ASSUME drift = 0
      PROVE  Watched(new, phase', before', baseline', installed')
  BY <1>3, <1>7 DEF Watched, op
<1>8. StepInv'
  BY <1>2, <1>4, <1>7 DEF StepInv
<1>9. QED
  BY <1>2, <1>6, <1>8 DEF IInv

LEMMA WriteSucceedsKeeps == ASSUME IInv, WriteSucceeds PROVE IInv'
<1>1. /\ phase = "write" /\ Installs /\ phase' = "verify"
      /\ UNCHANGED <<clock, faults, prepared, before, baseline>>
  BY DEF WriteSucceeds
<1>2. PICK t \in {at} :
        Record([state |-> "running", after |-> Evidence(t)',
                changed |-> Evidence(t)' # before], "active")
  BY DEF WriteSucceeds
<1>3. t = at
  OBVIOUS
<1>4. /\ Moves
      /\ drift = 0 =>
           /\ Evidence(t)' = EvidenceOf(installed', t)
           /\ Evidence(t)' # before => Beyond(current.plan, t, installed')
  BY <1>1, <1>3, InstallsMoves
<1>5. Evidence(t)' \in Evidences
  <2>1. t \in Tools
    BY <1>1, <1>3, CurrentOperation DEF IInv
  <2>2. QED
    BY <1>4, <2>1, NextEvidenceTyped DEF Moves
<1> DEFINE step == [state |-> "running", after |-> Evidence(t)',
                    changed |-> Evidence(t)' # before]
<1>6. /\ step \in StepRecords /\ step.state = "running" /\ step.after = Evidence(t)'
      /\ step.changed = (Evidence(t)' # before)
  BY <1>5 DEF StepRecords, StepStates
<1>7. Record(step, "active")
  BY <1>2
<1>8. ASSUME drift = 0
      PROVE  /\ baseline'.control = 0
             /\ \A u \in current.plan.tools : baseline'.facts[u] = current.plan.facts[u]
  BY <1>1, <1>8 DEF IInv, StepInv, Watched
<1>9. PICK s \in StepRecords : s = step
  BY <1>6
<1> HIDE DEF step
<1>10. IInv'
  BY <1>1, <1>3, <1>4, <1>6, <1>7, <1>8, <1>9, StepGoesOn
<1>11. QED
  BY <1>10

LEMMA WriteFailsKeeps == ASSUME IInv, WriteFails PROVE IInv'
<1>1. phase = "write" /\ Installs /\ UNCHANGED <<clock, faults, prepared>>
  BY DEF WriteFails
<1>2. PICK t \in {at} : \E after \in {None, Evidence(t)'} : Return(after)
  BY DEF WriteFails
<1>3. PICK after \in {None, Evidence(t)'} : Return(after)
  BY <1>2
<1>4. t = at
  OBVIOUS
<1>5. /\ Moves
      /\ drift = 0 =>
           /\ Evidence(t)' = EvidenceOf(installed', t)
           /\ Evidence(t)' # before => Beyond(current.plan, t, installed')
  BY <1>1, <1>4, InstallsMoves
<1>6. drift = 0 /\ after # None /\ after # before =>
        Beyond(current.plan, at, installed')
  BY <1>3, <1>4, <1>5
<1>7. QED
  BY <1>1, <1>3, <1>5, <1>6, ReturnKeeps

LEMMA CheckStepKeeps == ASSUME IInv, CheckStep PROVE IInv'
<1> DEFINE done == [state |-> "running", changed |-> FALSE, after |-> before']
           begun == [PendingStep EXCEPT !.state = "running"]
<1>1. PICK t : t = at
  OBVIOUS
<1>2. /\ phase = "check" /\ PreflightPasses /\ before' = Evidence(t)
      /\ UNCHANGED <<clock, faults, machine, prepared, baseline>>
      /\ installed' = installed
      /\ IF Facts(t).version = current.plan.targets[t]
         THEN Record(done, "active") /\ phase' = "verify"
         ELSE Record(begun, "active") /\ phase' = "write"
  BY <1>1 DEF CheckStep, machine, Target
<1>3. Moves
  BY <1>2, MachineStays DEF IInv
<1>4. t \in Tools /\ t \in current.plan.tools
  BY <1>1, <1>2, CurrentOperation DEF IInv
<1>5. Evidence(t) \in Evidences
  BY <1>4, EvidenceTyped DEF IInv, TypeInv, MachineTyped
<1>6. /\ done \in StepRecords /\ done.state = "running" /\ done.changed = FALSE
      /\ done.after = Evidence(t)
      /\ begun \in StepRecords /\ begun.state = "running" /\ begun.changed = FALSE
  BY <1>2, <1>5 DEF StepRecords, StepStates, PendingStep
<1>7. ASSUME drift = 0
      PROVE  /\ baseline'.control = 0
             /\ \A u \in current.plan.tools : baseline'.facts[u] = current.plan.facts[u]
             /\ Facts(t) = FactsOf(installed', t)
             /\ before' = EvidenceOf(installed', t)
  <2>1. provider = "corepack" /\ control = 0
    BY <1>7 DEF IInv, MachineInv
  <2>2. Watched(current, phase, before, baseline, installed)
    BY <1>2, <1>7 DEF IInv, StepInv
  <2>3. Facts(t) = FactsOf(installed, t) /\ Evidence(t) = EvidenceOf(installed, t)
    BY <2>1, CalmEvidence
  <2>4. QED
    BY <1>2, <2>2, <2>3 DEF Watched
<1>8. ASSUME drift = 0
      PROVE  /\ FactsOf(installed', t).version = current.plan.facts[t].version
             /\ t # pnpm => FactsOf(installed', t) = current.plan.facts[t]
  <2>1. baseline.facts[t] = current.plan.facts[t] /\ Facts(t) = FactsOf(installed', t)
    BY <1>2, <1>4, <1>7, <1>8
  <2>2. CASE Facts(t).provider = "corepack"
    <3>1. t = pnpm
      BY <2>1, <2>2 DEF FactsOf
    <3>2. Facts(t).version = baseline.facts[t].version
      BY <1>1, <1>2 DEF PreflightPasses
    <3>3. QED
      BY <2>1, <3>1, <3>2
  <2>3. CASE Facts(t).provider # "corepack"
    BY <1>1, <1>2, <2>1, <2>3 DEF PreflightPasses
  <2>4. QED
    BY <2>2, <2>3
<1> HIDE DEF done, begun
<1>9. CASE Facts(t).version = current.plan.targets[t]
  <2>1. PICK s \in StepRecords : s = done
    BY <1>6
  <2>2. /\ s.state = "running" /\ s.changed = FALSE /\ s.after = Evidence(t)
        /\ Record(s, "active") /\ phase' = "verify"
    BY <1>2, <1>6, <1>9, <2>1
  <2>3. s.after = before'
    BY <1>2, <2>2
  <2>4. QED
    BY <1>1, <1>2, <1>3, <1>7, <2>2, <2>3, StepGoesOn
<1>10. CASE Facts(t).version # current.plan.targets[t]
  <2>1. PICK s \in StepRecords : s = begun
    BY <1>6
  <2>2. /\ s.state = "running" /\ s.changed = FALSE
        /\ Record(s, "active") /\ phase' = "write"
    BY <1>2, <1>6, <1>10, <2>1
  <2>3. QED
    BY <1>1, <1>2, <1>3, <1>7, <1>8, <1>10, <2>2, StepGoesOn
<1>11. QED
  BY <1>9, <1>10
LEMMA VerificationPassesKeeps == ASSUME IInv, VerificationPasses PROVE IInv'
<1>1. /\ phase = "verify" /\ Verifies /\ phase' = "verified"
      /\ UNCHANGED <<clock, faults, machine, prepared, disk, before, baseline>>
  BY DEF VerificationPasses
<1>2. TypeInv' /\ LogInv' /\ PreparedInv' /\ MachineInv' /\ CalmInv'
  BY <1>1 DEF IInv, TypeInv, LogInv, PreparedInv, MachineInv, CalmInv, faults, machine
<1>3. current' = current /\ Running' = Running
  BY <1>1 DEF current, Running
<1>4. RunInv'
  BY <1>1, <1>3 DEF IInv, RunInv, Underway
<1>5. ASSUME drift = 0
      PROVE  Watched(current, "verified", before, baseline, installed)
  <2>1. Watched(current, "verify", before, baseline, installed)
    BY <1>1, <1>5 DEF IInv, StepInv
  <2>2. Facts(at) = FactsOf(installed, at) /\ Facts(at).version = current.plan.targets[at]
    BY <1>1, <1>5, CalmEvidence DEF Verifies, Target, IInv, MachineInv
  <2>3. QED
    BY <2>1, <2>2, AtOfCurrent DEF Watched
<1>6. StepInv'
  BY <1>1, <1>3, <1>5 DEF StepInv, faults, machine
<1>7. QED
  BY <1>2, <1>4, <1>6 DEF IInv

LEMMA StepCompletesKeeps == ASSUME IInv, StepCompletes PROVE IInv'
<1> DEFINE done == [current.steps[at] EXCEPT !.state = "completed"]
<1>1. PICK t : t = at
  OBVIOUS
<1>2. /\ phase = "verified"
      /\ UNCHANGED <<clock, faults, machine, prepared>> /\ installed' = installed
      /\ IF Left = {t}
         THEN Record(done, "completed") /\ phase' = "idle"
         ELSE Record(done, "active") /\ phase' = "check"
      /\ baseline' = IF phase' = "idle" THEN None ELSE baseline
  BY <1>1 DEF StepCompletes, machine
<1>3. Moves
  BY <1>2, MachineStays DEF IInv
<1>4. /\ Running \in 1..Len(disk) /\ current = disk[Running]
      /\ IsOperation(current) /\ Ordered(current.plan) /\ Advancing(current)
      /\ current.state = "active" /\ clock \in Nat
      /\ t \in current.plan.tools /\ t = AtOf(current)
  BY <1>1, <1>2, CurrentOperation, AtOfCurrent DEF IInv
<1>5. current.steps[t] \in StepRecords
  BY <1>4, OperationFields
<1>6. /\ done \in StepRecords /\ done.state = "completed"
      /\ done.after = current.steps[t].after
      /\ done.changed = current.steps[t].changed
  BY <1>1, <1>5 DEF StepRecords, StepStates
<1>7. ASSUME drift = 0, done.changed
      PROVE  Beyond(current.plan, t, installed')
  BY <1>2, <1>4, <1>6, <1>7 DEF IInv, CalmInv, Calm
<1>8. ASSUME drift = 0, t # pnpm
      PROVE  /\ installed'[t].version = current.plan.targets[t]
             /\ done.after = EvidenceOf(installed', t)
  <2>1. Watched(current, "verified", before, baseline, installed)
    BY <1>2, <1>8 DEF IInv, StepInv
  <2>2. QED
    BY <1>2, <1>4, <1>6, <1>8, <2>1 DEF Watched, FactsOf
<1> HIDE DEF done
<1>9. PICK s \in StepRecords : s = done
  BY <1>6
<1>10. /\ drift = 0 /\ s.changed => Beyond(current.plan, at, installed')
       /\ drift = 0 /\ s.state = "completed" /\ at # pnpm =>
            /\ installed'[at].version = current.plan.targets[at]
            /\ s.after = EvidenceOf(installed', at)
       /\ s.state = "completed"
  BY <1>1, <1>6, <1>7, <1>8, <1>9
<1>11. CASE Left = {t}
  <2>1. Record(s, "completed") /\ phase' = "idle"
    BY <1>2, <1>9, <1>11
  <2>2. TypeInv' /\ LogInv' /\ PreparedInv' /\ MachineInv' /\ CalmInv'
    BY <1>2, <1>3, <1>10, <2>1, RecordKeeps DEF OperationStates
  <2>3. QED
    BY <2>1, <2>2 DEF IInv, RunInv, StepInv
<1>12. CASE Left # {t}
  <2>1. Record(s, "active") /\ phase' = "check"
    BY <1>2, <1>9, <1>12
  <2> DEFINE new == Stepped(current, t, s, "active", clock)
  <2>2. /\ TypeInv' /\ LogInv' /\ PreparedInv' /\ MachineInv' /\ CalmInv'
        /\ Running' \in 1..Len(disk') /\ Advancing(current') /\ current' = new
    BY <1>1, <1>2, <1>3, <1>10, <1>12, <2>1, RecordKeeps DEF OperationStates
  <2>3. new.plan = current.plan /\ new.state = "active"
    BY <1>4, SteppedFields DEF OperationStates
  <2>4. new.steps[AtOf(new)].state = "pending"
    BY <1>4, <1>10, <2>2, NextTurn DEF OperationStates
  <2> HIDE DEF new
  <2>5. RunInv'
    BY <2>1, <2>2, <2>3, <2>4 DEF RunInv, Underway
  <2>6. ASSUME drift = 0
        PROVE  Watched(new, phase', before', baseline', installed')
    <3>1. Watched(current, phase, before, baseline, installed)
      BY <1>2, <2>6 DEF IInv, StepInv
    <3>2. baseline' = baseline
      BY <1>2, <2>1
    <3>3. QED
      BY <2>1, <2>3, <3>1, <3>2 DEF Watched
  <2>7. StepInv'
    BY <1>2, <2>2, <2>6 DEF StepInv, faults
  <2>8. QED
    BY <2>2, <2>5, <2>7 DEF IInv
<1>13. QED
  BY <1>11, <1>12

\* The executor stops, or another program runs, and no record is written.
LEMMA CrashKeeps == ASSUME IInv, Crash PROVE IInv'
<1>1. PICK t : t = at
  OBVIOUS
<1>2. /\ phase # "idle" /\ phase' = "idle" /\ crashes' = crashes + 1
      /\ drift + crashes < MaxFaults
      /\ UNCHANGED <<clock, drift, prepared, disk>>
      /\ IF phase = "write" THEN Installs ELSE UNCHANGED machine
  BY DEF Crash
<1>3. Moves
  <2>1. CASE phase = "write"
    BY <1>1, <1>2, <2>1, InstallsMoves
  <2>2. CASE phase # "write"
    BY <1>2, <2>2, MachineStays DEF IInv
  <2>3. QED
    BY <2>1, <2>2
<1>4. crashes' \in 0..MaxFaults
  BY <1>2, BoundAssumption DEF IInv, TypeInv
<1>5. TypeInv'
  BY <1>2, <1>3, <1>4 DEF IInv, TypeInv, Moves, MachineTyped
<1>6. LogInv' /\ PreparedInv' /\ RunInv' /\ StepInv'
  BY <1>2 DEF IInv, LogInv, PreparedInv, RunInv, StepInv
<1>7. MachineInv'
  BY <1>2, <1>3 DEF MachineInv, Moves
<1>8. ASSUME drift = 0, NEW id \in 1..Len(disk)
      PROVE  Calm(disk[id], installed')
  <2>1. /\ Calm(disk[id], installed) /\ Undisturbed(installed)
        /\ Undisturbed(installed') /\ Forward(installed, installed')
    BY <1>3, <1>8 DEF IInv, CalmInv, MachineInv, Moves
  <2>2. Ordered(disk[id].plan)
    BY DEF IInv, LogInv, Log
  <2>3. QED
    BY <2>1, <2>2, CalmStays
<1>9. ASSUME drift = 0
      PROVE  Kept(disk, installed')
  <2> DEFINE d == disk
             k == Len(disk)
             m == installed
             n == installed'
  <2>1. /\ IsLog(d) /\ k \in 1..Len(d) /\ Kept(d, m) /\ current = d[k]
        /\ \A id \in 1..Len(d) : Ordered(d[id].plan)
        /\ at \in d[k].plan.tools
    BY <1>2, <1>9, CurrentOperation DEF IInv, TypeInv, CalmInv, LogInv, Log
  <2>2. phase = "write" => d[k].steps[at].state # "pending"
    BY <2>1, AtOfCurrent DEF IInv, RunInv, Underway
  <2>3. \A u \in Tools \ {pnpm} :
          \/ n[u] = m[u]
          \/ /\ k = Len(d) /\ u \in d[k].plan.tools
             /\ d[k].steps[u].state # "pending"
             /\ m[u].version # d[k].plan.targets[u]
    BY <1>3, <1>9, <2>1, <2>2 DEF Moves
  <2> HIDE DEF d, k, m, n
  <2>4. Rewritten(d, d, k) /\ Careful(d, d, k, m, n)
    BY <2>1, <2>3 DEF Rewritten, Careful
  <2>5. Kept(d, n)
    BY <2>1, <2>4, KeptRewritten
  <2>6. QED
    BY <2>5 DEF d, n
<1>10. CalmInv'
  BY <1>2, <1>8, <1>9 DEF IInv, CalmInv
<1>11. QED
  BY <1>5, <1>6, <1>7, <1>10 DEF IInv
-----------------------------------------------------------------------------
(* Recovery and the rest of the machine.                                   *)

\* The record of an operation that was cut short, as Recover writes it.
Interrupted(op, now) ==
    [op EXCEPT !.state = "failed", !.updated = now, !.steps = InterruptedSteps(op)]

\* Its plan stays, and so does what is completed and what has changed.
CutShort(op, new, now) ==
    /\ IsOperation(new) /\ new.plan = op.plan /\ new.state = "failed"
    /\ new.updated = now
    /\ \A t \in op.plan.tools :
         /\ new.steps[t].changed = op.steps[t].changed
         /\ new.steps[t].state = "pending" <=> op.steps[t].state = "pending"
         /\ new.steps[t].state = "completed" <=> op.steps[t].state = "completed"
         /\ op.steps[t].state = "completed" =>
              new.steps[t].after = op.steps[t].after

LEMMA InterruptedFields ==
    ASSUME NEW op, IsOperation(op), NEW now \in Nat
    PROVE  CutShort(op, Interrupted(op, now), now)
<1> DEFINE steps == InterruptedSteps(op)
           new == [op EXCEPT !.state = "failed", !.updated = now, !.steps = steps]
<1>1. ASSUME NEW t \in op.plan.tools
      PROVE  /\ steps[t] \in StepRecords
             /\ steps[t].changed = op.steps[t].changed
             /\ steps[t].state = "pending" <=> op.steps[t].state = "pending"
             /\ steps[t].state = "completed" <=> op.steps[t].state = "completed"
             /\ op.steps[t].state = "completed" => steps[t].after = op.steps[t].after
  <2>1. op.steps[t] \in StepRecords
    BY OperationFields
  <2>2. CASE op.steps[t].state = "running"
    BY <2>1, <2>2 DEF InterruptedSteps, StepRecords, StepStates
  <2>3. CASE op.steps[t].state # "running"
    BY <2>1, <2>3 DEF InterruptedSteps
  <2>4. QED
    BY <2>2, <2>3
<1>2. steps = [t \in op.plan.tools |-> steps[t]]
  BY DEF InterruptedSteps
<1> HIDE DEF steps
<1>3. steps \in [op.plan.tools -> StepRecords]
  BY <1>1, <1>2
<1>4. /\ new.plan = op.plan /\ new.state = "failed" /\ new.updated = now
      /\ new.steps = steps
  BY DEF IsOperation
<1>5. new \in [plan: {op.plan}, state: OperationStates, updated: Nat,
               steps: [op.plan.tools -> StepRecords]]
  BY <1>3 DEF IsOperation, OperationStates
<1>6. Interrupted(op, now) = new
  BY DEF Interrupted, steps
<1> HIDE DEF new
<1>7. IsOperation(new)
  BY <1>4, <1>5 DEF IsOperation
<1>8. CutShort(op, new, now)
  BY <1>1, <1>4, <1>7 DEF CutShort
<1>9. QED
  BY <1>6, <1>8

LEMMA RecoverKeeps == ASSUME IInv, Recover PROVE IInv'
<1>1. PICK k \in 1..Len(disk) :
        /\ disk[k].state = "active"
        /\ disk' = [disk EXCEPT ![k] =
              [@ EXCEPT !.state = "failed", !.updated = clock,
                        !.steps = InterruptedSteps(disk[k])]]
  BY DEF Recover
<1>2. phase = "idle" /\ UNCHANGED <<clock, faults, machine, prepared, executing>>
  BY DEF Recover
<1> DEFINE new == Interrupted(disk[k], clock)
<1>3. disk' = [disk EXCEPT ![k] = new]
  BY <1>1 DEF Interrupted
<1>4. /\ IsLog(disk) /\ Log(disk, clock) /\ Len(disk) \in Nat /\ clock \in Nat
      /\ IsOperation(disk[k]) /\ Advancing(disk[k])
  BY LogLength, BoundAssumption DEF IInv, TypeInv, LogInv, Log
<1>5. CutShort(disk[k], new, clock)
  BY <1>4, InterruptedFields
<1> HIDE DEF new
<1>6. IsLog(disk') /\ Rewritten(disk, disk', k) /\ disk'[k] = new
  BY <1>3, <1>4, LogExcept
<1>7. Advancing(new)
  <2>1. Remaining(disk[k]) # {}
    BY <1>1, <1>4 DEF Advancing
  <2>2. Remaining(new) # {}
    BY <1>5, <2>1 DEF Remaining, CutShort
  <2>3. ASSUME NEW t \in new.plan.tools, NEW u \in new.plan.tools,
               new.steps[t].state # "pending", u < t
        PROVE  new.steps[u].state = "completed"
    BY <1>4, <1>5, <2>3 DEF Advancing, CutShort
  <2>4. QED
    BY <2>2, <2>3 DEF Advancing
<1>8. /\ Log(disk', clock)
      /\ \A p : Sourced(p, disk, Len(disk) + 1) => Sourced(p, disk', Len(disk') + 1)
  <2> DEFINE d == disk
             e == disk'
  <2>1. /\ IsLog(d) /\ Log(d, clock) /\ Rewritten(d, e, k) /\ d[k].state = "active"
        /\ e[k].plan = d[k].plan /\ IsOperation(e[k]) /\ Advancing(e[k])
        /\ e[k].updated <= clock /\ clock <= clock
    BY <1>1, <1>4, <1>5, <1>6, <1>7 DEF CutShort
  <2> HIDE DEF d, e
  <2>2. Log(e, clock) /\ \A p : Sourced(p, d, Len(d) + 1) => Sourced(p, e, Len(e) + 1)
    BY <1>4, <2>1, LogRewritten
  <2>3. QED
    BY <2>2 DEF d, e
<1>9. Len(disk') = Len(disk)
  BY <1>6 DEF Rewritten
<1>10. TypeInv' /\ LogInv' /\ PreparedInv' /\ MachineInv' /\ RunInv' /\ StepInv'
  BY <1>2, <1>6, <1>8, <1>9
     DEF IInv, TypeInv, LogInv, PreparedInv, MachineInv, RunInv, StepInv,
         faults, machine, executing
<1>11. ASSUME drift = 0
       PROVE  /\ \A id \in 1..Len(disk') : Calm(disk'[id], installed)
              /\ Kept(disk', installed) /\ Single(disk')
  <2>1. /\ Undisturbed(installed) /\ Forward(installed, installed) /\ Single(disk)
        /\ \A id \in 1..Len(disk) : Calm(disk[id], installed)
        /\ Kept(disk, installed)
    BY <1>11, ForwardStays DEF IInv, MachineInv, CalmInv
  <2>2. Calm(disk[k], installed)
    BY <2>1
  <2>3. Calm(new, installed)
    BY <1>5, <2>2 DEF Calm, Completed, CutShort
  <2>4. \A id \in 1..Len(disk') : Calm(disk'[id], installed)
    BY <1>4, <1>6, <2>1, <2>3, CalmRewritten
  <2>5. Single(disk')
    <3>1. /\ disk'[k].plan = disk[k].plan
          /\ \A t \in disk[k].plan.tools :
               disk'[k].steps[t].changed = disk[k].steps[t].changed
      BY <1>5, <1>6 DEF CutShort
    <3>2. QED
      BY <1>4, <1>6, <2>1, <3>1, SingleRewritten
  <2>6. Kept(disk', installed)
    <3> DEFINE d == disk
               e == disk'
               m == installed
    <3>1. /\ IsLog(d) /\ Rewritten(d, e, k) /\ Kept(d, m) /\ e[k].plan = d[k].plan
          /\ \A id \in 1..Len(d) : Ordered(d[id].plan)
      BY <1>4, <1>5, <1>6, <2>1 DEF CutShort, Log
    <3>2. Careful(d, e, k, m, m)
      BY <1>5, <1>6 DEF Careful, CutShort, Completed
    <3> HIDE DEF d, e, m
    <3>3. Kept(e, m)
      BY <3>1, <3>2, KeptRewritten
    <3>4. QED
      BY <3>3 DEF e, m
  <2>7. QED
    BY <2>4, <2>5, <2>6
<1>12. CalmInv'
  BY <1>2, <1>11 DEF IInv, CalmInv, faults, machine
<1>13. QED
  BY <1>10, <1>12 DEF IInv

LEMMA DriftKeeps == ASSUME IInv, Drift PROVE IInv'
<1>1. /\ drift + crashes < MaxFaults /\ drift' = drift + 1
      /\ \/ /\ \E t \in Tools : installed' = [installed EXCEPT ![t] = Other(@)]
            /\ UNCHANGED <<provider, control>>
         \/ /\ provider' \in Providers \ {provider}
            /\ UNCHANGED <<installed, control>>
         \/ /\ control' = 1 - control
            /\ UNCHANGED <<installed, provider>>
      /\ UNCHANGED <<clock, crashes, prepared, disk, executing>>
  BY DEF Drift
<1>2. /\ installed \in [Tools -> Packages] /\ provider \in Providers
      /\ control \in {0, 1} /\ drift \in 0..MaxFaults /\ crashes \in 0..MaxFaults
      /\ MaxFaults \in Nat
  BY BoundAssumption DEF IInv, TypeInv
<1>3. \A package : Other(package) \in Packages
  BY PackageValues DEF Other, Absent
<1>4. installed' \in [Tools -> Packages] /\ provider' \in Providers /\ control' \in {0, 1}
  BY <1>1, <1>2, <1>3
<1>5. drift' \in 0..MaxFaults /\ drift' # 0
  BY <1>1, <1>2
<1>6. TypeInv' /\ LogInv' /\ PreparedInv' /\ RunInv'
  BY <1>1, <1>4, <1>5
     DEF IInv, TypeInv, LogInv, PreparedInv, RunInv, Running, current, executing
<1>7. MachineInv' /\ CalmInv' /\ StepInv'
  BY <1>5 DEF MachineInv, CalmInv, StepInv
<1>8. QED
  BY <1>6, <1>7 DEF IInv

LEMMA TickKeeps == ASSUME IInv, Tick PROVE IInv'
<1>1. /\ clock < MaxTime /\ clock' = clock + 1
      /\ UNCHANGED <<faults, machine, prepared, disk, executing>>
  BY DEF Tick
<1>2. clock \in 0..MaxTime /\ MaxTime \in Nat
  BY BoundAssumption DEF IInv, TypeInv
<1>3. clock' \in 0..MaxTime /\ clock \in Nat /\ clock' \in Nat /\ clock <= clock'
  BY <1>1, <1>2
<1>4. TypeInv'
  BY <1>1, <1>3 DEF IInv, TypeInv, faults, machine, executing
<1>5. LogInv'
  <2>1. ASSUME NEW id \in 1..Len(disk)
        PROVE  disk[id].updated <= clock'
    <3>1. disk[id].updated \in Nat /\ disk[id].updated <= clock
      BY OperationFields DEF IInv, LogInv, Log
    <3>2. QED
      BY <1>3, <3>1
  <2>2. QED
    BY <1>1, <2>1 DEF IInv, LogInv, Log
<1>6. PreparedInv' /\ RunInv' /\ MachineInv' /\ CalmInv' /\ StepInv'
  BY <1>1 DEF IInv, PreparedInv, RunInv, MachineInv, CalmInv, StepInv, Running,
              current, faults, machine, executing
<1>7. QED
  BY <1>4, <1>5, <1>6 DEF IInv
-----------------------------------------------------------------------------
(* The service.                                                            *)

\* A Plan under review that is as the invariant has it.
LEMMA ReviewKeeps ==
    ASSUME IInv, UNCHANGED <<clock, faults, machine, disk, executing>>,
           Ordered(prepared'), Sourced(prepared', disk, Len(disk) + 1),
           drift = 0 => Made(prepared')
    PROVE  IInv'
<1>1. TypeInv' /\ LogInv' /\ RunInv' /\ MachineInv' /\ StepInv'
  BY DEF IInv, TypeInv, LogInv, RunInv, MachineInv, StepInv, Running, current,
         faults, machine, executing
<1>2. disk' = disk /\ drift' = drift /\ installed' = installed
  BY DEF faults, machine
<1>3. PreparedInv'
  BY <1>2 DEF PreparedInv
<1>4. CalmInv'
  BY <1>2 DEF IInv, CalmInv
<1>5. QED
  BY <1>1, <1>3, <1>4 DEF IInv

\* The clock and the machine in numbers.
LEMMA InstantsAndMachine ==
    ASSUME IInv
    PROVE  /\ clock \in Nat /\ Len(disk) \in Nat /\ MachineTyped
           /\ drift = 0 => provider = "corepack" /\ control = 0
BY LogLength, BoundAssumption DEF IInv, TypeInv, MachineInv, MachineTyped

LEMMA PrepareKeeps == ASSUME IInv, Prepare PROVE IInv'
<1>1. PICK targets \in Options :
        /\ Selectable(DOMAIN targets, targets)
        /\ prepared' = NodeToolsPlan(DOMAIN targets, targets, clock)
  BY DEF Prepare
<1>2. /\ DOMAIN targets \in SUBSET Tools /\ DOMAIN targets # {}
      /\ \A t \in DOMAIN targets : targets[t] \in Targets
  BY OptionsAssumption
<1>3. /\ clock \in Nat /\ Len(disk) \in Nat /\ MachineTyped
      /\ drift = 0 => provider = "corepack" /\ control = 0
  BY InstantsAndMachine
<1>4. Ordered(prepared') /\ (provider = "corepack" /\ control = 0 => Made(prepared'))
  BY <1>1, <1>2, <1>3, FreshIsOrdered
<1>5. prepared'.source = 0
  BY <1>1 DEF NodeToolsPlan
<1>6. Sourced(prepared', disk, Len(disk) + 1)
  BY <1>3, <1>5 DEF Sourced
<1>7. UNCHANGED <<clock, faults, machine, disk, executing>>
  BY DEF Prepare
<1>8. QED
  BY <1>3, <1>4, <1>6, <1>7, ReviewKeeps

LEMMA PrepareContinuationKeeps == ASSUME IInv, PrepareContinuation PROVE IInv'
<1>1. PICK id \in 1..Len(disk) :
        Continues(id, clock) /\ prepared' = Continuation(id, clock)
  BY DEF PrepareContinuation
<1>2. clock \in Nat /\ (drift = 0 => provider = "corepack" /\ control = 0)
  BY InstantsAndMachine
<1>3. /\ Ordered(prepared') /\ Sourced(prepared', disk, Len(disk) + 1)
      /\ provider = "corepack" /\ control = 0 => Made(prepared')
  BY <1>1, <1>2, ContinuationIsSourced DEF IInv
<1>4. UNCHANGED <<clock, faults, machine, disk, executing>>
  BY DEF PrepareContinuation
<1>5. QED
  BY <1>2, <1>3, <1>4, ReviewKeeps

\* A Plan that is built again as it is shows the machine as it is.
LEMMA RebuiltShowsMachine ==
    ASSUME NEW p, Rebuilds(p)
    PROVE  /\ p.control = control
           /\ \A t \in p.tools : p.facts[t] = Facts(t)
<1>1. CASE p.source = 0
  <2>1. p = NodeToolsPlan(p.tools, p.targets, p.created)
    BY <1>1 DEF Rebuilds
  <2> DEFINE tools == p.tools
             targets == p.targets
             created == p.created
  <2> HIDE DEF tools, targets, created
  <2>2. p = NodeToolsPlan(tools, targets, created) /\ p.tools = tools
    BY <2>1 DEF tools, targets, created
  <2>3. p.control = control /\ p.facts = [t \in tools |-> Facts(t)]
    BY <2>2 DEF NodeToolsPlan
  <2>4. QED
    BY <2>2, <2>3
<1>2. CASE p.source # 0
  <2> DEFINE id == p.source
             created == p.created
             tools == Remaining(disk[id])
             fresh == NodeToolsPlan(tools, SourceTargets(disk[id]), created)
  <2>1. p = Continuation(id, created)
    BY <1>2 DEF Rebuilds
  <2> HIDE DEF id, created
  <2>2. p.control = control /\ p.tools = tools /\ p.facts = fresh.facts
    BY <2>1 DEF Continuation, NodeToolsPlan
  <2>3. fresh.facts = [t \in tools |-> Facts(t)]
    BY DEF NodeToolsPlan
  <2> HIDE DEF tools, fresh
  <2>4. QED
    BY <2>2, <2>3
<1>3. QED
  BY <1>1, <1>2

\* Such a Plan is not one that has changed something.
LEMMA ShownIsNotBeyond ==
    ASSUME NEW p, Ordered(p), NEW m, Undisturbed(m), NEW t \in p.tools,
           p.facts[t] = FactsOf(m, t)
    PROVE  ~Beyond(p, t, m)
<1>1. t \in Tools
  BY PlanFacts
<1>2. m[t].version \in Nat /\ Rank(m[t]) \in Nat
  BY <1>1, UndisturbedValues
<1>3. CASE t = pnpm
  <2>1. p.facts[t].version = m[t].version
    BY <1>3 DEF FactsOf
  <2>2. QED
    BY <1>2, <1>3, <2>1 DEF Beyond
<1>4. CASE t # pnpm
  <2>1. p.facts[t].digest = m[t]
    BY <1>4 DEF FactsOf
  <2>2. QED
    BY <1>2, <1>4, <2>1 DEF Beyond
<1>5. QED
  BY <1>3, <1>4

\* A bound on what operations cost bounds their number.
LEMMA CostBoundsLength ==
    ASSUME NEW d, Len(d) \in Nat, Cost(d) <= MaxOperations
    PROVE  Len(d) <= MaxOperations
<1> DEFINE S == {id \in 1..Len(d) : d[id].plan.source = 0}
<1>1. IsFiniteSet(1..Len(d))
  BY FS_Interval
<1>2. IsFiniteSet(S)
  BY <1>1, FS_Subset
<1>3. Cardinality(S) \in Nat
  BY <1>2, FS_CardinalityType
<1>4. Cost(d) = Len(d) + Cardinality(S)
  BY DEF Cost
<1> HIDE DEF S
<1>5. QED
  BY <1>3, <1>4, BoundAssumption

\* A new operation.
NewOperation(p, now) ==
    [plan |-> p, state |-> "active", updated |-> now,
     steps |-> [t \in p.tools |-> PendingStep]]

LEMMA NewFields ==
    ASSUME NEW p, Ordered(p), NEW now \in Nat
    PROVE  LET new == NewOperation(p, now)
           IN  /\ IsOperation(new) /\ Advancing(new)
               /\ new.plan = p /\ new.state = "active" /\ new.updated = now
               /\ \A t \in p.tools : new.steps[t] = PendingStep
<1> DEFINE new == NewOperation(p, now)
<1>1. /\ new.plan = p /\ new.state = "active" /\ new.updated = now
      /\ new.steps = [t \in p.tools |-> PendingStep]
  BY DEF NewOperation
<1>2. /\ PendingStep \in StepRecords /\ PendingStep.state = "pending"
      /\ ~PendingStep.changed
  BY DEF PendingStep, StepRecords, StepStates
<1>3. IsOperation(new)
  BY <1>1, <1>2 DEF IsOperation, NewOperation, OperationStates
<1> HIDE DEF new
<1>4. \A t \in p.tools : new.steps[t] = PendingStep
  BY <1>1
<1>5. p.tools # {}
  BY DEF Ordered
<1>6. Remaining(new) # {}
  BY <1>1, <1>2, <1>4, <1>5 DEF Remaining
<1>7. Advancing(new)
  BY <1>1, <1>2, <1>4, <1>6 DEF Advancing
<1>8. QED
  BY <1>1, <1>3, <1>4, <1>7 DEF new

\* Executing a Plan of this scan.
LEMMA StartKeeps ==
    ASSUME IInv, phase = "idle", prepared # None, Rebuilds(prepared), Start
    PROVE  IInv'
<1> DEFINE n == Len(disk) + 1
           new == NewOperation(prepared, clock)
           op == disk'[n]
<1>1. /\ Cost(Append(disk, [plan |-> prepared])) <= MaxOperations
      /\ disk' = Append(disk, new) /\ phase' = "check"
      /\ baseline' = [facts |-> [t \in Tools |-> Facts(t)], control |-> control]
      /\ UNCHANGED <<clock, faults, machine, prepared, before>>
  BY DEF Start, NewOperation
<1>2. /\ IsLog(disk) /\ Log(disk, clock) /\ Len(disk) \in Nat /\ clock \in Nat
      /\ Ordered(prepared) /\ Sourced(prepared, disk, Len(disk) + 1)
  BY InstantsAndMachine DEF IInv, TypeInv, LogInv, PreparedInv
<1>3. /\ IsOperation(new) /\ Advancing(new) /\ new.plan = prepared
      /\ new.state = "active" /\ new.updated = clock
      /\ \A t \in prepared.tools : new.steps[t] = PendingStep
  BY <1>2, NewFields
<1> HIDE DEF new
<1>4. IsLog(disk') /\ Longer(disk, disk') /\ disk'[n] = new
  BY <1>1, <1>2, LogAppend
<1>5. Len(disk') = n /\ n \in Nat /\ n <= MaxOperations
  <2>1. Len(Append(disk, [plan |-> prepared])) = n
    BY <1>2, LogAppend DEF Longer
  <2>2. n \in Nat /\ Len(disk') = n
    BY <1>2, <1>4 DEF Longer
  <2> HIDE DEF n
  <2>3. n <= MaxOperations
    BY <1>1, <2>1, <2>2, CostBoundsLength
  <2>4. QED
    BY <2>2, <2>3
<1>6. /\ Log(disk', clock)
      /\ \A p : Sourced(p, disk, Len(disk) + 1) => Sourced(p, disk', Len(disk') + 1)
  <2> DEFINE d == disk
             e == disk'
  <2>1. /\ IsLog(d) /\ Log(d, clock) /\ Longer(d, e) /\ IsOperation(e[Len(d) + 1])
        /\ e[Len(d) + 1].updated <= clock /\ Ordered(e[Len(d) + 1].plan)
        /\ Advancing(e[Len(d) + 1])
        /\ Sourced(e[Len(d) + 1].plan, d, Len(d) + 1)
    BY <1>2, <1>3, <1>4
  <2> HIDE DEF d, e
  <2>2. Log(e, clock) /\ \A p : Sourced(p, d, Len(d) + 1) => Sourced(p, e, Len(e) + 1)
    BY <1>2, <2>1, LogLonger
  <2>3. QED
    BY <2>2 DEF d, e
<1>7. TypeInv' /\ LogInv' /\ PreparedInv' /\ MachineInv'
  BY <1>1, <1>4, <1>5, <1>6 DEF IInv, TypeInv, LogInv, PreparedInv, MachineInv,
                               faults, machine
<1>8. Running' \in 1..Len(disk') /\ current' = new
  BY <1>4, <1>5 DEF Running, current
<1>9. new.steps[AtOf(new)] = PendingStep
  BY <1>2, <1>3, Turn
<1>10. RunInv'
  BY <1>1, <1>3, <1>8, <1>9 DEF RunInv, Underway, PendingStep
<1>11. prepared.control = control /\ \A t \in prepared.tools : prepared.facts[t] = Facts(t)
  BY RebuiltShowsMachine
<1>12. \A t \in prepared.tools : t \in Tools
  BY <1>2 DEF Ordered
<1>13. ASSUME drift = 0
       PROVE  /\ Watched(new, phase', before', baseline', installed')
              /\ Calm(new, installed') /\ Single(disk') /\ Kept(disk', installed')
              /\ \A id \in 1..Len(disk) : Calm(disk[id], installed')
  <2>1. /\ provider = "corepack" /\ control = 0 /\ Undisturbed(installed)
        /\ Made(prepared) /\ Single(disk) /\ installed' = installed
        /\ Kept(disk, installed)
        /\ \A id \in 1..Len(disk) : Calm(disk[id], installed)
    BY <1>1, <1>13 DEF IInv, MachineInv, CalmInv, machine
  <2>2. Watched(new, phase', before', baseline', installed')
    BY <1>1, <1>3, <1>11, <1>12, <2>1 DEF Watched
  <2>3. Calm(new, installed')
    BY <1>3, <2>1 DEF Calm, PendingStep
  <2>4. ASSUME NEW i \in 1..Len(disk), disk[i].plan = prepared,
               NEW t \in prepared.tools
        PROVE  ~disk[i].steps[t].changed
    <3>1. disk[i].steps[t].changed => Beyond(prepared, t, installed)
      BY <2>1, <2>4 DEF Calm
    <3>2. prepared.facts[t] = FactsOf(installed, t)
      BY <1>11, <2>1, CalmEvidence
    <3>3. ~Beyond(prepared, t, installed)
      BY <1>2, <2>1, <3>2, ShownIsNotBeyond
    <3>4. QED
      BY <3>1, <3>3
  <2>5. ASSUME NEW i \in 1..Len(disk'), NEW j \in 1..Len(disk'), i < j,
               disk'[i].plan = disk'[j].plan, NEW t \in disk'[i].plan.tools
        PROVE  ~disk'[i].steps[t].changed
    <3>1. i \in 1..Len(disk) /\ disk'[i] = disk[i]
      BY <1>2, <1>4, <1>5, <2>5 DEF Longer
    <3>2. CASE j = n
      BY <1>3, <1>4, <2>4, <2>5, <3>1, <3>2
    <3>3. CASE j # n
      <4>1. j \in 1..Len(disk) /\ disk'[j] = disk[j]
        BY <1>2, <1>4, <1>5, <3>3 DEF Longer
      <4>2. QED
        BY <2>1, <2>5, <3>1, <4>1 DEF Single
    <3>4. QED
      BY <3>2, <3>3
  <2>6. Single(disk')
    BY <2>5 DEF Single
  <2>7. Kept(disk', installed')
    <3>1. Completed(new) = {}
      BY <1>3 DEF Completed, PendingStep
    <3> DEFINE d == disk
               e == disk'
               m == installed
    <3>2. /\ IsLog(d) /\ Longer(d, e) /\ Kept(d, m) /\ Completed(e[Len(d) + 1]) = {}
      BY <1>2, <1>4, <2>1, <3>1
    <3> HIDE DEF d, e, m
    <3>3. Kept(e, m)
      BY <3>2, KeptLonger
    <3>4. QED
      BY <2>1, <3>3 DEF e, m
  <2>8. QED
    BY <2>1, <2>2, <2>3, <2>6, <2>7
<1>14. StepInv'
  BY <1>1, <1>8, <1>13 DEF StepInv, faults
<1>15. CalmInv'
  <2>1. drift' = drift /\ prepared' = prepared
    BY <1>1 DEF faults
  <2>2. ASSUME drift = 0, NEW id \in 1..Len(disk')
        PROVE  Calm(disk'[id], installed')
    <3>1. CASE id = n
      BY <1>4, <1>13, <2>2, <3>1
    <3>2. CASE id # n
      <4>1. id \in 1..Len(disk) /\ disk'[id] = disk[id]
        BY <1>2, <1>4, <1>5, <3>2 DEF Longer
      <4>2. QED
        BY <1>13, <2>2, <4>1
    <3>3. QED
      BY <3>1, <3>2
  <2>3. QED
    BY <1>13, <2>1, <2>2 DEF IInv, CalmInv
<1>16. QED
  BY <1>7, <1>10, <1>14, <1>15 DEF IInv

LEMMA ExecuteKeeps == ASSUME IInv, Execute PROVE IInv'
BY StartKeeps DEF Execute

LEMMA ExecuteContinuationKeeps == ASSUME IInv, ExecuteContinuation PROVE IInv'
BY StartKeeps DEF ExecuteContinuation

-----------------------------------------------------------------------------
(* The invariant.                                                          *)

LEMMA InitEstablishes == Init => IInv
<1> SUFFICES ASSUME Init PROVE IInv
  OBVIOUS
<1>1. disk = <<>> /\ IsLog(disk) /\ Len(disk) = 0 /\ phase = "idle" /\ prepared = None
  BY EmptyLog DEF Init
<1>2. TypeInv
  BY <1>1, BoundAssumption, PackageValues DEF Init, TypeInv, Providers
<1>3. \A id \in 1..Len(disk) : FALSE
  BY <1>1
<1>4. LogInv /\ PreparedInv /\ RunInv /\ StepInv
  BY <1>1, <1>3 DEF LogInv, Log, PreparedInv, RunInv, StepInv
<1>5. MachineInv
  BY PackageValues DEF Init, MachineInv, Undisturbed
<1>6. CalmInv
  BY <1>1, <1>3 DEF CalmInv, Single, Kept
<1>7. QED
  BY <1>2, <1>4, <1>5, <1>6 DEF IInv

LEMMA StutterKeeps == ASSUME IInv, UNCHANGED vars PROVE IInv'
<1>1. UNCHANGED <<clock, faults, machine, prepared, disk, executing>>
  BY DEF vars
<1>2. TypeInv' /\ LogInv' /\ RunInv' /\ MachineInv' /\ StepInv'
  BY <1>1 DEF IInv, TypeInv, LogInv, RunInv, MachineInv, StepInv, Running, current,
              faults, machine, executing
<1>3. PreparedInv' /\ CalmInv'
  BY <1>1 DEF IInv, PreparedInv, CalmInv, faults, machine
<1>4. QED
  BY <1>2, <1>3 DEF IInv

LEMMA NextKeeps == IInv /\ [Next]_vars => IInv'
<1> SUFFICES ASSUME IInv, [Next]_vars PROVE IInv'
  OBVIOUS
<1>1. CASE Prepare
  BY <1>1, PrepareKeeps
<1>2. CASE PrepareContinuation
  BY <1>2, PrepareContinuationKeeps
<1>3. CASE Execute
  BY <1>3, ExecuteKeeps
<1>4. CASE ExecuteContinuation
  BY <1>4, ExecuteContinuationKeeps
<1>5. CASE CheckStep
  BY <1>5, CheckStepKeeps
<1>6. CASE StepRefused
  BY <1>6, StepRefusedKeeps
<1>7. CASE WriteSucceeds
  BY <1>7, WriteSucceedsKeeps
<1>8. CASE WriteFails
  BY <1>8, WriteFailsKeeps
<1>9. CASE StepCompletes
  BY <1>9, StepCompletesKeeps
<1>10. CASE VerificationPasses
  BY <1>10, VerificationPassesKeeps
<1>11. CASE VerificationFails
  BY <1>11, VerificationFailsKeeps
<1>12. CASE Crash
  BY <1>12, CrashKeeps
<1>13. CASE Recover
  BY <1>13, RecoverKeeps
<1>14. CASE Drift
  BY <1>14, DriftKeeps
<1>15. CASE Tick
  BY <1>15, TickKeeps
<1>16. CASE UNCHANGED vars
  BY <1>16, StutterKeeps
<1>17. QED
  BY <1>1, <1>2, <1>3, <1>4, <1>5, <1>6, <1>7, <1>8, <1>9, <1>10, <1>11, <1>12,
     <1>13, <1>14, <1>15, <1>16 DEF Next

\* The inductive invariant holds in every reachable state, for every choice
\* of tools and versions and every bound (internal/nodetools with the executor's callbacks).
THEOREM Inductive == Spec => []IInv
<1>1. Init => IInv
  BY InitEstablishes
<1>2. IInv /\ [Next]_vars => IInv'
  BY NextKeeps
<1>3. QED
  BY <1>1, <1>2, PTL DEF Spec
\* Types.
THEOREM TypeCorrect == Spec => []TypeOK
<1>1. IInv => TypeOK
  <2> SUFFICES ASSUME IInv PROVE TypeOK
    OBVIOUS
  <2>1. Len(disk) \in Nat /\ Len(disk) <= MaxOperations /\ clock \in Nat
    BY InstantsAndMachine DEF IInv, TypeInv
  <2>2. prepared # None => prepared.tools \in (SUBSET Tools) \ {{}}
    BY DEF IInv, PreparedInv, Ordered
  <2>3. ASSUME NEW id \in 1..Len(disk)
        PROVE  /\ disk[id].state \in {"active", "completed", "failed"}
               /\ disk[id].updated \in 0..clock
               /\ disk[id].plan.source \in 0..(id - 1)
               /\ \A t \in disk[id].plan.tools : disk[id].steps[t].state \in StepStates
    <3>1. /\ IsOperation(disk[id]) /\ disk[id].updated <= clock
          /\ Sourced(disk[id].plan, disk, id)
      BY DEF IInv, LogInv, Log
    <3>2. /\ disk[id].state \in OperationStates /\ disk[id].updated \in Nat
          /\ \A t \in disk[id].plan.tools : disk[id].steps[t] \in StepRecords
      BY <3>1, OperationFields
    <3>3. \A t \in disk[id].plan.tools : disk[id].steps[t].state \in StepStates
      BY <3>2 DEF StepRecords
    <3>4. disk[id].plan.source \in 0..(id - 1)
      BY <3>1 DEF Sourced
    <3>5. disk[id].state \in {"active", "completed", "failed"}
      BY <3>2 DEF OperationStates
    <3>6. QED
      BY <2>1, <3>1, <3>2, <3>3, <3>4, <3>5
  <2>4. phase # "idle" => current.state = "active" /\ Left # {}
    BY CurrentOperation DEF IInv
  <2>5. QED
    BY <2>1, <2>2, <2>3, <2>4 DEF IInv, TypeInv, TypeOK
<1>2. QED
  BY <1>1, Inductive, PTL

-----------------------------------------------------------------------------
(* What a continuation says of its source.                                 *)

\* What a continuation says of its source stays true: the source had ended
\* before, was not changed since, and its steps are the checkpoints and the
\* actions of the Plan (BuildContinuationPlan, D-031, D-039).
THEOREM ContinuationsAreTrue == Spec => []ContinuationsMatchTheirSource
<1>1. IInv => ContinuationsMatchTheirSource
  <2> SUFFICES ASSUME IInv, NEW id \in 1..Len(disk)
               PROVE  LET plan == disk[id].plan
                          source == disk[plan.source]
                      IN  plan.source # 0 =>
                            /\ source.state = "failed" /\ source.updated < plan.created
                            /\ plan.tools = Remaining(source)
                            /\ DOMAIN plan.checkpoints = Completed(source)
                            /\ \A t \in Completed(source) :
                                 plan.checkpoints[t].recorded = source.steps[t].after
                            /\ \A t \in plan.tools :
                                 source.plan.deps[t] =
                                   plan.deps[t] \cup
                                     {d \in Completed(source) : <<t, d>> \in plan.satisfied}
    BY DEF ContinuationsMatchTheirSource
  <2>1. Sourced(disk[id].plan, disk, id)
    BY DEF IInv, LogInv, Log
  <2>2. QED
    BY <2>1 DEF Sourced
<1>2. QED
  BY <1>1, Inductive, PTL

-----------------------------------------------------------------------------
(* One confirmation covers one change.                                     *)

\* Unless another program interferes, one confirmation never covers two
\* changes of a tool, although nothing marks a Plan as used (service.go
\* Execute, continuation.go ExecuteContinuation).
THEOREM ConfirmationsAreSingle == Spec => []OneConfirmationOneChange
<1>1. IInv => OneConfirmationOneChange
  <2> SUFFICES ASSUME IInv, drift = 0, NEW i \in 1..Len(disk), NEW j \in 1..Len(disk),
                      i # j, disk[i].plan = disk[j].plan,
                      NEW t \in disk[i].plan.tools
               PROVE  ~(disk[i].steps[t].changed /\ disk[j].steps[t].changed)
    BY DEF OneConfirmationOneChange
  <2>1. Single(disk) /\ i \in Nat /\ j \in Nat
    BY InstantsAndMachine DEF IInv, CalmInv
  <2>2. CASE i < j
    BY <2>1, <2>2 DEF Single
  <2>3. CASE j < i
    BY <2>1, <2>3 DEF Single
  <2>4. QED
    BY <2>1, <2>2, <2>3
<1>2. QED
  BY <1>1, Inductive, PTL
-----------------------------------------------------------------------------
(* Completed work can be reused.                                           *)

\* In an operation that failed, the actions that a completed one depends on
\* are completed, and the last action, pnpm, is not.
LEMMA CompletedBefore ==
    ASSUME NEW op, Ordered(op.plan), Advancing(op), op.state = "failed",
           NEW t \in Completed(op)
    PROVE  op.plan.deps[t] \subseteq Completed(op) /\ t # pnpm /\ t \in op.plan.tools
<1>1. /\ t \in op.plan.tools /\ op.steps[t].state = "completed"
      /\ Remaining(op) # {} /\ op.plan.tools \subseteq Tools
  BY DEF Completed, Advancing, Ordered
<1>2. \A u \in op.plan.tools : u < t => op.steps[u].state = "completed"
  BY <1>1 DEF Advancing
<1>3. op.plan.deps[t] \subseteq Completed(op)
  BY <1>1, <1>2 DEF Ordered, Completed
<1>4. PICK u \in op.plan.tools : op.steps[u].state # "completed"
  BY <1>1 DEF Remaining
<1>5. ~(u < t) /\ u # t
  BY <1>1, <1>2, <1>4
<1>6. t # pnpm
  BY <1>1, <1>4, <1>5, ToolNumbers
<1>7. QED
  BY <1>1, <1>3, <1>6

\* Of the tools of a Plan, those it depends on among fewer tools.
LEMMA FewerDependencies ==
    ASSUME NEW tools \in SUBSET Tools, NEW fewer \in SUBSET tools, NEW t \in fewer,
           NEW by
    PROVE  Dependencies(t, fewer, by) = Dependencies(t, tools, by) \cap fewer
<1>1. t = npm \/ t = corepack \/ t = pnpm
  BY ToolNumbers
<1>2. CASE t = npm
  BY <1>2, ToolNumbers DEF Dependencies
<1>3. CASE t = corepack
  BY <1>3, ToolNumbers DEF Dependencies
<1>4. CASE t = pnpm
  BY <1>4, ToolNumbers DEF Dependencies
<1>5. QED
  BY <1>1, <1>2, <1>3, <1>4

\* What was completed is as it was left, unless a later operation was told to
\* bring the tool to another version.
LEMMA KeptWork ==
    ASSUME IInv, drift = 0, NEW id \in 1..Len(disk), NEW t \in Completed(disk[id]),
           t # pnpm, ~Retargeted(id, t)
    PROVE  /\ installed[t].version = disk[id].plan.targets[t]
           /\ disk[id].steps[t].after = EvidenceOf(installed, t)
<1>1. RetargetedIn(disk, id, t) \/ AsLeft(disk[id], t, installed)
  BY DEF IInv, CalmInv, Kept
<1>2. ~RetargetedIn(disk, id, t)
  BY DEF Retargeted, RetargetedIn
<1>3. QED
  BY <1>1, <1>2 DEF AsLeft

\* An operation that failed on a machine that nobody else changed can be
\* continued, unless what it completed was given other targets.
LEMMA FailedCanContinue ==
    ASSUME IInv, drift = 0, NEW id \in 1..Len(disk),
           disk[id].state = "failed", disk[id].updated < clock,
           Selectable(Remaining(disk[id]), SourceTargets(disk[id])),
           \A t \in Completed(disk[id]) : ~Retargeted(id, t)
    PROVE  Continues(id, clock)
<1> DEFINE op == disk[id]
           left == Remaining(op)
           fresh == Continuation(id, clock)
<1>1. /\ IsOperation(op) /\ Ordered(op.plan) /\ Advancing(op) /\ Calm(op, installed)
      /\ Made(op.plan) /\ op.state = "failed" /\ op.updated < clock
      /\ Selectable(left, SourceTargets(op))
  BY DEF IInv, LogInv, Log, CalmInv, Calm
<1>2. /\ provider = "corepack" /\ control = 0 /\ Undisturbed(installed)
      /\ clock \in Nat
  BY InstantsAndMachine DEF IInv, MachineInv
<1>3. /\ fresh.tools = left /\ fresh.targets = SourceTargets(op)
      /\ fresh.facts = [t \in left |-> Facts(t)]
      /\ fresh.deps = [t \in left |-> Dependencies(t, left, "corepack")]
      /\ fresh.checkpoints = Checkpoints(op)
      /\ fresh.satisfied = SatisfiedDependencies(op)
  BY <1>2 DEF Continuation, NodeToolsPlan
<1> HIDE DEF op, fresh
<1>4. /\ left # {} /\ left \subseteq op.plan.tools /\ op.plan.tools \subseteq Tools
      /\ Completed(op) \subseteq op.plan.tools
      /\ left \cap Completed(op) = {} /\ left \cup Completed(op) = op.plan.tools
  BY <1>1 DEF Advancing, Remaining, Completed, Ordered
<1>5. \A t \in op.plan.tools :
        /\ op.plan.facts[t].provider = By(t)
        /\ op.plan.deps[t] = Dependencies(t, op.plan.tools, "corepack")
  BY <1>1 DEF Made
<1>6. SupportedSource(op)
  <2>1. ASSUME NEW t \in op.plan.tools
        PROVE  op.plan.deps[t] = Dependencies(t, op.plan.tools,
                 IF pnpm \in op.plan.tools THEN op.plan.facts[pnpm].provider ELSE "npm")
    <3>1. CASE pnpm \in op.plan.tools
      <4>1. op.plan.facts[pnpm].provider = "corepack"
        BY <1>5, <3>1 DEF By
      <4>2. QED
        BY <1>5, <3>1, <4>1
    <3>2. CASE pnpm \notin op.plan.tools
      <4>1. t = npm \/ t = corepack
        BY <1>4, <3>2, ToolNumbers
      <4>2. Dependencies(t, op.plan.tools, "corepack") =
              Dependencies(t, op.plan.tools, "npm")
        BY <4>1, ToolNumbers DEF Dependencies
      <4>3. QED
        BY <1>5, <3>2, <4>2
    <3>3. QED
      BY <3>1, <3>2
  <2>2. QED
    BY <2>1 DEF SupportedSource
<1>7. ASSUME NEW t \in Completed(op)
      PROVE  op.plan.deps[t] \subseteq Completed(op) /\ Revalidated(op, t)
  <2>1. op.plan.deps[t] \subseteq Completed(op) /\ t # pnpm /\ t \in op.plan.tools
    BY <1>1, CompletedBefore
  <2>2. installed[t].version = op.plan.targets[t] /\ op.steps[t].after = EvidenceOf(installed, t)
    BY <1>7, <2>1, KeptWork DEF op
  <2>3. Facts(t) = FactsOf(installed, t) /\ Evidence(t) = EvidenceOf(installed, t)
    BY <1>2, CalmEvidence
  <2>4. /\ Facts(t).version = op.plan.targets[t] /\ Facts(t).provider = "npm"
        /\ Facts(t).digest = installed[t] /\ Evidence(t) = op.steps[t].after
    BY <2>1, <2>2, <2>3 DEF FactsOf
  <2>5. control = op.plan.control
    BY <1>1, <1>2 DEF Made
  <2>6. op.plan.facts[t].provider = "npm"
    BY <1>5, <2>1 DEF By
  <2>7. Present(Facts(t))
    BY <1>2, <1>4, <2>1, <2>2, <2>4, UndisturbedValues DEF Present
  <2>8. QED
    BY <2>1, <2>2, <2>4, <2>5, <2>6, <2>7 DEF Revalidated
<1>8. Eligible(op)
  BY <1>1, <1>4, <1>7 DEF Eligible
<1>9. ASSUME NEW t \in left
      PROVE  /\ fresh.facts[t].provider = op.plan.facts[t].provider
             /\ fresh.deps[t] = op.plan.deps[t] \cap left
  <2>1. t \in op.plan.tools /\ op.plan.tools \in SUBSET Tools /\ left \in SUBSET op.plan.tools
    BY <1>4
  <2>2. fresh.facts[t] = FactsOf(installed, t)
    BY <1>2, <1>3, CalmEvidence
  <2>3. fresh.facts[t].provider = By(t)
    BY <2>2 DEF FactsOf, By
  <2>4. fresh.deps[t] = Dependencies(t, left, "corepack")
    BY <1>3
  <2>5. Dependencies(t, left, "corepack") =
          Dependencies(t, op.plan.tools, "corepack") \cap left
    BY <2>1, FewerDependencies
  <2>6. QED
    BY <1>5, <2>1, <2>3, <2>4, <2>5
<1>10. ValidContinuation(fresh)
  <2>1. DOMAIN fresh.checkpoints = Completed(op)
    BY <1>3 DEF Checkpoints
  <2>2. ASSUME NEW e \in fresh.satisfied
        PROVE  e[1] \in left /\ e[2] \in Completed(op) /\ e[2] < e[1]
    <3>1. e[1] \in left /\ e[2] \in Completed(op) /\ e[2] \in op.plan.deps[e[1]]
      BY <1>3, <2>2 DEF SatisfiedDependencies
    <3>2. QED
      BY <1>1, <1>4, <3>1 DEF Ordered
  <2>3. DOMAIN fresh.targets = op.plan.tools
    BY <1>3 DEF SourceTargets
  <2>4. QED
    BY <1>3, <1>4, <2>1, <2>2, <2>3 DEF ValidContinuation
<1>11. QED
  BY <1>1, <1>3, <1>6, <1>8, <1>9, <1>10 DEF Continues, op, fresh

\* Without other programs, completed work is lost only to an operation that was
\* told to bring a tool to another version: an operation that failed can be
\* continued, provided that what remains is installed and not newer than asked
\* for (AssessContinuation, prepareContinuationContext).
THEOREM CompletedWorkIsReusable == Spec => []CompletedWorkStaysReusable
<1>1. IInv => CompletedWorkStaysReusable
  BY FailedCanContinue DEF CompletedWorkStaysReusable
<1>2. QED
  BY <1>1, Inductive, PTL
-----------------------------------------------------------------------------
(* Chains of continuations.                                                *)

\* A set of numbers that is not empty has a least one.
LEMMA Least ==
    ASSUME NEW S \in SUBSET Nat, S # {}
    PROVE  \E k \in S : \A j \in S : k <= j
<1> DEFINE R == OpToRel(<, Nat)
<1>1. IsWellFoundedOn(R, Nat)
  BY NatLessThanWellFounded
<1>2. \A x, y \in Nat : x < y => <<x, y>> \in R
  BY DEF OpToRel
<1> HIDE DEF R
<1>3. PICK k \in S : \A y \in S : ~(<<y, k>> \in R)
  BY <1>1, WFMin
<1>4. \A j \in S : ~(j < k) /\ j \in Nat /\ k \in Nat
  BY <1>2, <1>3
<1>5. \A j \in S : k <= j
  BY <1>4
<1>6. QED
  BY <1>5

\* The function that Chain is defined with, up to an operation.
IsChain(d, f, last) ==
    f = [id \in 0..last |-> IF id = 0 THEN {} ELSE {id} \cup f[d[id].plan.source]]

\* Its values.
LEMMA ChainValues ==
    ASSUME NEW d, NEW f, NEW last, IsChain(d, f, last)
    PROVE  \A id \in 0..last : f[id] = IF id = 0 THEN {} ELSE {id} \cup f[d[id].plan.source]
<1> DEFINE V(id) == IF id = 0 THEN {} ELSE {id} \cup f[d[id].plan.source]
<1>1. f = [id \in 0..last |-> V(id)]
  BY DEF IsChain
<1> HIDE DEF V
<1>2. \A id \in 0..last : f[id] = V(id)
  BY <1>1
<1>3. QED
  BY <1>2 DEF V

\* There is one, since an operation continues an earlier one.
LEMMA ChainExists ==
    ASSUME NEW d, NEW last \in Nat,
           \A id \in 1..last : d[id].plan.source \in 0..(id - 1)
    PROVE  \E f : IsChain(d, f, last)
<1> DEFINE S == {n \in 0..last : ~\E f : IsChain(d, f, n)}
<1>1. ASSUME S # {} PROVE FALSE
  <2>1. S \in SUBSET Nat
    OBVIOUS
  <2> HIDE DEF S
  <2>2. PICK n \in S : \A j \in S : n <= j
    BY <1>1, <2>1, Least
  <2>3. n \in 0..last /\ ~\E f : IsChain(d, f, n)
    BY <2>2 DEF S
  <2>4. CASE n = 0
    <3> DEFINE f == [id \in 0..0 |-> {}]
    <3>1. f = [id \in 0..n |-> IF id = 0 THEN {} ELSE {id} \cup f[d[id].plan.source]]
      BY <2>4
    <3>2. IsChain(d, f, n)
      BY <3>1 DEF IsChain
    <3>3. QED
      BY <2>3, <3>2
  <2>5. CASE n # 0
    <3>1. n - 1 \in 0..last /\ n - 1 \notin S /\ n \in 1..last
      BY <2>2, <2>3, <2>5
    <3>2. PICK g : IsChain(d, g, n - 1)
      BY <3>1 DEF S
    <3>3. \A id \in 0..(n - 1) :
            g[id] = IF id = 0 THEN {} ELSE {id} \cup g[d[id].plan.source]
      BY <3>2, ChainValues
    <3> DEFINE f == [id \in 0..n |-> IF id = n THEN {n} \cup g[d[n].plan.source]
                                     ELSE g[id]]
    <3>4. /\ \A id \in 0..(n - 1) : f[id] = g[id] /\ id \in 0..n
          /\ f[n] = {n} \cup g[d[n].plan.source]
          /\ f = [id \in 0..n |-> f[id]]
      BY <3>1
    <3> HIDE DEF f
    <3>5. ASSUME NEW id \in 0..n
          PROVE  f[id] = IF id = 0 THEN {} ELSE {id} \cup f[d[id].plan.source]
      <4>1. CASE id = 0
        <5>1. f[id] = g[id] /\ id \in 0..(n - 1)
          <6>1. id \in 0..(n - 1)
            BY <2>5, <3>1, <4>1
          <6>2. QED
            BY <3>4, <6>1
        <5>2. g[id] = {}
          BY <3>3, <4>1, <5>1
        <5>3. QED
          BY <4>1, <5>1, <5>2
      <4>2. CASE id \in 1..(n - 1)
        <5>1. d[id].plan.source \in 0..(id - 1) /\ d[id].plan.source \in 0..(n - 1)
          BY <3>1, <4>2
        <5>2. f[id] = g[id] /\ f[d[id].plan.source] = g[d[id].plan.source]
          <6>1. id \in 0..(n - 1)
            BY <4>2
          <6>2. QED
            BY <3>4, <5>1, <6>1
        <5>3. g[id] = {id} \cup g[d[id].plan.source]
          <6>1. id \in 0..(n - 1) /\ id # 0
            BY <4>2
          <6>2. QED
            BY <3>3, <6>1
        <5>4. QED
          BY <4>2, <5>2, <5>3
      <4>3. CASE id = n
        <5>1. d[n].plan.source \in 0..(n - 1)
          BY <3>1
        <5>2. f[d[n].plan.source] = g[d[n].plan.source]
          BY <3>4, <5>1
        <5>3. f[id] = {n} \cup g[d[n].plan.source]
          BY <3>4, <4>3
        <5>4. id # 0 /\ f[id] = {id} \cup f[d[id].plan.source]
          BY <2>5, <4>3, <5>2, <5>3
        <5>5. QED
          BY <5>4
      <4>4. id = 0 \/ id \in 1..(n - 1) \/ id = n
        BY <3>1
      <4>5. QED
        BY <4>1, <4>2, <4>3, <4>4
    <3>6. IsChain(d, f, n)
      BY <3>4, <3>5 DEF IsChain
    <3>7. QED
      BY <2>3, <3>6
  <2>6. QED
    BY <2>4, <2>5
<1>2. last \in 0..last /\ last \notin S
  BY <1>1
<1>3. QED
  BY <1>2

\* What a chain C that ends with the operation i shows of the log d.
Lineage(d, C, i) ==
    /\ C \subseteq 1..i /\ i \in C
    /\ \A j \in C : Completed(d[j]) \cap Remaining(d[i]) = {}
    /\ \A j, k \in C : j # k => Completed(d[j]) \cap Completed(d[k]) = {}
    /\ \E first \in C :
         /\ \A k \in C : first <= k
         /\ \A t \in d[i].plan.tools :
              /\ t \in d[first].plan.tools
              /\ \A u \in d[first].plan.deps[t] :
                   \/ u \in d[i].plan.deps[t]
                   \/ \E j \in C : u \in Completed(d[j])

\* An operation that continues none is a chain of its own.
LEMMA FirstLineage ==
    ASSUME NEW d, NEW i \in Nat \ {0}
    PROVE  Lineage(d, {i}, i)
BY DEF Lineage, Completed, Remaining

\* A continuation prolongs the chain of its source.
LEMMA LineageGrows ==
    ASSUME NEW d, NEW i \in Nat \ {0}, NEW C, d[i].plan.source # 0,
           Sourced(d[i].plan, d, i), Lineage(d, C, d[i].plan.source)
    PROVE  Lineage(d, {i} \cup C, i)
<1> DEFINE s == d[i].plan.source
           D == {i} \cup C
<1>1. /\ s \in 1..(i - 1) /\ d[i].plan.tools = Remaining(d[s])
      /\ \A t \in d[i].plan.tools :
           d[s].plan.deps[t] =
             d[i].plan.deps[t] \cup {u \in Completed(d[s]) : <<t, u>> \in d[i].plan.satisfied}
  <2>1. Sourced(d[i].plan, d, i) /\ s # 0
    OBVIOUS
  <2>2. s \in 0..(i - 1)
    BY DEF Sourced
  <2>3. s \in 1..(i - 1)
    BY <2>1, <2>2
  <2>4. QED
    BY <2>1, <2>3 DEF Sourced
<1>2. Lineage(d, C, s)
  OBVIOUS
<1> HIDE DEF s
<1>3. /\ C \subseteq 1..s /\ s \in C
      /\ \A j \in C : Completed(d[j]) \cap Remaining(d[s]) = {}
      /\ \A j, k \in C : j # k => Completed(d[j]) \cap Completed(d[k]) = {}
  BY <1>2 DEF Lineage
<1>4. /\ Completed(d[i]) \subseteq Remaining(d[s])
      /\ Remaining(d[i]) \subseteq Remaining(d[s])
      /\ Completed(d[i]) \cap Remaining(d[i]) = {}
  BY <1>1 DEF Completed, Remaining
<1>5. D \subseteq 1..i /\ i \in D
  <2>1. ASSUME NEW j \in C PROVE j \in 1..i
    <3>1. j \in 1..s
      BY <1>3
    <3>2. QED
      BY <1>1, <3>1
  <2>2. QED
    BY <2>1
<1>6. \A j \in D : Completed(d[j]) \cap Remaining(d[i]) = {}
  BY <1>3, <1>4
<1>7. \A j, k \in D : j # k => Completed(d[j]) \cap Completed(d[k]) = {}
  BY <1>3, <1>4
<1>8. PICK first \in C :
        /\ \A k \in C : first <= k
        /\ \A t \in d[s].plan.tools :
             /\ t \in d[first].plan.tools
             /\ \A u \in d[first].plan.deps[t] :
                  \/ u \in d[s].plan.deps[t]
                  \/ \E j \in C : u \in Completed(d[j])
  BY <1>2 DEF Lineage
<1>9. first \in D /\ \A k \in D : first <= k
  BY <1>1, <1>3, <1>8
<1>10. ASSUME NEW t \in d[i].plan.tools
       PROVE  /\ t \in d[first].plan.tools
              /\ \A u \in d[first].plan.deps[t] :
                   \/ u \in d[i].plan.deps[t]
                   \/ \E j \in D : u \in Completed(d[j])
  <2>1. t \in d[s].plan.tools
    BY <1>1 DEF Remaining
  <2>2. ASSUME NEW u \in d[first].plan.deps[t]
        PROVE  u \in d[i].plan.deps[t] \/ \E j \in D : u \in Completed(d[j])
    <3>1. CASE \E j \in C : u \in Completed(d[j])
      BY <3>1
    <3>2. CASE u \in d[s].plan.deps[t]
      <4>1. u \in d[i].plan.deps[t] \/ u \in Completed(d[s])
        BY <1>1, <3>2
      <4>2. QED
        BY <1>3, <4>1
    <3>3. QED
      BY <1>8, <2>1, <2>2, <3>1, <3>2
  <2>3. QED
    BY <1>8, <2>1, <2>2
<1> HIDE DEF D
<1>11. Lineage(d, D, i)
  BY <1>5, <1>6, <1>7, <1>9, <1>10 DEF Lineage
<1>12. QED
  BY <1>11 DEF D

\* So every chain is a lineage.
LEMMA ChainsAreLineages ==
    ASSUME NEW d, NEW last \in Nat, NEW f, IsChain(d, f, last),
           \A id \in 1..last : Sourced(d[id].plan, d, id)
    PROVE  \A i \in 1..last : Lineage(d, f[i], i)
<1> DEFINE S == {i \in 1..last : ~Lineage(d, f[i], i)}
<1>1. ASSUME S # {} PROVE FALSE
  <2>1. S \in SUBSET Nat
    OBVIOUS
  <2> HIDE DEF S
  <2>2. PICK i \in S : \A j \in S : i <= j
    BY <1>1, <2>1, Least
  <2>3. i \in 1..last /\ ~Lineage(d, f[i], i)
    BY <2>2 DEF S
  <2> DEFINE s == d[i].plan.source
  <2>4. s \in 0..(i - 1) /\ s \in 0..last
    <3>1. Sourced(d[i].plan, d, i)
      BY <2>3
    <3>2. s \in 0..(i - 1)
      BY <3>1 DEF Sourced
    <3>3. QED
      BY <2>3, <3>2
  <2>5. \A id \in 0..last : f[id] = IF id = 0 THEN {} ELSE {id} \cup f[d[id].plan.source]
    BY ChainValues
  <2>6. f[i] = {i} \cup f[s]
    <3>1. i \in 0..last /\ i # 0
      BY <2>3
    <3>2. QED
      BY <2>5, <3>1
  <2>7. CASE s = 0
    <3>1. f[s] = {}
      BY <2>4, <2>5, <2>7
    <3>2. f[i] = {i} /\ i \in Nat \ {0}
      BY <2>3, <2>6, <3>1
    <3>3. QED
      BY <2>3, <3>2, FirstLineage
  <2>8. CASE s # 0
    <3>1. s \in 1..last /\ s \notin S /\ i \in Nat \ {0}
      BY <2>2, <2>3, <2>4, <2>8
    <3>2. Lineage(d, f[s], s)
      BY <3>1 DEF S
    <3>3. Lineage(d, {i} \cup f[s], i)
      BY <2>3, <2>8, <3>1, <3>2, LineageGrows
    <3>4. QED
      BY <2>3, <2>6, <3>3
  <2>9. QED
    BY <2>7, <2>8
<1>2. QED
  BY <1>1

\* The chain of an operation is a lineage.
LEMMA ChainIsLineage ==
    ASSUME IInv, NEW id \in 1..Len(disk)
    PROVE  Lineage(disk, Chain(id), id)
<1>1. id \in Nat /\ \A i \in 1..id : Sourced(disk[i].plan, disk, i)
  BY InstantsAndMachine DEF IInv, LogInv, Log
<1>2. \A i \in 1..id : disk[i].plan.source \in 0..(i - 1)
  BY <1>1 DEF Sourced
<1>3. \E f : IsChain(disk, f, id)
  BY <1>1, <1>2, ChainExists
<1> DEFINE f == CHOOSE f : IsChain(disk, f, id)
<1>4. IsChain(disk, f, id)
  BY <1>3
<1>5. Chain(id) = f[id]
  BY DEF Chain, IsChain
<1> HIDE DEF f
<1>6. \A i \in 1..id : Lineage(disk, f[i], i)
  BY <1>1, <1>4, ChainsAreLineages
<1>7. QED
  BY <1>1, <1>5, <1>6

\* Along a chain of continuations, no completed action is done again, and none
\* is begun before those that it depends on in the first Plan are completed in
\* the chain (D-030, D-038).
THEOREM ChainsAreOrdered == Spec => []ChainsRespectTheFirstPlan
<1>1. ASSUME IInv, NEW id \in 1..Len(disk)
      PROVE  LET chain == Chain(id)
                 done == UNION {Completed(disk[j]) : j \in chain}
                 first == disk[CHOOSE j \in chain : \A k \in chain : j <= k].plan
             IN  /\ \A j, k \in chain : j # k =>
                       Completed(disk[j]) \cap Completed(disk[k]) = {}
                 /\ \A t \in disk[id].plan.tools :
                       /\ t \in first.tools
                       /\ disk[id].steps[t].state # "pending" =>
                            first.deps[t] \subseteq done
  <2> DEFINE chain == Chain(id)
             done == UNION {Completed(disk[j]) : j \in chain}
             least == CHOOSE j \in chain : \A k \in chain : j <= k
             first == disk[least].plan
  <2>1. Lineage(disk, chain, id) /\ Len(disk) \in Nat
    BY <1>1, ChainIsLineage, InstantsAndMachine
  <2>2. /\ Ordered(disk[id].plan) /\ Advancing(disk[id])
    BY <1>1 DEF IInv, LogInv, Log
  <2>3. \A j \in chain : \A u : u \in Completed(disk[j]) => u \in done
    OBVIOUS
  <2> HIDE DEF chain, done
  <2>4. chain \subseteq 1..id /\ id \in chain
    BY <2>1 DEF Lineage
  <2>5. PICK j \in chain :
          /\ \A k \in chain : j <= k
          /\ \A t \in disk[id].plan.tools :
               /\ t \in disk[j].plan.tools
               /\ \A u \in disk[j].plan.deps[t] :
                    \/ u \in disk[id].plan.deps[t]
                    \/ \E k \in chain : u \in Completed(disk[k])
    BY <2>1 DEF Lineage
  <2>6. least \in chain /\ \A k \in chain : least <= k
    BY <2>5
  <2> HIDE DEF least
  <2>7. least = j
    BY <2>4, <2>5, <2>6
  <2>8. ASSUME NEW t \in disk[id].plan.tools, disk[id].steps[t].state # "pending",
               NEW u \in disk[id].plan.deps[t]
        PROVE  u \in done
    <3>1. u \in disk[id].plan.tools /\ u < t
      BY <2>2 DEF Ordered
    <3>2. disk[id].steps[u].state = "completed"
      BY <2>2, <2>8, <3>1 DEF Advancing
    <3>3. u \in Completed(disk[id])
      BY <3>1, <3>2 DEF Completed
    <3>4. QED
      BY <2>3, <2>4, <3>3
  <2>9. ASSUME NEW t \in disk[id].plan.tools
        PROVE  /\ t \in first.tools
               /\ disk[id].steps[t].state # "pending" => first.deps[t] \subseteq done
    BY <2>3, <2>5, <2>7, <2>8
  <2>10. \A i, k \in chain : i # k => Completed(disk[i]) \cap Completed(disk[k]) = {}
    BY <2>1 DEF Lineage
  <2>11. QED
    BY <2>9, <2>10 DEF chain, done, least
<1>2. IInv => ChainsRespectTheFirstPlan
  BY <1>1 DEF ChainsRespectTheFirstPlan
<1>3. QED
  BY <1>2, Inductive, PTL

=============================================================================
