--------------------------- MODULE WorkflowRecord ---------------------------
(***************************************************************************)
(* The Workflow Record of internal/workflow and the pure functions that    *)
(* advance it: NewRecord, BindStagePlan, StartStage and FinishStage, each  *)
(* of which ends with the validation that replays the history of           *)
(* transitions (record.go).                                                *)
(*                                                                         *)
(* A Plan ID and a digest stand for what they are computed from, so both   *)
(* are values of that kind here.  Reasons and ID formats are left out.     *)
(***************************************************************************)
EXTENDS Naturals, Sequences

CONSTANTS Last,  \* number of stages: install_node, set_default, update_node_tools
          None   \* an unset field

ASSUME StageAssumption == Last \in Nat \ {0}
ASSUME UnsetInstantAssumption == None \notin Nat

Stages == 1..Last

AbnormalStates == {"failed", "timed_out", "cancelled", "interrupted"}
TerminalStates == AbnormalStates \cup {"completed"}
StageStates == TerminalStates \cup {"pending", "ready", "planned", "running"}
WorkflowStates == TerminalStates \cup {"pending", "running"}

EmptyStage(state) == [state |-> state, plan |-> None, operation |-> None,
                      digest |-> None, started |-> None, finished |-> None]

-----------------------------------------------------------------------------
(* The state of the workflow and the transitions of a stage.               *)

AllowedTransition(from, to) ==
    \/ from = "pending" /\ to = "ready"
    \/ from = "ready" /\ to = "planned"
    \/ from = "planned" /\ to = "running"
    \/ from = "running" /\ to \in TerminalStates

\* The first stage with an abnormal end decides.  No more than one has one.
StateFromStages(states) ==
    IF \E i \in Stages : states[i] \in AbnormalStates
    THEN states[CHOOSE i \in Stages :
                  /\ states[i] \in AbnormalStates
                  /\ \A j \in 1..(i - 1) : states[j] \notin AbnormalStates]
    ELSE IF \E i \in Stages : states[i] = "running" THEN "running"
    ELSE IF \A i \in Stages : states[i] = "completed" THEN "completed"
    ELSE "pending"

DependenciesComplete(states, i, to) ==
    /\ \A j \in 1..(i - 1) : states[j] = "completed"
    /\ to = "ready" => \A j \in (i + 1)..Last : states[j] = "pending"

-----------------------------------------------------------------------------
(* ValidateRecord.                                                         *)

\* The states of the stages after the first n transitions.
Replayed(r, n) ==
    [i \in Stages |->
       LET own == {k \in 1..n : r.transitions[k].stage = i}
       IN  IF own = {} THEN "pending"
           ELSE r.transitions[CHOOSE k \in own : \A j \in own : j <= k].to]

ValidTransition(r, n) ==
    LET t == r.transitions[n]
        before == Replayed(r, n - 1)
    IN  /\ t.at >= (IF n = 1 THEN r.created ELSE r.transitions[n - 1].at)
        /\ n = 1 => t.at = r.created
        /\ t.from = before[t.stage]
        /\ AllowedTransition(t.from, t.to)
        /\ DependenciesComplete(before, t.stage, t.to)
        /\ t.workflow = StateFromStages(Replayed(r, n))

\* When stage i made a transition to one of the states, None if it did not.
TimeOf(r, i, states) ==
    LET own == {k \in 1..Len(r.transitions) :
                  r.transitions[k].stage = i /\ r.transitions[k].to \in states}
    IN  IF own = {} THEN None
        ELSE r.transitions[CHOOSE k \in own : TRUE].at

ValidBinding(s) ==
    /\ s.plan = None <=> s.state \in {"pending", "ready"}
    /\ s.operation = None <=> s.state \in {"pending", "ready", "planned"}
    /\ s.digest # None => s.state \in TerminalStates
    /\ s.state = "completed" => s.digest # None
    /\ s.started = None <=> s.operation = None
    /\ s.finished = None <=> s.state \notin TerminalStates

Distinct(r, ids) ==
    \A i, j \in Stages : i # j /\ ids[i] # None => ids[i] # ids[j]

ValidRecord(r) ==
    LET last == Len(r.transitions)
        final == Replayed(r, last)
        starts == {k \in 1..last : r.transitions[k].to = "running"}
    IN  /\ last > 0
        /\ Distinct(r, [i \in Stages |-> r.stages[i].plan])
        /\ Distinct(r, [i \in Stages |-> r.stages[i].operation])
        /\ \A n \in 1..last : ValidTransition(r, n)
        /\ r.updated = r.transitions[last].at
        /\ r.state = StateFromStages(final)
        /\ r.started = IF starts = {} THEN None
                       ELSE r.transitions[CHOOSE k \in starts :
                                            \A j \in starts : k <= j].at
        /\ \A i \in Stages :
             /\ r.stages[i].state = final[i]
             /\ r.stages[i].started = TimeOf(r, i, {"running"})
             /\ r.stages[i].finished = TimeOf(r, i, TerminalStates)
             /\ ValidBinding(r.stages[i])
        /\ r.finished = IF r.state \in TerminalStates THEN r.updated ELSE None

-----------------------------------------------------------------------------
(* The transitions.                                                        *)

\* Stage i, whose new value is s, moves to s.state.
Moved(r, i, s, at) ==
    LET stages == [r.stages EXCEPT ![i] = s]
        state == StateFromStages([j \in Stages |-> stages[j].state])
    IN  [r EXCEPT
           !.stages = stages, !.state = state, !.updated = at,
           !.transitions = Append(@, [stage |-> i, from |-> r.stages[i].state,
                                      to |-> s.state, workflow |-> state,
                                      at |-> at])]

NewRecord(at) ==
    Moved([created |-> at, updated |-> at, state |-> "pending",
           started |-> None, finished |-> None, transitions |-> <<>>,
           stages |-> [i \in Stages |-> EmptyStage("pending")]],
          1, EmptyStage("ready"), at)

Bound(r, i, plan, at) ==
    Moved(r, i, [r.stages[i] EXCEPT !.state = "planned", !.plan = plan], at)

Started(r, i, operation, at) ==
    Moved([r EXCEPT !.started = IF @ = None THEN at ELSE @], i,
          [r.stages[i] EXCEPT !.state = "running", !.operation = operation,
                              !.started = at], at)

Ended(r, i, state, digest, at) ==
    Moved(r, i, [r.stages[i] EXCEPT !.state = state, !.digest = digest,
                                    !.finished = at], at)

\* Fault: the following stage is not made ready.
FinishedAlone(r, i, state, digest, at) ==
    LET ended == Ended(r, i, state, digest, at)
    IN  [ended EXCEPT !.finished =
                        IF ended.state \in TerminalStates THEN at ELSE None]

\* The stage ends; after a completed stage the following one becomes ready.
Finished(r, i, state, digest, at) ==
    LET ended == Ended(r, i, state, digest, at)
        opened == IF state = "completed" /\ i < Last
                  THEN Moved(ended, i + 1, EmptyStage("ready"), at)
                  ELSE ended
    IN  [opened EXCEPT !.finished =
                         IF opened.state \in TerminalStates THEN at ELSE None]

\* The guards of BindStagePlan, StartStage and FinishStage.
Advances(r, i, state, at) ==
    /\ r.stages[i].state = state
    /\ r.state \notin TerminalStates
    /\ at >= r.updated
=============================================================================
