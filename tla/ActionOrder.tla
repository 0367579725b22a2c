----------------------------- MODULE ActionOrder -----------------------------
(***************************************************************************)
(* orderedActions of internal/execution: the depth-first walk that puts    *)
(* the actions of a confirmed Plan in the order in which Execute runs them *)
(* and record validation expects their steps.  The recursion of visit is   *)
(* an explicit stack of frames, each with the dependencies still to visit. *)
(*                                                                         *)
(* hasCycle of internal/plan, which admits the Plan in the first place, is *)
(* the same walk without the order; its verdict is that of this walk.      *)
(***************************************************************************)
EXTENDS Naturals, Sequences, FiniteSets

CONSTANTS Listed,     \* the Plan's actions, in the order it lists them
          AllGraphs   \* [actions of Listed -> sequences of action IDs]

VARIABLES
    dependencies,  \* the Plan's dependency lists
    mark,          \* map state: "new", "entered" or "left"
    stack,         \* frames of visit, innermost first
    listing,       \* actions the outer loop has still to visit
    ordered,       \* result so far
    outcome        \* "walking", then "ordered", "cycle" or "unknown"

vars == <<dependencies, mark, stack, listing, ordered, outcome>>

Elements(s) == {s[k] : k \in 1..Len(s)}
Actions == Elements(Listed)

ASSUME ListedAssumption ==
    /\ Listed \in Seq(Actions)
    /\ \A j, k \in 1..Len(Listed) : Listed[j] = Listed[k] => j = k
ASSUME GraphsAssumption ==
    \A g \in AllGraphs : \A a \in Actions : g[a] \in Seq(Elements(g[a]))

Frame(a) == [action |-> a, rest |-> dependencies[a]]

Init ==
    /\ dependencies \in AllGraphs
    /\ mark = [a \in Actions |-> "new"]
    /\ stack = <<>> /\ listing = Listed /\ ordered = <<>>
    /\ outcome = "walking"

\* Fault: an action is marked when visit is done with it, and never before
\* its dependencies; the walk takes an open frame for a finished one.
VisitUnmarked(id, below) ==
    \/ id \notin Actions /\ outcome' = "unknown" /\ UNCHANGED <<mark, stack>>
    \/ /\ id \in Actions /\ mark[id] # "new"
       /\ stack' = below
       /\ UNCHANGED <<mark, outcome>>
    \/ /\ id \in Actions /\ mark[id] = "new"
       /\ mark' = [mark EXCEPT ![id] = "entered"]
       /\ stack' = <<Frame(id)>> \o below
       /\ UNCHANGED outcome

\* visit(id), called by the frames below.
Visit(id, below) ==
    \/ id \notin Actions /\ outcome' = "unknown" /\ UNCHANGED <<mark, stack>>
    \/ /\ id \in Actions /\ mark[id] = "entered"
       /\ outcome' = "cycle" /\ UNCHANGED <<mark, stack>>
    \/ /\ id \in Actions /\ mark[id] = "left"
       /\ stack' = below
       /\ UNCHANGED <<mark, outcome>>
    \/ /\ id \in Actions /\ mark[id] = "new"
       /\ mark' = [mark EXCEPT ![id] = "entered"]
       /\ stack' = <<Frame(id)>> \o below
       /\ UNCHANGED outcome

\* Fault: the outer loop ranges over the map instead of the list.
VisitAnyListed ==
    /\ outcome = "walking" /\ stack = <<>> /\ listing # <<>>
    /\ \E a \in Actions : mark[a] = "new" /\ Visit(a, <<>>)
    /\ listing' = Tail(listing)
    /\ UNCHANGED <<dependencies, ordered>>

\* The loop of orderedActions.
VisitListed ==
    /\ outcome = "walking" /\ stack = <<>> /\ listing # <<>>
    /\ Visit(Head(listing), <<>>)
    /\ listing' = Tail(listing)
    /\ UNCHANGED <<dependencies, ordered>>

\* Fault: a dependency already left is looked at for ever.
VisitDependencyAgain ==
    /\ outcome = "walking" /\ stack # <<>> /\ Head(stack).rest # <<>>
    /\ Visit(Head(Head(stack).rest), stack)
    /\ UNCHANGED <<dependencies, listing, ordered>>

\* The loop of visit.
VisitDependency ==
    /\ outcome = "walking" /\ stack # <<>> /\ Head(stack).rest # <<>>
    /\ Visit(Head(Head(stack).rest),
             <<[Head(stack) EXCEPT !.rest = Tail(@)]>> \o Tail(stack))
    /\ UNCHANGED <<dependencies, listing, ordered>>

\* Fault: an action is put before what was already ordered.
LeaveInFront ==
    /\ outcome = "walking" /\ stack # <<>> /\ Head(stack).rest = <<>>
    /\ mark' = [mark EXCEPT ![Head(stack).action] = "left"]
    /\ ordered' = <<Head(stack).action>> \o ordered
    /\ stack' = Tail(stack)
    /\ UNCHANGED <<dependencies, listing, outcome>>

\* The last lines of visit.
Leave ==
    /\ outcome = "walking" /\ stack # <<>> /\ Head(stack).rest = <<>>
    /\ mark' = [mark EXCEPT ![Head(stack).action] = "left"]
    /\ ordered' = Append(ordered, Head(stack).action)
    /\ stack' = Tail(stack)
    /\ UNCHANGED <<dependencies, listing, outcome>>

Finish ==
    /\ outcome = "walking" /\ stack = <<>> /\ listing = <<>>
    /\ outcome' = "ordered"
    /\ UNCHANGED <<dependencies, mark, stack, listing, ordered>>

Next == VisitListed \/ VisitDependency \/ Leave \/ Finish

\* One goroutine runs the walk, and nothing in it waits.
Spec == Init /\ [][Next]_vars /\ WF_vars(Next)

-----------------------------------------------------------------------------
(* Properties.                                                             *)

TypeOK ==
    /\ mark \in [Actions -> {"new", "entered", "left"}]
    /\ \A k \in 1..Len(stack) : stack[k].action \in Actions
    /\ Elements(ordered) \subseteq Actions
    /\ Len(ordered) <= Len(Listed)
    /\ outcome \in {"walking", "ordered", "cycle", "unknown"}

DependenciesOf(a) == Elements(dependencies[a])

DependencyFirst(s) ==
    \A k \in 1..Len(s) :
        DependenciesOf(s[k]) \subseteq {s[j] : j \in 1..(k - 1)}

\* What has been ordered is at every moment in dependency order, and an
\* accepted Plan is ordered completely, each action once: what Execute and
\* the record's steps take for granted.
OrderIsTopological ==
    /\ DependencyFirst(ordered)
    /\ outcome = "ordered" =>
         Len(ordered) = Len(Listed) /\ Elements(ordered) = Actions

\* Some action of every set of actions depends on none of the set.
Acyclic ==
    \A S \in SUBSET Actions :
        S # {} => \E a \in S : DependenciesOf(a) \cap S = {}

Closed == \A a \in Actions : DependenciesOf(a) \subseteq Actions

\* The walk accepts exactly the closed and acyclic Plans, and the reason it
\* gives for refusing one is true: a Plan that plan.Validate admitted can
\* never fail to be ordered afterwards (executor.go, codec.go).
VerdictIsRight ==
    /\ outcome = "ordered" => Closed /\ Acyclic
    /\ outcome = "cycle" => ~Acyclic
    /\ outcome = "unknown" => ~Closed

\* A Plan that lists its actions dependencies first is run in that order: a
\* continuation compares its remaining actions with the source's by position.
ListedOrderIsKept ==
    outcome = "ordered" /\ DependencyFirst(Listed) => ordered = Listed

\* The walk ends, on Plans with cycles too.
WalkEnds == <>(outcome # "walking")
=============================================================================
