---------------------------- MODULE MC_Executor ----------------------------
(***************************************************************************)
(* Instances of Executor for TLC: a Plan in the shape of the Node tools    *)
(* (two updates that depend on the first), and the mapping of a persisted  *)
(* record to the history it promises.                                      *)
(***************************************************************************)
EXTENDS Executor

\* The second and third action depend on the first, as pnpm and Corepack
\* depend on npm in internal/plan/node_tools.go.
ToolDependencies == [i \in Positions |-> IF i = 1 THEN {} ELSE {1}]

\* The actions with a Preflight, a Capture and a Satisfied.
FirstTwo == {1, 2}

\* The mapping: the persisted record as OperationHistory sees it.
Status == IF disk = NoRecord THEN "absent" ELSE disk.state

InProgress ==
    IF disk = NoRecord THEN 0
    ELSE IF \E i \in Positions : disk.steps[i].state \in ActiveStates
    THEN CHOOSE i \in Positions : disk.steps[i].state \in ActiveStates
    ELSE 0

History == INSTANCE OperationHistory WITH
    status <- Status, doing <- InProgress, done <- CompletedOnDisk

\* The record on disk, read at any instant, is a history of the operation as
\* OperationHistory promises it, whatever crashes, saves and cancels do.
ImplementsHistory == History!Spec
=============================================================================
