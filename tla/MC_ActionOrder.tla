--------------------------- MODULE MC_ActionOrder ---------------------------
(***************************************************************************)
(* ActionOrder for TLC: every dependency relation on four actions, and one *)
(* dependency that no action of the Plan satisfies.                        *)
(***************************************************************************)
EXTENDS ActionOrder

\* The dependency lists of one action: the others in ascending or descending
\* order, self-dependencies being refused by plan.Validate before.
Ascending(S) ==
    CHOOSE s \in [1..Cardinality(S) -> S] :
        \A j, k \in 1..Cardinality(S) : j < k => s[j] < s[k]

Lists(a) == {Ascending(S) : S \in SUBSET (1..4 \ {a})}

FourActions == <<1, 2, 3, 4>>

\* Five is no action of the Plan.
FourActionGraphs ==
    {[a \in 1..4 |-> CASE a = 1 -> f [] a = 2 -> g [] a = 3 -> h [] a = 4 -> i] :
        f \in Lists(1), g \in Lists(2) \cup {<<3, 5>>}, h \in Lists(3),
        i \in Lists(4) \cup {<<3, 1>>, <<2, 1, 3>>}}
=============================================================================
