---------------------------- MODULE MC_NodeTools ----------------------------
(* What is asked of NodeTools: one version of every tool, or a newer npm.    *)
EXTENDS NodeTools

MC_Options == {[t \in Tools |-> 2], [t \in {npm} |-> 3]}
=============================================================================
