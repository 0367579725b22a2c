---------------------------- MODULE AtomicRecord ----------------------------
(***************************************************************************)
(* What a store of one Operation Record promises (decision D-024): a save  *)
(* replaces the stored version or leaves it alone, it does so before it is *)
(* acknowledged, and when it reports an error the old version is still     *)
(* there.  A writer whose save failed, or who was killed, writes no more.  *)
(***************************************************************************)
EXTENDS Naturals

CONSTANTS MaxVersion,  \* bound on the number of saves
          None         \* nothing is stored

VARIABLES
    phase,    \* "idle", "saving", "failed" or "killed"
    version,  \* the version being saved, or the last one
    stored,   \* the version a reader finds
    acked     \* the last acknowledged version, 0 before the first

record == <<phase, version, stored, acked>>

Init == phase = "idle" /\ version = 0 /\ stored = None /\ acked = 0

Begin ==
    /\ phase = "idle" /\ version < MaxVersion
    /\ phase' = "saving" /\ version' = version + 1
    /\ UNCHANGED <<stored, acked>>

Commit ==
    /\ phase = "saving"
    /\ stored' = version
    /\ UNCHANGED <<phase, version, acked>>

Acknowledge ==
    /\ phase = "saving"
    /\ stored' = version /\ acked' = version
    /\ phase' = "idle"
    /\ UNCHANGED version

Refuse ==
    /\ phase = "saving"
    /\ stored # version
    /\ phase' = "failed"
    /\ UNCHANGED <<version, stored, acked>>

Kill ==
    /\ phase \in {"idle", "saving"}
    /\ phase' = "killed"
    /\ UNCHANGED <<version, stored, acked>>

Next == Begin \/ Commit \/ Acknowledge \/ Refuse \/ Kill

Spec == Init /\ [][Next]_record
=============================================================================
