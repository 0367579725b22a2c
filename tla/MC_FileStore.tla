---------------------------- MODULE MC_FileStore ----------------------------
(***************************************************************************)
(* FileStore for TLC, and the mapping of its files to the atomic record    *)
(* that module Executor takes a save to be.                                *)
(***************************************************************************)
EXTENDS FileStore

Atomic == INSTANCE AtomicRecord WITH
    phase <- IF at \in Saving THEN "saving" ELSE at,
    stored <- Stored

\* Every save, however it fails and wherever it is killed, looks to readers
\* like one atomic replacement that happens before it is acknowledged and
\* never when an error is reported (store.go Save and replaceFile).
ImplementsAtomicRecord == Atomic!Spec
=============================================================================
