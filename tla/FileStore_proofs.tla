-------------------------- MODULE FileStore_proofs --------------------------
(***************************************************************************)
(* FileStore for any number of saves: the record stays loadable, a load is *)
(* fresh, and every save is one step of AtomicRecord.                      *)
(***************************************************************************)
EXTENDS MC_FileStore, TLAPS

-----------------------------------------------------------------------------
(* The inductive invariant.                                                *)

\* What the file of a record holds when version v is its content.
Holding(v) == IF v = 0 THEN None ELSE v

\* How far the save has got, by its next call.
ProgressInv ==
    /\ at = "idle" => version = acked
    /\ at \in Saving \cup {"failed"} => version = acked + 1
    /\ at = "killed" => version \in {acked, acked + 1}
    /\ at \in {"replace", "clear", "aside", "install", "restore"} => temporary = version

\* Which of the files hold what.
FilesInv ==
    /\ backup # None => backup <= acked
    /\ at \in {"idle", "write", "replace", "clear", "aside"} => destination = Holding(acked)
    /\ at \in {"install", "restore"} => destination = None /\ acked > 0 /\ backup = acked
    /\ at = "sweep" => destination = version
    /\ at = "failed" => Stored = Holding(acked)
    /\ at = "killed" => Stored \in {Holding(acked), Holding(version)}

\* What Load has found so far.
LoadInv ==
    /\ since <= acked
    /\ reader = "missed" /\ backup # None => backup >= since
    /\ reader = "idle" /\ loaded # None => loaded >= since

IInv == TypeOK /\ ProgressInv /\ FilesInv /\ LoadInv

LEMMA InitInv == Init => IInv
  BY VersionAssumption
  DEF Init, IInv, TypeOK, ProgressInv, FilesInv, LoadInv, Holding, Stored, Files, Versions, Saving

\* No call of Save, however it ends, breaks the invariant.
LEMMA SaveInv == IInv /\ Save => IInv'
  <1> SUFFICES ASSUME IInv, Save PROVE IInv'
      OBVIOUS
  <1> USE VersionAssumption
      DEF IInv, TypeOK, ProgressInv, FilesInv, LoadInv, Holding, Stored, Files, Versions, Saving,
          files, load, Fail, Done
  <1>1. CASE BeginSave
        BY <1>1 DEF BeginSave
  <1>2. CASE WriteTemporary
        BY <1>2 DEF WriteTemporary
  <1>3. CASE Replace
        BY <1>3 DEF Replace
  <1>4. CASE ClearBackup
        BY <1>4 DEF ClearBackup
  <1>5. CASE MoveAside
        BY <1>5 DEF MoveAside
  <1>6. CASE Install
        BY <1>6 DEF Install
  <1>7. CASE Restore
        BY <1>7 DEF Restore
  <1>8. CASE SweepBackup
        BY <1>8 DEF SweepBackup
  <1>9. QED
        BY <1>1, <1>2, <1>3, <1>4, <1>5, <1>6, <1>7, <1>8 DEF Save

LEMMA NextInv == IInv /\ [Next]_vars => IInv'
  <1> SUFFICES ASSUME IInv, [Next]_vars PROVE IInv'
      OBVIOUS
  <1>1. CASE Save
        BY <1>1, SaveInv
  <1> USE VersionAssumption
      DEF IInv, TypeOK, ProgressInv, FilesInv, LoadInv, Holding, Stored, Files, Versions, Saving,
          files, load
  <1>2. CASE Kill
        BY <1>2 DEF Kill
  <1>3. CASE LoadDestination
        BY <1>3 DEF LoadDestination
  <1>4. CASE LoadBackup
        BY <1>4 DEF LoadBackup
  <1>5. CASE UNCHANGED vars
        BY <1>5 DEF vars
  <1>6. QED
        BY <1>1, <1>2, <1>3, <1>4, <1>5 DEF Next

\* The invariant holds through every save, failure and kill of the file store.
THEOREM Inductive == Spec => []IInv
  BY InitInv, NextInv, PTL DEF Spec

-----------------------------------------------------------------------------
(* What follows from it.                                                   *)

\* The files of the store hold records of the executor, or nothing.
THEOREM TypeCorrect == Spec => []TypeOK
  BY Inductive, PTL DEF IInv

\* Whatever fails and wherever the writer is killed, what was acknowledged can
\* be loaded.
THEOREM RecordStaysLoadable == Spec => []StaysLoadable
  <1>1. IInv => StaysLoadable
        BY VersionAssumption
        DEF IInv, TypeOK, ProgressInv, FilesInv, StaysLoadable, Holding, Stored, Files, Versions,
            Saving
  <1>2. QED
        BY <1>1, Inductive, PTL

\* A reader in another process never finds a forgotten backup.
THEOREM LoadsAreFresh == Spec => []LoadIsFresh
  <1>1. IInv => LoadIsFresh
        BY DEF IInv, LoadInv, LoadIsFresh
  <1>2. QED
        BY <1>1, Inductive, PTL

-----------------------------------------------------------------------------
(* The refinement of AtomicRecord.                                         *)

LEMMA InitRefines == Init => Atomic!Init
  BY DEF Init, Atomic!Init, Stored, Saving

LEMMA SaveRefines == IInv /\ IInv' /\ Save => [Atomic!Next]_(Atomic!record)
  <1> SUFFICES ASSUME IInv, IInv', Save PROVE Atomic!Next \/ UNCHANGED Atomic!record
      BY DEF Atomic!record
  <1> USE VersionAssumption
      DEF IInv, TypeOK, ProgressInv, FilesInv, Holding, Stored, Files, Versions, Saving,
          files, load, Fail, Done, Atomic!Next, Atomic!Begin, Atomic!Commit, Atomic!Acknowledge,
          Atomic!Refuse, Atomic!record
  <1>1. CASE BeginSave
        BY <1>1 DEF BeginSave
  <1>2. CASE WriteTemporary
        BY <1>2 DEF WriteTemporary
  <1>3. CASE Replace
        BY <1>3 DEF Replace
  <1>4. CASE ClearBackup
        BY <1>4 DEF ClearBackup
  <1>5. CASE MoveAside
        BY <1>5 DEF MoveAside
  <1>6. CASE Install
        BY <1>6 DEF Install
  <1>7. CASE Restore
        BY <1>7 DEF Restore
  <1>8. CASE SweepBackup
        BY <1>8 DEF SweepBackup
  <1>9. QED
        BY <1>1, <1>2, <1>3, <1>4, <1>5, <1>6, <1>7, <1>8 DEF Save

\* Every save is one atomic replacement.
THEOREM SavesAreAtomic == Spec => ImplementsAtomicRecord
  <1>1. IInv /\ IInv' /\ [Next]_vars => [Atomic!Next]_(Atomic!record)
    <2> SUFFICES ASSUME IInv, IInv', [Next]_vars
                 PROVE Atomic!Next \/ UNCHANGED Atomic!record
        BY DEF Atomic!record
    <2>1. CASE Save
          BY <2>1, SaveRefines DEF Atomic!record
    <2>2. CASE Kill
          BY <2>2 DEF Kill, Atomic!Next, Atomic!Kill, Stored, Saving, files, load
    <2>3. CASE LoadDestination \/ LoadBackup \/ UNCHANGED vars
          BY <2>3 DEF LoadDestination, LoadBackup, Atomic!record, Stored, files, load, vars
    <2>4. QED
          BY <2>1, <2>2, <2>3 DEF Next
  <1>2. QED
        BY <1>1, InitRefines, Inductive, PTL DEF Spec, Atomic!Spec, ImplementsAtomicRecord
=============================================================================
