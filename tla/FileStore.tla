------------------------------ MODULE FileStore ------------------------------
(***************************************************************************)
(* FileStore.Save and FileStore.Load of internal/execution, for the file   *)
(* of one operation.  Save writes a temporary file and installs it with    *)
(* replaceFile: one rename where the platform replaces files, otherwise    *)
(* the old record is moved to a backup first.  Every call may fail, the    *)
(* writer may be killed between any two of them, and another process (the  *)
(* recovery and continuation commands) may load the record at any time.    *)
(*                                                                         *)
(* A version stands for the content of a record, in the order of the       *)
(* saves; Load's checks of that content are the codec's (OperationRecord). *)
(***************************************************************************)
EXTENDS Naturals

CONSTANTS MaxVersion,  \* bound on the number of saves
          None         \* no such file

ASSUME VersionAssumption == MaxVersion \in Nat /\ None \notin Nat

VARIABLES
    destination,  \* <operation>.json
    backup,       \* <operation>.json.bak
    temporary,    \* .operation-*.tmp
    at,           \* the call of Save that comes next
    version,      \* the version being saved, or the last one
    acked,        \* the last version whose Save returned nil
    reader,       \* the call of Load that comes next
    since,        \* history: acked when that Load began
    loaded        \* what Load returned, None for an error

files == <<destination, backup, temporary>>
load == <<reader, since, loaded>>
vars == <<files, at, version, acked, load>>

Versions == 1..MaxVersion
Files == Versions \cup {None}
Saving == {"write", "replace", "clear", "aside", "install", "restore", "sweep"}

TypeOK ==
    /\ destination \in Files /\ backup \in Files /\ temporary \in Files
    /\ at \in Saving \cup {"idle", "failed", "killed"}
    /\ version \in 0..MaxVersion
    /\ acked \in 0..MaxVersion /\ since \in 0..MaxVersion
    /\ reader \in {"idle", "missed"}
    /\ loaded \in Files

Init ==
    /\ destination = None /\ backup = None /\ temporary = None
    /\ at = "idle" /\ version = 0 /\ acked = 0
    /\ reader = "idle" /\ since = 0 /\ loaded = None

-----------------------------------------------------------------------------
(* Save.                                                                   *)

\* Save is called.  Execute never saves again after a failure, and nobody saves
\* what RecoverInterrupted makes of the record of a killed one.
BeginSave ==
    /\ at = "idle"
    /\ version < MaxVersion
    /\ version' = version + 1
    /\ at' = "write"
    /\ UNCHANGED <<files, acked, load>>

\* Every error return removes the temporary file.
Fail ==
    /\ at' = "failed" /\ temporary' = None
    /\ UNCHANGED <<version, acked, load>>

Done ==
    /\ at' = "idle" /\ acked' = version
    /\ UNCHANGED <<version, load>>

WriteTemporary ==
    /\ at = "write"
    /\ \/ /\ temporary' = version /\ at' = "replace"
          /\ UNCHANGED <<destination, backup, version, acked, load>>
       \/ Fail /\ UNCHANGED <<destination, backup>>

\* The first rename of replaceFile.
Replace ==
    /\ at = "replace"
    /\ \/ /\ destination' = temporary /\ temporary' = None
          /\ UNCHANGED backup /\ Done
       \/ at' = "clear" /\ UNCHANGED <<files, version, acked, load>>

\* A backup that is no regular file is an error; one that cannot be removed
\* is left to the next rename.
ClearBackup ==
    /\ at = "clear"
    /\ \/ /\ backup' \in {None, backup} /\ at' = "aside"
          /\ UNCHANGED <<destination, temporary, version, acked, load>>
       \/ Fail /\ UNCHANGED <<destination, backup>>

\* Fault: the old record is removed instead of kept as the backup.
RemoveOld ==
    /\ at = "aside"
    /\ \/ /\ destination # None
          /\ destination' = None /\ at' = "install"
          /\ UNCHANGED <<backup, temporary, version, acked, load>>
       \/ Fail /\ UNCHANGED <<destination, backup>>

MoveAside ==
    /\ at = "aside"
    /\ \/ /\ destination # None
          /\ backup' = destination /\ destination' = None /\ at' = "install"
          /\ UNCHANGED <<temporary, version, acked, load>>
       \/ Fail /\ UNCHANGED <<destination, backup>>

\* Fault: a failed second rename is taken for success.
InstallOrIgnore ==
    /\ at = "install"
    /\ \/ destination' = temporary /\ temporary' = None
       \/ UNCHANGED <<destination, temporary>>
    /\ at' = "sweep"
    /\ UNCHANGED <<backup, version, acked, load>>

\* The second rename of replaceFile.
Install ==
    /\ at = "install"
    /\ \/ destination' = temporary /\ temporary' = None /\ at' = "sweep"
       \/ at' = "restore" /\ UNCHANGED <<destination, temporary>>
    /\ UNCHANGED <<backup, version, acked, load>>

Restore ==
    /\ at = "restore"
    /\ \/ destination' = backup /\ backup' = None
       \/ UNCHANGED <<destination, backup>>
    /\ Fail

\* Fault: what the temporary file holds is acknowledged once it is gone.
SweepAcknowledgesTemporary ==
    /\ at = "sweep"
    /\ at' = "idle" /\ acked' = temporary
    /\ UNCHANGED <<files, version, load>>

SweepBackup ==
    /\ at = "sweep"
    /\ backup' \in {None, backup}
    /\ UNCHANGED <<destination, temporary>>
    /\ Done

Kill ==
    /\ at \in Saving \cup {"idle"}
    /\ at' = "killed"
    /\ UNCHANGED <<files, version, acked, load>>

-----------------------------------------------------------------------------
(* Load.                                                                   *)

\* Fault: a backup, where there is one, is preferred to the record.
LoadBackupFirst ==
    /\ reader = "idle"
    /\ since' = acked
    /\ loaded' = IF backup # None THEN backup ELSE destination
    /\ UNCHANGED <<files, at, version, acked, reader>>

LoadDestination ==
    /\ reader = "idle"
    /\ since' = acked
    /\ loaded' = destination
    /\ reader' = IF destination = None THEN "missed" ELSE "idle"
    /\ UNCHANGED <<files, at, version, acked>>

LoadBackup ==
    /\ reader = "missed"
    /\ loaded' = backup
    /\ reader' = "idle"
    /\ UNCHANGED <<files, at, version, acked, since>>

Save ==
    \/ BeginSave \/ WriteTemporary \/ Replace \/ ClearBackup
    \/ MoveAside \/ Install \/ Restore \/ SweepBackup

Next == Save \/ Kill \/ LoadDestination \/ LoadBackup

Spec == Init /\ [][Next]_vars

-----------------------------------------------------------------------------
(* Properties.                                                             *)

\* What a Load that nothing interrupts would find.
Stored == IF destination # None THEN destination ELSE backup

\* Once a save was acknowledged, some version at least as new can be found,
\* at every instant and wherever the writer is killed (D-024: every update
\* "safely replaces" the current record; store.go replaceFile).
StaysLoadable == acked > 0 => Stored # None /\ Stored >= acked

\* A Load that returns a record returns one no older than the last save
\* acknowledged before it began: a forgotten backup is never taken for the
\* record, however Load's two reads interleave with a Save.
LoadIsFresh == reader = "idle" /\ loaded # None => loaded >= since
=============================================================================
