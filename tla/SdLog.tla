------------------------------- MODULE SdLog -------------------------------
(***************************************************************************)
(* The SD log (sdlog_module.cpp): a thread that finds a free file name,    *)
(* opens it, and then batches one record per period, writes full batches   *)
(* and syncs after every SyncEvery of them.  Any call of the file system   *)
(* may fail; a card may be pulled, or the power cut, at any time.          *)
(***************************************************************************)
EXTENDS Naturals

CONSTANTS
  BatchRecords,   \* records that fit into g_write_batch
  SyncEvery,      \* batches between two syncs (50)
  LogFiles,       \* kMaximumLogFiles
  MaxRecords      \* bound: records of a log

ASSUME SdAssumption ==
  /\ BatchRecords \in Nat \ {0} /\ SyncEvery \in Nat \ {0}
  /\ LogFiles \in Nat /\ MaxRecords \in Nat

VARIABLES
  sdPc,       \* SdLogModule::RunLoop
  volume,     \* mounted, the file is open
  name,       \* index of the file name tried
  batch,      \* records in g_write_batch
  sequence,   \* records made
  saved,      \* history: records written at least once, and of those the ones synced
  syncs,      \* sync_counter
  broken      \* history: a write or sync failed

sdVars == <<sdPc, volume, name, batch, sequence, saved, syncs, broken>>

Released == [mounted |-> FALSE, open |-> FALSE]

SdInit ==
  /\ sdPc = "disk"
  /\ volume = Released
  /\ name = 0
  /\ batch = 0
  /\ sequence = 0
  /\ saved = [written |-> 0, synced |-> 0]
  /\ syncs = 0
  /\ broken = FALSE

logVars == <<batch, sequence, saved, syncs, broken>>

\* disk_access_init, then fs_mount: a failure disables the log.
InitDisk ==
  /\ sdPc = "disk"
  /\ sdPc' \in {"mount", "off"}
  /\ UNCHANGED <<volume, name, logVars>>

MountVolume ==
  /\ sdPc = "mount"
  /\ \/ sdPc' = "stat" /\ volume' = [volume EXCEPT !.mounted = TRUE]
     \/ sdPc' = "off" /\ UNCHANGED volume
  /\ UNCHANGED <<name, logVars>>

\* Mutant: a name that cannot be had ends the thread with the volume mounted.
GiveUpMounted ==
  /\ sdPc' = "off"
  /\ UNCHANGED volume

GiveUp ==
  /\ sdPc' = "off"
  /\ volume' = Released

\* fs_stat: the name is taken, free, or cannot be looked up; or all are taken.
StatName ==
  /\ sdPc = "stat"
  /\ \/ name < LogFiles /\ name' = name + 1 /\ UNCHANGED <<sdPc, volume>>
     \/ name < LogFiles /\ sdPc' = "open" /\ UNCHANGED <<name, volume>>
     \/ GiveUp /\ UNCHANGED name
  /\ UNCHANGED logVars

OpenLog ==
  /\ sdPc = "open"
  /\ \/ sdPc' = "record" /\ volume' = [volume EXCEPT !.open = TRUE]
     \/ GiveUp
  /\ UNCHANGED <<name, logVars>>

\* Mutant: the batch is taken for full one record too late.
AppendRecordPastEnd ==
  /\ sdPc = "record" /\ sequence < MaxRecords
  /\ sequence' = sequence + 1
  /\ batch' = batch + 1
  /\ sdPc' = IF batch' > BatchRecords THEN "write" ELSE "record"
  /\ UNCHANGED <<volume, name, saved, syncs, broken>>

\* One period: a record joins the batch.  The check before it never finds the
\* batch full, as the one after it writes a full batch.
AppendRecord ==
  /\ sdPc = "record" /\ sequence < MaxRecords
  /\ sequence' = sequence + 1
  /\ batch' = batch + 1
  /\ sdPc' = IF batch' = BatchRecords THEN "write" ELSE "record"
  /\ UNCHANGED <<volume, name, saved, syncs, broken>>

\* fs_write of a full batch; a short write ends the loop with the batch kept.
WriteBatch ==
  /\ sdPc = "write"
  /\ \/ /\ saved' = [saved EXCEPT !.written = @ + batch]
        /\ batch' = 0
        /\ syncs' = syncs + 1
        /\ sdPc' = IF syncs' >= SyncEvery THEN "sync" ELSE "record"
        /\ UNCHANGED broken
     \/ /\ \E n \in 0 .. batch - 1 : saved' = [saved EXCEPT !.written = @ + n]
        /\ sdPc' = "rest"
        /\ broken' = TRUE
        /\ UNCHANGED <<batch, syncs>>
  /\ UNCHANGED <<volume, name, sequence>>

SyncLog ==
  /\ sdPc = "sync"
  /\ \/ /\ saved' = [saved EXCEPT !.synced = saved.written]
        /\ syncs' = 0
        /\ sdPc' = "record"
        /\ UNCHANGED broken
     \/ /\ sdPc' = "rest"
        /\ broken' = TRUE
        /\ UNCHANGED <<saved, syncs>>
  /\ UNCHANGED <<volume, name, batch, sequence>>

\* After the loop: the batch that is left (again, after a short write), a sync,
\* and the file and the volume are given back whatever they return.
CloseLog ==
  /\ sdPc = "rest"
  /\ GiveUp
  /\ \E n \in saved.written .. sequence, synced \in BOOLEAN :
       saved' = [written |-> n, synced |-> IF synced THEN n ELSE saved.synced]
  /\ UNCHANGED <<name, batch, sequence, syncs, broken>>

SdNext ==
  \/ InitDisk \/ MountVolume \/ StatName \/ OpenLog
  \/ AppendRecord \/ WriteBatch \/ SyncLog \/ CloseLog

SdSpec == SdInit /\ [][SdNext]_sdVars

-----------------------------------------------------------------------------
(* Properties.                                                               *)

SdTypeOK ==
  /\ sdPc \in {"disk", "mount", "stat", "open", "record", "write", "sync", "rest", "off"}
  /\ volume \in [mounted : BOOLEAN, open : BOOLEAN]
  /\ name \in 0 .. LogFiles
  /\ batch \in 0 .. BatchRecords
  /\ sequence \in 0 .. MaxRecords
  /\ saved \in [written : 0 .. MaxRecords, synced : 0 .. MaxRecords]
  /\ syncs \in 0 .. SyncEvery
  /\ broken \in BOOLEAN

(***************************************************************************)
(* A power cut costs the records since the last sync, and these are never  *)
(* more than SyncEvery batches, the one being filled included, while the   *)
(* card works; every record before them is in the file, and the volume of  *)
(* a log that ended was given back (RunLoop).                              *)
(***************************************************************************)
PowerCutBound ==
  /\ ~broken => /\ saved.written + batch = sequence
                /\ sequence - saved.synced <= SyncEvery * BatchRecords
  /\ sdPc = "off" => volume = Released
=============================================================================
