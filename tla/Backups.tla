------------------------------ MODULE Backups -------------------------------
(***************************************************************************)
(* Database backups: dump files on disk, the db_backups rows that describe *)
(* them, and restores.  The rows live in the database they back up: a dump *)
(* carries the rows of its moment, and a restore brings them back.         *)
(*                                                                         *)
(* A restore is asked for in the API (checks, then commit), and run by a   *)
(* worker: a safety dump, the DROP that ends every other connection, the   *)
(* load, and the registration of files without a row.  Tasks are           *)
(* acknowledged late: a worker that dies leaves its task to be run again.  *)
(* Files are numbered in the order they are named; the business data is a  *)
(* version number.                                                         *)
(***************************************************************************)
EXTENDS Naturals, FiniteSets

CONSTANTS
  MaxFiles,      \* bound: backup files named
  KeepLast,      \* backup.keep_last_n, 0 = all
  Encrypted,     \* BACKUP_ENCRYPTION_KEY is set
  MaxData,       \* bound: versions of the business data
  MaxDeletes,    \* bound: deletions by an admin
  BackupCrashes  \* bound: deaths of a worker

ASSUME BackupAssumption ==
  /\ {MaxFiles, KeepLast, MaxData, MaxDeletes, BackupCrashes} \subseteq Nat
  /\ Encrypted \in BOOLEAN

VARIABLES
  backupRow,     \* db_backups.status by file, "none" without a row
  origin,        \* by file: what named it, "unused" before; "locked" is encrypted
  disk,          \* by file: {} or {[rows, data]}, what was dumped into it
  data,          \* the business data
  dbUp,          \* the database exists and is loaded
  job,           \* by file: its run_backup
  part,          \* by file: the dump being written
  restore,       \* by safety file: {} or {[target, pc, base]}, its run_restore
  asked,         \* targets whose restore request has passed its checks
  rolledBack,    \* a dump with a row marked as restoring has been restored
  restores,      \* completed loads
  baseline,      \* the base of the restore that dropped the database last
  deletes, backupCrashed

backupVars == <<backupRow, origin, disk, data, dbUp, job, part, restore, asked,
                rolledBack, restores, baseline, deletes, backupCrashed>>

Files == 1..MaxFiles
NoRows == [f \in Files |-> "none"]
RowStatuses == {"none", "pending", "running", "success", "failed", "restoring",
                "restore_failed"}
Running == {"dumping", "dumped"}
Restoring == {"safety", "drop", "load", "reconcile"}

BackupTypeOK ==
  /\ backupRow \in [Files -> RowStatuses]
  /\ origin \in [Files -> {"unused", "plain", "locked", "upload", "safety"}]
  /\ job \in [Files -> {"none", "queued", "ok", "bad"} \cup Running]
  /\ \A f \in Files : /\ disk[f] # {} \/ backupRow[f] # "none" => origin[f] # "unused"
                      /\ Cardinality(disk[f]) <= 1
                      /\ restore[f] # {} => origin[f] = "safety"
  /\ data \in 0..MaxData /\ baseline \in 0..MaxData

BackupInit ==
  /\ backupRow = NoRows /\ origin = [f \in Files |-> "unused"]
  /\ disk = [f \in Files |-> {}] /\ data = 0 /\ dbUp = TRUE
  /\ job = [f \in Files |-> "none"] /\ part = [f \in Files |-> {}]
  /\ restore = [f \in Files |-> {}] /\ asked = {}
  /\ rolledBack = FALSE /\ restores = 0 /\ baseline = 0
  /\ deletes = 0 /\ backupCrashed = 0

-----------------------------------------------------------------------------
(* Rows.  An UPDATE of a row that is gone changes nothing.                  *)

SetRow(f, status) ==
  IF backupRow[f] = "none" THEN backupRow ELSE [backupRow EXCEPT ![f] = status]

(* The next file name: timestamps grow.                                     *)
NextName(f) == origin[f] = "unused" /\ \A g \in Files : g < f => origin[g] # "unused"

(* A row in one commit, then the task.                                      *)
NewBackup(f, name) ==
  /\ dbUp /\ NextName(f)
  /\ origin' = [origin EXCEPT ![f] = name]
  /\ backupRow' = [backupRow EXCEPT ![f] = "pending"]
  /\ job' = [job EXCEPT ![f] = "queued"]
  /\ UNCHANGED <<disk, data, dbUp, part, restore, asked, rolledBack, restores,
                 baseline, deletes, backupCrashed>>

CreateBackup(f) == NewBackup(f, IF Encrypted THEN "locked" ELSE "plain")

(* What the schedule makes is never encrypted.                              *)
CheckBackupSchedule(f) == NewBackup(f, "plain")

(* A dump of another instance: complete at once, with that instance's rows. *)
UploadBackup(f) ==
  /\ dbUp /\ NextName(f)
  /\ origin' = [origin EXCEPT ![f] = "upload"]
  /\ backupRow' = [backupRow EXCEPT ![f] = "success"]
  /\ disk' = [disk EXCEPT ![f] = {[rows |-> NoRows, data |-> 0]}]
  /\ UNCHANGED <<data, dbUp, job, part, restore, asked, rolledBack, restores,
                 baseline, deletes, backupCrashed>>

(* The file of an upload does not have the name delete_backup expects: it   *)
(* stays.                                                                   *)
DeleteBackup(f) ==
  /\ dbUp /\ deletes < MaxDeletes /\ deletes' = deletes + 1
  /\ backupRow[f] # "none"
  /\ backupRow' = [backupRow EXCEPT ![f] = "none"]
  /\ disk' = IF origin[f] = "upload" THEN disk ELSE [disk EXCEPT ![f] = {}]
  /\ UNCHANGED <<origin, data, dbUp, job, part, restore, asked, rolledBack,
                 restores, baseline, backupCrashed>>

Work ==
  /\ dbUp /\ data < MaxData /\ data' = data + 1
  /\ UNCHANGED <<backupRow, origin, disk, dbUp, job, part, restore, asked,
                 rolledBack, restores, baseline, deletes, backupCrashed>>

-----------------------------------------------------------------------------
(* _run_backup_sync.                                                        *)

BackupStart(f) ==
  /\ dbUp /\ job[f] = "queued"
  /\ backupRow' = SetRow(f, "running")
  /\ job' = [job EXCEPT ![f] = IF backupRow[f] = "none" THEN "bad" ELSE "dumping"]
  /\ UNCHANGED <<origin, disk, data, dbUp, part, restore, asked, rolledBack,
                 restores, baseline, deletes, backupCrashed>>

BackupDump(f) ==
  /\ dbUp /\ job[f] = "dumping"
  /\ part' = [part EXCEPT ![f] = {[rows |-> backupRow, data |-> data]}]
  /\ job' = [job EXCEPT ![f] = "dumped"]
  /\ UNCHANGED <<backupRow, origin, disk, data, dbUp, restore, asked, rolledBack,
                 restores, baseline, deletes, backupCrashed>>

(* _enforce_keep_last_n: of the successful backups only.                    *)
Kept(rows) ==
  IF KeepLast = 0 THEN Files
  ELSE {f \in Files : rows[f] = "success" =>
          Cardinality({g \in Files : g > f /\ rows[g] = "success"}) < KeepLast}

BackupFinish(f) ==
  LET done == SetRow(f, "success") IN
  /\ dbUp /\ job[f] = "dumped"
  /\ backupRow' = [g \in Files |-> IF g \in Kept(done) THEN done[g] ELSE "none"]
  /\ disk' = [g \in Files |-> IF g \notin Kept(done) THEN {}
                              ELSE IF g = f THEN part[f] ELSE disk[g]]
  /\ job' = [job EXCEPT ![f] = "ok"] /\ part' = [part EXCEPT ![f] = {}]
  /\ UNCHANGED <<origin, data, dbUp, restore, asked, rolledBack, restores,
                 baseline, deletes, backupCrashed>>

(* Mutant of FailedRow: the failure is not recorded.                        *)
Unrecorded(f) == backupRow

FailedRow(f) == SetRow(f, "failed")

BackupFail(f) ==
  /\ dbUp /\ job[f] \in Running
  /\ backupRow' = FailedRow(f)
  /\ job' = [job EXCEPT ![f] = "bad"] /\ part' = [part EXCEPT ![f] = {}]
  /\ UNCHANGED <<origin, disk, data, dbUp, restore, asked, rolledBack, restores,
                 baseline, deletes, backupCrashed>>

-----------------------------------------------------------------------------
(* restore_backup: the checks, and in a second step the commit.             *)

RestoreAllowed(t) ==
  /\ backupRow[t] = "success" /\ disk[t] # {}
  /\ \A f \in Files : backupRow[f] # "restoring"

AskRestore(t) ==
  /\ dbUp /\ t \notin asked /\ RestoreAllowed(t)
  /\ asked' = asked \cup {t}
  /\ UNCHANGED <<backupRow, origin, disk, data, dbUp, job, part, restore,
                 rolledBack, restores, baseline, deletes, backupCrashed>>

(* The commit fails when the row is gone.                                   *)
CommitRestore(t, s) ==
  /\ t \in asked /\ asked' = asked \ {t}
  /\ IF ~dbUp \/ backupRow[t] = "none"
     THEN s = 1 /\ UNCHANGED <<backupRow, origin, restore>>
     ELSE /\ NextName(s)
          /\ origin' = [origin EXCEPT ![s] = "safety"]
          /\ backupRow' = [backupRow EXCEPT ![s] = "pending", ![t] = "restoring"]
          /\ restore' = [restore EXCEPT ![s] = {[target |-> t, pc |-> "queued", base |-> 0]}]
  /\ UNCHANGED <<disk, data, dbUp, job, part, rolledBack, restores, baseline,
                 deletes, backupCrashed>>

-----------------------------------------------------------------------------
(* run_restore.                                                             *)

Goto(s, pc) == restore' = [restore EXCEPT ![s] = {[r EXCEPT !.pc = pc] : r \in @}]

At(s, pc, t) == \E r \in restore[s] : r.target = t /\ r.pc = pc

RefusedRow(t) == SetRow(t, "restore_failed")

(* The first query fails on a database that was dropped and never loaded.   *)
(* What the restore finds in it is its base.                                *)
RestoreStart(s, t) ==
  /\ At(s, "queued", t)
  /\ IF ~dbUp \/ backupRow[t] = "none"
     THEN Goto(s, "failed") /\ UNCHANGED <<backupRow, job>>
     ELSE IF disk[t] = {}
     THEN Goto(s, "failed") /\ backupRow' = RefusedRow(t) /\ UNCHANGED job
     ELSE /\ restore' = [restore EXCEPT ![s] =
                          {[target |-> t, pc |-> "safety", base |-> data]}]
          /\ job' = [job EXCEPT ![s] = "queued"] /\ UNCHANGED backupRow
  /\ UNCHANGED <<origin, disk, data, dbUp, part, asked, rolledBack, restores,
                 baseline, deletes, backupCrashed>>

(* Mutant of SafetyTaken: a failed safety dump does not stop the restore.   *)
SafetyTried(s) == job[s] \in {"ok", "bad"}

SafetyTaken(s) == job[s] = "ok"

AfterSafety(s, t) ==
  /\ At(s, "safety", t) /\ job[s] \in {"ok", "bad"} /\ dbUp
  /\ IF SafetyTaken(s)
     THEN Goto(s, "drop") /\ backupRow' = SetRow(t, "restoring")
     ELSE Goto(s, "failed") /\ backupRow' = RefusedRow(t)
  /\ UNCHANGED <<origin, disk, data, dbUp, job, part, asked, rolledBack, restores,
                 baseline, deletes, backupCrashed>>

(* Every other connection is terminated: running dumps end without a row to *)
(* record it in, and leave their file only if it had been renamed already.  *)
DropDatabase(s, t) ==
  /\ At(s, "drop", t)
  /\ dbUp' = FALSE /\ backupRow' = NoRows
  /\ \E renamed \in SUBSET {f \in Files : job[f] = "dumped"} :
       disk' = [f \in Files |-> IF f \in renamed THEN part[f] ELSE disk[f]]
  /\ job' = [f \in Files |-> IF job[f] \in Running THEN "bad" ELSE job[f]]
  /\ part' = [f \in Files |-> {}]
  /\ restore' = [f \in Files |->
       {[r EXCEPT !.pc = IF f = s THEN "load" ELSE IF @ = "safety" THEN "failed" ELSE @] :
        r \in restore[f]}]
  /\ \E r \in restore[s] : baseline' = r.base
  /\ UNCHANGED <<origin, data, asked, rolledBack, restores, deletes, backupCrashed>>

(* A dump holds the marks of its moment.  A restore beside this one now     *)
(* finds what was loaded, if that is older.                                 *)
LoadDump(s, t) ==
  /\ At(s, "load", t)
  /\ \E d \in disk[t] :
       /\ backupRow' = d.rows /\ data' = d.data
       /\ rolledBack' = (rolledBack \/ \E f \in Files : d.rows[f] = "restoring")
       /\ restore' = [f \in Files |->
            {[r EXCEPT !.pc = IF f = s THEN "reconcile" ELSE @,
                       !.base = IF d.data < @ THEN d.data ELSE @] : r \in restore[f]}]
  /\ dbUp' = TRUE /\ restores' = restores + 1
  /\ UNCHANGED <<origin, disk, job, part, asked, baseline, deletes, backupCrashed>>

(* psql fails, or the file is gone: the database stays as it was left, and  *)
(* neither the mark nor the registration finds a table to write to.         *)
LoadFails(s, t) ==
  /\ At(s, "load", t)
  /\ Goto(s, "failed")
  /\ UNCHANGED <<backupRow, origin, disk, data, dbUp, job, part, asked, rolledBack,
                 restores, baseline, deletes, backupCrashed>>

(* The names _reconcile_backup_files looks for: not those of encrypted      *)
(* files, the safety dump among them.                                       *)
Plain(f) == origin[f] \in {"upload", "plain"} \/ ~Encrypted

Reconcile(s, t) ==
  /\ At(s, "reconcile", t) /\ dbUp
  /\ backupRow' = [f \in Files |->
       IF disk[f] # {} /\ Plain(f) /\ backupRow[f] = "none" THEN "success" ELSE backupRow[f]]
  /\ Goto(s, "done")
  /\ UNCHANGED <<origin, disk, data, dbUp, job, part, asked, rolledBack, restores,
                 baseline, deletes, backupCrashed>>

(* A worker dies: its task is delivered again, from the start.              *)
BackupCrash(f) ==
  /\ backupCrashed < BackupCrashes /\ backupCrashed' = backupCrashed + 1
  /\ \/ /\ job[f] \in Running /\ restore[f] = {}
        /\ job' = [job EXCEPT ![f] = "queued"] /\ UNCHANGED restore
     \/ /\ \E r \in restore[f] : r.pc \in Restoring
        /\ Goto(f, "queued")
        /\ job' = [job EXCEPT ![f] = "none"]
  /\ part' = [part EXCEPT ![f] = {}]
  /\ UNCHANGED <<backupRow, origin, disk, data, dbUp, asked, rolledBack, restores,
                 baseline, deletes>>

-----------------------------------------------------------------------------
RestoreStep(s) ==
  \E t \in Files :
    \/ RestoreStart(s, t)
    \/ AfterSafety(s, t)
    \/ DropDatabase(s, t)
    \/ LoadDump(s, t)
    \/ LoadFails(s, t)
    \/ Reconcile(s, t)

BackupStep(f) == BackupStart(f) \/ BackupDump(f) \/ BackupFinish(f) \/ BackupFail(f)

BackupNext ==
  \/ \E f \in Files :
       \/ CreateBackup(f) \/ CheckBackupSchedule(f)
       \/ UploadBackup(f) \/ DeleteBackup(f)
       \/ BackupStep(f) \/ RestoreStep(f)
       \/ AskRestore(f) \/ \E s \in Files : CommitRestore(f, s)
       \/ BackupCrash(f)
  \/ Work

BackupSpec == BackupInit /\ [][BackupNext]_backupVars

(* The workers go on with the tasks they have.                              *)
BackupFairness ==
  \A f \in Files : WF_backupVars(BackupStep(f)) /\ WF_backupVars(RestoreStep(f))

-----------------------------------------------------------------------------
(* Until a restore replaces the table, a row that says success has its      *)
(* file: whatever dumps, retention and deletions overlapped.                *)
SuccessHasFile ==
  restores = 0 => \A f \in Files : backupRow[f] = "success" => disk[f] # {}

(* The database is only gone while a complete dump of what it held when the *)
(* restore that dropped it was taken up is on disk, unless an admin deleted *)
(* it or KeepLast files were named after the safety dump: their success     *)
(* deletes it, even before the restore it was taken for.                    *)
NewerFiles(s) == {f \in Files : f > s /\ origin[f] # "unused"}

DroppedIsOnDisk ==
  ~dbUp /\ deletes = 0 =>
    \/ \E f \in Files : \E d \in disk[f] : d.data >= baseline
    \/ \E s \in Files : /\ restore[s] # {} /\ KeepLast > 0
                        /\ Cardinality(NewerFiles(s)) >= KeepLast

InFlight(t) == \E s \in Files : \E r \in restore[s] :
                 r.target = t /\ r.pc \notin {"done", "failed"}

(* A row says "restoring" only while a restore of it is on its way: the     *)
(* check that refuses a second restore rests on it.  So long as no dump     *)
(* with such a row is restored (a safety dump has one, and so has any       *)
(* backup taken under a restore), and no restore broke the database.        *)
RestoringIsInFlight ==
  ~rolledBack => \A t \in Files : dbUp /\ backupRow[t] = "restoring" => InFlight(t)

(* What can be restored stays so, and what is marked as restoring is.       *)
BackupsKept == SuccessHasFile /\ DroppedIsOnDisk /\ RestoringIsInFlight

(* A backup somebody asked for is not left pending or running, as long as   *)
(* no restore interferes.  (A safety dump is, when its target is deleted    *)
(* before the worker takes the restore up.)                                 *)
BackupSettles ==
  \A f \in Files :
    origin[f] # "safety" /\ backupRow[f] \in {"pending", "running"}
      ~> backupRow[f] \notin {"pending", "running"} \/ restores > 0 \/ ~dbUp

=============================================================================
