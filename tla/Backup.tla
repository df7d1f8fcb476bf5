-------------------------------- MODULE Backup --------------------------------
(***************************************************************************)
(* Backups and restores: backup.service.ts.  A backup is a history row and *)
(* an archive made by pg_dump and tar; jobs, scheduled ticks with their    *)
(* retention, a user's deletions and one restore interleave at every       *)
(* await, and the backend may crash.  A restore replaces the database, the *)
(* history included.  safeUnlink swallows every error.                     *)
(***************************************************************************)
EXTENDS Naturals, FiniteSets

CONSTANTS
  Backups,        \* 1..n, in the order in which they are created
  RetentionCount  \* retentionCount of backup_config

VARIABLES
  history,     \* per backup, the status of its row
  job,         \* per backup, where createBackup stands
  archive,     \* finalPath exists
  scheduled,   \* backups under way that a tick started
  minuteRows,  \* rows of this minute that carry the scheduled note
  retaining,   \* rows enforceRetention has yet to delete
  deletion,    \* where deleteBackup stands, per caller
  overlooked,  \* an unlink failed, or the job wrote after it: see below
  restore,     \* [pc, db, recordings]
  dbRestored   \* a restore has touched the database

bkVars == <<history, job, archive, scheduled, minuteRows, retaining,
            deletion, overlooked, restore, dbRestored>>

\* Those who delete, one backup at a time: a user, and enforceRetention.
Removers == {"user", "retention"}
NotDeleting == [pc |-> "none", of |-> 0]

BackupIdle == [pc |-> "idle", db |-> FALSE, recordings |-> FALSE]
RowStatuses == {"none", "pending", "running", "complete", "failed"}
BackupListed(b) == history[b] # "none"

BackupInit ==
  /\ history = [b \in Backups |-> "none"]
  /\ job = [b \in Backups |-> "idle"]
  /\ archive = [b \in Backups |-> FALSE]
  /\ scheduled = {} /\ minuteRows = {} /\ retaining = {}
  /\ deletion = [d \in Removers |-> NotDeleting] /\ overlooked = {}
  /\ restore = BackupIdle
  /\ dbRestored = FALSE

DeletionUnchanged == UNCHANGED <<deletion, overlooked>>
RestoreUnchanged == UNCHANGED <<restore, dbRestored>>

\* Bound: one restore touches the database, and no backup starts after it.
RestoreBound == ~dbRestored

Newest(b) == job[b] = "idle" /\ \A c \in Backups : c < b => job[c] # "idle"

\* The row is saved pending, then running; the workspace is made.
createBackup(b) ==
  /\ Newest(b) /\ RestoreBound
  /\ history' = [history EXCEPT ![b] = "pending"]
  /\ job' = [job EXCEPT ![b] = "start"]

manualBackup(b) ==
  /\ createBackup(b)
  /\ UNCHANGED <<archive, scheduled, minuteRows, retaining>>
  /\ RestoreUnchanged /\ DeletionUnchanged

\* A tick that matches the cron expression, once per minute.
handleScheduleTick(b) ==
  /\ minuteRows = {}
  /\ createBackup(b)
  /\ scheduled' = scheduled \cup {b}
  /\ minuteRows' = {b}
  /\ UNCHANGED <<archive, retaining>> /\ RestoreUnchanged /\ DeletionUnchanged

NextMinute ==
  /\ minuteRows # {} /\ minuteRows' = {}
  /\ UNCHANGED <<history, job, archive, scheduled, retaining>>
  /\ RestoreUnchanged /\ DeletionUnchanged

StartBackup(b) ==
  /\ job[b] = "start"
  /\ history' = [history EXCEPT ![b] = "running"]
  /\ job' = [job EXCEPT ![b] = "dump"]
  /\ UNCHANGED <<archive, scheduled, minuteRows, retaining>>
  /\ RestoreUnchanged /\ DeletionUnchanged

\* The rows that pg_dump sees are not kept: a restore may bring any history.
runDatabaseDump(b) ==
  /\ job[b] = "dump"
  /\ job' = [job EXCEPT ![b] = "tar"]
  /\ UNCHANGED <<history, archive, scheduled, minuteRows, retaining>>
  /\ RestoreUnchanged /\ DeletionUnchanged

\* The volumes' archives, then the package.
runTarCommand(b) ==
  /\ job[b] = "tar"
  /\ archive' = [archive EXCEPT ![b] = TRUE]
  /\ job' = [job EXCEPT ![b] = "finish"]
  /\ UNCHANGED <<history, scheduled, minuteRows, retaining>>
  /\ RestoreUnchanged /\ DeletionUnchanged

\* A tool fails: tar may have written part of the archive.
BackupStepFails(b) ==
  /\ job[b] \in {"dump", "tar"}
  /\ archive' \in {archive, [archive EXCEPT ![b] = job[b] = "tar" \/ @]}
  /\ job' = [job EXCEPT ![b] = "catch"]
  /\ UNCHANGED <<history, scheduled, minuteRows, retaining>>
  /\ RestoreUnchanged /\ DeletionUnchanged

\* The row may have been deleted meanwhile: then requireHistory throws.  A
\* row whose deletion has tried to unlink the archive is still found.
updateHistoryComplete(b) ==
  /\ job[b] = "finish"
  /\ job' = [job EXCEPT ![b] = IF BackupListed(b) THEN "save" ELSE "catch"]
  /\ overlooked' = IF BackupListed(b) /\ \E d \in Removers : deletion[d] = [pc |-> "row", of |-> b]
                   THEN overlooked \cup {b} ELSE overlooked
  /\ UNCHANGED <<history, archive, scheduled, minuteRows, retaining, deletion>>
  /\ RestoreUnchanged

\* The row that was read is saved: one deleted meanwhile comes back, or the
\* update meets none.
SaveComplete(b) ==
  /\ job[b] = "save"
  /\ \/ history' = [history EXCEPT ![b] = "complete"]
     \/ ~BackupListed(b) /\ UNCHANGED history
  /\ job' = [job EXCEPT ![b] = IF b \in scheduled THEN "retain" ELSE "ended"]
  /\ scheduled' = scheduled \ {b}
  /\ UNCHANGED <<archive, minuteRows, retaining>>
  /\ RestoreUnchanged /\ DeletionUnchanged

\* safeUnlink: an error leaves the file and nobody is told.
safeUnlink(b) ==
  \/ archive' = [archive EXCEPT ![b] = FALSE] /\ UNCHANGED overlooked
  \/ archive[b] /\ overlooked' = overlooked \cup {b} /\ UNCHANGED archive

\* Faulty variant: the archive is left.
BackupFailedKeeps(b) ==
  /\ job[b] = "catch"
  /\ job' = [job EXCEPT ![b] = "mark"]
  /\ scheduled' = scheduled \ {b}
  /\ UNCHANGED <<history, archive, minuteRows, retaining, deletion, overlooked>>
  /\ RestoreUnchanged

\* The archive is removed first.
BackupFailed(b) ==
  /\ job[b] = "catch"
  /\ safeUnlink(b)
  /\ job' = [job EXCEPT ![b] = "mark"]
  /\ scheduled' = scheduled \ {b}
  /\ UNCHANGED <<history, minuteRows, retaining, deletion>> /\ RestoreUnchanged

\* Saving the row brings a deleted one back, and the error replaces its note.
MarkFailed(b) ==
  /\ job[b] = "mark"
  /\ history' = [history EXCEPT ![b] = "failed"]
  /\ minuteRows' = minuteRows \ {b}
  /\ job' = [job EXCEPT ![b] = "ended"]
  /\ UNCHANGED <<archive, scheduled, retaining>>
  /\ RestoreUnchanged /\ DeletionUnchanged

\* The rows beyond the newest RetentionCount, whatever their status.
Overflow ==
  {b \in Backups : BackupListed(b) /\
     Cardinality({c \in Backups : BackupListed(c) /\ c > b}) >= RetentionCount}

enforceRetention(b) ==
  /\ job[b] = "retain" /\ retaining = {}
  /\ retaining' = Overflow
  /\ job' = [job EXCEPT ![b] = "ended"]
  /\ UNCHANGED <<history, archive, scheduled, minuteRows>>
  /\ RestoreUnchanged /\ DeletionUnchanged

\* The row is looked up; a running backup may be deleted too.
deleteBackup(d, b) ==
  /\ deletion[d].pc = "none" /\ BackupListed(b)
  /\ d = "retention" => b \in retaining
  /\ deletion' = [deletion EXCEPT ![d] = [pc |-> "unlink", of |-> b]]
  /\ UNCHANGED <<history, job, archive, scheduled, minuteRows, retaining, overlooked>>
  /\ RestoreUnchanged

UnlinkArchive(d) ==
  LET b == deletion[d].of IN
  /\ deletion[d].pc = "unlink"
  /\ safeUnlink(b)
  /\ deletion' = [deletion EXCEPT ![d].pc = "row"]
  /\ UNCHANGED <<history, job, scheduled, minuteRows, retaining>> /\ RestoreUnchanged

\* The row goes, or the query fails and enforceRetention is over.
DeleteHistoryRow(d) ==
  LET b == deletion[d].of IN
  /\ deletion[d].pc = "row"
  /\ \/ /\ history' = [history EXCEPT ![b] = "none"]
        /\ minuteRows' = minuteRows \ {b}
        /\ retaining' = IF d = "retention" THEN retaining \ {b} ELSE retaining
     \/ /\ retaining' = IF d = "retention" THEN {} ELSE retaining
        /\ UNCHANGED <<history, minuteRows>>
  /\ deletion' = [deletion EXCEPT ![d] = NotDeleting]
  /\ UNCHANGED <<job, archive, scheduled, overlooked>> /\ RestoreUnchanged

\* deleteBackup throws for a row that somebody else deleted.
RetentionStops ==
  /\ deletion["retention"].pc = "none"
  /\ \E b \in retaining : ~BackupListed(b)
  /\ retaining' = {}
  /\ UNCHANGED <<history, job, archive, scheduled, minuteRows>>
  /\ RestoreUnchanged /\ DeletionUnchanged

\* The backend crashes: nothing resumes a job, a deletion or a restore.
BackendCrashes ==
  /\ \/ \E b \in Backups : job[b] \notin {"idle", "ended", "lost"}
     \/ \E d \in Removers : deletion[d].pc # "none"
  /\ job' = [b \in Backups |-> CASE job[b] = "idle" -> "idle"
                                [] job[b] \in {"retain", "ended"} -> "ended"
                                [] OTHER -> "lost"]
  /\ scheduled' = {} /\ retaining' = {}
  /\ deletion' = [d \in Removers |-> NotDeleting]
  /\ restore' = BackupIdle
  /\ UNCHANGED <<history, archive, minuteRows, overlooked, dbRestored>>

JobsUnchanged ==
  UNCHANGED <<job, archive, scheduled, retaining, deletion, overlooked>>

\* An archive that was downloaded is uploaded and unpacked.
restoreBackup(b) ==
  /\ RestoreBound
  /\ restore.pc = "idle" /\ archive[b] /\ job[b] = "ended"
  /\ \E db, recordings \in BOOLEAN :
       /\ db \/ recordings
       /\ restore' = [pc |-> IF db THEN "db" ELSE "check",
                      db |-> db, recordings |-> recordings]
  /\ UNCHANGED <<history, minuteRows, dbRestored>> /\ JobsUnchanged

\* pg_restore replaces table after table, without one transaction; then the
\* telephony files are written again from the restored rows.
runDatabaseRestore ==
  /\ restore.pc = "db"
  /\ dbRestored' = TRUE
  /\ \/ /\ history' \in [Backups -> RowStatuses]
        /\ minuteRows' = {}
        /\ restore' = [restore EXCEPT !.pc = IF restore.recordings THEN "check" ELSE "restart"]
     \/ /\ restore' = [restore EXCEPT !.pc = "error"]
        /\ \/ history' \in [Backups -> RowStatuses]
           \/ UNCHANGED history
        /\ UNCHANGED minuteRows
  /\ JobsUnchanged

\* The archive may hold no volumes: they are only looked for after the
\* database has been replaced.
CheckVolumes ==
  /\ restore.pc = "check"
  /\ \E pc \in {"recordings", "error"} : restore' = [restore EXCEPT !.pc = pc]
  /\ UNCHANGED <<history, minuteRows, dbRestored>> /\ JobsUnchanged

\* The volume is emptied before it is unpacked: an unpacking that fails
\* leaves it without its files.
restoreVolume(v, next) ==
  /\ restore.pc = v
  /\ \E pc \in {next, "error"} : restore' = [restore EXCEPT !.pc = pc]
  /\ UNCHANGED <<history, minuteRows, dbRestored>> /\ JobsUnchanged

\* asterisk, and stasis too after a database restore.
restartAffectedServices ==
  /\ restore.pc = "restart"
  /\ restore' \in {BackupIdle, [restore EXCEPT !.pc = "error"]}
  /\ UNCHANGED <<history, minuteRows, dbRestored>> /\ JobsUnchanged

RestoreFailed ==
  /\ restore.pc = "error"
  /\ restore' = BackupIdle
  /\ UNCHANGED <<history, minuteRows, dbRestored>> /\ JobsUnchanged

BackupNext ==
  \/ \E b \in Backups :
       \/ manualBackup(b) \/ handleScheduleTick(b) \/ StartBackup(b)
       \/ runDatabaseDump(b) \/ runTarCommand(b) \/ BackupStepFails(b)
       \/ updateHistoryComplete(b) \/ SaveComplete(b) \/ BackupFailed(b)
       \/ MarkFailed(b) \/ enforceRetention(b) \/ restoreBackup(b)
  \/ \E d \in Removers :
       \/ (\E b \in Backups : deleteBackup(d, b)) \/ UnlinkArchive(d) \/ DeleteHistoryRow(d)
  \/ BackendCrashes \/ NextMinute \/ RetentionStops \/ runDatabaseRestore \/ CheckVolumes
  \/ restoreVolume("recordings", "audio") \/ restoreVolume("audio", "restart")
  \/ restartAffectedServices \/ RestoreFailed

\* A backup that failed, or was deleted, leaves no archive behind when its
\* job has ended, whatever deletions, retention passes and crashes met it, as
\* long as no restore has replaced the history.  Two cases are left out: an
\* unlink that failed, and a job that was found complete after a deletion
\* had unlinked and before it dropped the row.  (A crash may leave the
\* archive of a job it ended.)
NoStrayArchive ==
  \A b \in Backups \ overlooked :
    job[b] = "ended" /\ history[b] \in {"none", "failed"} /\ ~dbRestored => ~archive[b]
===============================================================================
