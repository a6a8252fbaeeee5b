------------------------------- MODULE Backups -------------------------------
(***************************************************************************)
(* The desktop host's ledger of remote filesystem backups.  The Agent asks *)
(* for a target, works on the server over SSH and reports the end; the     *)
(* host keeps one row per backup file and checks it both times.  Nothing   *)
(* holds between the two: another task's call, a plan revision or the end  *)
(* of the sidecar may come in between.                                     *)
(***************************************************************************)
EXTENDS Naturals, FiniteSets

CONSTANTS
  Files,        \* backup paths, each new when a backup is made; numbers ordered by creation
  Owners,       \* investigation tasks
  ScanLimit,    \* the most rows a retention scan returns
  MaxJobs       \* bound: filesystem calls in a behaviour

ASSUME BackupsAssumption ==
  /\ Files \subseteq Nat /\ IsFiniteSet(Files) /\ ScanLimit \in Nat /\ MaxJobs \in Nat

VARIABLES
  ledger,   \* filesystem_backups: status and owner of each row
  remote,   \* backup files on the server
  bound,    \* tasks whose current plan step approves a rotation, and the items it names
  scanned,  \* what each task's Agent last saw of the server's backups
  jobs,     \* calls in flight
  started   \* calls so far

backupVars == <<ledger, remote, bound, scanned, jobs, started>>

NoBackup == [status |-> "none"]
Available == {b \in Files : ledger[b].status = "available"}

BackupsInit ==
  /\ ledger = [b \in Files |-> NoBackup]
  /\ remote = {} /\ jobs = {} /\ started = 0
  /\ bound = [t \in Owners |-> {}]
  /\ scanned = [t \in Owners |-> {}]

Begin(j) == started < MaxJobs /\ started' = started + 1 /\ jobs' = jobs \union {j}
Drop(j) == jobs' = jobs \ {j}
Step(j, at) == jobs' = (jobs \ {j}) \union {[j EXCEPT !.at = at]}

\* The task's plan gets to a step that approves a rotation of these items, or past it.
PlanMoves(t, items) ==
  /\ bound[t] # items
  /\ bound' = [bound EXCEPT ![t] = items]
  /\ UNCHANGED <<ledger, remote, scanned, jobs, started>>

\* find_available_filesystem_backup, and the owner it belongs to.
OwnBackup(t, b) == b \in Available /\ ledger[b].owner = t

\* cross_task_cleanup_is_plan_bound: the step that is current now names the item.
cross_task_cleanup_is_plan_bound(t, b) == b \in bound[t]

\* Another task's backup is removed only in a batch its plan step names.
MayClean(t, b, batch) ==
  b \in Available /\ (ledger[b].owner = t \/ (batch /\ cross_task_cleanup_is_plan_bound(t, b)))

----------------------------------------------------------------------------
(* Backup *)

\* Mutant of NewPath: the path is only checked against the server.
NewPathOnServer(b) == b \notin remote

\* backup_token: the path carries a random token, so it is new everywhere.
NewPath(b) ==
  /\ ledger[b].status = "none" /\ b \notin remote
  /\ \A j \in jobs : b \notin j.items

\* handle_ssh_filesystem_backup_target, files in the order of their numbers.
BackupTarget(t, b) ==
  /\ NewPath(b)
  /\ \A c \in Files : c < b => ledger[c].status # "none" \/ c \in remote \/ \E j \in jobs : c \in j.items
  /\ Begin([op |-> "backup", at |-> "target", task |-> t, items |-> {b}, batch |-> FALSE])
  /\ UNCHANGED <<ledger, remote, bound, scanned>>

BackupCopied(j) ==
  /\ j.op = "backup" /\ j.at = "target"
  /\ remote' = remote \union j.items
  /\ Step(j, "report")
  /\ UNCHANGED <<ledger, bound, scanned, started>>

\* insert_filesystem_backup: an id that exists is an error.
insert_filesystem_backup(b, t) ==
  ledger' = IF ledger[b].status = "none"
            THEN [ledger EXCEPT ![b] = [status |-> "available", owner |-> t]] ELSE ledger

\* handle_filesystem_backup_register.  The file stays on the server when the row is not written.
BackupRegister(j) ==
  /\ j.op = "backup" /\ j.at = "report"
  /\ \/ \A b \in j.items : insert_filesystem_backup(b, j.task)
     \/ UNCHANGED ledger
  /\ Drop(j)
  /\ UNCHANGED <<remote, bound, scanned, started>>

----------------------------------------------------------------------------
(* Restore *)

\* handle_ssh_filesystem_restore_target
RestoreTarget(t, b) ==
  /\ OwnBackup(t, b)
  /\ Begin([op |-> "restore", at |-> "target", task |-> t, items |-> {b}, batch |-> FALSE])
  /\ UNCHANGED <<ledger, remote, bound, scanned>>

\* The file is copied back if it is still there; otherwise the call fails on the server.
RestoreDone(j) ==
  /\ j.op = "restore" /\ j.at = "target"
  /\ IF j.items \subseteq remote THEN Step(j, "report") ELSE Drop(j)
  /\ UNCHANGED <<ledger, remote, bound, scanned, started>>

\* Mutant of Consume: the row need not be available any more.
ConsumeAny(b, status) ==
  ledger' = IF ledger[b].status # "none" THEN [ledger EXCEPT ![b].status = status] ELSE ledger

\* mark_filesystem_backup_restored and mark_filesystem_backup_deleted: from 'available' alone.
Consume(b, status) ==
  ledger' = IF b \in Available THEN [ledger EXCEPT ![b].status = status] ELSE ledger

\* handle_filesystem_backup_restored reads the row, then writes it.
RestoreReport(j) ==
  /\ j.op = "restore" /\ j.at = "report"
  /\ IF \A b \in j.items : OwnBackup(j.task, b) THEN Step(j, "mark") ELSE Drop(j)
  /\ UNCHANGED <<ledger, remote, bound, scanned, started>>

RestoreMark(j) ==
  /\ j.op = "restore" /\ j.at = "mark"
  /\ \A b \in j.items : Consume(b, "restored")
  /\ Drop(j)
  /\ UNCHANGED <<remote, bound, scanned, started>>

----------------------------------------------------------------------------
(* Cleanup *)

\* handle_filesystem_backup_retention_scan: the newest rows of the server, whoever owns them.
RetentionScan(t) ==
  /\ LET newest == {b \in Available : Cardinality({c \in Available : c > b}) < ScanLimit}
     IN  scanned[t] # newest /\ scanned' = [scanned EXCEPT ![t] = newest]
  /\ UNCHANGED <<ledger, remote, bound, jobs, started>>

\* handle_filesystem_backup_list_query: the task's own rows, the newest first.
ListQuery(t) ==
  /\ LET own == {b \in Available : ledger[b].owner = t}
         newest == {b \in own : Cardinality({c \in own : c > b}) < ScanLimit}
     IN  scanned[t] # newest /\ scanned' = [scanned EXCEPT ![t] = newest]
  /\ UNCHANGED <<ledger, remote, bound, jobs, started>>

\* handle_ssh_filesystem_cleanup_target: a single item must be clean, of a batch the ready
\* items are handed out and the others skipped.
CleanupTarget(t, items, batch) ==
  /\ items # {} /\ items \subseteq scanned[t] /\ (~batch => Cardinality(items) = 1)
  /\ LET ready == {b \in items : MayClean(t, b, batch)} IN
     /\ ready # {}
     /\ Begin([op |-> "cleanup", at |-> "target", task |-> t, items |-> ready, batch |-> batch])
  /\ UNCHANGED <<ledger, remote, bound, scanned>>

\* The server removes one item after the other; an item that is not there is an error of its own.
CleanupRemoves(j, b) ==
  /\ j.op = "cleanup" /\ j.at = "target" /\ b \in j.items \cap remote
  /\ remote' = remote \ {b}
  /\ jobs' = (jobs \ {j}) \union ({[j EXCEPT !.items = @ \ {b}]} \ {[j EXCEPT !.items = {}]})
                          \union {[j EXCEPT !.at = "report", !.items = {b}]}
  /\ UNCHANGED <<ledger, bound, scanned, started>>

\* handle_filesystem_backup_deleted checks the row and the plan again, then writes.
CleanupReport(j) ==
  /\ j.op = "cleanup" /\ j.at = "report"
  /\ IF \A b \in j.items : MayClean(j.task, b, j.batch) THEN Step(j, "mark") ELSE Drop(j)
  /\ UNCHANGED <<ledger, remote, bound, scanned, started>>

CleanupMark(j) ==
  /\ j.op = "cleanup" /\ j.at = "mark"
  /\ \A b \in j.items : Consume(b, "deleted")
  /\ Drop(j)
  /\ UNCHANGED <<remote, bound, scanned, started>>

\* The call fails on the server, its report is lost, or the sidecar ends.
JobLost(j) == Drop(j) /\ UNCHANGED <<ledger, remote, bound, scanned, started>>

BackupsNext ==
  \/ \E t \in Owners :
       \/ RetentionScan(t) \/ ListQuery(t)
       \/ \E items \in SUBSET Files : PlanMoves(t, items) \/ \E b \in BOOLEAN : CleanupTarget(t, items, b)
       \/ \E b \in Files : BackupTarget(t, b) \/ RestoreTarget(t, b)
  \/ \E j \in jobs :
       \/ BackupCopied(j) \/ BackupRegister(j) \/ RestoreDone(j) \/ RestoreReport(j) \/ RestoreMark(j)
       \/ CleanupReport(j) \/ CleanupMark(j) \/ JobLost(j)
       \/ \E b \in j.items : CleanupRemoves(j, b)

BackupsSpec == BackupsInit /\ [][BackupsNext]_backupVars

----------------------------------------------------------------------------
(* Properties *)

BackupsTypeOK ==
  /\ \A b \in Files : ledger[b].status \in {"none", "available", "restored", "deleted"}
  /\ remote \subseteq Files /\ scanned \in [Owners -> SUBSET Files]

\* A row says deleted only of a file that is not on the server: none is made again under the
\* path of a spent one, and no report comes before the removal (handle_filesystem_backup_deleted).
DeletedIsGone == \A b \in Files : ledger[b].status = "deleted" => b \notin remote

\* A backup is spent once: two calls that both found it available, or a restore overtaken by a
\* cleanup, do not both get their row (the conditional UPDATEs).
SpendsOnce ==
  \A b \in Files : ledger[b].status \in {"restored", "deleted"} => ledger'[b] = ledger[b]

\* The ledger of backups agrees with the server, and a row that is spent stays as it is, with
\* two tasks, the cleanup of old backups and lost answers between the two.
BackupLedgerIsTrue == [][DeletedIsGone' /\ SpendsOnce]_backupVars
=============================================================================
