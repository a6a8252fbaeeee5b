--------------------------- MODULE TransferManager ---------------------------
(***************************************************************************)
(* The lifetime of file transfers in the desktop host                      *)
(* (native/desktop_host/src/transfer_manager.cpp): admission, launch with   *)
(* rollback, the worker thread, the permit semaphore, conflict decisions,   *)
(* cancellation, listing, shutdown, and the end and restart of the host     *)
(* process.                                                                *)
(*                                                                         *)
(* One start call and one worker thread exist per transfer.  The mutex of   *)
(* a SnapshotCell is held for the whole of one action, never across two:    *)
(* every window in which the code has released it is a state of the model. *)
(* Publication always happens after the unlock, so a copy waits in `outbox`*)
(* (worker) or `initial` (start call) and is delivered by a later step.     *)
(***************************************************************************)
EXTENDS Integers, Sequences, FiniteSets

CONSTANTS
  Transfers,     \* transfer ids; new_transfer_id() never repeats one
  MaxParallel,   \* permits: clamp(max_parallel, 1, 3)
  MaxPending,    \* kMaxPendingTransfers, the waiting room behind the permits
  MaxItems,      \* bound: files one transfer may allocate
  MaxDecisions,  \* bound: conflict decisions queued for one transfer
  Calls,         \* the calls and events of this environment
  Faults         \* the operations that may fail in this environment

CallKinds  == {"cancel", "conflict", "list", "get", "shutdown", "crash"}
FaultKinds == {"history", "launch", "throw"}

ASSUME TransfersFinite   == IsFiniteSet(Transfers)
ASSUME NoneNoTransfer    == "none" \notin Transfers
ASSUME MaxParallelAssump == MaxParallel \in Nat \ {0}
ASSUME MaxPendingAssump  == MaxPending \in Nat
ASSUME BoundsAssump      == MaxItems \in Nat /\ MaxDecisions \in Nat
ASSUME EnvironmentAssump == Calls \subseteq CallKinds /\ Faults \subseteq FaultKinds

ActiveStatus   == {"queued", "running", "waitingConflict"}
TerminalStatus == {"completed", "partial", "failed", "cancelled", "interrupted"}
Status         == ActiveStatus \cup TerminalStatus
None           == "none"
Actions        == {"skip", "rename", "overwrite"}
Items          == 1 .. MaxItems
NoItem         == 0
NoCall         == [transfer |-> None, item |-> NoItem, action |-> None]

maximum_admitted == MaxParallel + MaxPending

VARIABLES
  start,      \* where the start_upload / start_download call of a transfer is
  initial,    \* the status publish_initial has read and not yet published
  worker,     \* where the worker thread of a transfer is
  verdict,    \* the final status run_job has chosen
  choice,     \* what await_conflict returned for the current item
  snap,       \* the SnapshotCell
  outbox,     \* the copy a worker's write still has to publish
  row,        \* status of the durable file_transfers row
  jobs,       \* registered jobs
  cancel,     \* Job::cancel
  decisions,  \* Job::decisions
  resolver,   \* a resolve_conflict call between validation and push
  owners,     \* who keeps the WorkerAdmission of a transfer alive
  active_workers,
  available,  \* Semaphore::available_
  shut,       \* where shutdown() is
  scan,       \* jobs shutdown() still has to look at
  previously_active,
  lister,     \* a list() call: what history returned, then the merged answer
  getter,     \* a get() call that found no job
  shown,      \* what the files pane of the interface shows for a transfer
  succeeded,  \* history variable: transfers the pane has shown as completed
  up          \* the host process runs and its manager has recovered

startVars  == <<start, initial>>
workVars   == <<worker, verdict, choice>>
permitVars == <<owners, active_workers, available>>
shutVars   == <<shut, scan, previously_active>>
readVars   == <<lister, getter>>
viewVars   == <<shown, succeeded>>
vars == <<startVars, workVars, snap, outbox, row, jobs, cancel, decisions, resolver,
          permitVars, shutVars, readVars, viewVars, up>>

\* What no step of a start call, of a worker, of an interface call and of
\* shutdown() ever touches.
startFrame  == <<verdict, choice, outbox, cancel, decisions, resolver, available,
                 shutVars, readVars, up>>
workerFrame == <<startVars, cancel, resolver, shutVars, readVars, up>>
callFrame   == <<startVars, workVars, snap, outbox, jobs, permitVars, shutVars, up>>
shutFrame   == <<startVars, workVars, outbox, jobs, decisions, resolver, permitVars,
                 readVars, up>>

StartPlaces == {"idle", "admitted", "persisted", "registered", "launched",
                "publish", "erase", "rollback", "release", "done"}
WorkerPlaces == {"none", "acquire", "enter", "early", "work", "item", "conflict",
                 "returned", "threw", "final", "remove", "exit", "gone"}
ShutPlaces == {"idle", "scan", "wait", "mark", "done"}

shutting_down     == shut # "idle"
shutdown_complete == shut = "done"

Snapshot == [status : Status, conflict : Items \cup {NoItem},
             files : 0 .. MaxItems, seen : SUBSET {"completed", "skipped", "failed"}]
NewSnapshot == [status |-> "queued", conflict |-> NoItem, files |-> 0, seen |-> {}]
Idle == [stage |-> "idle", view |-> [t \in Transfers |-> None]]

Init ==
  /\ initial = [t \in Transfers |-> None]
  /\ verdict = [t \in Transfers |-> None]
  /\ choice = [t \in Transfers |-> None]
  /\ snap = [t \in Transfers |-> NewSnapshot]
  /\ outbox = [t \in Transfers |-> None]
  /\ jobs = {}
  /\ cancel = [t \in Transfers |-> FALSE]
  /\ decisions = [t \in Transfers |-> <<>>]
  /\ resolver = NoCall
  /\ owners = [t \in Transfers |-> {}]
  /\ active_workers = 0
  /\ available = MaxParallel
  /\ shut = "idle"
  /\ scan = {}
  /\ previously_active = {}
  /\ lister = Idle
  /\ getter = None
  /\ shown = [t \in Transfers |-> None]
  /\ succeeded = {}
  /\ start = [t \in Transfers |-> "idle"]
  /\ worker = [t \in Transfers |-> "none"]
  /\ row = [t \in Transfers |-> None]
  /\ up = TRUE

-----------------------------------------------------------------------------
(* The durable row, the snapshot cell and its publication                  *)

\* Whether one write to the history database succeeds.
HistoryOutcome == IF "history" \in Faults THEN BOOLEAN ELSE {TRUE}

\* Publisher::notify by way of the event sink: the pane replaces its entry with
\* whatever event arrives last (RemoteFilesPane.tsx, file.transfer_updated).
Notify(t, status) ==
  /\ shown' = [shown EXCEPT ![t] = status]
  /\ succeeded' = IF status = "completed" THEN succeeded \cup {t} ELSE succeeded

\* SnapshotGuard::commit: a changed status is published and persisted at once,
\* anything else only when the 100 ms throttle is due.  persist_quiet swallows
\* a failing write.
Commit(t, new) ==
  \E due \in BOOLEAN, ok \in HistoryOutcome :
    LET publish == due \/ new.status # snap[t].status
    IN  /\ snap' = [snap EXCEPT ![t] = new]
        /\ row' = IF publish /\ ok THEN [row EXCEPT ![t] = new.status] ELSE row
        /\ outbox' = IF publish THEN [outbox EXCEPT ![t] = new.status] ELSE outbox

\* finalize_status up to its publication.  When the terminal row cannot be
\* written the live view fails, and that is offered to history once more.
Ended(snapshot, status) == [snapshot EXCEPT !.status = status, !.conflict = NoItem]

\* Mutant of LiveStatus: an unrecorded success is shown as one.
LiveStatusKept(requested, first) == requested

LiveStatus(requested, first) == IF first THEN requested ELSE "failed"

Finalize(t, requested, first, second) ==
  /\ snap' = [snap EXCEPT ![t] = Ended(@, LiveStatus(requested, first))]
  /\ row' = IF first \/ second
            THEN [row EXCEPT ![t] = LiveStatus(requested, first)] ELSE row

-----------------------------------------------------------------------------
(* start_upload / start_download: WorkerAdmission and launch_reserved_job   *)

StartGoes(t, from, to) ==
  /\ start[t] = from
  /\ start' = [start EXCEPT ![t] = to]

Admit(t) ==
  /\ StartGoes(t, "idle", "admitted")
  /\ ~shutting_down
  /\ active_workers < maximum_admitted
  /\ active_workers' = active_workers + 1
  /\ owners' = [owners EXCEPT ![t] = {"start"}]
  /\ UNCHANGED <<startFrame, initial, worker, snap, row, jobs, viewVars>>

\* persist_initial inserts the queued row.
PersistInitial(t) ==
  /\ StartGoes(t, "admitted", "persisted")
  /\ row' = [row EXCEPT ![t] = snap[t].status]
  /\ UNCHANGED <<startFrame, initial, worker, snap, jobs, owners, active_workers, viewVars>>

\* A rejected insert leaves nothing to roll back.
PersistThrows(t) ==
  /\ "history" \in Faults
  /\ StartGoes(t, "admitted", "release")
  /\ UNCHANGED <<startFrame, initial, worker, snap, row, jobs, owners, active_workers, viewVars>>

\* Mutant of InsertJob: registration does not look at shutting_down.
InsertJobLate(t) ==
  /\ StartGoes(t, "persisted", "registered")
  /\ jobs' = jobs \cup {t}
  /\ UNCHANGED <<startFrame, initial, worker, snap, row, owners, active_workers, viewVars>>

InsertJob(t) ==
  /\ StartGoes(t, "persisted", "registered")
  /\ ~shutting_down
  /\ jobs' = jobs \cup {t}
  /\ UNCHANGED <<startFrame, initial, worker, snap, row, owners, active_workers, viewVars>>

\* Mutant of InsertRefused: the call fails without rolling the row back.
InsertRefusedBare(t) ==
  /\ StartGoes(t, "persisted", "release")
  /\ shutting_down
  /\ UNCHANGED <<startFrame, initial, worker, snap, row, jobs, owners, active_workers, viewVars>>

InsertRefused(t) ==
  /\ StartGoes(t, "persisted", "rollback")
  /\ shutting_down
  /\ UNCHANGED <<startFrame, initial, worker, snap, row, jobs, owners, active_workers, viewVars>>

\* Mutant of Launch: the thread does not share the admission.
LaunchUnshared(t) ==
  /\ StartGoes(t, "registered", "launched")
  /\ worker' = [worker EXCEPT ![t] = "acquire"]
  /\ UNCHANGED <<startFrame, initial, snap, row, jobs, owners, active_workers, viewVars>>

\* worker_launcher: the thread exists and shares the admission, or it throws.
Launch(t) ==
  /\ StartGoes(t, "registered", "launched")
  /\ worker' = [worker EXCEPT ![t] = "acquire"]
  /\ owners' = [owners EXCEPT ![t] = @ \cup {"worker"}]
  /\ UNCHANGED <<startFrame, initial, snap, row, jobs, active_workers, viewVars>>

LaunchThrows(t) ==
  /\ "launch" \in Faults
  /\ StartGoes(t, "registered", "erase")
  /\ UNCHANGED <<startFrame, initial, worker, snap, row, jobs, owners, active_workers, viewVars>>

\* The rollback lambda: unregister, then leave a terminal row behind.
RollbackErase(t) ==
  /\ StartGoes(t, "erase", "rollback")
  /\ jobs' = jobs \ {t}
  /\ UNCHANGED <<startFrame, initial, worker, snap, row, owners, active_workers, viewVars>>

RollbackFinalize(t) ==
  /\ StartGoes(t, "rollback", "publish")
  /\ \E first, second \in HistoryOutcome :
       /\ Finalize(t, IF shutting_down THEN "interrupted" ELSE "failed", first, second)
       /\ initial' = [initial EXCEPT ![t] = snap'[t].status]
  /\ UNCHANGED <<startFrame, worker, jobs, owners, active_workers, viewVars>>

\* publish_initial reads under the cell's mutex ...
ReadInitial(t) ==
  /\ StartGoes(t, "launched", "publish")
  /\ initial' = [initial EXCEPT ![t] = snap[t].status]
  /\ UNCHANGED <<startFrame, worker, snap, row, jobs, owners, active_workers, viewVars>>

\* ... and notifies after releasing it.
PublishInitial(t) ==
  /\ StartGoes(t, "publish", "release")
  /\ Notify(t, initial[t])
  /\ initial' = [initial EXCEPT ![t] = None]
  /\ UNCHANGED <<startFrame, worker, snap, row, jobs, owners, active_workers>>

\* Mutant of Release: only the worker gives the admission back.
ReleaseByWorker(t, owner) ==
  /\ owners' = [owners EXCEPT ![t] = @ \ {owner}]
  /\ active_workers' = IF owner = "worker" THEN active_workers - 1 ELSE active_workers

\* ~WorkerAdmission runs when the last of the two owners lets go.
Release(t, owner) ==
  /\ owners' = [owners EXCEPT ![t] = @ \ {owner}]
  /\ active_workers' = IF owners[t] = {owner} THEN active_workers - 1
                       ELSE active_workers

StartReturns(t) ==
  /\ StartGoes(t, "release", "done")
  /\ Release(t, "start")
  /\ UNCHANGED <<startFrame, initial, worker, snap, row, jobs, viewVars>>

-----------------------------------------------------------------------------
(* The worker thread: run_job                                              *)

\* A worker delivers the copy of its last write before it does anything else.
WorkerGoes(t, from, to) ==
  /\ worker[t] = from
  /\ outbox[t] = None
  /\ worker' = [worker EXCEPT ![t] = to]

WorkerPublish(t) ==
  /\ outbox[t] # None
  /\ Notify(t, outbox[t])
  /\ outbox' = [outbox EXCEPT ![t] = None]
  /\ UNCHANGED <<workerFrame, workVars, snap, row, jobs, decisions, permitVars>>

\* Semaphore::acquire prefers a free permit to noticing the cancellation.
Acquire(t) ==
  /\ WorkerGoes(t, "acquire", "enter")
  /\ available > 0
  /\ available' = available - 1
  /\ UNCHANGED <<workerFrame, verdict, choice, snap, outbox, row, jobs, decisions,
                 owners, active_workers, viewVars>>

AcquireCancelled(t) ==
  /\ WorkerGoes(t, "acquire", "final")
  /\ available = 0
  /\ cancel[t]
  /\ verdict' = [verdict EXCEPT ![t] = "cancelled"]
  /\ UNCHANGED <<workerFrame, choice, snap, outbox, row, jobs, decisions, permitVars, viewVars>>

\* PermitGuard::release: the worker leaves the permit's scope.
ReleasePermit(t, from, to) ==
  /\ WorkerGoes(t, from, to)
  /\ available' = available + 1
  /\ choice' = [choice EXCEPT ![t] = None]
  /\ UNCHANGED <<workerFrame, verdict, snap, outbox, row, jobs, decisions, owners,
                 active_workers, viewVars>>

\* A worker writes its snapshot under the guard and moves on.
Write(t, from, to, new) ==
  /\ WorkerGoes(t, from, to)
  /\ Commit(t, new)
  /\ UNCHANGED <<workerFrame, jobs, permitVars, viewVars>>

\* The first write under the permit: a late cancellation ends the transfer here,
\* through the quiet write of a guard.
Enter(t) ==
  /\ \/ cancel[t]  /\ Write(t, "enter", "early", [snap[t] EXCEPT !.status = "cancelled"])
     \/ ~cancel[t] /\ Write(t, "enter", "work", [snap[t] EXCEPT !.status = "running"])
  /\ UNCHANGED <<verdict, choice, decisions>>

\* Mutants of EarlyRelease: the permit is not given back; run_job does not
\* return and judges the transfer a second time.
EarlyKeepsPermit(t) ==
  /\ WorkerGoes(t, "early", "remove")
  /\ UNCHANGED <<workerFrame, verdict, choice, snap, outbox, row, jobs, decisions,
                 permitVars, viewVars>>
EarlyFallsThrough(t) == ReleasePermit(t, "early", "returned")

EarlyRelease(t) == ReleasePermit(t, "early", "remove")

\* push_failure.
Fail(t, from, to) == Write(t, from, to, [snap[t] EXCEPT !.seen = @ \cup {"failed"}])

\* upload_batch / download_batch: an entry fails before an item is allocated.
\* Bound: a batch has finitely many entries, and a second failure tells the
\* verdict nothing new.
EntryFails(t) ==
  /\ "failed" \notin snap[t].seen
  /\ Fail(t, "work", "work")
  /\ UNCHANGED <<verdict, choice, decisions>>

\* allocate_file and begin_item.  The loop over a directory's children does not
\* look at the cancel flag, so this step has no guard on it.
BeginItem(t) ==
  /\ snap[t].files < MaxItems
  /\ Write(t, "work", "item", [snap[t] EXCEPT !.files = @ + 1])
  /\ UNCHANGED <<verdict, choice, decisions>>

\* upload_file / download_file end with complete_item, skip_item or, by way of
\* the batch's catch clause, push_failure.  ConflictPolicy::Skip skips unasked.
EndItem(t, outcome) ==
  /\ outcome = "skipped" => choice[t] \in {"skip", None}
  /\ choice[t] = "skip" => outcome = "skipped"
  /\ Write(t, "item", "work", [snap[t] EXCEPT !.seen = @ \cup {outcome}])
  /\ choice' = [choice EXCEPT ![t] = None]
  /\ UNCHANGED <<verdict, decisions>>

\* await_conflict: show the conflict, ...
AwaitConflict(t) ==
  /\ "conflict" \in Calls
  /\ choice[t] = None
  /\ Write(t, "item", "conflict",
           [snap[t] EXCEPT !.status = "waitingConflict", !.conflict = snap[t].files])
  /\ UNCHANGED <<verdict, choice, decisions>>

\* Mutant of IsForItem: the first decision is taken, whatever it was for.
IsForAnyItem(t, decision) == TRUE

\* ... drop decisions made for another item, ...
IsForItem(t, decision) == decision.item = snap[t].files

DiscardDecision(t) ==
  /\ WorkerGoes(t, "conflict", "conflict")
  /\ ~cancel[t]
  /\ decisions[t] # <<>>
  /\ ~IsForItem(t, Head(decisions[t]))
  /\ decisions' = [decisions EXCEPT ![t] = Tail(@)]
  /\ UNCHANGED <<workerFrame, verdict, choice, snap, outbox, row, jobs, permitVars, viewVars>>

\* ... take the one made for this item, ...
TakeDecision(t) ==
  /\ ~cancel[t]
  /\ decisions[t] # <<>>
  /\ IsForItem(t, Head(decisions[t]))
  /\ decisions' = [decisions EXCEPT ![t] = Tail(@)]
  /\ choice' = [choice EXCEPT ![t] = Head(decisions[t]).action]
  /\ Write(t, "conflict", "item",
           [snap[t] EXCEPT !.status = "running", !.conflict = NoItem])
  /\ UNCHANGED verdict

\* Mutant of ConflictCancelled: cancellation is noticed only with a decision.
ConflictCancelledLate(t) ==
  /\ cancel[t]
  /\ decisions[t] # <<>>
  /\ Fail(t, "conflict", "work")
  /\ UNCHANGED <<verdict, choice, decisions>>

\* ... or leave by the Cancelled exception, which the batch records as a failure
\* of the item while the snapshot still says waitingConflict.
ConflictCancelled(t) ==
  /\ cancel[t]
  /\ Fail(t, "conflict", "work")
  /\ UNCHANGED <<verdict, choice, decisions>>

BatchReturns(t) == ReleasePermit(t, "work", "returned")

\* An exception that is not a TransferError leaves run_job; ~PermitGuard releases.
WorkThrows(t) ==
  /\ "throw" \in Faults
  /\ ReleasePermit(t, "work", "threw") \/ ReleasePermit(t, "item", "threw")

\* Mutant of PushWorkerFailure: no terminal status is chosen.
PushFailureOnly(t) ==
  /\ Fail(t, "threw", "final")
  /\ UNCHANGED <<verdict, choice, decisions>>

\* fail_job_after_unhandled_exception up to its finalize_status.
PushWorkerFailure(t) ==
  /\ Fail(t, "threw", "final")
  /\ verdict' = [verdict EXCEPT ![t] = "failed"]
  /\ UNCHANGED <<choice, decisions>>

\* How run_job names the outcome of a batch.
FinalStatus(cancelled, seen) ==
  IF cancelled THEN "cancelled"
  ELSE IF seen \cap {"failed", "skipped"} = {} THEN "completed"
  ELSE IF seen \cap {"completed", "skipped"} # {} THEN "partial"
  ELSE "failed"

Judge(t) ==
  /\ WorkerGoes(t, "returned", "final")
  /\ verdict' = [verdict EXCEPT ![t] = FinalStatus(cancel[t], snap[t].seen)]
  /\ UNCHANGED <<workerFrame, choice, snap, outbox, row, jobs, decisions, permitVars, viewVars>>

FinalizeStatus(t) ==
  /\ WorkerGoes(t, "final", "remove")
  /\ \E first, second \in HistoryOutcome :
       /\ Finalize(t, verdict[t], first, second)
       /\ outbox' = [outbox EXCEPT ![t] = snap'[t].status]
  /\ verdict' = [verdict EXCEPT ![t] = None]
  /\ UNCHANGED <<workerFrame, choice, jobs, decisions, permitVars, viewVars>>

RemoveTerminalJob(t) ==
  /\ WorkerGoes(t, "remove", "exit")
  /\ jobs' = jobs \ {t}
  /\ UNCHANGED <<workerFrame, verdict, choice, snap, outbox, row, decisions, permitVars, viewVars>>

\* The thread ends and drops its half of the admission.
WorkerExits(t) ==
  /\ WorkerGoes(t, "exit", "gone")
  /\ Release(t, "worker")
  /\ UNCHANGED <<workerFrame, verdict, choice, snap, outbox, row, jobs, decisions,
                 available, viewVars>>

-----------------------------------------------------------------------------
(* Calls from the interface                                                *)

Cancel(t) ==
  /\ "cancel" \in Calls
  /\ t \in jobs
  /\ cancel' = [cancel EXCEPT ![t] = TRUE]
  /\ UNCHANGED <<callFrame, decisions, resolver, row, readVars, viewVars>>

\* resolve_conflict validates against a copy of the snapshot ...
ResolveCheck(t, action) ==
  /\ resolver = NoCall
  /\ t \in jobs
  /\ snap[t].status = "waitingConflict"
  /\ snap[t].conflict # NoItem
  /\ Len(decisions[t]) < MaxDecisions
  /\ resolver' = [transfer |-> t, item |-> snap[t].conflict, action |-> action]
  /\ UNCHANGED <<callFrame, cancel, decisions, row, readVars, viewVars>>

\* ... and queues the decision later, under the decision mutex.
ResolvePush(t) ==
  /\ resolver.transfer = t
  /\ decisions' = [decisions EXCEPT
       ![t] = Append(@, [item |-> resolver.item, action |-> resolver.action])]
  /\ resolver' = NoCall
  /\ UNCHANGED <<callFrame, cancel, row, readVars, viewVars>>

\* list_file_transfers / get_file_transfer rewrite a row that claims to be in
\* progress before they return it.
Reconciled(status) == IF status \in ActiveStatus THEN "interrupted" ELSE status

ListHistory ==
  /\ "list" \in Calls
  /\ lister = Idle
  /\ row' = [t \in Transfers |-> Reconciled(row[t])]
  /\ lister' = [stage |-> "stored", view |-> row']
  /\ UNCHANGED <<callFrame, cancel, decisions, resolver, getter, viewVars>>

\* Live jobs override what history returned.
ListMerge ==
  /\ lister.stage = "stored"
  /\ lister' = [stage |-> "merged",
                view |-> [t \in Transfers |-> IF t \in jobs THEN snap[t].status
                                              ELSE lister.view[t]]]
  /\ UNCHANGED <<callFrame, cancel, decisions, resolver, row, getter, viewVars>>

\* The answer replaces the pane's query data as a whole.
ListReturns ==
  /\ lister.stage = "merged"
  /\ lister' = Idle
  /\ shown' = lister.view
  /\ succeeded' = succeeded \cup {t \in Transfers : lister.view[t] = "completed"}
  /\ UNCHANGED <<callFrame, cancel, decisions, resolver, row, getter>>

\* get of a transfer that has no job falls through to history.
GetMiss(t) ==
  /\ "get" \in Calls
  /\ getter = None
  /\ t \notin jobs
  /\ getter' = t
  /\ UNCHANGED <<callFrame, cancel, decisions, resolver, row, lister, viewVars>>

GetHistory(t) ==
  /\ getter = t
  /\ row' = [row EXCEPT ![t] = Reconciled(@)]
  /\ getter' = None
  /\ UNCHANGED <<callFrame, cancel, decisions, resolver, lister, viewVars>>

-----------------------------------------------------------------------------
(* shutdown()                                                              *)

ShutdownBegin ==
  /\ "shutdown" \in Calls
  /\ shut = "idle"
  /\ shut' = "scan"
  /\ scan' = jobs
  /\ UNCHANGED <<shutFrame, snap, row, cancel, previously_active, viewVars>>

\* Mutant of ShutdownScan: active jobs are collected but not cancelled.
ShutdownScanOnly(t) ==
  /\ shut = "scan"
  /\ t \in scan
  /\ scan' = scan \ {t}
  /\ previously_active' = IF snap[t].status \in TerminalStatus THEN previously_active
                           ELSE previously_active \cup {t}
  /\ UNCHANGED <<shutFrame, snap, row, shut, cancel, viewVars>>

ShutdownScan(t) ==
  /\ shut = "scan"
  /\ t \in scan
  /\ scan' = scan \ {t}
  /\ IF snap[t].status \in TerminalStatus
     THEN UNCHANGED <<previously_active, cancel>>
     ELSE /\ previously_active' = previously_active \cup {t}
          /\ cancel' = [cancel EXCEPT ![t] = TRUE]
  /\ UNCHANGED <<shutFrame, snap, row, shut, viewVars>>

ShutdownScanned ==
  /\ shut = "scan"
  /\ scan = {}
  /\ shut' = "wait"
  /\ UNCHANGED <<shutFrame, snap, row, cancel, scan, previously_active, viewVars>>

ShutdownWaited ==
  /\ shut = "wait"
  /\ active_workers = 0
  /\ shut' = "mark"
  /\ scan' = previously_active
  /\ UNCHANGED <<shutFrame, snap, row, cancel, previously_active, viewVars>>

\* Every job of the first scan is marked, whatever it became meanwhile.  No
\* worker is left, so the publication is part of the step.
ShutdownMark(t) ==
  /\ shut = "mark"
  /\ t \in scan
  /\ scan' = scan \ {t}
  /\ snap' = [snap EXCEPT ![t] = Ended(@, "interrupted")]
  /\ \E due \in BOOLEAN, ok \in HistoryOutcome :
       IF due \/ snap[t].status # "interrupted"
       THEN /\ row' = IF ok THEN [row EXCEPT ![t] = "interrupted"] ELSE row
            /\ Notify(t, "interrupted")
       ELSE UNCHANGED <<row, viewVars>>
  /\ UNCHANGED <<shutFrame, shut, cancel, previously_active>>

ShutdownDone ==
  /\ shut = "mark"
  /\ scan = {}
  /\ shut' = "done"
  /\ UNCHANGED <<shutFrame, snap, row, cancel, scan, previously_active, viewVars>>

-----------------------------------------------------------------------------
(* The host process ends, by exit or by crash, and comes back              *)

\* Everything but the rows is lost.  Ids already handed out are never reused.
Crash ==
  /\ "crash" \in Calls
  /\ initial' = [t \in Transfers |-> None]
  /\ verdict' = [t \in Transfers |-> None]
  /\ choice' = [t \in Transfers |-> None]
  /\ snap' = [t \in Transfers |-> NewSnapshot]
  /\ outbox' = [t \in Transfers |-> None]
  /\ jobs' = {}
  /\ cancel' = [t \in Transfers |-> FALSE]
  /\ decisions' = [t \in Transfers |-> <<>>]
  /\ resolver' = NoCall
  /\ owners' = [t \in Transfers |-> {}]
  /\ active_workers' = 0
  /\ available' = MaxParallel
  /\ shut' = "idle"
  /\ scan' = {}
  /\ previously_active' = {}
  /\ lister' = Idle
  /\ getter' = None
  /\ shown' = [t \in Transfers |-> None]
  /\ succeeded' = {}
  /\ start' = [t \in Transfers |-> IF start[t] = "idle" THEN "idle" ELSE "done"]
  /\ worker' = [t \in Transfers |-> IF start[t] = "idle" THEN "none" ELSE "gone"]
  /\ up' = FALSE
  /\ UNCHANGED row

\* with_history runs recover_into before the manager admits work.
Recover ==
  /\ ~up
  /\ row' = [t \in Transfers |-> Reconciled(row[t])]
  /\ up' = TRUE
  /\ UNCHANGED <<startVars, workVars, snap, outbox, jobs, cancel, decisions, resolver,
                 permitVars, shutVars, readVars, viewVars>>

-----------------------------------------------------------------------------
StartStep(t) ==
  \/ Admit(t) \/ PersistInitial(t) \/ PersistThrows(t) \/ InsertJob(t)
  \/ InsertRefused(t) \/ Launch(t) \/ LaunchThrows(t) \/ RollbackErase(t)
  \/ RollbackFinalize(t) \/ ReadInitial(t) \/ PublishInitial(t) \/ StartReturns(t)

WorkStep(t) ==
  \/ EntryFails(t) \/ BeginItem(t) \/ AwaitConflict(t) \/ DiscardDecision(t)
  \/ TakeDecision(t) \/ ConflictCancelled(t) \/ BatchReturns(t) \/ WorkThrows(t)
  \/ \E outcome \in {"completed", "skipped", "failed"} : EndItem(t, outcome)

WorkerStep(t) ==
  \/ WorkerPublish(t) \/ Acquire(t) \/ AcquireCancelled(t) \/ Enter(t)
  \/ EarlyRelease(t) \/ WorkStep(t) \/ PushWorkerFailure(t) \/ Judge(t)
  \/ FinalizeStatus(t) \/ RemoveTerminalJob(t) \/ WorkerExits(t)

CallStep ==
  \/ \E t \in Transfers :
       \/ Cancel(t) \/ ResolvePush(t) \/ GetMiss(t) \/ GetHistory(t)
       \/ \E action \in Actions : ResolveCheck(t, action)
  \/ ListHistory \/ ListMerge \/ ListReturns

ShutdownStep ==
  \/ ShutdownBegin \/ ShutdownScanned \/ ShutdownWaited \/ ShutdownDone
  \/ \E t \in Transfers : ShutdownScan(t) \/ ShutdownMark(t)

Next ==
  \/ up /\ \E t \in Transfers : StartStep(t) \/ WorkerStep(t)
  \/ up /\ (CallStep \/ ShutdownStep \/ Crash)
  \/ Recover

Spec == Init /\ [][Next]_vars

\* Mutant of Poll: a queued transfer is not polled for.
PollRunning == ListHistory /\ \E t \in Transfers : shown[t] = "running"

\* The pane polls list() every 1.5 s while it shows an active transfer.
Poll == ListHistory /\ \E t \in Transfers : shown[t] \in ActiveStatus

\* Threads are scheduled and blocking backend calls return, so a thread that can
\* move does.  Nothing makes a user answer a conflict or cancel, and nothing
\* makes the process end.
Fairness ==
  /\ \A t \in Transfers :
       /\ WF_vars(up /\ StartStep(t))
       /\ WF_vars(up /\ WorkerStep(t))
       /\ WF_vars(up /\ (ShutdownScan(t) \/ ShutdownMark(t)))
  /\ WF_vars(up /\ (ShutdownScanned \/ ShutdownWaited \/ ShutdownDone))
  /\ WF_vars(up /\ (Poll \/ ListMerge \/ ListReturns))
  /\ WF_vars(Recover)

FairSpec == Spec /\ Fairness

-----------------------------------------------------------------------------
(* Properties                                                              *)

TypeOK ==
  /\ start \in [Transfers -> StartPlaces]
  /\ initial \in [Transfers -> Status \cup {None}]
  /\ worker \in [Transfers -> WorkerPlaces]
  /\ verdict \in [Transfers -> TerminalStatus \cup {None}]
  /\ choice \in [Transfers -> Actions \cup {None}]
  /\ snap \in [Transfers -> Snapshot]
  /\ outbox \in [Transfers -> Status \cup {None}]
  /\ row \in [Transfers -> Status \cup {None}]
  /\ jobs \subseteq Transfers
  /\ cancel \in [Transfers -> BOOLEAN]
  /\ decisions \in [Transfers -> Seq([item : Items, action : Actions])]
  /\ resolver \in [transfer : Transfers, item : Items, action : Actions] \cup {NoCall}
  /\ owners \in [Transfers -> SUBSET {"start", "worker"}]
  /\ active_workers \in Int
  /\ available \in Int
  /\ shut \in ShutPlaces
  /\ scan \subseteq Transfers
  /\ previously_active \subseteq Transfers
  /\ lister \in [stage : {"idle", "stored", "merged"},
                 view : [Transfers -> Status \cup {None}]]
  /\ getter \in Transfers \cup {None}
  /\ shown \in [Transfers -> Status \cup {None}]
  /\ succeeded \subseteq Transfers
  /\ up \in BOOLEAN

InProgress(t) == owners[t] # {}

\* A permit is never leaked or given back twice, on any path out of run_job
\* (cancelled while queued, cancelled on entry, returned, exception): the free
\* permits and the workers inside the PermitGuard always add up to MaxParallel.
PermitHolders == {t \in Transfers : worker[t] \in {"enter", "early", "work", "item", "conflict"}}
PermitsConserved == available + Cardinality(PermitHolders) = MaxParallel

\* active_workers counts exactly the transfers somebody still owns, from the
\* admission check through persistence, thread creation and the later of the
\* worker's end and the start call's end, and never exceeds the limit.
AdmissionConserved ==
  /\ active_workers = Cardinality({t \in Transfers : InProgress(t)})
  /\ active_workers <= maximum_admitted

\* Once shutdown() waits, every worker that is still alive has been told to stop
\* or has already reached its terminal status: no registration slipped past the
\* scan, so the wait cannot hang on a conflict nobody will answer.
ShutdownReachesEveryWorker ==
  shut \in {"wait", "mark", "done"} =>
    \A t \in Transfers : "worker" \in owners[t] =>
       cancel[t] \/ snap[t].status \in TerminalStatus

\* When shutdown() has returned nothing of any transfer runs any more, and no
\* call that was being admitted can still create a worker.
ShutdownQuiesces ==
  shut \in {"mark", "done"} =>
    \A t \in Transfers : ~InProgress(t) /\ start[t] \in {"idle", "done"}
                                       /\ worker[t] \in {"none", "gone"}

\* A success is shown only after history has it, and it stays there: finalize_status
\* downgrades what it could not record, and the reconciliation in list() and get()
\* never touches a finished row.  The one writer that overrides it is shutdown().
CompletedIsRecorded ==
  \A t \in Transfers : t \in succeeded \/ outbox[t] = "completed" =>
     row[t] = "completed" \/ t \in previously_active

\* Stated by the comment of finalize_status (transfer_manager.cpp:253-255), "a
\* success is never shown for a state a restart would reconcile differently":
\* what the pane has shown as completed is completed in the durable row.
SuccessSurvives == \A t \in Transfers : t \in succeeded => row[t] = "completed"

\* Does not hold when history writes fail (README, section 6).  Stated by the comment in
\* persist_quiet (transfer_manager.cpp:321), "The throttled progress write is best-effort; a
\* terminal write is not": when a worker has unregistered its job, the row is
\* terminal or the live view reports the failure.
TerminalWriteIsCertain ==
  \A t \in Transfers : worker[t] = "exit" =>
     row[t] \in TerminalStatus \/ snap[t].status = "failed"

\* While history accepts writes, a row that says a transfer is in progress has
\* an owner in this process: rollback, cancellation, exceptions, shutdown and
\* recovery all leave a terminal row behind.
NoOrphanedRow ==
  up /\ "history" \notin Faults =>
    \A t \in Transfers : row[t] \in ActiveStatus => InProgress(t)

\* await_conflict acts on a decision only for the conflict that was on show when
\* the decision was made, although a second answer to an earlier conflict may
\* still be queued.
DecisionFitsConflict ==
  [][\A t \in Transfers : choice[t] = None /\ choice'[t] # None =>
       Head(decisions[t]).item = snap[t].conflict]_vars

\* A terminal snapshot is final for its worker: only shutdown() rewrites it.
TerminalIsFinal ==
  [][\A t \in Transfers : snap[t].status \in TerminalStatus /\ up' =>
       snap'[t].status = snap[t].status \/ shut = "mark"]_vars

\* A cancelled transfer ends, wherever its worker was: queued for a permit, in a
\* file, or waiting for a conflict decision.
CancelledEnds ==
  \A t \in Transfers : cancel[t] /\ InProgress(t) ~> ~InProgress(t)

\* The pane heals: an event delivered late (publish_initial notifies after its
\* read) may show an ended transfer as active, but never for good.
EndedIsShown ==
  \A t \in Transfers : worker[t] = "gone" /\ shown[t] \in ActiveStatus
                         ~> shown[t] \notin ActiveStatus

\* shutdown() returns, whatever the workers and start calls were doing.
ShutdownReturns == shutting_down ~> shutdown_complete \/ ~up
=============================================================================
