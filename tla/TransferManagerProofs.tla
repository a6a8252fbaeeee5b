------------------------ MODULE TransferManagerProofs ------------------------
(***************************************************************************)
(* Types, permits, admissions and the quiet end of shutdown(), for every    *)
(* set of transfers and every limit.                                        *)
(*                                                                         *)
(* TypeOK is not inductive: finalize_status writes the verdict of run_job,  *)
(* so VerdictKnown joins it (Typed).  Neither are the two counts: that a     *)
(* release gives back what was taken depends on where the start call and    *)
(* the worker are, so Counts ties the owners of an admission to those       *)
(* places (Places) and says what the end of shutdown()'s wait means (Quiet).*)
(* Every proof of preservation has one step per action of TransferManager.  *)
(***************************************************************************)
EXTENDS TransferManager, FiniteSetTheorems, TLAPS

\* run_job reaches finalize_status only with a terminal status in hand.
VerdictKnown == \A t \in Transfers : worker[t] = "final" => verdict[t] # None

Typed == TypeOK /\ VerdictKnown

USE DEF startVars, workVars, permitVars, shutVars, readVars, viewVars, startFrame,
        workerFrame, callFrame, shutFrame

-----------------------------------------------------------------------------
(* What the snapshot helpers return                                        *)

\* A function whose value at one point is replaced by another of its range stays one.
LEMMA FunctionUpdates ==
  \A D, R : \A f \in [D -> R], d \in D, r \in R : [f EXCEPT ![d] = r] \in [D -> R]
OBVIOUS

\* Every change the workers make to a snapshot yields a snapshot.
LEMMA SnapshotUpdates ==
  ASSUME NEW s \in Snapshot
  PROVE  /\ \A st \in Status : [s EXCEPT !.status = st] \in Snapshot
         /\ \A st \in Status : Ended(s, st) \in Snapshot
         /\ \A o \in {"completed", "skipped", "failed"} :
              [s EXCEPT !.seen = @ \cup {o}] \in Snapshot
         /\ s.files < MaxItems => [s EXCEPT !.files = @ + 1] \in Snapshot
         /\ [s EXCEPT !.status = "waitingConflict", !.conflict = s.files] \in Snapshot
         /\ [s EXCEPT !.status = "running", !.conflict = NoItem] \in Snapshot
<1> USE BoundsAssump DEF Snapshot, Status, ActiveStatus, TerminalStatus, Ended, Items, NoItem
<1>1. \A st \in Status : [s EXCEPT !.status = st] \in Snapshot OBVIOUS
<1>2. \A st \in Status : Ended(s, st) \in Snapshot OBVIOUS
<1>3. \A o \in {"completed", "skipped", "failed"} : [s EXCEPT !.seen = @ \cup {o}] \in Snapshot
  OBVIOUS
<1>4. s.files < MaxItems => [s EXCEPT !.files = @ + 1] \in Snapshot OBVIOUS
<1>5. [s EXCEPT !.status = "waitingConflict", !.conflict = s.files] \in Snapshot
  <2>1. s.files \in Items \cup {NoItem} OBVIOUS
  <2>2. QED BY <2>1
<1>6. [s EXCEPT !.status = "running", !.conflict = NoItem] \in Snapshot OBVIOUS
<1>7. QED BY <1>1, <1>2, <1>3, <1>4, <1>5, <1>6

CellTyped == /\ snap \in [Transfers -> Snapshot]
             /\ row \in [Transfers -> Status \cup {None}]
             /\ outbox \in [Transfers -> Status \cup {None}]

\* SnapshotGuard::commit keeps the cell, the row and the pending copy typed.
LEMMA CommitTyped ==
  ASSUME TypeOK, NEW t \in Transfers, NEW new \in Snapshot, Commit(t, new)
  PROVE  CellTyped'
<1>1. new.status \in Status BY DEF Snapshot
<1>2. QED BY <1>1 DEF Commit, TypeOK, CellTyped

\* finalize_status keeps the cell and the row typed, whichever writes fail.
LEMMA FinalizeTyped ==
  ASSUME TypeOK, NEW t \in Transfers, NEW requested \in Status,
         NEW first, NEW second, Finalize(t, requested, first, second)
  PROVE  /\ snap' \in [Transfers -> Snapshot]
         /\ row' \in [Transfers -> Status \cup {None}]
         /\ snap'[t].status \in Status
<1>1. LiveStatus(requested, first) \in Status
  BY DEF LiveStatus, Status, TerminalStatus
<1>2. snap[t] \in Snapshot BY DEF TypeOK
<1>3. Ended(snap[t], LiveStatus(requested, first)) \in Snapshot
  BY <1>1, <1>2, SnapshotUpdates
<1>4. snap' \in [Transfers -> Snapshot] BY <1>3 DEF Finalize, TypeOK
<1>5. row' \in [Transfers -> Status \cup {None}] BY <1>1 DEF Finalize, TypeOK
<1>6. snap'[t].status \in Status BY <1>4 DEF Snapshot
<1>7. QED BY <1>4, <1>5, <1>6

-----------------------------------------------------------------------------
(* Type correctness, one step per action                                   *)

\* Every step of a start call keeps the types.
LEMMA TypedStart ==
  ASSUME Typed, NEW t \in Transfers, StartStep(t)
  PROVE  Typed'
<1> USE DEF Typed, TypeOK, VerdictKnown, StartGoes
<1>0. snap[t] \in Snapshot /\ snap[t].status \in Status BY DEF Snapshot
<1>1. CASE Admit(t)
  <2>1. start' \in [Transfers -> StartPlaces] BY <1>1 DEF Admit, StartPlaces
  <2>2. owners' \in [Transfers -> SUBSET {"start", "worker"}] BY <1>1 DEF Admit
  <2>3. active_workers' \in Int BY <1>1 DEF Admit
  <2>4. QED BY <1>1, <2>1, <2>2, <2>3 DEF Admit
<1>2. CASE PersistInitial(t)
  <2>1. start' \in [Transfers -> StartPlaces] BY <1>2 DEF PersistInitial, StartPlaces
  <2>2. row' \in [Transfers -> Status \cup {None}] BY <1>0, <1>2 DEF PersistInitial
  <2>3. QED BY <1>2, <2>1, <2>2 DEF PersistInitial
<1>3. CASE PersistThrows(t) BY <1>3 DEF PersistThrows, StartPlaces
<1>4. CASE InsertJob(t) BY <1>4 DEF InsertJob, StartPlaces
<1>5. CASE InsertRefused(t) BY <1>5 DEF InsertRefused, StartPlaces
<1>6. CASE Launch(t)
  <2>1. start' \in [Transfers -> StartPlaces] BY <1>6 DEF Launch, StartPlaces
  <2>2. worker' \in [Transfers -> WorkerPlaces] BY <1>6 DEF Launch, WorkerPlaces
  <2>3. owners' \in [Transfers -> SUBSET {"start", "worker"}] BY <1>6 DEF Launch
  <2>4. VerdictKnown' BY <1>6 DEF Launch
  <2>5. QED BY <1>6, <2>1, <2>2, <2>3, <2>4 DEF Launch
<1>7. CASE LaunchThrows(t) BY <1>7 DEF LaunchThrows, StartPlaces
<1>8. CASE RollbackErase(t) BY <1>8 DEF RollbackErase, StartPlaces
<1>9. CASE RollbackFinalize(t)
  <2>1. start' \in [Transfers -> StartPlaces] BY <1>9 DEF RollbackFinalize, StartPlaces
  <2>2. PICK first, second \in HistoryOutcome :
           /\ Finalize(t, IF shutting_down THEN "interrupted" ELSE "failed", first, second)
           /\ initial' = [initial EXCEPT ![t] = snap'[t].status]
    BY <1>9 DEF RollbackFinalize
  <2>3. /\ snap' \in [Transfers -> Snapshot]
        /\ row' \in [Transfers -> Status \cup {None}]
        /\ snap'[t].status \in Status
    <3>1. (IF shutting_down THEN "interrupted" ELSE "failed") \in Status
      BY DEF Status, TerminalStatus
    <3>2. QED BY <2>2, <3>1, FinalizeTyped
  <2>4. initial' \in [Transfers -> Status \cup {None}] BY <2>2, <2>3
  <2>5. QED BY <1>9, <2>1, <2>3, <2>4 DEF RollbackFinalize
<1>10. CASE ReadInitial(t) BY <1>0, <1>10 DEF ReadInitial, StartPlaces
<1>11. CASE PublishInitial(t)
  <2>1. start' \in [Transfers -> StartPlaces] BY <1>11 DEF PublishInitial, StartPlaces
  <2>2. initial' \in [Transfers -> Status \cup {None}] BY <1>11 DEF PublishInitial
  <2>3. shown' \in [Transfers -> Status \cup {None}] /\ succeeded' \subseteq Transfers
    BY <1>11 DEF PublishInitial, Notify
  <2>4. QED BY <1>11, <2>1, <2>2, <2>3 DEF PublishInitial
<1>12. CASE StartReturns(t)
  <2>1. start' \in [Transfers -> StartPlaces] BY <1>12 DEF StartReturns, StartPlaces
  <2>2. owners' \in [Transfers -> SUBSET {"start", "worker"}] BY <1>12 DEF StartReturns, Release
  <2>3. active_workers' \in Int BY <1>12 DEF StartReturns, Release
  <2>4. QED BY <1>12, <2>1, <2>2, <2>3 DEF StartReturns
<1>13. QED BY <1>1, <1>2, <1>3, <1>4, <1>5, <1>6, <1>7, <1>8, <1>9, <1>10, <1>11, <1>12
              DEF StartStep

\* Every guarded write of a worker, whatever it does to the locals of run_job.
LocalsTyped == /\ verdict \in [Transfers -> TerminalStatus \cup {None}]
               /\ choice \in [Transfers -> Actions \cup {None}]
               /\ decisions \in [Transfers -> Seq([item : Items, action : Actions])]

\* A guarded write of a worker keeps the types ...
LEMMA WriteTyped ==
  ASSUME Typed, NEW t \in Transfers, NEW from, NEW to \in WorkerPlaces,
         NEW new \in Snapshot, Write(t, from, to, new), LocalsTyped',
         VerdictKnown'
  PROVE  Typed'
<1>1. CellTyped' BY CommitTyped DEF Write, Typed
<1>2. worker' \in [Transfers -> WorkerPlaces] BY DEF Write, WorkerGoes, Typed, TypeOK
<1>3. QED BY <1>1, <1>2 DEF Write, Typed, TypeOK, CellTyped, LocalsTyped

\* ... when the locals stay as they are and the worker is not about to finalize.
LEMMA PlainWriteTyped ==
  ASSUME Typed, NEW t \in Transfers, NEW from, NEW to \in WorkerPlaces \ {"final"},
         NEW new \in Snapshot, Write(t, from, to, new),
         UNCHANGED <<verdict, choice, decisions>>
  PROVE  Typed'
<1>1. LocalsTyped' BY DEF LocalsTyped, Typed, TypeOK
<1>2. VerdictKnown' BY DEF VerdictKnown, Typed, TypeOK, Write, WorkerGoes
<1>3. QED BY <1>1, <1>2, WriteTyped

\* Leaving the permit's scope keeps the types.
LEMMA ReleasePermitTyped ==
  ASSUME Typed, NEW t \in Transfers, NEW from, NEW to \in WorkerPlaces \ {"final"},
         ReleasePermit(t, from, to)
  PROVE  Typed'
<1> USE DEF Typed, TypeOK, VerdictKnown, ReleasePermit, WorkerGoes
<1>1. worker' \in [Transfers -> WorkerPlaces] OBVIOUS
<1>2. choice' \in [Transfers -> Actions \cup {None}] OBVIOUS
<1>3. available' \in Int OBVIOUS
<1>4. VerdictKnown' OBVIOUS
<1>5. QED BY <1>1, <1>2, <1>3, <1>4

\* The queue of decisions loses its first entry.
LEMMA PopTyped ==
  ASSUME NEW S, NEW q \in Seq(S), q # <<>>
  PROVE  Head(q) \in S /\ Tail(q) \in Seq(S)
OBVIOUS

\* A queued decision keeps the queue typed.
LEMMA PushTyped ==
  ASSUME NEW S, NEW q \in Seq(S), NEW e \in S
  PROVE  Append(q, e) \in Seq(S)
OBVIOUS

\* Every step inside a batch keeps the types.
LEMMA TypedWork ==
  ASSUME Typed, NEW t \in Transfers, WorkStep(t)
  PROVE  Typed'
<1>0. /\ snap[t] \in Snapshot
      /\ {"work", "item", "conflict", "returned", "threw"} \subseteq WorkerPlaces \ {"final"}
  BY DEF Typed, TypeOK, WorkerPlaces
<1>a. [snap[t] EXCEPT !.seen = @ \cup {"failed"}] \in Snapshot BY <1>0, SnapshotUpdates
<1>1. CASE EntryFails(t)
  BY <1>0, <1>a, <1>1, PlainWriteTyped DEF EntryFails, Fail
<1>2. CASE BeginItem(t)
  <2>1. [snap[t] EXCEPT !.files = @ + 1] \in Snapshot
    BY <1>0, <1>2, SnapshotUpdates DEF BeginItem
  <2>2. QED BY <1>0, <1>2, <2>1, PlainWriteTyped DEF BeginItem
<1>3. CASE AwaitConflict(t)
  <2>1. [snap[t] EXCEPT !.status = "waitingConflict", !.conflict = snap[t].files] \in Snapshot
    BY <1>0, SnapshotUpdates
  <2>2. QED BY <1>0, <1>3, <2>1, PlainWriteTyped DEF AwaitConflict
<1>4. CASE DiscardDecision(t)
  <2>1. worker' = worker BY <1>4 DEF DiscardDecision, WorkerGoes, Typed, TypeOK
  <2>a. decisions[t] \in Seq([item : Items, action : Actions]) BY DEF Typed, TypeOK
  <2>b. Tail(decisions[t]) \in Seq([item : Items, action : Actions])
    BY <1>4, <2>a, PopTyped DEF DiscardDecision
  <2>2. decisions' \in [Transfers -> Seq([item : Items, action : Actions])]
    BY <1>4, <2>b DEF DiscardDecision, Typed, TypeOK
  <2>3. QED BY <1>4, <2>1, <2>2 DEF DiscardDecision, Typed, TypeOK, VerdictKnown
<1>5. CASE TakeDecision(t)
  <2>1. [snap[t] EXCEPT !.status = "running", !.conflict = NoItem] \in Snapshot
    BY <1>0, SnapshotUpdates
  <2>a. decisions[t] \in Seq([item : Items, action : Actions]) BY DEF Typed, TypeOK
  <2>b. /\ Head(decisions[t]) \in [item : Items, action : Actions]
        /\ Tail(decisions[t]) \in Seq([item : Items, action : Actions])
    BY <1>5, <2>a, PopTyped DEF TakeDecision
  <2>2. Head(decisions[t]).action \in Actions BY <2>b
  <2>3. choice' \in [Transfers -> Actions \cup {None}]
    BY <1>5, <2>2 DEF TakeDecision, Typed, TypeOK
  <2>4. decisions' \in [Transfers -> Seq([item : Items, action : Actions])]
    BY <1>5, <2>b DEF TakeDecision, Typed, TypeOK
  <2>5. LocalsTyped' BY <1>5, <2>3, <2>4 DEF LocalsTyped, TakeDecision, Typed, TypeOK
  <2>6. VerdictKnown'
    BY <1>5 DEF TakeDecision, VerdictKnown, Typed, TypeOK, Write, WorkerGoes
  <2>7. QED BY <1>0, <1>5, <2>1, <2>5, <2>6, WriteTyped DEF TakeDecision
<1>6. CASE ConflictCancelled(t)
  BY <1>0, <1>a, <1>6, PlainWriteTyped DEF ConflictCancelled, Fail
<1>7. CASE BatchReturns(t) BY <1>0, <1>7, ReleasePermitTyped DEF BatchReturns
<1>8. CASE WorkThrows(t) BY <1>0, <1>8, ReleasePermitTyped DEF WorkThrows
<1>9. ASSUME NEW outcome \in {"completed", "skipped", "failed"}, EndItem(t, outcome)
      PROVE  Typed'
  <2>1. [snap[t] EXCEPT !.seen = @ \cup {outcome}] \in Snapshot BY <1>0, SnapshotUpdates
  <2>2. LocalsTyped' BY <1>9 DEF EndItem, LocalsTyped, Typed, TypeOK
  <2>3. VerdictKnown'
    BY <1>9 DEF EndItem, VerdictKnown, Typed, TypeOK, Write, WorkerGoes
  <2>4. QED BY <1>0, <1>9, <2>1, <2>2, <2>3, WriteTyped DEF EndItem
<1>10. QED BY <1>1, <1>2, <1>3, <1>4, <1>5, <1>6, <1>7, <1>8, <1>9 DEF WorkStep

\* Every step of run_job keeps the types.
LEMMA TypedWorker ==
  ASSUME Typed, NEW t \in Transfers, WorkerStep(t)
  PROVE  Typed'
<1>0. /\ snap[t] \in Snapshot
      /\ {"enter", "early", "work", "final", "remove", "exit", "gone"} \subseteq WorkerPlaces
  BY DEF Typed, TypeOK, WorkerPlaces
<1> USE DEF WorkerGoes
<1>1. CASE WorkerPublish(t)
  <2>1. outbox' \in [Transfers -> Status \cup {None}] BY <1>1 DEF WorkerPublish, Typed, TypeOK
  <2>2. shown' \in [Transfers -> Status \cup {None}] /\ succeeded' \subseteq Transfers
    BY <1>1 DEF WorkerPublish, Notify, Typed, TypeOK
  <2>3. QED BY <1>1, <2>1, <2>2 DEF WorkerPublish, Typed, TypeOK, VerdictKnown
<1>2. CASE Acquire(t)
  <2>1. worker' \in [Transfers -> WorkerPlaces] BY <1>0, <1>2 DEF Acquire, Typed, TypeOK
  <2>2. available' \in Int BY <1>2 DEF Acquire, Typed, TypeOK
  <2>3. VerdictKnown' BY <1>2 DEF Acquire, Typed, TypeOK, VerdictKnown
  <2>4. QED BY <1>2, <2>1, <2>2, <2>3 DEF Acquire, Typed, TypeOK
<1>3. CASE AcquireCancelled(t)
  <2>1. worker' \in [Transfers -> WorkerPlaces]
    BY <1>0, <1>3 DEF AcquireCancelled, Typed, TypeOK
  <2>2. verdict' \in [Transfers -> TerminalStatus \cup {None}]
    BY <1>3 DEF AcquireCancelled, Typed, TypeOK, TerminalStatus
  <2>3. VerdictKnown'
    BY <1>3 DEF AcquireCancelled, Typed, TypeOK, VerdictKnown, None
  <2>4. QED BY <1>3, <2>1, <2>2, <2>3 DEF AcquireCancelled, Typed, TypeOK
<1>4. CASE Enter(t)
  <2>1. /\ [snap[t] EXCEPT !.status = "cancelled"] \in Snapshot
        /\ [snap[t] EXCEPT !.status = "running"] \in Snapshot
    BY <1>0, SnapshotUpdates DEF Status, ActiveStatus, TerminalStatus
  <2>2. QED BY <1>0, <1>4, <2>1, PlainWriteTyped DEF Enter
<1>5. CASE EarlyRelease(t) BY <1>0, <1>5, ReleasePermitTyped DEF EarlyRelease
<1>6. CASE WorkStep(t) BY <1>6, TypedWork
<1>7. CASE PushWorkerFailure(t)
  <2>1. [snap[t] EXCEPT !.seen = @ \cup {"failed"}] \in Snapshot BY <1>0, SnapshotUpdates
  <2>2. LocalsTyped'
    BY <1>7 DEF PushWorkerFailure, LocalsTyped, Typed, TypeOK, TerminalStatus
  <2>3. VerdictKnown'
    BY <1>7 DEF PushWorkerFailure, Fail, Write, Typed, TypeOK, VerdictKnown, None
  <2>4. QED BY <1>0, <1>7, <2>1, <2>2, <2>3, WriteTyped DEF PushWorkerFailure, Fail
<1>8. CASE Judge(t)
  <2>1. FinalStatus(cancel[t], snap[t].seen) \in TerminalStatus
    BY DEF FinalStatus, TerminalStatus
  <2>2. worker' \in [Transfers -> WorkerPlaces] BY <1>0, <1>8 DEF Judge, Typed, TypeOK
  <2>3. verdict' \in [Transfers -> TerminalStatus \cup {None}]
    BY <1>8, <2>1 DEF Judge, Typed, TypeOK
  <2>4. VerdictKnown'
    BY <1>8, <2>1 DEF Judge, Typed, TypeOK, VerdictKnown, None, TerminalStatus
  <2>5. QED BY <1>8, <2>2, <2>3, <2>4 DEF Judge, Typed, TypeOK
<1>9. CASE FinalizeStatus(t)
  <2>1. PICK first, second \in HistoryOutcome :
           /\ Finalize(t, verdict[t], first, second)
           /\ outbox' = [outbox EXCEPT ![t] = snap'[t].status]
    BY <1>9 DEF FinalizeStatus
  <2>2. verdict[t] \in Status
    BY <1>9 DEF FinalizeStatus, Typed, TypeOK, VerdictKnown, Status
  <2>3. /\ snap' \in [Transfers -> Snapshot]
        /\ row' \in [Transfers -> Status \cup {None}]
        /\ snap'[t].status \in Status
    BY <2>1, <2>2, FinalizeTyped DEF Typed
  <2>4. outbox' \in [Transfers -> Status \cup {None}] BY <2>1, <2>3 DEF Typed, TypeOK
  <2>5. worker' \in [Transfers -> WorkerPlaces]
    BY <1>0, <1>9 DEF FinalizeStatus, Typed, TypeOK
  <2>6. verdict' \in [Transfers -> TerminalStatus \cup {None}]
    BY <1>9 DEF FinalizeStatus, Typed, TypeOK
  <2>7. VerdictKnown' BY <1>9 DEF FinalizeStatus, Typed, TypeOK, VerdictKnown
  <2>8. QED BY <1>9, <2>3, <2>4, <2>5, <2>6, <2>7 DEF FinalizeStatus, Typed, TypeOK
<1>10. CASE RemoveTerminalJob(t)
  BY <1>0, <1>10 DEF RemoveTerminalJob, Typed, TypeOK, VerdictKnown
<1>11. CASE WorkerExits(t)
  <2>1. worker' \in [Transfers -> WorkerPlaces] BY <1>0, <1>11 DEF WorkerExits, Typed, TypeOK
  <2>2. owners' \in [Transfers -> SUBSET {"start", "worker"}] /\ active_workers' \in Int
    BY <1>11 DEF WorkerExits, Release, Typed, TypeOK
  <2>3. VerdictKnown' BY <1>11 DEF WorkerExits, Typed, TypeOK, VerdictKnown
  <2>4. QED BY <1>11, <2>1, <2>2, <2>3 DEF WorkerExits, Typed, TypeOK
<1>12. QED BY <1>1, <1>2, <1>3, <1>4, <1>5, <1>6, <1>7, <1>8, <1>9, <1>10, <1>11
              DEF WorkerStep

\* A row rewritten by list(), get() or recovery is a row still.
LEMMA ReconciledTyped ==
  ASSUME NEW st \in Status \cup {None}
  PROVE  Reconciled(st) \in Status \cup {None}
BY DEF Reconciled, Status, TerminalStatus, ActiveStatus

\* Every interface call keeps the types.
LEMMA TypedCall ==
  ASSUME Typed, CallStep
  PROVE  Typed'
<1> USE DEF Typed, TypeOK, VerdictKnown
<1>0. \A t \in Transfers : snap[t] \in Snapshot /\ snap[t].status \in Status BY DEF Snapshot
<1>1. ASSUME NEW t \in Transfers, Cancel(t) PROVE Typed'
  BY <1>1 DEF Cancel
<1>2. ASSUME NEW t \in Transfers, ResolvePush(t) PROVE Typed'
  <2>1. resolver \in [transfer : Transfers, item : Items, action : Actions]
    BY <1>2, NoneNoTransfer DEF ResolvePush, NoCall, None
  <2>2. [item |-> resolver.item, action |-> resolver.action] \in [item : Items, action : Actions]
    BY <2>1
  <2>3. decisions[t] \in Seq([item : Items, action : Actions]) OBVIOUS
  <2>4. Append(decisions[t], [item |-> resolver.item, action |-> resolver.action])
           \in Seq([item : Items, action : Actions])
    BY <2>2, <2>3, PushTyped
  <2>5. decisions' \in [Transfers -> Seq([item : Items, action : Actions])]
    BY <1>2, <2>4 DEF ResolvePush
  <2>6. resolver' = NoCall BY <1>2 DEF ResolvePush
  <2>7. QED BY <1>2, <2>5, <2>6 DEF ResolvePush
<1>3. ASSUME NEW t \in Transfers, GetMiss(t) PROVE Typed'
  BY <1>3 DEF GetMiss
<1>4. ASSUME NEW t \in Transfers, GetHistory(t) PROVE Typed'
  <2>1. row' \in [Transfers -> Status \cup {None}]
    BY <1>4, ReconciledTyped DEF GetHistory
  <2>2. QED BY <1>4, <2>1 DEF GetHistory
<1>5. ASSUME NEW t \in Transfers, NEW action \in Actions, ResolveCheck(t, action) PROVE Typed'
  <2>1. snap[t].conflict \in Items
    BY <1>0, <1>5 DEF ResolveCheck, Snapshot
  <2>2. resolver' \in [transfer : Transfers, item : Items, action : Actions]
    BY <1>5, <2>1 DEF ResolveCheck
  <2>3. QED BY <1>5, <2>2 DEF ResolveCheck
<1>6. CASE ListHistory
  <2>1. row' \in [Transfers -> Status \cup {None}]
    BY <1>6, ReconciledTyped DEF ListHistory
  <2>2. lister' \in [stage : {"idle", "stored", "merged"},
                     view : [Transfers -> Status \cup {None}]]
    BY <1>6, <2>1 DEF ListHistory
  <2>3. QED BY <1>6, <2>1, <2>2 DEF ListHistory
<1>7. CASE ListMerge
  <2>1. [t \in Transfers |-> IF t \in jobs THEN snap[t].status ELSE lister.view[t]]
           \in [Transfers -> Status \cup {None}]
    BY <1>0
  <2>2. lister' \in [stage : {"idle", "stored", "merged"},
                     view : [Transfers -> Status \cup {None}]]
    BY <1>7, <2>1 DEF ListMerge
  <2>3. QED BY <1>7, <2>2 DEF ListMerge
<1>8. CASE ListReturns
  <2>1. lister' \in [stage : {"idle", "stored", "merged"},
                     view : [Transfers -> Status \cup {None}]]
    BY <1>8 DEF ListReturns, Idle
  <2>2. shown' \in [Transfers -> Status \cup {None}] /\ succeeded' \subseteq Transfers
    BY <1>8 DEF ListReturns
  <2>3. QED BY <1>8, <2>1, <2>2 DEF ListReturns
<1>9. QED BY <1>1, <1>2, <1>3, <1>4, <1>5, <1>6, <1>7, <1>8 DEF CallStep

\* Every step of shutdown() keeps the types.
LEMMA TypedShutdown ==
  ASSUME Typed, ShutdownStep
  PROVE  Typed'
<1> USE DEF Typed, TypeOK, VerdictKnown, ShutPlaces
<1>1. CASE ShutdownBegin BY <1>1 DEF ShutdownBegin
<1>2. CASE ShutdownScanned BY <1>2 DEF ShutdownScanned
<1>3. CASE ShutdownWaited BY <1>3 DEF ShutdownWaited
<1>4. CASE ShutdownDone BY <1>4 DEF ShutdownDone
<1>5. ASSUME NEW t \in Transfers, ShutdownScan(t) PROVE Typed'
  <2>1. previously_active' \subseteq Transfers BY <1>5 DEF ShutdownScan
  <2>2. cancel' = cancel \/ cancel' = [cancel EXCEPT ![t] = TRUE] BY <1>5 DEF ShutdownScan
  <2>3. cancel' \in [Transfers -> BOOLEAN] BY <2>2
  <2>4. QED BY <1>5, <2>1, <2>3 DEF ShutdownScan
<1>6. ASSUME NEW t \in Transfers, ShutdownMark(t) PROVE Typed'
  <2>1. "interrupted" \in Status BY DEF Status, TerminalStatus
  <2>2. snap' \in [Transfers -> Snapshot]
    BY <1>6, <2>1, SnapshotUpdates DEF ShutdownMark
  <2>3. row' \in [Transfers -> Status \cup {None}]
    BY <1>6, <2>1 DEF ShutdownMark
  <2>4. shown' \in [Transfers -> Status \cup {None}] /\ succeeded' \subseteq Transfers
    <3>1. \/ shown' = [shown EXCEPT ![t] = "interrupted"]
          \/ shown' = shown
      BY <1>6 DEF ShutdownMark, Notify, viewVars
    <3>2. succeeded' = succeeded
      BY <1>6 DEF ShutdownMark, Notify, viewVars
    <3>3. [shown EXCEPT ![t] = "interrupted"] \in [Transfers -> Status \cup {None}]
      BY <2>1, FunctionUpdates
    <3>4. QED BY <3>1, <3>2, <3>3
  <2>5. QED BY <1>6, <2>2, <2>3, <2>4 DEF ShutdownMark
<1>7. QED BY <1>1, <1>2, <1>3, <1>4, <1>5, <1>6 DEF ShutdownStep

\* The end of the process leaves typed state behind.
LEMMA TypedCrash ==
  ASSUME Typed, Crash \/ Recover
  PROVE  Typed'
<1>0. NewSnapshot \in Snapshot
  BY BoundsAssump DEF NewSnapshot, Snapshot, Status, ActiveStatus, Items, NoItem
<1>1. CASE Crash
  <2>1. lister' \in [stage : {"idle", "stored", "merged"},
                     view : [Transfers -> Status \cup {None}]]
    BY <1>1 DEF Crash, Idle
  <2>2. start' \in [Transfers -> StartPlaces] BY <1>1 DEF Crash, StartPlaces
  <2>3. worker' \in [Transfers -> WorkerPlaces] BY <1>1 DEF Crash, WorkerPlaces
  <2>4. snap' \in [Transfers -> Snapshot] BY <1>0, <1>1 DEF Crash
  <2>5. VerdictKnown' BY <1>1 DEF Crash, VerdictKnown
  <2>6. decisions' \in [Transfers -> Seq([item : Items, action : Actions])]
    BY <1>1 DEF Crash
  <2>7. active_workers' \in Int /\ available' \in Int
    BY <1>1, MaxParallelAssump DEF Crash
  <2>8. QED BY <1>1, <2>1, <2>2, <2>3, <2>4, <2>5, <2>6, <2>7
            DEF Crash, Typed, TypeOK, ShutPlaces
<1>2. CASE Recover
  <2>1. row' \in [Transfers -> Status \cup {None}]
    BY <1>2, ReconciledTyped DEF Recover, Typed, TypeOK
  <2>2. QED BY <1>2, <2>1 DEF Recover, Typed, TypeOK, VerdictKnown
<1>3. QED BY <1>1, <1>2

\* A new manager is well typed.
LEMMA TypedInit == Init => Typed
<1> SUFFICES ASSUME Init PROVE Typed OBVIOUS
<1>0. NewSnapshot \in Snapshot
  BY BoundsAssump DEF NewSnapshot, Snapshot, Status, ActiveStatus, Items, NoItem
<1>1. lister \in [stage : {"idle", "stored", "merged"},
                  view : [Transfers -> Status \cup {None}]]
  BY DEF Init, Idle
<1>2. snap \in [Transfers -> Snapshot] BY <1>0 DEF Init
<1>3. available \in Int BY MaxParallelAssump DEF Init
<1>4. decisions \in [Transfers -> Seq([item : Items, action : Actions])] BY DEF Init
<1>5. QED BY <1>1, <1>2, <1>3, <1>4
          DEF Init, Typed, TypeOK, VerdictKnown, StartPlaces, WorkerPlaces, ShutPlaces

\* No step leaves the types.
LEMMA TypedNext == Typed /\ [Next]_vars => Typed'
<1> SUFFICES ASSUME Typed, [Next]_vars PROVE Typed' OBVIOUS
<1>1. CASE UNCHANGED vars BY <1>1 DEF vars, Typed, TypeOK, VerdictKnown
<1>2. CASE Next
  BY <1>2, TypedStart, TypedWorker, TypedCall, TypedShutdown, TypedCrash DEF Next
<1>3. QED BY <1>1, <1>2

\* The variables of the manager keep their types, and a worker never finalizes
\* without a verdict, for any number of transfers and any limits.
THEOREM TypeCorrect == Spec => []TypeOK
<1>1. Typed => TypeOK BY DEF Typed
<1>2. QED BY <1>1, TypedInit, TypedNext, PTL DEF Spec

-----------------------------------------------------------------------------
(* Permits and admissions                                                  *)

Holding == {"enter", "early", "work", "item", "conflict"}
Owned == {t \in Transfers : InProgress(t)}
BeforeLaunch == {"idle", "admitted", "persisted", "registered", "erase", "rollback"}

\* The owners of an admission are the start call until it returns and the worker
\* until it exits, and there is no worker before the launch.
Places ==
  \A t \in Transfers :
    /\ "start" \in owners[t] <=> start[t] \notin {"idle", "done"}
    /\ "worker" \in owners[t] <=> worker[t] \notin {"none", "gone"}
    /\ start[t] \in BeforeLaunch => worker[t] = "none"

\* shutdown() has seen the count at zero, and it stays there.
Quiet == shut \in {"mark", "done"} => active_workers = 0

Counts == Places /\ PermitsConserved /\ AdmissionConserved /\ Quiet
Counted == Typed /\ Counts

\* How a cardinality follows one element that joins or leaves.
LEMMA Counting ==
  ASSUME NEW P \in SUBSET Transfers, NEW t \in Transfers
  PROVE  /\ Cardinality(P) \in Nat
         /\ t \notin P => Cardinality(P \cup {t}) = Cardinality(P) + 1
         /\ t \in P => Cardinality(P \ {t}) = Cardinality(P) - 1
         /\ Cardinality(P) = 0 => P = {}
<1>1. IsFiniteSet(P) BY FS_Subset, TransfersFinite
<1>2. QED BY <1>1, FS_CardinalityType, FS_AddElement, FS_RemoveElement, FS_EmptySet

\* A start call moves on without touching owners, workers or counters.
LEMMA StartMoves ==
  ASSUME Counted, NEW t \in Transfers, NEW from \in StartPlaces, NEW to \in StartPlaces,
         StartGoes(t, from, to), from \notin {"idle", "done"}, to \notin {"idle", "done"},
         to \in BeforeLaunch => from \in BeforeLaunch,
         UNCHANGED <<owners, worker, active_workers, available, shut>>
  PROVE  Counts'
<1>1. Places' BY DEF Counted, Counts, Places, Typed, TypeOK, StartGoes
<1>2. QED BY <1>1 DEF Counted, Counts, PermitsConserved, PermitHolders, AdmissionConserved,
                      InProgress, Quiet

\* A worker moves on without starting or ending.
LEMMA WorkerMoves ==
  ASSUME Counted, NEW t \in Transfers, NEW from, NEW to,
         WorkerGoes(t, from, to), from \notin {"none", "gone"}, to \notin {"none", "gone"},
         UNCHANGED <<owners, start, active_workers, shut>>
  PROVE  Places' /\ AdmissionConserved' /\ Quiet'
<1>1. Places' BY DEF Counted, Counts, Places, Typed, TypeOK, WorkerGoes, BeforeLaunch
<1>2. QED BY <1>1 DEF Counted, Counts, AdmissionConserved, InProgress, Quiet

\* ... and stays inside, or outside, the scope of its PermitGuard.
LEMMA PermitKept ==
  ASSUME Counted, NEW t \in Transfers, NEW from, NEW to,
         WorkerGoes(t, from, to), from \in Holding <=> to \in Holding,
         available' = available
  PROVE  PermitsConserved'
<1>1. PermitHolders' = PermitHolders
  BY DEF PermitHolders, Holding, WorkerGoes, Counted, Typed, TypeOK
<1>2. QED BY <1>1 DEF Counted, Counts, PermitsConserved

\* A guarded write inside the permit's scope keeps the counts.
LEMMA CountsWrite ==
  ASSUME Counted, NEW t \in Transfers, NEW from, NEW to, NEW new,
         Write(t, from, to, new), from \notin {"none", "gone"}, to \notin {"none", "gone"},
         from \in Holding <=> to \in Holding
  PROVE  Counts'
<1>1. WorkerGoes(t, from, to) /\ UNCHANGED <<owners, start, active_workers, available, shut>>
  BY DEF Write
<1>2. QED BY <1>1, WorkerMoves, PermitKept DEF Counts

\* PermitGuard::release gives back the permit of the worker that leaves.
LEMMA CountsReleasePermit ==
  ASSUME Counted, NEW t \in Transfers, NEW from \in Holding, NEW to,
         to \notin Holding \cup {"none", "gone"}, ReleasePermit(t, from, to)
  PROVE  Counts'
<1>1. WorkerGoes(t, from, to) /\ UNCHANGED <<owners, start, active_workers, shut>>
  BY DEF ReleasePermit
<1>2. Places' /\ AdmissionConserved' /\ Quiet' BY <1>1, WorkerMoves DEF Holding
<1>3. PermitHolders' = PermitHolders \ {t} /\ t \in PermitHolders
  BY <1>1 DEF PermitHolders, Holding, WorkerGoes, Counted, Typed, TypeOK
<1>4. PermitHolders \in SUBSET Transfers BY DEF PermitHolders
<1>5. Cardinality(PermitHolders') = Cardinality(PermitHolders) - 1 /\ Cardinality(PermitHolders) \in Nat
  BY <1>3, <1>4, Counting
<1>6. PermitsConserved'
  BY <1>5, MaxParallelAssump DEF ReleasePermit, PermitsConserved, Counted, Counts, Typed, TypeOK
<1>7. QED BY <1>2, <1>6 DEF Counts

\* One of the owners of an admission lets go.
LEMMA ReleaseCounts ==
  ASSUME Counted, NEW t \in Transfers, NEW owner \in {"start", "worker"},
         owner \in owners[t], Release(t, owner), UNCHANGED shut
  PROVE  AdmissionConserved' /\ Quiet'
<1>1. t \in Owned /\ Owned \in SUBSET Transfers BY DEF Owned, InProgress
<1>2. active_workers = Cardinality(Owned) /\ active_workers <= maximum_admitted
  BY DEF Counted, Counts, AdmissionConserved, Owned
<1>3. Cardinality(Owned) \in Nat /\ Cardinality(Owned \ {t}) = Cardinality(Owned) - 1
      /\ Cardinality(Owned) # 0
  BY <1>1, Counting
<1>4. Quiet' BY <1>2, <1>3 DEF Counted, Counts, Quiet
<1>5. maximum_admitted \in Nat BY MaxParallelAssump, MaxPendingAssump DEF maximum_admitted
<1>6. CASE owners[t] = {owner}
  <2>1. Owned' = Owned \ {t} BY <1>6 DEF Release, Owned, InProgress, Counted, Typed, TypeOK
  <2>2. active_workers' = active_workers - 1 BY <1>6 DEF Release
  <2>3. active_workers' = Cardinality(Owned') /\ active_workers' <= maximum_admitted
    BY <1>2, <1>3, <1>5, <2>1, <2>2
  <2>4. QED BY <1>4, <2>3 DEF AdmissionConserved, Owned, maximum_admitted
<1>7. CASE owners[t] # {owner}
  <2>1. Owned' = Owned
    <3>1. owners[t] \ {owner} # {} BY <1>7
    <3>2. QED BY <3>1 DEF Release, Owned, InProgress, Counted, Typed, TypeOK
  <2>2. active_workers' = active_workers BY <1>7 DEF Release
  <2>3. QED BY <1>2, <1>4, <2>1, <2>2 DEF AdmissionConserved, Owned, maximum_admitted
<1>8. QED BY <1>6, <1>7

\* A start call takes one admission, shares it at launch and drops its half.
LEMMA CountsStart ==
  ASSUME Counted, NEW t \in Transfers, StartStep(t)
  PROVE  Counts'
<1> USE DEF StartPlaces, BeforeLaunch
<1>1. CASE Admit(t)
  <2>1. start[t] = "idle" /\ ~shutting_down /\ active_workers < maximum_admitted
        /\ active_workers' = active_workers + 1 /\ owners' = [owners EXCEPT ![t] = {"start"}]
        /\ start' = [start EXCEPT ![t] = "admitted"]
        /\ UNCHANGED <<worker, available, shut>>
    BY <1>1 DEF Admit, StartGoes
  <2>a. owners \in [Transfers -> SUBSET {"start", "worker"}] BY DEF Counted, Typed, TypeOK
  <2>b. "start" \notin owners[t] /\ "worker" \notin owners[t]
    BY <2>1 DEF Counted, Counts, Places
  <2>2. owners[t] = {}
    <3>1. owners[t] \subseteq {"start", "worker"} BY <2>a
    <3>2. QED BY <2>b, <3>1
  <2>3. Owned' = Owned \cup {t} /\ t \notin Owned /\ Owned \in SUBSET Transfers
    <3>1. owners'[t] # {} BY <2>1, <2>a
    <3>2. \A u \in Transfers \ {t} : owners'[u] = owners[u] BY <2>1, <2>a
    <3>3. QED BY <2>2, <3>1, <3>2 DEF Owned, InProgress
  <2>4. Cardinality(Owned') = Cardinality(Owned) + 1 BY <2>3, Counting
  <2>5. maximum_admitted \in Nat BY MaxParallelAssump, MaxPendingAssump DEF maximum_admitted
  <2>6. active_workers = Cardinality(Owned) /\ active_workers \in Int
    BY DEF Counted, Counts, AdmissionConserved, Owned, Typed, TypeOK
  <2>7. active_workers' = Cardinality(Owned') /\ active_workers' <= maximum_admitted
    BY <2>1, <2>4, <2>5, <2>6
  <2>8. AdmissionConserved' BY <2>7 DEF AdmissionConserved, Owned, maximum_admitted
  <2>9. Places' BY <2>1 DEF Counted, Counts, Places, Typed, TypeOK
  <2>10. PermitsConserved' /\ Quiet'
    BY <2>1 DEF Counted, Counts, PermitsConserved, PermitHolders, Quiet, shutting_down
  <2>11. QED BY <2>8, <2>9, <2>10 DEF Counts
<1>2. CASE PersistInitial(t) BY <1>2, StartMoves DEF PersistInitial
<1>3. CASE PersistThrows(t) BY <1>3, StartMoves DEF PersistThrows
<1>4. CASE InsertJob(t) BY <1>4, StartMoves DEF InsertJob
<1>5. CASE InsertRefused(t) BY <1>5, StartMoves DEF InsertRefused
<1>6. CASE Launch(t)
  <2>1. /\ start[t] = "registered" /\ start' = [start EXCEPT ![t] = "launched"]
        /\ worker' = [worker EXCEPT ![t] = "acquire"]
        /\ owners' = [owners EXCEPT ![t] = @ \cup {"worker"}]
        /\ UNCHANGED <<active_workers, available, shut>>
    BY <1>6 DEF Launch, StartGoes
  <2>2. "start" \in owners[t] /\ worker[t] = "none"
    BY <2>1 DEF Counted, Counts, Places
  <2>3. Owned' = Owned
    BY <2>1, <2>2 DEF Owned, InProgress, Counted, Typed, TypeOK
  <2>4. PermitHolders' = PermitHolders
    BY <2>1, <2>2 DEF PermitHolders, Counted, Typed, TypeOK
  <2>5. Places' BY <2>1, <2>2 DEF Counted, Counts, Places, Typed, TypeOK
  <2>6. AdmissionConserved' BY <2>1, <2>3 DEF Counted, Counts, AdmissionConserved, Owned
  <2>7. PermitsConserved' /\ Quiet'
    BY <2>1, <2>4 DEF Counted, Counts, PermitsConserved, Quiet
  <2>8. QED BY <2>5, <2>6, <2>7 DEF Counts
<1>7. CASE LaunchThrows(t) BY <1>7, StartMoves DEF LaunchThrows
<1>8. CASE RollbackErase(t) BY <1>8, StartMoves DEF RollbackErase
<1>9. CASE RollbackFinalize(t) BY <1>9, StartMoves DEF RollbackFinalize
<1>10. CASE ReadInitial(t) BY <1>10, StartMoves DEF ReadInitial
<1>11. CASE PublishInitial(t) BY <1>11, StartMoves DEF PublishInitial
<1>12. CASE StartReturns(t)
  <2>1. /\ start[t] = "release" /\ start' = [start EXCEPT ![t] = "done"]
        /\ Release(t, "start") /\ UNCHANGED <<worker, available, shut>>
    BY <1>12 DEF StartReturns, StartGoes
  <2>2. "start" \in owners[t] BY <2>1 DEF Counted, Counts, Places
  <2>3. AdmissionConserved' /\ Quiet' BY <2>1, <2>2, ReleaseCounts
  <2>4. Places' BY <2>1 DEF Counted, Counts, Places, Typed, TypeOK, Release
  <2>5. PermitsConserved'
    BY <2>1 DEF Counted, Counts, PermitsConserved, PermitHolders
  <2>6. QED BY <2>3, <2>4, <2>5 DEF Counts
<1>13. QED BY <1>1, <1>2, <1>3, <1>4, <1>5, <1>6, <1>7, <1>8, <1>9, <1>10, <1>11, <1>12
              DEF StartStep

\* No step inside a batch changes what is counted, but for leaving it.
LEMMA CountsWork ==
  ASSUME Counted, NEW t \in Transfers, WorkStep(t)
  PROVE  Counts'
<1> USE DEF Holding
<1>1. CASE EntryFails(t) BY <1>1, CountsWrite DEF EntryFails, Fail
<1>2. CASE BeginItem(t) BY <1>2, CountsWrite DEF BeginItem
<1>3. CASE AwaitConflict(t) BY <1>3, CountsWrite DEF AwaitConflict
<1>4. CASE DiscardDecision(t)
  <2>1. WorkerGoes(t, "conflict", "conflict")
        /\ UNCHANGED <<owners, start, active_workers, available, shut>>
    BY <1>4 DEF DiscardDecision
  <2>2. QED BY <2>1, WorkerMoves, PermitKept DEF Counts
<1>5. CASE TakeDecision(t) BY <1>5, CountsWrite DEF TakeDecision
<1>6. CASE ConflictCancelled(t) BY <1>6, CountsWrite DEF ConflictCancelled, Fail
<1>7. CASE BatchReturns(t) BY <1>7, CountsReleasePermit DEF BatchReturns
<1>8. CASE WorkThrows(t) BY <1>8, CountsReleasePermit DEF WorkThrows
<1>9. ASSUME NEW outcome \in {"completed", "skipped", "failed"}, EndItem(t, outcome)
      PROVE  Counts'
  BY <1>9, CountsWrite DEF EndItem
<1>10. QED BY <1>1, <1>2, <1>3, <1>4, <1>5, <1>6, <1>7, <1>8, <1>9 DEF WorkStep

\* A worker takes one permit and gives it back on every path.
LEMMA CountsWorker ==
  ASSUME Counted, NEW t \in Transfers, WorkerStep(t)
  PROVE  Counts'
<1> USE DEF Holding
<1>1. CASE WorkerPublish(t)
  BY <1>1 DEF WorkerPublish, Counted, Counts, Places, PermitsConserved, PermitHolders,
              AdmissionConserved, InProgress, Quiet
<1>2. CASE Acquire(t)
  <2>1. WorkerGoes(t, "acquire", "enter") /\ UNCHANGED <<owners, start, active_workers, shut>>
        /\ available' = available - 1
    BY <1>2 DEF Acquire
  <2>2. Places' /\ AdmissionConserved' /\ Quiet' BY <2>1, WorkerMoves
  <2>3. PermitHolders' = PermitHolders \cup {t} /\ t \notin PermitHolders
    BY <2>1 DEF PermitHolders, WorkerGoes, Counted, Typed, TypeOK
  <2>4. PermitHolders \in SUBSET Transfers BY DEF PermitHolders
  <2>5. Cardinality(PermitHolders') = Cardinality(PermitHolders) + 1
        /\ Cardinality(PermitHolders) \in Nat
    BY <2>3, <2>4, Counting
  <2>6. PermitsConserved'
    BY <2>1, <2>5, MaxParallelAssump DEF PermitsConserved, Counted, Counts, Typed, TypeOK
  <2>7. QED BY <2>2, <2>6 DEF Counts
<1>3. CASE AcquireCancelled(t)
  <2>1. WorkerGoes(t, "acquire", "final")
        /\ UNCHANGED <<owners, start, active_workers, available, shut>>
    BY <1>3 DEF AcquireCancelled
  <2>2. QED BY <2>1, WorkerMoves, PermitKept DEF Counts
<1>4. CASE Enter(t) BY <1>4, CountsWrite DEF Enter
<1>5. CASE EarlyRelease(t) BY <1>5, CountsReleasePermit DEF EarlyRelease
<1>6. CASE WorkStep(t) BY <1>6, CountsWork
<1>7. CASE PushWorkerFailure(t) BY <1>7, CountsWrite DEF PushWorkerFailure, Fail
<1>8. CASE Judge(t)
  <2>1. WorkerGoes(t, "returned", "final")
        /\ UNCHANGED <<owners, start, active_workers, available, shut>>
    BY <1>8 DEF Judge
  <2>2. QED BY <2>1, WorkerMoves, PermitKept DEF Counts
<1>9. CASE FinalizeStatus(t)
  <2>1. WorkerGoes(t, "final", "remove")
        /\ UNCHANGED <<owners, start, active_workers, available, shut>>
    BY <1>9 DEF FinalizeStatus
  <2>2. QED BY <2>1, WorkerMoves, PermitKept DEF Counts
<1>10. CASE RemoveTerminalJob(t)
  <2>1. WorkerGoes(t, "remove", "exit")
        /\ UNCHANGED <<owners, start, active_workers, available, shut>>
    BY <1>10 DEF RemoveTerminalJob
  <2>2. QED BY <2>1, WorkerMoves, PermitKept DEF Counts
<1>11. CASE WorkerExits(t)
  <2>1. /\ WorkerGoes(t, "exit", "gone") /\ Release(t, "worker")
        /\ UNCHANGED <<start, available, shut>>
    BY <1>11 DEF WorkerExits
  <2>2. "worker" \in owners[t] BY <2>1 DEF Counted, Counts, Places, WorkerGoes
  <2>3. AdmissionConserved' /\ Quiet' BY <2>1, <2>2, ReleaseCounts
  <2>4. Places'
    BY <2>1 DEF Counted, Counts, Places, Typed, TypeOK, Release, WorkerGoes, BeforeLaunch
  <2>5. PermitsConserved' BY <2>1, PermitKept
  <2>6. QED BY <2>3, <2>4, <2>5 DEF Counts
<1>12. QED BY <1>1, <1>2, <1>3, <1>4, <1>5, <1>6, <1>7, <1>8, <1>9, <1>10, <1>11
              DEF WorkerStep

\* No interface call touches what is counted.
LEMMA CallsLeaveCounts == CallStep => UNCHANGED callFrame
BY DEF CallStep, Cancel, ResolvePush, GetMiss, GetHistory, ResolveCheck, ListHistory,
       ListMerge, ListReturns

\* Where nothing counted changes, the counts stand.
LEMMA CountsKept ==
  ASSUME Counts, UNCHANGED <<start, worker, owners, active_workers, available>>, Quiet'
  PROVE  Counts'
BY DEF Counts, Places, PermitsConserved, PermitHolders, AdmissionConserved, InProgress

\* shutdown() leaves its wait only when nothing runs.
LEMMA CountsShutdown ==
  ASSUME Counted, ShutdownStep
  PROVE  Counts'
<1>1. UNCHANGED <<start, worker, owners, active_workers, available>>
  BY DEF ShutdownStep, ShutdownBegin, ShutdownScan, ShutdownScanned, ShutdownWaited,
         ShutdownMark, ShutdownDone
<1>2. Quiet'
  BY <1>1 DEF ShutdownStep, ShutdownBegin, ShutdownScan, ShutdownScanned, ShutdownWaited,
         ShutdownMark, ShutdownDone, Quiet, Counted, Counts
<1>3. QED BY <1>1, <1>2, CountsKept DEF Counted

\* A manager without work: after construction, and after the process came back.
Fresh ==
  /\ owners = [t \in Transfers |-> {}]
  /\ active_workers = 0
  /\ available = MaxParallel
  /\ shut = "idle"
  /\ \A t \in Transfers :
       /\ start[t] \in {"idle", "done"}
       /\ worker[t] \in {"none", "gone"}
       /\ start[t] = "idle" => worker[t] = "none"

\* A manager with no transfer under way counts nothing.
LEMMA CountsFresh == Fresh => Counts
<1> SUFFICES ASSUME Fresh PROVE Counts OBVIOUS
<1> USE DEF Fresh
<1>1. Places BY DEF Places, BeforeLaunch
<1>2. PermitHolders = {} BY DEF PermitHolders
<1>3. {t \in Transfers : InProgress(t)} = {} BY DEF InProgress
<1>4. Cardinality({}) = 0 BY FS_EmptySet
<1>5. PermitsConserved BY <1>2, <1>4, MaxParallelAssump DEF PermitsConserved
<1>6. AdmissionConserved
  BY <1>3, <1>4, MaxParallelAssump, MaxPendingAssump DEF AdmissionConserved, maximum_admitted
<1>7. QED BY <1>1, <1>5, <1>6 DEF Counts, Quiet

\* The same after a step that creates one.
LEMMA CountsFreshNext == Fresh' => Counts'
BY CountsFresh, PTL

\* The counts hold in a new manager.
LEMMA CountedInit == Init => Counted
<1>1. Init => Counts BY CountsFresh DEF Init, Fresh
<1>2. QED BY <1>1, TypedInit DEF Counted

\* Every step keeps the counts.
LEMMA CountedNext == Counted /\ [Next]_vars => Counted'
<1> SUFFICES ASSUME Counted, [Next]_vars PROVE Counts'
  BY TypedNext DEF Counted
<1>1. CASE UNCHANGED vars
  BY <1>1, CountsKept DEF vars, Counted, Counts, Quiet
<1>2. ASSUME NEW t \in Transfers, StartStep(t) \/ WorkerStep(t) PROVE Counts'
  BY <1>2, CountsStart, CountsWorker
<1>3. CASE CallStep
  BY <1>3, CallsLeaveCounts, CountsKept DEF Counted, Counts, Quiet
<1>4. CASE ShutdownStep BY <1>4, CountsShutdown
<1>5. CASE Crash
  <2>1. Fresh' BY <1>5 DEF Crash, Fresh
  <2>2. QED BY <2>1, CountsFreshNext
<1>6. CASE Recover BY <1>6, CountsKept DEF Recover, Counted, Counts, Quiet
<1>7. QED BY <1>1, <1>2, <1>3, <1>4, <1>5, <1>6 DEF Next

\* The counts hold in every behaviour.
LEMMA CountedAlways == Spec => []Counted
BY CountedInit, CountedNext, PTL DEF Spec

\* No path out of run_job leaks a permit or returns one twice, for any number of
\* transfers and any limit.
THEOREM PermitsAreConserved == Spec => []PermitsConserved
<1>1. Counted => PermitsConserved BY DEF Counted, Counts
<1>2. QED BY <1>1, CountedAlways, PTL

\* active_workers is exact and within the limit, for any number of start calls.
THEOREM AdmissionIsConserved == Spec => []AdmissionConserved
<1>1. Counted => AdmissionConserved BY DEF Counted, Counts
<1>2. QED BY <1>1, CountedAlways, PTL

\* Exact counts make the end of shutdown()'s wait mean that nothing runs.
LEMMA CountedQuiesces == Counted => ShutdownQuiesces
<1> SUFFICES ASSUME Counted, shut \in {"mark", "done"}, NEW t \in Transfers
             PROVE  ~InProgress(t) /\ start[t] \in {"idle", "done"}
                                   /\ worker[t] \in {"none", "gone"}
  BY DEF ShutdownQuiesces
<1>1. Cardinality(Owned) = 0
  BY DEF Counted, Counts, Quiet, AdmissionConserved, Owned
<1>2. Owned = {}
  <2>1. Owned \in SUBSET Transfers BY DEF Owned
  <2>2. QED BY <1>1, <2>1, Counting
<1>3. ~InProgress(t) BY <1>2 DEF Owned
<1>4. QED BY <1>3 DEF InProgress, Counted, Counts, Places

\* When shutdown() has seen the count at zero, no start call and no worker of any
\* transfer runs, and none will.
THEOREM ShutdownIsQuiet == Spec => []ShutdownQuiesces
BY CountedQuiesces, CountedAlways, PTL

-----------------------------------------------------------------------------
(***************************************************************************)
(* Where a transfer is, what its snapshot says and what its durable row     *)
(* says: a terminal status is final, shutdown() reaches every worker, and a *)
(* success is recorded before it is shown.  All of it rests on `Staged`,    *)
(* which ties the places of the start call and of the worker to the status  *)
(* and to the registration of the job, and on `Durable`, which adds the     *)
(* rows.                                                                    *)
(***************************************************************************)

Registered == {"acquire", "enter", "early", "work", "item", "conflict", "returned",
               "threw", "final", "remove"}
Finished == {"early", "remove", "exit"}

Staged ==
  \A t \in Transfers :
    /\ start[t] \in BeforeLaunch => snap[t].status = "queued"
    /\ snap[t].status \in TerminalStatus => worker[t] \in Finished \cup {"none", "gone"}
    /\ worker[t] \in Finished => snap[t].status \in TerminalStatus
    /\ start[t] = "registered" \/ worker[t] \in Registered => t \in jobs
    /\ t \in jobs \cup scan \cup previously_active =>
         start[t] \notin {"idle", "admitted", "persisted"}

\* What a step may do to the snapshots of transfers that have ended.
KeepsTerminal == \A t \in Transfers :
  snap[t].status \in TerminalStatus => snap'[t].status = snap[t].status

Safe == Counted /\ Staged

-----------------------------------------------------------------------------
(* Steps of a start call                                                   *)

\* A step of a start call that leaves the workers alone.
LEMMA StageStart ==
  ASSUME Safe, NEW t \in Transfers, NEW from \in StartPlaces, NEW to \in StartPlaces,
         StartGoes(t, from, to),
         to \in BeforeLaunch => from \in BeforeLaunch /\ snap' = snap,
         \A u \in Transfers \ {t} : snap'[u] = snap[u],
         snap'[t] # snap[t] => worker[t] = "none" /\ snap[t].status \notin TerminalStatus,
         to = "registered" => t \in jobs',
         t \in jobs' \cup scan \cup previously_active => to \notin {"idle", "admitted", "persisted"},
         worker[t] \in Registered => t \in jobs',
         \A u \in Transfers \ {t} : u \in jobs' <=> u \in jobs,
         UNCHANGED <<worker, scan, previously_active>>
  PROVE  Staged' /\ KeepsTerminal
<1> USE DEF Safe, Staged, StartGoes
<1>0. start' = [start EXCEPT ![t] = to] /\ start[t] = from /\ start \in [Transfers -> StartPlaces]
  BY DEF Counted, Typed, TypeOK
<1>1. KeepsTerminal BY DEF KeepsTerminal
<1>2. ASSUME NEW u \in Transfers, u # t
      PROVE  /\ start'[u] \in BeforeLaunch => snap'[u].status = "queued"
             /\ snap'[u].status \in TerminalStatus => worker'[u] \in Finished \cup {"none", "gone"}
             /\ worker'[u] \in Finished => snap'[u].status \in TerminalStatus
             /\ start'[u] = "registered" \/ worker'[u] \in Registered => u \in jobs'
             /\ u \in jobs' \cup scan' \cup previously_active' =>
                  start'[u] \notin {"idle", "admitted", "persisted"}
  BY <1>0, <1>2
<1>3. start'[t] = to BY <1>0
<1>4. start'[t] \in BeforeLaunch => snap'[t].status = "queued" BY <1>0, <1>3
<1>5. snap'[t].status \in TerminalStatus => worker'[t] \in Finished \cup {"none", "gone"}
  OBVIOUS
<1>6. worker'[t] \in Finished => snap'[t].status \in TerminalStatus BY DEF Finished
<1>7. QED BY <1>1, <1>2, <1>3, <1>4, <1>5, <1>6

\* Every step of a start call keeps `Staged` and every terminal status.
LEMMA StagedStart ==
  ASSUME Safe, NEW t \in Transfers, StartStep(t)
  PROVE  Staged' /\ KeepsTerminal
<1> USE DEF StartPlaces, BeforeLaunch
<1>0. /\ start[t] \in {"idle", "admitted", "persisted"} =>
           t \notin jobs \cup scan \cup previously_active
      /\ worker[t] \in Registered => t \in jobs
      /\ start[t] = "registered" => t \in jobs
      /\ start[t] \in BeforeLaunch => worker[t] = "none" /\ snap[t].status = "queued"
  BY DEF Safe, Staged, Counted, Counts, Places
<1>1. CASE Admit(t) BY <1>0, <1>1, StageStart DEF Admit, StartGoes
<1>2. CASE PersistInitial(t) BY <1>0, <1>2, StageStart DEF PersistInitial, StartGoes
<1>3. CASE PersistThrows(t) BY <1>0, <1>3, StageStart DEF PersistThrows, StartGoes
<1>4. CASE InsertJob(t)
  <2>1. /\ StartGoes(t, "persisted", "registered") /\ jobs' = jobs \cup {t}
        /\ UNCHANGED <<snap, worker, scan, previously_active>>
    BY <1>4 DEF InsertJob
  <2>2. QED BY <1>0, <2>1, StageStart
<1>5. CASE InsertRefused(t) BY <1>0, <1>5, StageStart DEF InsertRefused, StartGoes
<1>6. CASE Launch(t)
  <2>1. /\ start[t] = "registered" /\ start' = [start EXCEPT ![t] = "launched"]
        /\ worker' = [worker EXCEPT ![t] = "acquire"]
        /\ UNCHANGED <<snap, jobs, scan, previously_active>>
    BY <1>6 DEF Launch, StartGoes
  <2>2. t \in jobs /\ snap[t].status = "queued" BY <1>0, <2>1
  <2>3. "queued" \notin TerminalStatus BY DEF TerminalStatus
  <2>4. Staged'
    BY <2>1, <2>2, <2>3 DEF Safe, Staged, Counted, Typed, TypeOK, Finished, Registered
  <2>5. KeepsTerminal BY <2>1 DEF KeepsTerminal
  <2>6. QED BY <2>4, <2>5
<1>7. CASE LaunchThrows(t) BY <1>0, <1>7, StageStart DEF LaunchThrows, StartGoes
<1>8. CASE RollbackErase(t)
  <2>1. /\ StartGoes(t, "erase", "rollback") /\ jobs' = jobs \ {t}
        /\ UNCHANGED <<snap, worker, scan, previously_active>>
    BY <1>8 DEF RollbackErase
  <2>2. worker[t] \notin Registered BY <1>0, <2>1 DEF StartGoes, Registered
  <2>3. QED BY <1>0, <2>1, <2>2, StageStart
<1>9. CASE RollbackFinalize(t)
  <2>1. PICK first, second \in HistoryOutcome :
           Finalize(t, IF shutting_down THEN "interrupted" ELSE "failed", first, second)
    BY <1>9 DEF RollbackFinalize
  <2>2. \A u \in Transfers \ {t} : snap'[u] = snap[u]
    BY <2>1 DEF Finalize, Safe, Counted, Typed, TypeOK
  <2>3. StartGoes(t, "rollback", "publish") /\ UNCHANGED <<worker, jobs, scan, previously_active>>
    BY <1>9 DEF RollbackFinalize
  <2>4. worker[t] = "none" /\ snap[t].status \notin TerminalStatus
    BY <1>0, <2>3 DEF StartGoes, TerminalStatus
  <2>5. QED BY <1>0, <2>2, <2>3, <2>4, StageStart
<1>10. CASE ReadInitial(t) BY <1>0, <1>10, StageStart DEF ReadInitial, StartGoes
<1>11. CASE PublishInitial(t) BY <1>0, <1>11, StageStart DEF PublishInitial, StartGoes
<1>12. CASE StartReturns(t) BY <1>0, <1>12, StageStart DEF StartReturns, StartGoes
<1>13. QED BY <1>1, <1>2, <1>3, <1>4, <1>5, <1>6, <1>7, <1>8, <1>9, <1>10, <1>11, <1>12
              DEF StartStep

-----------------------------------------------------------------------------
(* Steps of a worker                                                       *)

\* A step of a worker, by what it does to its place, snapshot and job.
LEMMA StageWorker ==
  ASSUME Safe, NEW t \in Transfers, NEW from, NEW to, WorkerGoes(t, from, to),
         from \notin {"none", "gone"}, to # "none",
         \A u \in Transfers \ {t} : snap'[u] = snap[u],
         snap'[t].status \in TerminalStatus => to \in Finished \cup {"gone"},
         to \in Finished => snap'[t].status \in TerminalStatus,
         snap'[t] # snap[t] => snap[t].status \notin TerminalStatus,
         \A u \in Transfers \ {t} : u \in jobs' <=> u \in jobs,
         t \in jobs' => t \in jobs,
         to \in Registered => t \in jobs',
         UNCHANGED <<start, scan, previously_active>>
  PROVE  Staged' /\ KeepsTerminal
<1>0. /\ worker' = [worker EXCEPT ![t] = to] /\ worker[t] = from
      /\ worker \in [Transfers -> WorkerPlaces]
      /\ start[t] \notin BeforeLaunch
  BY DEF Safe, Counted, Counts, Places, Typed, TypeOK, WorkerGoes
<1> USE DEF Safe, Staged
<1>1. KeepsTerminal BY DEF KeepsTerminal
<1>2. ASSUME NEW u \in Transfers, u # t
      PROVE  /\ start'[u] \in BeforeLaunch => snap'[u].status = "queued"
             /\ snap'[u].status \in TerminalStatus => worker'[u] \in Finished \cup {"none", "gone"}
             /\ worker'[u] \in Finished => snap'[u].status \in TerminalStatus
             /\ start'[u] = "registered" \/ worker'[u] \in Registered => u \in jobs'
             /\ u \in jobs' \cup scan' \cup previously_active' =>
                  start'[u] \notin {"idle", "admitted", "persisted"}
  BY <1>0, <1>2
<1>3. worker'[t] = to BY <1>0
<1>4. start[t] # "registered" BY <1>0 DEF BeforeLaunch
<1>5. start'[t] = "registered" \/ worker'[t] \in Registered => t \in jobs' BY <1>3, <1>4
<1>6. t \in jobs' \cup scan' \cup previously_active' =>
         start'[t] \notin {"idle", "admitted", "persisted"}
  OBVIOUS
<1>7. QED BY <1>0, <1>1, <1>2, <1>3, <1>5, <1>6

\* A guarded write of a worker that has not ended.
LEMMA StageWrite ==
  ASSUME Safe, NEW t \in Transfers, NEW from \in Registered \ Finished, NEW to,
         NEW new, Write(t, from, to, new), to \in Registered,
         new.status \in TerminalStatus <=> to \in Finished
  PROVE  Staged' /\ KeepsTerminal
<1>1. /\ WorkerGoes(t, from, to) /\ snap' = [snap EXCEPT ![t] = new]
      /\ UNCHANGED <<start, jobs, scan, previously_active>>
  BY DEF Write, Commit
<1>2. snap \in [Transfers -> Snapshot] /\ worker[t] = from
  BY <1>1 DEF Safe, Counted, Typed, TypeOK, WorkerGoes
<1>3. snap'[t] = new /\ \A u \in Transfers \ {t} : snap'[u] = snap[u] BY <1>1, <1>2
<1>4. snap[t].status \notin TerminalStatus /\ t \in jobs
  BY <1>2 DEF Safe, Staged, Registered, Finished
<1>5. from \notin {"none", "gone"} /\ to # "none" BY DEF Registered
<1>6. QED BY <1>1, <1>3, <1>4, <1>5, StageWorker

\* A move of a worker that writes nothing.
LEMMA StageMove ==
  ASSUME Safe, NEW t \in Transfers, NEW from \in Registered, NEW to,
         WorkerGoes(t, from, to), to \in Registered, from \in Finished <=> to \in Finished,
         UNCHANGED <<start, snap, jobs, scan, previously_active>>
  PROVE  Staged' /\ KeepsTerminal
<1>1. worker[t] = from BY DEF WorkerGoes
<1>2. /\ snap[t].status \in TerminalStatus <=> to \in Finished
      /\ t \in jobs
  BY <1>1 DEF Safe, Staged, Registered, Finished
<1>3. from \notin {"none", "gone"} /\ to # "none" BY DEF Registered
<1>4. QED BY <1>2, <1>3, StageWorker

\* Every step inside a batch keeps `Staged` and every terminal status.
LEMMA StagedWork ==
  ASSUME Safe, NEW t \in Transfers, WorkStep(t)
  PROVE  Staged' /\ KeepsTerminal
<1> USE DEF Registered, Finished
<1>0. /\ snap[t] \in Snapshot
      /\ worker[t] \in {"work", "item", "conflict"} => snap[t].status \notin TerminalStatus
  BY DEF Safe, Staged, Counted, Typed, TypeOK
<1>a. /\ [snap[t] EXCEPT !.status = "waitingConflict", !.conflict = snap[t].files].status
           = "waitingConflict"
      /\ [snap[t] EXCEPT !.status = "running", !.conflict = NoItem].status = "running"
      /\ [snap[t] EXCEPT !.files = @ + 1].status = snap[t].status
      /\ \A o : [snap[t] EXCEPT !.seen = @ \cup {o}].status = snap[t].status
      /\ "running" \notin TerminalStatus /\ "waitingConflict" \notin TerminalStatus
  BY <1>0 DEF Snapshot, TerminalStatus
<1>1. CASE EntryFails(t)
  BY <1>0, <1>a, <1>1, StageWrite DEF EntryFails, Fail, Write, WorkerGoes
<1>2. CASE BeginItem(t) BY <1>0, <1>a, <1>2, StageWrite DEF BeginItem, Write, WorkerGoes
<1>3. CASE AwaitConflict(t) BY <1>a, <1>3, StageWrite DEF AwaitConflict
<1>4. CASE DiscardDecision(t) BY <1>4, StageMove DEF DiscardDecision
<1>5. CASE TakeDecision(t) BY <1>a, <1>5, StageWrite DEF TakeDecision
<1>6. CASE ConflictCancelled(t)
  BY <1>0, <1>a, <1>6, StageWrite DEF ConflictCancelled, Fail, Write, WorkerGoes
<1>7. CASE BatchReturns(t) BY <1>7, StageMove DEF BatchReturns, ReleasePermit
<1>8. CASE WorkThrows(t) BY <1>8, StageMove DEF WorkThrows, ReleasePermit
<1>9. ASSUME NEW outcome \in {"completed", "skipped", "failed"}, EndItem(t, outcome)
      PROVE  Staged' /\ KeepsTerminal
  BY <1>0, <1>a, <1>9, StageWrite DEF EndItem, Write, WorkerGoes
<1>10. QED BY <1>1, <1>2, <1>3, <1>4, <1>5, <1>6, <1>7, <1>8, <1>9 DEF WorkStep

\* Every step of run_job keeps `Staged` and every terminal status.
LEMMA StagedWorker ==
  ASSUME Safe, NEW t \in Transfers, WorkerStep(t)
  PROVE  Staged' /\ KeepsTerminal
<1> USE DEF Registered, Finished
<1>0. snap[t] \in Snapshot /\ snap \in [Transfers -> Snapshot] BY DEF Safe, Counted, Typed, TypeOK
<1>1. CASE WorkerPublish(t)
  BY <1>1 DEF WorkerPublish, Safe, Staged, KeepsTerminal
<1>2. CASE Acquire(t) BY <1>2, StageMove DEF Acquire
<1>3. CASE AcquireCancelled(t) BY <1>3, StageMove DEF AcquireCancelled
<1>4. CASE Enter(t)
  <2>1. /\ [snap[t] EXCEPT !.status = "cancelled"].status \in TerminalStatus
        /\ [snap[t] EXCEPT !.status = "running"].status \notin TerminalStatus
    BY <1>0 DEF Snapshot, TerminalStatus
  <2>2. QED BY <1>4, <2>1, StageWrite DEF Enter
<1>5. CASE EarlyRelease(t) BY <1>5, StageMove DEF EarlyRelease, ReleasePermit
<1>6. CASE WorkStep(t) BY <1>6, StagedWork
<1>7. CASE PushWorkerFailure(t)
  <2>1. [snap[t] EXCEPT !.seen = @ \cup {"failed"}].status = snap[t].status
    BY <1>0 DEF Snapshot
  <2>2. worker[t] = "threw" BY <1>7 DEF PushWorkerFailure, Fail, Write, WorkerGoes
  <2>3. snap[t].status \notin TerminalStatus BY <2>2 DEF Safe, Staged
  <2>4. QED BY <1>7, <2>1, <2>3, StageWrite DEF PushWorkerFailure, Fail
<1>8. CASE Judge(t) BY <1>8, StageMove DEF Judge
<1>9. CASE FinalizeStatus(t)
  <2>1. PICK first, second \in HistoryOutcome : Finalize(t, verdict[t], first, second)
    BY <1>9 DEF FinalizeStatus
  <2>2. /\ WorkerGoes(t, "final", "remove") /\ worker[t] = "final"
        /\ UNCHANGED <<start, jobs, scan, previously_active>>
    BY <1>9 DEF FinalizeStatus, WorkerGoes
  <2>3. verdict[t] \in TerminalStatus
    BY <2>2 DEF Safe, Counted, Typed, TypeOK, VerdictKnown
  <2>4. LiveStatus(verdict[t], first) \in TerminalStatus
    BY <2>3 DEF LiveStatus, TerminalStatus
  <2>5. snap' = [snap EXCEPT ![t] = Ended(snap[t], LiveStatus(verdict[t], first))]
    BY <2>1 DEF Finalize
  <2>6. Ended(snap[t], LiveStatus(verdict[t], first)).status = LiveStatus(verdict[t], first)
    BY <1>0 DEF Ended, Snapshot
  <2>7. snap'[t].status \in TerminalStatus /\ \A u \in Transfers \ {t} : snap'[u] = snap[u]
    BY <1>0, <2>4, <2>5, <2>6
  <2>8. snap[t].status \notin TerminalStatus /\ t \in jobs BY <2>2 DEF Safe, Staged
  <2>9. QED BY <2>2, <2>7, <2>8, StageWorker
<1>10. CASE RemoveTerminalJob(t)
  <2>1. /\ WorkerGoes(t, "remove", "exit") /\ worker[t] = "remove" /\ jobs' = jobs \ {t}
        /\ UNCHANGED <<start, snap, scan, previously_active>>
    BY <1>10 DEF RemoveTerminalJob, WorkerGoes
  <2>2. snap[t].status \in TerminalStatus BY <2>1 DEF Safe, Staged
  <2>3. QED BY <2>1, <2>2, StageWorker
<1>11. CASE WorkerExits(t)
  <2>1. WorkerGoes(t, "exit", "gone") /\ UNCHANGED <<start, snap, jobs, scan, previously_active>>
    BY <1>11 DEF WorkerExits
  <2>2. QED BY <2>1, StageWorker
<1>12. QED BY <1>1, <1>2, <1>3, <1>4, <1>5, <1>6, <1>7, <1>8, <1>9, <1>10, <1>11
              DEF WorkerStep

-----------------------------------------------------------------------------
(* Steps of shutdown(), of the process, and of nobody                      *)

\* Every step of shutdown() keeps `Staged`; only its final loop rewrites a status.
LEMMA StagedShutdown ==
  ASSUME Safe, ShutdownStep
  PROVE  Staged' /\ (KeepsTerminal \/ shut = "mark")
<1> USE DEF Safe, Staged, KeepsTerminal
<1>1. CASE ShutdownBegin BY <1>1 DEF ShutdownBegin
<1>2. CASE ShutdownScanned BY <1>2 DEF ShutdownScanned
<1>3. CASE ShutdownWaited BY <1>3 DEF ShutdownWaited
<1>4. CASE ShutdownDone BY <1>4 DEF ShutdownDone
<1>5. ASSUME NEW t \in Transfers, ShutdownScan(t) PROVE Staged' /\ KeepsTerminal
  <2>1. /\ t \in scan /\ scan' = scan \ {t}
        /\ previously_active' \subseteq previously_active \cup {t}
        /\ UNCHANGED <<start, worker, snap, jobs>>
    BY <1>5 DEF ShutdownScan
  <2>2. QED BY <2>1
<1>6. ASSUME NEW t \in Transfers, ShutdownMark(t) PROVE Staged' /\ shut = "mark"
  <2>1. /\ shut = "mark" /\ t \in scan /\ scan' = scan \ {t}
        /\ snap' = [snap EXCEPT ![t] = Ended(snap[t], "interrupted")]
        /\ UNCHANGED <<start, worker, jobs, previously_active>>
    BY <1>6 DEF ShutdownMark
  <2>2. start[t] = "done" /\ worker[t] \in {"none", "gone"}
    BY <2>1, CountedQuiesces DEF ShutdownQuiesces
  <2>3. snap \in [Transfers -> Snapshot] BY DEF Counted, Typed, TypeOK
  <2>4. \A u \in Transfers \ {t} : snap'[u] = snap[u] BY <2>1, <2>3
  <2>5. QED BY <2>1, <2>2, <2>4 DEF BeforeLaunch, Finished, Registered
<1>7. QED BY <1>1, <1>2, <1>3, <1>4, <1>5, <1>6 DEF ShutdownStep

\* A new process has no registered job and only queued snapshots.
LEMMA StagedCrash ==
  ASSUME Safe, Crash
  PROVE  Staged'
BY DEF Crash, Staged, NewSnapshot, Finished, Registered, TerminalStatus

\* Where nothing `Staged` speaks of changes, it stands.
LEMMA StagedKept ==
  ASSUME Staged, UNCHANGED <<start, worker, snap, jobs, scan, previously_active>>
  PROVE  Staged' /\ KeepsTerminal
BY DEF Staged, KeepsTerminal

\* The invariant holds in a new manager.
LEMMA SafeInit == Init => Safe
<1>1. Init => Staged BY DEF Init, Staged, NewSnapshot, Finished, Registered, TerminalStatus
<1>2. QED BY <1>1, CountedInit DEF Safe

\* Every step keeps the invariant and, outside shutdown()'s final loop and a crash, every terminal status.
LEMMA SafeNext ==
  ASSUME Safe, [Next]_vars
  PROVE  Safe' /\ (KeepsTerminal \/ shut = "mark" \/ Crash)
<1>1. CASE UNCHANGED vars BY <1>1, StagedKept, CountedNext DEF vars, Safe
<1>2. ASSUME NEW t \in Transfers, StartStep(t) \/ WorkerStep(t)
      PROVE  Staged' /\ KeepsTerminal
  BY <1>2, StagedStart, StagedWorker
<1>3. CASE CallStep BY <1>3, CallsLeaveCounts, StagedKept, CountedNext DEF Safe
<1>4. CASE ShutdownStep BY <1>4, StagedShutdown, CountedNext DEF Safe
<1>5. CASE Crash BY <1>5, StagedCrash, CountedNext DEF Safe
<1>6. CASE Recover BY <1>6, StagedKept, CountedNext DEF Safe, Recover
<1>7. QED BY <1>1, <1>2, <1>3, <1>4, <1>5, <1>6, CountedNext DEF Next, Safe

\* The invariant holds in every behaviour.
LEMMA SafeAlways == Spec => []Safe
<1>1. Safe /\ [Next]_vars => Safe' BY SafeNext
<1>2. QED BY <1>1, SafeInit, PTL DEF Spec

\* No step of a start call, a worker or an interface call changes a terminal
\* status; only the final loop of shutdown() does.
THEOREM TerminalStatusIsFinal == Spec => TerminalIsFinal
<1>1. Safe /\ [Next]_vars =>
        [\A t \in Transfers : snap[t].status \in TerminalStatus /\ up' =>
           snap'[t].status = snap[t].status \/ shut = "mark"]_vars
  <2> SUFFICES ASSUME Safe, [Next]_vars, NEW t \in Transfers,
                      snap[t].status \in TerminalStatus, up'
               PROVE  snap'[t].status = snap[t].status \/ shut = "mark"
    OBVIOUS
  <2>1. ~Crash BY DEF Crash
  <2>2. QED BY <2>1, SafeNext DEF KeepsTerminal
<1>2. QED BY <1>1, SafeAlways, PTL DEF Spec, TerminalIsFinal

-----------------------------------------------------------------------------
(* shutdown() reaches every worker                                         *)

Alive(t) == start[t] = "registered" \/ worker[t] \notin {"none", "gone"}

\* From the moment shutting_down is set, a registered transfer is still to be
\* scanned, has been cancelled, or has ended.
Reached ==
  shut # "idle" => \A t \in Transfers : Alive(t) =>
    cancel[t] \/ snap[t].status \in TerminalStatus \/ (shut = "scan" /\ t \in scan)

\* Where neither jobs, flags nor places change, shutdown()'s reach stands.
LEMMA ReachedKept ==
  ASSUME Safe, Reached, KeepsTerminal, UNCHANGED <<shut, scan>>,
         \A t \in Transfers : cancel[t] => cancel'[t],
         shut # "idle" => \A t \in Transfers : Alive(t)' => Alive(t)
  PROVE  Reached'
BY DEF Reached, KeepsTerminal

\* No start call registers a job behind the scan.
LEMMA ReachedStart ==
  ASSUME Safe, Reached, NEW t \in Transfers, StartStep(t)
  PROVE  Reached'
<1>1. KeepsTerminal BY StagedStart
<1>2. UNCHANGED <<shut, scan, cancel>>
  BY DEF StartStep, Admit, PersistInitial, PersistThrows, InsertJob, InsertRefused, Launch,
         LaunchThrows, RollbackErase, RollbackFinalize, ReadInitial, PublishInitial, StartReturns
<1>3. start \in [Transfers -> StartPlaces] /\ worker \in [Transfers -> WorkerPlaces]
  BY DEF Safe, Counted, Typed, TypeOK
<1>4. shut # "idle" => \A u \in Transfers : Alive(u)' => Alive(u)
  BY <1>3 DEF StartStep, Admit, PersistInitial, PersistThrows, InsertJob, InsertRefused, Launch,
         LaunchThrows, RollbackErase, RollbackFinalize, ReadInitial, PublishInitial, StartReturns,
         StartGoes, Alive, shutting_down
<1>5. QED BY <1>1, <1>2, <1>4, ReachedKept

\* A worker the scan has reached stays reached until it ends.
LEMMA ReachedWorker ==
  ASSUME Safe, Reached, NEW t \in Transfers, WorkerStep(t)
  PROVE  Reached'
<1>1. KeepsTerminal BY StagedWorker
<1>2. UNCHANGED workerFrame /\ \A u \in Transfers : worker'[u] \notin {"none", "gone"} =>
                                  worker[u] \notin {"none", "gone"}
  <2>1. worker \in [Transfers -> WorkerPlaces] BY DEF Safe, Counted, Typed, TypeOK
  <2>2. UNCHANGED workerFrame
    BY DEF WorkerStep, WorkStep, WorkerPublish, Acquire, AcquireCancelled, Enter, EarlyRelease,
           EntryFails, BeginItem, EndItem, AwaitConflict, DiscardDecision, TakeDecision,
           ConflictCancelled, BatchReturns, WorkThrows, PushWorkerFailure, Judge, FinalizeStatus,
           RemoveTerminalJob, WorkerExits, ReleasePermit, Write, Fail
  <2>3. worker' = worker \/ \E from \in WorkerPlaces \ {"none", "gone"}, to \in WorkerPlaces :
                               worker[t] = from /\ worker' = [worker EXCEPT ![t] = to]
    BY DEF WorkerStep, WorkStep, WorkerPublish, Acquire, AcquireCancelled, Enter, EarlyRelease,
           EntryFails, BeginItem, EndItem, AwaitConflict, DiscardDecision, TakeDecision,
           ConflictCancelled, BatchReturns, WorkThrows, PushWorkerFailure, Judge, FinalizeStatus,
           RemoveTerminalJob, WorkerExits, ReleasePermit, Write, Fail, WorkerGoes, WorkerPlaces
  <2>4. QED BY <2>1, <2>2, <2>3
<1>3. QED BY <1>1, <1>2, ReachedKept DEF Alive

\* The scan leaves each job cancelled or terminal.
LEMMA ReachedShutdown ==
  ASSUME Safe, Reached, ShutdownStep
  PROVE  Reached'
<1>0. cancel \in [Transfers -> BOOLEAN] BY DEF Safe, Counted, Typed, TypeOK
<1>1. CASE ShutdownBegin
  <2>1. scan' = jobs /\ shut' = "scan" /\ UNCHANGED <<start, worker, snap, cancel>>
    BY <1>1 DEF ShutdownBegin
  <2>2. ASSUME NEW t \in Transfers, Alive(t) PROVE t \in jobs \/ snap[t].status \in TerminalStatus
    <3>1. start[t] = "registered" \/ worker[t] \in Registered \/ worker[t] = "exit"
      BY <2>2 DEF Alive, Registered, Safe, Counted, Typed, TypeOK, WorkerPlaces
    <3>2. QED BY <3>1 DEF Safe, Staged, Finished
  <2>3. QED BY <2>1, <2>2 DEF Reached, Alive
<1>2. CASE ShutdownScanned BY <1>2 DEF ShutdownScanned, Reached, Alive
<1>3. CASE ShutdownWaited BY <1>3 DEF ShutdownWaited, Reached, Alive
<1>4. CASE ShutdownDone BY <1>4 DEF ShutdownDone, Reached, Alive
<1>5. ASSUME NEW t \in Transfers, ShutdownScan(t) PROVE Reached'
  <2>1. /\ shut = "scan" /\ scan' = scan \ {t} /\ UNCHANGED <<start, worker, snap, shut>>
        /\ snap[t].status \notin TerminalStatus => cancel' = [cancel EXCEPT ![t] = TRUE]
        /\ cancel' = cancel \/ cancel' = [cancel EXCEPT ![t] = TRUE]
    BY <1>5 DEF ShutdownScan
  <2>2. \A u \in Transfers : cancel[u] => cancel'[u] BY <1>0, <2>1
  <2>3. snap[t].status \notin TerminalStatus => cancel'[t] BY <1>0, <2>1
  <2>4. QED BY <2>1, <2>2, <2>3 DEF Reached, Alive
<1>6. ASSUME NEW t \in Transfers, ShutdownMark(t) PROVE Reached'
  <2>1. shut' = "mark" /\ UNCHANGED <<start, worker, cancel, owners, shut>>
    BY <1>6 DEF ShutdownMark
  <2>2. \A u \in Transfers : start[u] # "registered" /\ worker[u] \in {"none", "gone"}
    BY <2>1, CountedQuiesces DEF Safe, ShutdownQuiesces
  <2>3. QED BY <2>1, <2>2 DEF Reached, Alive
<1>7. QED BY <1>1, <1>2, <1>3, <1>4, <1>5, <1>6 DEF ShutdownStep

\* Every step keeps shutdown()'s reach.
LEMMA ReachedNext ==
  ASSUME Safe, Reached, [Next]_vars
  PROVE  Reached'
<1>1. CASE UNCHANGED vars BY <1>1 DEF vars, Reached, Alive
<1>2. ASSUME NEW t \in Transfers, StartStep(t) \/ WorkerStep(t) PROVE Reached'
  BY <1>2, ReachedStart, ReachedWorker
<1>3. CASE CallStep
  <2>1. \A t \in Transfers : cancel[t] => cancel'[t]
    <3>1. cancel' = cancel \/ \E t \in Transfers : cancel' = [cancel EXCEPT ![t] = TRUE]
      BY <1>3 DEF CallStep, Cancel, ResolvePush, GetMiss, GetHistory, ResolveCheck,
                  ListHistory, ListMerge, ListReturns
    <3>2. cancel \in [Transfers -> BOOLEAN] BY DEF Safe, Counted, Typed, TypeOK
    <3>3. QED BY <3>1, <3>2
  <2>2. QED BY <1>3, <2>1, CallsLeaveCounts DEF Reached, Alive
<1>4. CASE ShutdownStep BY <1>4, ReachedShutdown
<1>5. CASE Crash BY <1>5 DEF Crash, Reached
<1>6. CASE Recover BY <1>6 DEF Recover, Reached, Alive
<1>7. QED BY <1>1, <1>2, <1>3, <1>4, <1>5, <1>6 DEF Next

\* Once shutdown() waits, every worker still alive has been told to stop or has
\* ended: no registration slips past the scan, for any number of transfers.
THEOREM ShutdownReaches == Spec => []ShutdownReachesEveryWorker
<1>1. Init => Reached BY DEF Init, Reached
<1>2. Safe /\ Reached /\ [Next]_vars => Reached' BY ReachedNext
<1>3. Safe /\ Reached => ShutdownReachesEveryWorker
  BY DEF Safe, Counted, Counts, Places, Reached, Alive, ShutdownReachesEveryWorker
<1>4. QED BY <1>1, <1>2, <1>3, SafeAlways, PTL DEF Spec
-----------------------------------------------------------------------------
(* What the durable rows say of a transfer: a success is shown only when    *)
(* history has it, a row in progress has an owner, and a conflict decision  *)
(* is taken for the conflict on show.  `Recorded` follows a success from    *)
(* the row to every copy of it that may still be shown; `Open` names the    *)
(* places from which somebody will still write the row's last status.       *)

Ending  == {"remove", "exit", "gone"}
Opening == {"persisted", "registered", "erase", "rollback"}
Working == {"acquire", "enter", "work", "item", "conflict", "returned", "threw", "final"}

\* A success that was shown, or that somebody holds a copy of and may still show.
Claims(t) ==
  \/ t \in succeeded \/ outbox[t] = "completed" \/ initial[t] = "completed"
  \/ snap[t].status = "completed" \/ lister.view[t] = "completed"

Recorded ==
  /\ \A t \in Transfers :
       /\ row[t] = "completed" => worker[t] \in Ending
       /\ Claims(t) => row[t] = "completed" \/ t \in previously_active
  /\ shut = "mark" => scan \subseteq previously_active

Open ==
  up /\ "history" \notin Faults =>
    \A t \in Transfers : row[t] \in ActiveStatus => start[t] \in Opening \/ worker[t] \in Working

Asked == \A t \in Transfers : worker[t] = "conflict" => snap[t].conflict = snap[t].files

Durable == Safe /\ Recorded /\ Open /\ Asked

-----------------------------------------------------------------------------
(* Steps of one transfer                                                   *)

\* A step of one transfer, by what it does to that transfer's row and to the copies of its
\* status: a finished row is kept, a success is noted only with the row, and a row in progress
\* is left to somebody.
LEMMA OneTransfer ==
  ASSUME Durable, NEW t \in Transfers, UNCHANGED <<shut, scan, previously_active, lister, up>>,
         \A u \in Transfers \ {t} :
           /\ start'[u] = start[u] /\ worker'[u] = worker[u] /\ snap'[u] = snap[u]
           /\ row'[u] = row[u] /\ outbox'[u] = outbox[u] /\ initial'[u] = initial[u]
           /\ u \in succeeded' <=> u \in succeeded,
         row'[t] = "completed" => worker'[t] \in Ending,
         row[t] = "completed" => row'[t] = "completed",
         Claims(t)' => Claims(t) \/ row'[t] = "completed",
         up /\ "history" \notin Faults /\ row'[t] \in ActiveStatus =>
            start'[t] \in Opening \/ worker'[t] \in Working,
         worker'[t] = "conflict" => snap'[t].conflict = snap'[t].files
  PROVE  Recorded' /\ Open' /\ Asked'
<1>1. Recorded'
  <2>1. ASSUME NEW u \in Transfers
        PROVE  /\ row'[u] = "completed" => worker'[u] \in Ending
               /\ Claims(u)' => row'[u] = "completed" \/ u \in previously_active'
    <3>1. CASE u = t BY <3>1 DEF Durable, Recorded
    <3>2. CASE u # t BY <3>2 DEF Durable, Recorded, Claims
    <3>3. QED BY <3>1, <3>2
  <2>2. shut' = "mark" => scan' \subseteq previously_active' BY DEF Durable, Recorded
  <2>3. QED BY <2>1, <2>2 DEF Recorded
<1>2. Open' BY DEF Durable, Open
<1>3. Asked' BY DEF Durable, Asked
<1>4. QED BY <1>1, <1>2, <1>3

\* What the invariant says of the types.
LEMMA DurableTypes ==
  ASSUME Durable
  PROVE  /\ start \in [Transfers -> StartPlaces] /\ worker \in [Transfers -> WorkerPlaces]
         /\ snap \in [Transfers -> Snapshot] /\ row \in [Transfers -> Status \cup {None}]
         /\ outbox \in [Transfers -> Status \cup {None}]
         /\ initial \in [Transfers -> Status \cup {None}]
         /\ lister.view \in [Transfers -> Status \cup {None}]
         /\ succeeded \subseteq Transfers /\ previously_active \subseteq Transfers
BY DEF Durable, Safe, Counted, Typed, TypeOK

\* finalize_status notes a success only when the first write of the row went through, and leaves
\* no row in progress while history accepts writes.
LEMMA FinalizeRecords ==
  ASSUME Durable, NEW t \in Transfers, NEW requested \in TerminalStatus,
         NEW first \in HistoryOutcome, NEW second \in HistoryOutcome,
         Finalize(t, requested, first, second)
  PROVE  /\ \A u \in Transfers \ {t} : snap'[u] = snap[u] /\ row'[u] = row[u]
         /\ snap'[t].status = "completed" => row'[t] = "completed" /\ requested = "completed"
         /\ row'[t] = "completed" => row[t] = "completed" \/ requested = "completed"
         /\ "history" \notin Faults => row'[t] \notin ActiveStatus
<1> DEFINE live == LiveStatus(requested, first)
<1>1. snap[t] \in Snapshot BY DurableTypes
<1>2. Ended(snap[t], live).status = live BY <1>1 DEF Ended, Snapshot
<1>3. live \in TerminalStatus /\ (live = "completed" => first /\ requested = "completed")
  BY DEF LiveStatus, TerminalStatus
<1>4. snap' = [snap EXCEPT ![t] = Ended(snap[t], live)]
      /\ row' = IF first \/ second THEN [row EXCEPT ![t] = live] ELSE row
  BY DEF Finalize
<1> HIDE DEF live
<1>5. snap'[t].status = live /\ \A u \in Transfers \ {t} : snap'[u] = snap[u] /\ row'[u] = row[u]
  BY <1>2, <1>4, DurableTypes
<1>6. row'[t] = live \/ (row'[t] = row[t] /\ ~first) BY <1>4, DurableTypes
<1>7. "history" \notin Faults => first BY DEF HistoryOutcome
<1>8. live \notin ActiveStatus BY <1>3 DEF TerminalStatus, ActiveStatus
<1>9. first => row'[t] = live BY <1>6
<1>10. QED BY <1>3, <1>5, <1>6, <1>7, <1>8, <1>9

\* Every step of a start call.
LEMMA DurableStart ==
  ASSUME Durable, NEW t \in Transfers, StartStep(t)
  PROVE  Recorded' /\ Open' /\ Asked'
<1> USE DEF StartGoes, Opening, Working, Ending
<1>0. /\ row[t] = "completed" => worker[t] \in Ending
      /\ start[t] \in BeforeLaunch => worker[t] = "none" /\ snap[t].status = "queued"
      /\ "history" \notin Faults /\ up => (row[t] \in ActiveStatus => start[t] \in Opening \/ worker[t] \in Working)
      /\ worker[t] = "conflict" => snap[t].conflict = snap[t].files
  BY DEF Durable, Recorded, Open, Asked, Safe, Staged, Counted, Counts, Places
<1>1. /\ start \in [Transfers -> StartPlaces] /\ worker \in [Transfers -> WorkerPlaces]
      /\ row \in [Transfers -> Status \cup {None}] /\ initial \in [Transfers -> Status \cup {None}]
      /\ shown \in [Transfers -> Status \cup {None}]
      /\ snap \in [Transfers -> Snapshot]
  BY DurableTypes DEF Durable, Safe, Counted, Typed, TypeOK
<1>2. UNCHANGED <<shut, scan, previously_active, lister, up, outbox>>
  BY DEF StartStep, Admit, PersistInitial, PersistThrows, InsertJob, InsertRefused, Launch,
         LaunchThrows, RollbackErase, RollbackFinalize, ReadInitial, PublishInitial, StartReturns
<1>3. ASSUME NEW from \in StartPlaces, NEW to \in StartPlaces, StartGoes(t, from, to),
             from \in Opening => to \in Opening,
             UNCHANGED <<worker, snap, row, initial, succeeded>>
      PROVE  Recorded' /\ Open' /\ Asked'
  <2>1. start'[t] = to /\ \A u \in Transfers \ {t} : start'[u] = start[u] BY <1>1, <1>3
  <2>2. Claims(t)' => Claims(t) BY <1>2, <1>3 DEF Claims
  <2>3. QED BY <1>0, <1>2, <1>3, <2>1, <2>2, OneTransfer
<1>4. CASE Admit(t) BY <1>3, <1>4 DEF Admit, StartPlaces
<1>5. CASE PersistInitial(t)
  <2>1. /\ start[t] = "admitted" /\ start' = [start EXCEPT ![t] = "persisted"]
        /\ row' = [row EXCEPT ![t] = snap[t].status] /\ UNCHANGED <<worker, snap, initial, succeeded>>
    BY <1>5 DEF PersistInitial
  <2>2. worker[t] = "none" /\ snap[t].status = "queued" BY <1>0, <2>1 DEF BeforeLaunch
  <2>3. start'[t] = "persisted" /\ row'[t] = "queued" BY <1>1, <2>1, <2>2
  <2>4. \A u \in Transfers \ {t} : start'[u] = start[u] /\ row'[u] = row[u] BY <1>1, <2>1
  <2>5. Claims(t)' => Claims(t) BY <1>2, <2>1 DEF Claims
  <2>6. QED BY <1>0, <1>2, <2>1, <2>2, <2>3, <2>4, <2>5, OneTransfer
<1>6. CASE PersistThrows(t) BY <1>3, <1>6 DEF PersistThrows, StartPlaces
<1>7. CASE InsertJob(t) BY <1>3, <1>7 DEF InsertJob, StartPlaces
<1>8. CASE InsertRefused(t) BY <1>3, <1>8 DEF InsertRefused, StartPlaces
<1>9. CASE Launch(t)
  <2>1. /\ start[t] = "registered" /\ start' = [start EXCEPT ![t] = "launched"]
        /\ worker' = [worker EXCEPT ![t] = "acquire"] /\ UNCHANGED <<snap, row, initial, succeeded>>
    BY <1>9 DEF Launch
  <2>2. row[t] # "completed" BY <1>0, <2>1 DEF BeforeLaunch
  <2>3. worker'[t] = "acquire" /\ \A u \in Transfers \ {t} : start'[u] = start[u] /\ worker'[u] = worker[u]
    BY <1>1, <2>1
  <2>4. Claims(t)' => Claims(t) BY <1>2, <2>1 DEF Claims
  <2>5. QED BY <1>2, <2>1, <2>2, <2>3, <2>4, OneTransfer
<1>10. CASE LaunchThrows(t) BY <1>3, <1>10 DEF LaunchThrows, StartPlaces
<1>11. CASE RollbackErase(t) BY <1>3, <1>11 DEF RollbackErase, StartPlaces
<1>12. CASE RollbackFinalize(t)
  <2> DEFINE requested == IF shutting_down THEN "interrupted" ELSE "failed"
  <2>1. PICK first, second \in HistoryOutcome :
           /\ Finalize(t, requested, first, second)
           /\ initial' = [initial EXCEPT ![t] = snap'[t].status]
    BY <1>12 DEF RollbackFinalize
  <2>2. /\ start[t] = "rollback" /\ start' = [start EXCEPT ![t] = "publish"]
        /\ UNCHANGED <<worker, succeeded>>
    BY <1>12 DEF RollbackFinalize
  <2>3. requested \in TerminalStatus /\ requested # "completed" BY DEF TerminalStatus
  <2> HIDE DEF requested
  <2>4. /\ \A u \in Transfers \ {t} : snap'[u] = snap[u] /\ row'[u] = row[u]
        /\ snap'[t].status # "completed" /\ (row'[t] = "completed" => row[t] = "completed")
        /\ "history" \notin Faults => row'[t] \notin ActiveStatus
    BY <2>1, <2>3, FinalizeRecords
  <2>5. worker[t] = "none" /\ row[t] # "completed" BY <1>0, <2>2 DEF BeforeLaunch
  <2>6. initial'[t] # "completed" /\ \A u \in Transfers \ {t} : start'[u] = start[u] /\ initial'[u] = initial[u]
    BY <1>1, <2>1, <2>2, <2>4
  <2>7. Claims(t)' => Claims(t) BY <1>2, <2>2, <2>4, <2>6 DEF Claims
  <2>8. QED BY <1>2, <2>2, <2>4, <2>5, <2>6, <2>7, OneTransfer
<1>13. CASE ReadInitial(t)
  <2>1. /\ start[t] = "launched" /\ start' = [start EXCEPT ![t] = "publish"]
        /\ initial' = [initial EXCEPT ![t] = snap[t].status] /\ UNCHANGED <<worker, snap, row, succeeded>>
    BY <1>13 DEF ReadInitial
  <2>2. initial'[t] = snap[t].status /\ \A u \in Transfers \ {t} : start'[u] = start[u] /\ initial'[u] = initial[u]
    BY <1>1, <2>1
  <2>3. Claims(t)' => Claims(t) BY <1>2, <2>1, <2>2 DEF Claims
  <2>4. QED BY <1>0, <1>2, <2>1, <2>2, <2>3, OneTransfer
<1>14. CASE PublishInitial(t)
  <2>1. /\ start[t] = "publish" /\ start' = [start EXCEPT ![t] = "release"]
        /\ initial' = [initial EXCEPT ![t] = None] /\ UNCHANGED <<worker, snap, row>>
        /\ succeeded' = IF initial[t] = "completed" THEN succeeded \cup {t} ELSE succeeded
    BY <1>14 DEF PublishInitial, Notify
  <2>2. initial'[t] = None /\ \A u \in Transfers \ {t} : start'[u] = start[u] /\ initial'[u] = initial[u]
    BY <1>1, <2>1
  <2>3. Claims(t)' => Claims(t) BY <1>2, <2>1, <2>2 DEF Claims, None
  <2>4. QED BY <1>0, <1>2, <2>1, <2>2, <2>3, OneTransfer
<1>15. CASE StartReturns(t) BY <1>3, <1>15 DEF StartReturns, StartPlaces
<1>16. QED BY <1>4, <1>5, <1>6, <1>7, <1>8, <1>9, <1>10, <1>11, <1>12, <1>13, <1>14, <1>15
              DEF StartStep

\* A worker's move that writes no snapshot.
LEMMA DurableMove ==
  ASSUME Durable, NEW t \in Transfers, NEW from \in WorkerPlaces, NEW to \in WorkerPlaces,
         WorkerGoes(t, from, to), from \in Ending => to \in Ending,
         from \in Working => to \in Working,
         to = "conflict" => from = "conflict",
         UNCHANGED <<snap, outbox, row, viewVars, startVars, shutVars, readVars, up>>
  PROVE  Recorded' /\ Open' /\ Asked'
<1>1. worker[t] = from /\ worker'[t] = to /\ \A u \in Transfers \ {t} : worker'[u] = worker[u]
  BY DurableTypes DEF WorkerGoes
<1>2. Claims(t)' => Claims(t) BY DEF Claims
<1>3. /\ row[t] = "completed" => worker[t] \in Ending
      /\ "history" \notin Faults /\ up => (row[t] \in ActiveStatus => start[t] \in Opening \/ worker[t] \in Working)
      /\ worker[t] = "conflict" => snap[t].conflict = snap[t].files
  BY DEF Durable, Recorded, Open, Asked
<1>4. QED BY <1>1, <1>2, <1>3, OneTransfer

\* A guarded write of a worker that has not ended: it may write the row, never a success, and a
\* status that ends the transfer always goes to the row while history accepts it.
LEMMA DurableWrite ==
  ASSUME Durable, NEW t \in Transfers, NEW from \in Working, NEW to \in WorkerPlaces,
         NEW new, Write(t, from, to, new), new.status \in Status \ {"completed"},
         to \in Working \/ (to = "early" /\ new.status \notin ActiveStatus),
         to = "conflict" => new.conflict = new.files
  PROVE  Recorded' /\ Open' /\ Asked'
<1>1. PICK due \in BOOLEAN, ok \in HistoryOutcome :
         LET publish == due \/ new.status # snap[t].status
         IN  /\ snap' = [snap EXCEPT ![t] = new]
             /\ row' = IF publish /\ ok THEN [row EXCEPT ![t] = new.status] ELSE row
             /\ outbox' = IF publish THEN [outbox EXCEPT ![t] = new.status] ELSE outbox
  BY DEF Write, Commit
<1>2. /\ worker[t] = from /\ worker' = [worker EXCEPT ![t] = to]
      /\ UNCHANGED <<startVars, shutVars, readVars, up, viewVars>>
  BY DEF Write, WorkerGoes
<1>3. /\ worker'[t] = to /\ snap'[t] = new
      /\ \A u \in Transfers \ {t} : /\ worker'[u] = worker[u] /\ snap'[u] = snap[u]
                                    /\ row'[u] = row[u] /\ outbox'[u] = outbox[u]
  BY <1>1, <1>2, DurableTypes
<1>4. /\ row'[t] = new.status \/ row'[t] = row[t]
      /\ outbox'[t] = new.status \/ outbox'[t] = outbox[t]
  BY <1>1, DurableTypes
<1>5. row[t] # "completed" BY <1>2 DEF Durable, Recorded, Working, Ending
<1>6. Claims(t)' => Claims(t) BY <1>2, <1>3, <1>4 DEF Claims
<1>7. "history" \notin Faults /\ row'[t] \in ActiveStatus => worker'[t] \in Working
  <2>1. CASE to \in Working BY <1>3, <2>1
  <2>2. CASE to = "early" /\ new.status \notin ActiveStatus /\ "history" \notin Faults
    <3>1. snap[t].status \notin TerminalStatus
      BY <1>2 DEF Durable, Safe, Staged, Working, Finished
    <3>2. snap[t].status \in Status BY DurableTypes DEF Snapshot
    <3>3. new.status # snap[t].status BY <2>2, <3>1, <3>2 DEF Status
    <3>4. ok BY <2>2 DEF HistoryOutcome
    <3>5. row'[t] = new.status BY <1>1, <3>3, <3>4, DurableTypes
    <3>6. QED BY <2>2, <3>5
  <2>3. QED BY <2>1, <2>2
<1>8. QED BY <1>2, <1>3, <1>4, <1>5, <1>6, <1>7, OneTransfer

\* Every step inside a batch.
LEMMA DurableWork ==
  ASSUME Durable, NEW t \in Transfers, WorkStep(t)
  PROVE  Recorded' /\ Open' /\ Asked'
<1> USE DEF Working, Ending, WorkerPlaces
<1>0. /\ snap[t] \in Snapshot
      /\ worker[t] \in {"work", "item", "conflict"} => snap[t].status \notin TerminalStatus
  BY DurableTypes DEF Durable, Safe, Staged, Finished
<1>1. /\ [snap[t] EXCEPT !.status = "waitingConflict", !.conflict = snap[t].files].status = "waitingConflict"
      /\ [snap[t] EXCEPT !.status = "waitingConflict", !.conflict = snap[t].files].conflict
           = [snap[t] EXCEPT !.status = "waitingConflict", !.conflict = snap[t].files].files
      /\ [snap[t] EXCEPT !.status = "running", !.conflict = NoItem].status = "running"
      /\ [snap[t] EXCEPT !.files = @ + 1].status = snap[t].status
      /\ \A o : [snap[t] EXCEPT !.seen = @ \cup {o}].status = snap[t].status
      /\ "running" \in Status \ {"completed"} /\ "waitingConflict" \in Status \ {"completed"}
  BY <1>0 DEF Snapshot, Status, ActiveStatus, TerminalStatus
<1>2. worker[t] \in {"work", "item", "conflict"} => snap[t].status \in Status \ {"completed"}
  BY <1>0 DEF Snapshot, TerminalStatus
<1>3. CASE EntryFails(t)
  BY <1>1, <1>2, <1>3, DurableWrite DEF EntryFails, Fail, Write, WorkerGoes
<1>4. CASE BeginItem(t) BY <1>1, <1>2, <1>4, DurableWrite DEF BeginItem, Write, WorkerGoes
<1>5. CASE AwaitConflict(t)
  <2> DEFINE new == [snap[t] EXCEPT !.status = "waitingConflict", !.conflict = snap[t].files]
  <2>1. Write(t, "item", "conflict", new) /\ new.conflict = new.files
        /\ new.status \in Status \ {"completed"}
    BY <1>1, <1>5 DEF AwaitConflict
  <2> HIDE DEF new
  <2>2. QED BY <2>1, DurableWrite
<1>6. CASE DiscardDecision(t) BY <1>6, DurableMove DEF DiscardDecision
<1>7. CASE TakeDecision(t)
  <2> DEFINE new == [snap[t] EXCEPT !.status = "running", !.conflict = NoItem]
  <2>1. Write(t, "conflict", "item", new) /\ new.status \in Status \ {"completed"}
    BY <1>1, <1>7 DEF TakeDecision
  <2> HIDE DEF new
  <2>2. QED BY <2>1, DurableWrite
<1>8. CASE ConflictCancelled(t)
  BY <1>1, <1>2, <1>8, DurableWrite DEF ConflictCancelled, Fail, Write, WorkerGoes
<1>9. CASE BatchReturns(t) BY <1>9, DurableMove DEF BatchReturns, ReleasePermit
<1>10. CASE WorkThrows(t) BY <1>10, DurableMove DEF WorkThrows, ReleasePermit
<1>11. ASSUME NEW outcome \in {"completed", "skipped", "failed"}, EndItem(t, outcome)
       PROVE  Recorded' /\ Open' /\ Asked'
  BY <1>1, <1>2, <1>11, DurableWrite DEF EndItem, Write, WorkerGoes
<1>12. QED BY <1>3, <1>4, <1>5, <1>6, <1>7, <1>8, <1>9, <1>10, <1>11 DEF WorkStep

\* Every step of run_job.
LEMMA DurableWorker ==
  ASSUME Durable, NEW t \in Transfers, WorkerStep(t)
  PROVE  Recorded' /\ Open' /\ Asked'
<1> USE DEF Working, Ending, WorkerPlaces
<1>0. snap[t] \in Snapshot BY DurableTypes
<1>1. CASE WorkerPublish(t)
  <2>1. /\ outbox' = [outbox EXCEPT ![t] = None]
        /\ succeeded' = IF outbox[t] = "completed" THEN succeeded \cup {t} ELSE succeeded
        /\ UNCHANGED <<startVars, worker, snap, row, shutVars, readVars, up>>
    BY <1>1 DEF WorkerPublish, Notify
  <2>2. outbox'[t] = None /\ \A u \in Transfers \ {t} : outbox'[u] = outbox[u] BY <2>1, DurableTypes
  <2>3. Claims(t)' => Claims(t) BY <2>1, <2>2 DEF Claims, None
  <2>4. /\ row[t] = "completed" => worker[t] \in Ending
        /\ "history" \notin Faults /\ up => (row[t] \in ActiveStatus => start[t] \in Opening \/ worker[t] \in Working)
        /\ worker[t] = "conflict" => snap[t].conflict = snap[t].files
    BY DEF Durable, Recorded, Open, Asked
  <2>5. QED BY <2>1, <2>2, <2>3, <2>4, OneTransfer
<1>2. CASE Acquire(t) BY <1>2, DurableMove DEF Acquire
<1>3. CASE AcquireCancelled(t) BY <1>3, DurableMove DEF AcquireCancelled
<1>4. CASE Enter(t)
  <2> DEFINE ended == [snap[t] EXCEPT !.status = "cancelled"]
             entered == [snap[t] EXCEPT !.status = "running"]
  <2>1. /\ ended.status \in Status \ {"completed"} /\ ended.status \notin ActiveStatus
        /\ entered.status \in Status \ {"completed"}
    BY <1>0 DEF Snapshot, Status, ActiveStatus, TerminalStatus
  <2>2. Write(t, "enter", "early", ended) \/ Write(t, "enter", "work", entered) BY <1>4 DEF Enter
  <2> HIDE DEF ended, entered
  <2>3. CASE Write(t, "enter", "early", ended) BY <2>1, <2>3, DurableWrite
  <2>4. CASE Write(t, "enter", "work", entered) BY <2>1, <2>4, DurableWrite
  <2>5. QED BY <2>2, <2>3, <2>4
<1>5. CASE EarlyRelease(t) BY <1>5, DurableMove DEF EarlyRelease, ReleasePermit
<1>6. CASE WorkStep(t) BY <1>6, DurableWork
<1>7. CASE PushWorkerFailure(t)
  <2>1. [snap[t] EXCEPT !.seen = @ \cup {"failed"}].status = snap[t].status BY <1>0 DEF Snapshot
  <2>2. worker[t] = "threw" BY <1>7 DEF PushWorkerFailure, Fail, Write, WorkerGoes
  <2>3. snap[t].status \in Status \ {"completed"}
    BY <1>0, <2>2 DEF Durable, Safe, Staged, Finished, Snapshot, TerminalStatus
  <2>4. QED BY <1>7, <2>1, <2>3, DurableWrite DEF PushWorkerFailure, Fail
<1>8. CASE Judge(t) BY <1>8, DurableMove DEF Judge
<1>9. CASE FinalizeStatus(t)
  <2>1. PICK first, second \in HistoryOutcome :
           /\ Finalize(t, verdict[t], first, second)
           /\ outbox' = [outbox EXCEPT ![t] = snap'[t].status]
    BY <1>9 DEF FinalizeStatus
  <2>2. /\ worker[t] = "final" /\ worker' = [worker EXCEPT ![t] = "remove"]
        /\ UNCHANGED <<startVars, shutVars, readVars, up, viewVars>>
    BY <1>9 DEF FinalizeStatus, WorkerGoes
  <2>3. verdict[t] \in TerminalStatus
    BY <2>2 DEF Durable, Safe, Counted, Typed, TypeOK, VerdictKnown
  <2>4. /\ \A u \in Transfers \ {t} : snap'[u] = snap[u] /\ row'[u] = row[u]
        /\ snap'[t].status = "completed" => row'[t] = "completed"
        /\ "history" \notin Faults => row'[t] \notin ActiveStatus
    BY <2>1, <2>3, FinalizeRecords
  <2>5. /\ worker'[t] = "remove" /\ outbox'[t] = snap'[t].status
        /\ \A u \in Transfers \ {t} : worker'[u] = worker[u] /\ outbox'[u] = outbox[u]
    BY <2>1, <2>2, DurableTypes
  <2>6. row[t] # "completed" BY <2>2 DEF Durable, Recorded
  <2>7. Claims(t)' => Claims(t) \/ row'[t] = "completed" BY <2>2, <2>4, <2>5 DEF Claims
  <2>8. QED BY <2>2, <2>4, <2>5, <2>6, <2>7, OneTransfer
<1>10. CASE RemoveTerminalJob(t) BY <1>10, DurableMove DEF RemoveTerminalJob
<1>11. CASE WorkerExits(t) BY <1>11, DurableMove DEF WorkerExits
<1>12. QED BY <1>1, <1>2, <1>3, <1>4, <1>5, <1>6, <1>7, <1>8, <1>9, <1>10, <1>11
              DEF WorkerStep

-----------------------------------------------------------------------------
(* Steps of the interface, of shutdown() and of the process                *)

\* list() and get() rewrite only rows in progress, and list() shows only what the rows or the
\* live jobs say.
LEMMA DurableCall ==
  ASSUME Durable, CallStep
  PROVE  Recorded' /\ Open' /\ Asked'
<1>0. UNCHANGED callFrame BY CallsLeaveCounts
<1>1. Asked' BY <1>0 DEF Durable, Asked
<1>2. ASSUME \A t \in Transfers : /\ row'[t] = "completed" <=> row[t] = "completed"
                                  /\ row'[t] \in ActiveStatus => row[t] \in ActiveStatus
                                  /\ t \in succeeded' \/ lister'.view[t] = "completed" =>
                                       Claims(t) \/ row[t] = "completed"
      PROVE  Recorded' /\ Open'
  <2>1. Open' BY <1>0, <1>2 DEF Durable, Open
  <2>2. \A t \in Transfers : Claims(t)' => Claims(t) \/ row[t] = "completed" BY <1>0, <1>2 DEF Claims
  <2>3. QED BY <1>0, <1>2, <2>1, <2>2 DEF Durable, Recorded
<1>3. \A s \in Status \cup {None} : /\ Reconciled(s) = "completed" <=> s = "completed"
                                    /\ Reconciled(s) \notin ActiveStatus
  BY DEF Reconciled, ActiveStatus
<1>4. \A t \in Transfers : row[t] \in Status \cup {None} BY DurableTypes
<1>5. ASSUME UNCHANGED <<row, lister, succeeded>>
      PROVE  Recorded' /\ Open'
  BY <1>2, <1>5 DEF Claims
<1>6. CASE ListHistory
  <2>1. /\ row' = [t \in Transfers |-> Reconciled(row[t])] /\ lister'.view = row' /\ UNCHANGED succeeded
    BY <1>6 DEF ListHistory
  <2>2. \A t \in Transfers : /\ row'[t] = "completed" <=> row[t] = "completed"
                             /\ row'[t] \in ActiveStatus => row[t] \in ActiveStatus
                             /\ t \in succeeded' \/ lister'.view[t] = "completed" =>
                                  Claims(t) \/ row[t] = "completed"
    BY <1>3, <1>4, <2>1 DEF Claims
  <2>3. QED BY <1>1, <1>2, <2>2
<1>7. CASE ListMerge
  <2>1. /\ lister'.view = [t \in Transfers |-> IF t \in jobs THEN snap[t].status ELSE lister.view[t]]
        /\ UNCHANGED <<row, succeeded>>
    BY <1>7 DEF ListMerge
  <2>2. \A t \in Transfers : /\ row'[t] = "completed" <=> row[t] = "completed"
                             /\ row'[t] \in ActiveStatus => row[t] \in ActiveStatus
                             /\ t \in succeeded' \/ lister'.view[t] = "completed" =>
                                  Claims(t) \/ row[t] = "completed"
    BY <2>1 DEF Claims
  <2>3. QED BY <1>1, <1>2, <2>2
<1>8. CASE ListReturns
  <2>1. /\ \A t \in Transfers : lister'.view[t] = None /\ UNCHANGED row
        /\ succeeded' = succeeded \cup {t \in Transfers : lister.view[t] = "completed"}
    BY <1>8 DEF ListReturns, Idle
  <2>2. \A t \in Transfers : /\ row'[t] = "completed" <=> row[t] = "completed"
                             /\ row'[t] \in ActiveStatus => row[t] \in ActiveStatus
                             /\ t \in succeeded' \/ lister'.view[t] = "completed" =>
                                  Claims(t) \/ row[t] = "completed"
    BY <2>1 DEF Claims, None
  <2>3. QED BY <1>1, <1>2, <2>2
<1>9. ASSUME NEW t \in Transfers, GetHistory(t)
      PROVE  Recorded' /\ Open'
  <2>1. row' = [row EXCEPT ![t] = Reconciled(row[t])] /\ UNCHANGED <<lister, succeeded>>
    BY <1>9 DEF GetHistory
  <2>2. \A u \in Transfers : row'[u] = row[u] \/ row'[u] = Reconciled(row[u]) BY <2>1, DurableTypes
  <2>3. QED BY <1>2, <1>3, <1>4, <2>1, <2>2 DEF Claims
<1>10. QED BY <1>1, <1>5, <1>6, <1>7, <1>8, <1>9
              DEF CallStep, Cancel, ResolvePush, GetMiss, ResolveCheck

\* shutdown() collects what was active, and its final loop rewrites only those rows.
LEMMA DurableShutdown ==
  ASSUME Durable, ShutdownStep
  PROVE  Recorded' /\ Open' /\ Asked'
<1>0. UNCHANGED <<startVars, workVars, outbox, readVars, up>>
  BY DEF ShutdownStep, ShutdownBegin, ShutdownScanned, ShutdownWaited, ShutdownDone,
         ShutdownScan, ShutdownMark
<1>1. ASSUME UNCHANGED <<snap, row, viewVars>>, previously_active \subseteq previously_active',
             shut' = "mark" => scan' \subseteq previously_active'
      PROVE  Recorded' /\ Open' /\ Asked'
  <2>1. Open' /\ Asked' BY <1>0, <1>1 DEF Durable, Open, Asked
  <2>2. \A t \in Transfers : Claims(t)' => Claims(t) BY <1>0, <1>1 DEF Claims
  <2>3. Recorded' BY <1>0, <1>1, <2>2 DEF Durable, Recorded
  <2>4. QED BY <2>1, <2>3
<1>2. shut = "mark" => scan \subseteq previously_active BY DEF Durable, Recorded
<1>3. CASE ShutdownBegin BY <1>1, <1>3 DEF ShutdownBegin
<1>4. CASE ShutdownScanned BY <1>1, <1>4 DEF ShutdownScanned
<1>5. CASE ShutdownWaited BY <1>1, <1>5 DEF ShutdownWaited
<1>6. CASE ShutdownDone BY <1>1, <1>6 DEF ShutdownDone
<1>7. ASSUME NEW t \in Transfers, ShutdownScan(t)
      PROVE  Recorded' /\ Open' /\ Asked'
  BY <1>1, <1>7 DEF ShutdownScan
<1>8. ASSUME NEW t \in Transfers, ShutdownMark(t)
      PROVE  Recorded' /\ Open' /\ Asked'
  <2>1. /\ shut = "mark" /\ shut' = shut /\ t \in scan /\ scan' = scan \ {t}
        /\ snap' = [snap EXCEPT ![t] = Ended(snap[t], "interrupted")]
        /\ row' = row \/ row' = [row EXCEPT ![t] = "interrupted"]
        /\ succeeded' = succeeded /\ UNCHANGED previously_active
    BY <1>8 DEF ShutdownMark, Notify
  <2>2. Ended(snap[t], "interrupted").status = "interrupted" BY DurableTypes DEF Ended, Snapshot
  <2>3. /\ snap'[t].status = "interrupted" /\ \A u \in Transfers \ {t} : snap'[u] = snap[u] /\ row'[u] = row[u]
        /\ row'[t] = row[t] \/ row'[t] = "interrupted"
    BY <2>1, <2>2, DurableTypes
  <2>4. t \in previously_active BY <1>2, <2>1
  <2>5. worker[t] # "conflict"
    BY <2>1, CountedQuiesces DEF Durable, Safe, ShutdownQuiesces
  <2>6. Asked' BY <1>0, <2>3, <2>5 DEF Durable, Asked
  <2>7. Open' BY <1>0, <2>3 DEF Durable, Open, ActiveStatus
  <2>8. \A u \in Transfers \ {t} : Claims(u)' => Claims(u) BY <1>0, <2>1, <2>3 DEF Claims
  <2>9. Recorded' BY <1>0, <1>2, <2>1, <2>3, <2>4, <2>8 DEF Durable, Recorded
  <2>10. QED BY <2>6, <2>7, <2>9
<1>9. QED BY <1>3, <1>4, <1>5, <1>6, <1>7, <1>8 DEF ShutdownStep

\* A crash leaves the rows, and forgets every copy of a success.
LEMMA DurableCrash ==
  ASSUME Durable, Crash
  PROVE  Recorded' /\ Open' /\ Asked'
<1>1. /\ row' = row /\ succeeded' = {} /\ up' = FALSE /\ shut' = "idle"
      /\ worker' = [t \in Transfers |-> IF start[t] = "idle" THEN "none" ELSE "gone"]
      /\ \A t \in Transfers : /\ outbox'[t] = None /\ initial'[t] = None /\ lister'.view[t] = None
                              /\ snap'[t].status = "queued"
  BY DEF Crash, Idle, NewSnapshot
<1>2. \A t \in Transfers : ~Claims(t)' BY <1>1 DEF Claims, None
<1>3. ASSUME NEW t \in Transfers, row[t] = "completed" PROVE start[t] # "idle"
  <2>1. worker[t] # "none" BY <1>3 DEF Durable, Recorded, Ending
  <2>2. QED BY <2>1 DEF Durable, Safe, Counted, Counts, Places, BeforeLaunch
<1>4. Recorded' BY <1>1, <1>2, <1>3 DEF Recorded, Ending
<1>5. QED BY <1>1, <1>4 DEF Open, Asked

\* recover_into leaves no row in progress behind.
LEMMA DurableRecover ==
  ASSUME Durable, Recover
  PROVE  Recorded' /\ Open' /\ Asked'
<1>1. /\ row' = [t \in Transfers |-> Reconciled(row[t])]
      /\ UNCHANGED <<startVars, workVars, snap, outbox, shutVars, readVars, viewVars>>
  BY DEF Recover
<1>2. \A t \in Transfers : /\ row'[t] = "completed" <=> row[t] = "completed"
                           /\ row'[t] \notin ActiveStatus
  BY <1>1 DEF Reconciled, ActiveStatus
<1>3. \A t \in Transfers : Claims(t)' => Claims(t) BY <1>1 DEF Claims
<1>4. QED BY <1>1, <1>2, <1>3 DEF Durable, Recorded, Open, Asked

-----------------------------------------------------------------------------
(* The theorems                                                            *)

\* The invariant holds in a new manager.
LEMMA DurableInit == Init => Durable
<1>1. Init => Recorded /\ Open /\ Asked
  BY DEF Init, Recorded, Open, Asked, Claims, Idle, NewSnapshot, None, ActiveStatus
<1>2. QED BY <1>1, SafeInit DEF Durable

\* Every step preserves it.
LEMMA DurableNext == Durable /\ [Next]_vars => Durable'
<1> SUFFICES ASSUME Durable, [Next]_vars PROVE Durable' OBVIOUS
<1>1. Safe' BY SafeNext DEF Durable
<1>2. CASE UNCHANGED vars
  <2>1. \A t \in Transfers : Claims(t)' => Claims(t) BY <1>2 DEF Claims, vars
  <2>2. Recorded' /\ Open' /\ Asked' BY <1>2, <2>1 DEF Durable, Recorded, Open, Asked, vars
  <2>3. QED BY <1>1, <2>2 DEF Durable
<1>3. QED BY <1>1, <1>2, DurableStart, DurableWorker, DurableCall, DurableShutdown, DurableCrash,
             DurableRecover DEF Next, Durable

\* The invariant holds in every behaviour.
LEMMA DurableAlways == Spec => []Durable
BY DurableInit, DurableNext, PTL DEF Spec

\* finalize_status downgrades what history did not take, and the rows list(), get() and recovery
\* rewrite are not finished ones: a success that is shown is on record, unless shutdown() had
\* counted the transfer among those it interrupts.
THEOREM CompletedTheorem == Spec => []CompletedIsRecorded
<1>1. Durable => CompletedIsRecorded BY DEF Durable, Recorded, Claims, CompletedIsRecorded
<1>2. QED BY <1>1, DurableAlways, PTL

\* While history accepts writes, a row in progress belongs to a transfer somebody owns, after
\* every failed launch, cancellation, exception, shutdown and restart.
THEOREM OrphanTheorem == Spec => []NoOrphanedRow
<1>1. Durable => NoOrphanedRow
  <2> SUFFICES ASSUME Durable, up, "history" \notin Faults, NEW t \in Transfers, row[t] \in ActiveStatus
               PROVE  InProgress(t)
    BY DEF NoOrphanedRow
  <2>1. start[t] \in Opening \/ worker[t] \in Working BY DEF Durable, Open
  <2>2. "start" \in owners[t] \/ "worker" \in owners[t]
    BY <2>1 DEF Durable, Safe, Counted, Counts, Places, Opening, Working
  <2>3. QED BY <2>2 DEF InProgress
<1>2. QED BY <1>1, DurableAlways, PTL

\* await_conflict takes a decision only for the conflict on show, however many late answers to
\* earlier conflicts are still queued.
THEOREM DecisionTheorem == Spec => DecisionFitsConflict
<1>1. Durable /\ [Next]_vars =>
        [\A t \in Transfers : choice[t] = None /\ choice'[t] # None =>
           Head(decisions[t]).item = snap[t].conflict]_vars
  <2> SUFFICES ASSUME Durable, [Next]_vars, NEW t \in Transfers, choice[t] = None, choice'[t] # None
               PROVE  Head(decisions[t]).item = snap[t].conflict
    OBVIOUS
  <2>1. choice \in [Transfers -> Actions \cup {None}] BY DEF Durable, Safe, Counted, Typed, TypeOK
  <2>2. ~Crash /\ ~Recover /\ ~CallStep /\ ~ShutdownStep /\ choice' # choice
    <3>1. ~Crash /\ ~Recover BY DEF Crash, Recover
    <3>2. ~CallStep BY CallsLeaveCounts
    <3>3. ~ShutdownStep
      BY DEF ShutdownStep, ShutdownBegin, ShutdownScanned, ShutdownWaited, ShutdownDone,
             ShutdownScan, ShutdownMark
    <3>4. QED BY <3>1, <3>2, <3>3
  <2>3. PICK u \in Transfers : StartStep(u) \/ WorkerStep(u) BY <2>2 DEF Next, vars
  <2>4. ~StartStep(u)
    BY <2>2 DEF StartStep, Admit, PersistInitial, PersistThrows, InsertJob, InsertRefused, Launch,
         LaunchThrows, RollbackErase, RollbackFinalize, ReadInitial, PublishInitial, StartReturns
  <2>5. choice' # [choice EXCEPT ![u] = None] BY <2>1
  <2>6. TakeDecision(u)
    BY <2>2, <2>3, <2>4, <2>5 DEF WorkerStep, WorkStep, WorkerPublish, Acquire, AcquireCancelled,
       Enter, EarlyRelease, EntryFails, BeginItem, EndItem, AwaitConflict, DiscardDecision,
       ConflictCancelled, BatchReturns, WorkThrows, PushWorkerFailure, Judge, FinalizeStatus,
       RemoveTerminalJob, WorkerExits, ReleasePermit
  <2>7. u = t BY <2>1, <2>6 DEF TakeDecision
  <2>8. worker[t] = "conflict" /\ IsForItem(t, Head(decisions[t]))
    BY <2>6, <2>7 DEF TakeDecision, Write, WorkerGoes
  <2>9. QED BY <2>8 DEF IsForItem, Durable, Asked
<1>2. QED BY <1>1, DurableAlways, PTL DEF Spec, DecisionFitsConflict
=============================================================================
