--------------------------- MODULE TransferHistory ---------------------------
(***************************************************************************)
(* The durable history of transfers: the file_transfers table of            *)
(* native/desktop_host/src/database.cpp with its retention, and what the     *)
(* transfer manager does with it at startup (recover_into), while transfers *)
(* run, and when it retries the removal of remote staging files             *)
(* (reconcile_remote_staging).                                             *)
(*                                                                         *)
(* A row is `active`, `ended` (any terminal status) or absent, and names the *)
(* staging file of its transfer or does not.  `recency` lists the rows by    *)
(* updated_at, oldest first.  Every database call holds the database mutex,  *)
(* so a call is one action.                                                 *)
(***************************************************************************)
EXTENDS Naturals, Sequences, SequencesExt

CONSTANTS
  Transfers,
  Remote,       \* uploads, whose staging file is on the other machine
  Retained,     \* terminal rows kept; 500 in the code
  Reconcilers,  \* concurrent file_transfer_list calls
  Listing,      \* whether list() and get() are called
  MaxCrashes    \* bound: how often the host process ends

ASSUME RemoteAssump   == Remote \subseteq Transfers
ASSUME RetainedAssump == Retained \in Nat /\ MaxCrashes \in Nat
ASSUME ListingAssump  == Listing \in BOOLEAN

VARIABLES
  row,        \* transfer -> [state, staged]
  recency,    \* the rows by updated_at, oldest first
  forgotten,  \* history variable: staging files whose row was pruned
  live,       \* where the transfer's worker is: "idle", "running", "gone"
  inventory,  \* transfers whose SnapshotCell lists a staging file
  disk,       \* transfers whose staging file exists
  phase,      \* "down", "recovering" or "up"
  todo,       \* what recover() returned and recover_into has not handled
  pending,    \* pending_recovery
  call,       \* reconcile_remote_staging calls: [left, at]
  crashes

tableVars == <<row, recency, forgotten>>
workVars  == <<live, inventory>>
vars == <<tableVars, workVars, disk, phase, todo, pending, call, crashes>>

None  == "none"
NoRow == [state |-> "none", staged |-> FALSE]
NoCall == [left |-> {}, at |-> None]
Exists(t) == row[t].state # "none"

Init ==
  /\ row = [t \in Transfers |-> NoRow]
  /\ recency = <<>>
  /\ forgotten = {}
  /\ live = [t \in Transfers |-> "idle"]
  /\ inventory = {}
  /\ disk = {}
  /\ phase = "up"
  /\ todo = <<>>
  /\ pending = {}
  /\ call = [c \in Reconcilers |-> NoCall]
  /\ crashes = 0

-----------------------------------------------------------------------------
(* The table                                                               *)

\* prune_terminal_file_transfers: only the newest Retained terminal rows stay.
Pruned(rows, order) ==
  LET ended == SelectSeq(order, LAMBDA t : rows[t].state = "ended")
  IN  {ended[i] : i \in 1 .. (Len(ended) - Retained)}

\* Both writes end with the pruning.
Store(rows, order) ==
  LET gone == Pruned(rows, order)
  IN  /\ row' = [t \in Transfers |-> IF t \in gone THEN NoRow ELSE rows[t]]
      /\ recency' = SelectSeq(order, LAMBDA t : t \notin gone)
      /\ forgotten' = forgotten \cup {t \in gone : rows[t].staged}

Newest(t) == Append(SelectSeq(recency, LAMBDA u : u # t), t)

insert_file_transfer(t) ==
  Store([row EXCEPT ![t] = [state |-> "active", staged |-> FALSE]], Newest(t))

\* Throws when there is no such row.
update_file_transfer(t, state, staged, touched) ==
  /\ Exists(t)
  /\ Store([row EXCEPT ![t] = [state |-> state, staged |-> staged]],
           IF touched THEN Newest(t) ELSE recency)

\* persist_quiet, and a finalize_status that fails twice, leave it at that.
update_or_skip(t, state, staged) ==
  update_file_transfer(t, state, staged, TRUE) \/ (~Exists(t) /\ UNCHANGED tableVars)

Reconciled(r) == IF r.state = "active" THEN [r EXCEPT !.state = "ended"] ELSE r

\* list_file_transfers and get_file_transfer, of the rows a filter and a limit
\* leave: what claims to be in progress is rewritten, updated_at stays.
ListHistory(some) ==
  /\ Listing
  /\ phase = "up"
  /\ row' = [t \in Transfers |-> IF t \in some THEN Reconciled(row[t]) ELSE row[t]]
  /\ UNCHANGED <<recency, forgotten, workVars, disk, phase, todo, pending, call, crashes>>

-----------------------------------------------------------------------------
(* Transfers of this process                                               *)

Start(t) ==
  /\ phase = "up"
  /\ live[t] = "idle"
  /\ live' = [live EXCEPT ![t] = "running"]
  /\ insert_file_transfer(t)
  /\ UNCHANGED <<inventory, disk, phase, todo, pending, call, crashes>>

\* A staging file is created and recorded; if it cannot be recorded it is removed.
AddStaging(t) ==
  /\ live[t] = "running"
  /\ t \notin inventory \cup disk
  /\ update_file_transfer(t, "active", TRUE, TRUE)
  /\ inventory' = inventory \cup {t}
  /\ disk' = disk \cup {t}
  /\ UNCHANGED <<live, phase, todo, pending, call, crashes>>

\* A progress write of a running transfer, with its inventory as it is.
Progress(t) ==
  /\ live[t] = "running"
  /\ update_file_transfer(t, "active", t \in inventory, TRUE)
  /\ UNCHANGED <<workVars, disk, phase, todo, pending, call, crashes>>

\* The file is published or cleaned up, then struck off the record.
RemoveStage(t) ==
  /\ live[t] = "running"
  /\ t \in disk
  /\ disk' = disk \ {t}
  /\ UNCHANGED <<tableVars, workVars, phase, todo, pending, call, crashes>>

RemoveStaging(t) ==
  /\ live[t] = "running"
  /\ t \in inventory \ disk
  /\ inventory' = inventory \ {t}
  /\ update_or_skip(t, "active", FALSE)
  /\ UNCHANGED <<live, disk, phase, todo, pending, call, crashes>>

\* finalize_status.  A file that could not be removed stays in the inventory.
End(t) ==
  /\ live[t] = "running"
  /\ t \in inventory => t \in disk
  /\ live' = [live EXCEPT ![t] = "gone"]
  /\ inventory' = inventory \ {t}
  /\ update_or_skip(t, "ended", t \in inventory)
  /\ UNCHANGED <<disk, phase, todo, pending, call, crashes>>

-----------------------------------------------------------------------------
(* The end of the process and startup recovery                             *)

Crash ==
  /\ phase # "down"
  /\ crashes < MaxCrashes
  /\ crashes' = crashes + 1
  /\ phase' = "down"
  /\ live' = [t \in Transfers |-> IF live[t] = "running" THEN "gone" ELSE live[t]]
  /\ inventory' = {}
  /\ todo' = <<>>
  /\ pending' = {}
  /\ call' = [c \in Reconcilers |-> NoCall]
  /\ UNCHANGED <<tableVars, disk>>

\* recover_file_transfers, one transaction: active rows end and become the newest,
\* with one time for all, so that their ids decide the order; they and the rows with
\* a staging file are returned, newest first as it was.
RecoverBegin ==
  /\ phase = "down"
  /\ phase' = "recovering"
  /\ todo' = Reverse(SelectSeq(recency, LAMBDA t : row[t].state = "active" \/ row[t].staged))
  /\ row' = [t \in Transfers |-> Reconciled(row[t])]
  /\ \E tied \in SetToSeqs({t \in Transfers : row[t].state = "active"}) :
       recency' = SelectSeq(recency, LAMBDA t : row[t].state # "active") \o tied
  /\ UNCHANGED <<forgotten, workVars, disk, pending, call, crashes>>

\* One record of recover_into: a local file is removed, or noted as pending when
\* that fails; a remote one is pending in any case.  A note touches the row.
Recovered(t, kept) ==
  /\ todo # <<>>
  /\ t = Head(todo)
  /\ IF kept THEN row[t].staged ELSE t \notin Remote \/ ~row[t].staged
  /\ disk' = IF kept THEN disk ELSE disk \ {t}

\* Mutant of RecoverRecord: the record is cleared although the file is pending.
RecoverRecordCleared(t, kept) ==
  /\ Recovered(t, kept)
  /\ update_file_transfer(t, "ended", FALSE, kept)
  /\ todo' = Tail(todo)
  /\ pending' = IF kept THEN pending \cup {t} ELSE pending
  /\ UNCHANGED <<workVars, phase, call, crashes>>

RecoverRecord(t, kept) ==
  /\ Recovered(t, kept)
  /\ update_file_transfer(t, "ended", kept, kept)
  /\ todo' = Tail(todo)
  /\ pending' = IF kept THEN pending \cup {t} ELSE pending
  /\ UNCHANGED <<workVars, phase, call, crashes>>

\* Mutant of RecoverThrows: the same record is tried again.
RecoverRetries(t) ==
  /\ todo # <<>>
  /\ t = Head(todo)
  /\ ~Exists(t)
  /\ UNCHANGED vars

\* The update finds no row: with_history throws, and the next command starts over.
RecoverThrows(t) ==
  /\ todo # <<>>
  /\ t = Head(todo)
  /\ ~Exists(t)
  /\ disk' = disk \/ (t \notin Remote /\ disk' = disk \ {t})
  /\ phase' = "down"
  /\ todo' = <<>>
  /\ pending' = {}
  /\ UNCHANGED <<tableVars, workVars, call, crashes>>

RecoverDone ==
  /\ phase = "recovering"
  /\ todo = <<>>
  /\ phase' = "up"
  /\ UNCHANGED <<tableVars, workVars, disk, todo, pending, call, crashes>>

-----------------------------------------------------------------------------
(* reconcile_remote_staging, by every file_transfer_list                   *)

\* The pending map is copied under its mutex ...
ReconcileCopy(c) ==
  /\ phase = "up"
  /\ call[c] = NoCall
  /\ call' = [call EXCEPT ![c].left = pending \cap Remote]
  /\ UNCHANGED <<tableVars, workVars, disk, phase, todo, pending, crashes>>

\* Mutant of ReconcileRemove: one attempt has to do.
ReconcileRemoveOnce(c, t, removed) ==
  /\ call[c].at = None
  /\ t \in call[c].left
  /\ call' = [call EXCEPT ![c] = [left |-> @.left \ {t}, at |-> IF removed THEN t ELSE None]]
  /\ disk' = IF removed THEN disk \ {t} ELSE disk
  /\ pending' = pending \ {t}
  /\ UNCHANGED <<tableVars, workVars, phase, todo, crashes>>

\* ... each file is removed, absent ones included, or stays pending, ...
ReconcileRemove(c, t, removed) ==
  /\ call[c].at = None
  /\ t \in call[c].left
  /\ call' = [call EXCEPT ![c] = [left |-> @.left \ {t}, at |-> IF removed THEN t ELSE None]]
  /\ disk' = IF removed THEN disk \ {t} ELSE disk
  /\ UNCHANGED <<tableVars, workVars, phase, todo, pending, crashes>>

\* ... and struck off the record and the map, unless the row is gone.
ReconcileRecord(c) ==
  LET t == call[c].at
  IN  /\ t # None
      /\ call' = [call EXCEPT ![c].at = None]
      /\ \/ update_file_transfer(t, row[t].state, FALSE, TRUE) /\ pending' = pending \ {t}
         \/ ~Exists(t) /\ UNCHANGED <<tableVars, pending>>
      /\ UNCHANGED <<workVars, disk, phase, todo, crashes>>

-----------------------------------------------------------------------------
Work(t) ==
  \/ Start(t) \/ AddStaging(t) \/ Progress(t) \/ RemoveStage(t) \/ RemoveStaging(t) \/ End(t)

RecoverStep ==
  \/ RecoverBegin \/ RecoverDone
  \/ \E t \in Transfers : RecoverThrows(t) \/ \E kept \in BOOLEAN : RecoverRecord(t, kept)

ReconcileStep(c) ==
  \/ ReconcileCopy(c) \/ ReconcileRecord(c)
  \/ \E t \in Transfers, removed \in BOOLEAN : ReconcileRemove(c, t, removed)

Next ==
  \/ \E t \in Transfers : Work(t)
  \/ \E some \in SUBSET Transfers : ListHistory(some)
  \/ Crash \/ RecoverStep
  \/ \E c \in Reconcilers : ReconcileStep(c)

Spec == Init /\ [][Next]_vars

\* The manager is created by the first command that needs it, and by each later
\* one until that succeeds.  The pane keeps listing, and a server that is
\* connected again and again lets a removal through some time.
Fairness ==
  /\ WF_vars(RecoverStep)
  /\ \A c \in Reconcilers :
       /\ WF_vars(ReconcileCopy(c) /\ pending # {})
       /\ WF_vars(ReconcileRecord(c))
       /\ \A t \in Transfers :
            /\ WF_vars(\E removed \in BOOLEAN : ReconcileRemove(c, t, removed))
            /\ SF_vars(ReconcileRemove(c, t, TRUE))

FairSpec == Spec /\ Fairness

-----------------------------------------------------------------------------
(* Properties                                                              *)

TypeOK ==
  /\ row \in [Transfers -> [state : {"none", "active", "ended"}, staged : BOOLEAN]]
  /\ recency \in Seq(Transfers) /\ IsInjective(recency)
  /\ \A t \in Transfers : Exists(t) <=> t \in ToSet(recency)
  /\ live \in [Transfers -> {"idle", "running", "gone"}]
  /\ forgotten \subseteq Transfers
  /\ inventory \subseteq Transfers
  /\ disk \subseteq Transfers
  /\ phase \in {"down", "recovering", "up"}
  /\ todo \in Seq(Transfers)
  /\ pending \subseteq Transfers
  /\ call \in [Reconcilers -> [left : SUBSET Transfers, at : Transfers \cup {None}]]
  /\ crashes \in 0 .. MaxCrashes

\* A staging file that exists is on record in the durable table, through failed
\* removals, ends of the process at any point of recovery, concurrent
\* reconciliations and listings; the retention limit alone can take the record away.
StageRecordKept == \A t \in disk : row[t].staged \/ t \in forgotten

\* Does not hold (README, section 6).  Stated by docs/rewrite-cpp-python.md:1297-1298:
\* "terminal rows that still carry staging residue keep being returned until the
\* manager clears them", whatever the number of rows.
StageOnRecord == \A t \in disk : row[t].staged

\* Startup recovery comes to an end, although the writes of one attempt can prune
\* a row the same attempt still has to update, and each time the process ends.
RecoveryConverges == phase # "up" ~> phase = "up"

\* A remote staging file that waits for its server is removed in the end, when every
\* removal that is tried often enough succeeds once.
PendingIsRemoved ==
  \A t \in Remote : t \in pending ~> t \notin disk \/ phase # "up"

\* Recovery of what a crash left behind runs to its end: the start of the manager, and the
\* removals on the servers it has to wait for (recover_into, reconcile_remote_staging).
RecoveryCompletes == RecoveryConverges /\ PendingIsRemoved
=============================================================================
