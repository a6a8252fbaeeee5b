------------------------ MODULE TransferHistoryProofs ------------------------
(***************************************************************************)
(* A staging file that exists is on record, for any number of transfers,    *)
(* any retention limit and any number of crashes and reconciliations.       *)
(*                                                                         *)
(* The argument does not depend on which rows the retention prunes: it      *)
(* holds for every set of pruned rows, so nothing is said of the order in   *)
(* `recency`.                                                              *)
(***************************************************************************)
EXTENDS TransferHistory, TLAPS

USE DEF tableVars, workVars

TableRows == [state : {"none", "active", "ended"}, staged : BOOLEAN]

HistoryTyped ==
  /\ row \in [Transfers -> TableRows]
  /\ live \in [Transfers -> {"idle", "running", "gone"}]
  /\ call \in [Reconcilers -> [left : SUBSET Transfers, at : Transfers \cup {None}]]

\* A transfer that never started has neither row nor file; the file of one that runs is in its
\* inventory; none runs while the manager is being recovered.
Accounted ==
  /\ \A t \in Transfers : live[t] = "idle" => ~Exists(t) /\ t \notin disk
  /\ \A t \in disk : t \in Transfers /\ (live[t] = "running" => t \in inventory)
  /\ phase # "up" => \A t \in Transfers : live[t] # "running"
  /\ todo # <<>> => phase = "recovering"

\* What waits for its server belongs to a process that has ended, and what a reconciliation is
\* about to strike off is gone from the disk.
Waiting ==
  /\ \A t \in pending : t \in Transfers /\ live[t] = "gone"
  /\ \A c \in Reconcilers :
       /\ \A t \in call[c].left : live[t] = "gone"
       /\ call[c].at # None => live[call[c].at] = "gone" /\ call[c].at \notin disk

Kept == HistoryTyped /\ Accounted /\ Waiting /\ StageRecordKept

\* A write of one row, with the pruning that ends it: the other rows stay or are pruned, and the
\* staging file of a pruned row is forgotten.
LEMMA StoreKeeps ==
  ASSUME HistoryTyped, NEW t \in Transfers, NEW state \in {"active", "ended"}, NEW staged \in BOOLEAN,
         NEW order, Store([row EXCEPT ![t] = [state |-> state, staged |-> staged]], order)
  PROVE  /\ row' \in [Transfers -> TableRows]
         /\ \A u \in Transfers \ {t} : /\ Exists(u)' => Exists(u)
                                       /\ row[u].staged => row'[u].staged \/ u \in forgotten'
         /\ staged => row'[t].staged \/ t \in forgotten'
         /\ forgotten \subseteq forgotten'
<1> DEFINE rows == [row EXCEPT ![t] = [state |-> state, staged |-> staged]]
           gone == Pruned(rows, order)
<1>1. row' = [u \in Transfers |-> IF u \in gone THEN NoRow ELSE rows[u]]
      /\ forgotten' = forgotten \cup {u \in gone : rows[u].staged}
  BY DEF Store
<1>2. rows \in [Transfers -> TableRows] BY DEF HistoryTyped, TableRows
<1>3. rows[t].staged = staged /\ \A u \in Transfers \ {t} : rows[u] = row[u] BY DEF HistoryTyped
<1>4. NoRow \in TableRows BY DEF NoRow, TableRows
<1> HIDE DEF rows, gone
<1>5. QED BY <1>1, <1>2, <1>3, <1>4 DEF Exists, NoRow

\* The same for update_file_transfer and for a write that finds no row.
LEMMA UpdateKeeps ==
  ASSUME HistoryTyped, NEW t \in Transfers, NEW state \in {"active", "ended"}, NEW staged \in BOOLEAN,
         NEW touched, update_file_transfer(t, state, staged, touched)
  PROVE  /\ row' \in [Transfers -> TableRows] /\ Exists(t)
         /\ \A u \in Transfers : Exists(u)' => Exists(u)
         /\ \A u \in Transfers \ {t} : row[u].staged => row'[u].staged \/ u \in forgotten'
         /\ staged => row'[t].staged \/ t \in forgotten'
         /\ forgotten \subseteq forgotten'
<1> DEFINE order == IF touched THEN Newest(t) ELSE recency
<1>1. Exists(t) /\ Store([row EXCEPT ![t] = [state |-> state, staged |-> staged]], order)
  BY DEF update_file_transfer
<1> HIDE DEF order
<1>2. QED BY <1>1, StoreKeeps

\* A step that leaves the workers alone and adds no file keeps what is said of them.
LEMMA TableStep ==
  ASSUME Kept, row' \in [Transfers -> TableRows], UNCHANGED live, inventory \subseteq inventory',
         disk' \subseteq disk, phase' = "up" \/ phase' = phase \/ phase # "up",
         todo' # <<>> => phase' = "recovering",
         \A t \in Transfers : Exists(t)' => Exists(t),
         \A t \in disk' : row[t].staged => row'[t].staged \/ t \in forgotten',
         forgotten \subseteq forgotten'
  PROVE  Accounted' /\ StageRecordKept'
<1>1. StageRecordKept' BY DEF Kept, StageRecordKept
<1>2. Accounted' BY DEF Kept, Accounted
<1>3. QED BY <1>1, <1>2

\* Every step of a transfer of this process.
LEMMA KeptWork ==
  ASSUME Kept, NEW t \in Transfers, Work(t)
  PROVE  Kept'
<1>0. HistoryTyped /\ Accounted /\ Waiting /\ StageRecordKept BY DEF Kept
<1>1. DOMAIN live = Transfers /\ DOMAIN row = Transfers /\ UNCHANGED <<call, pending, phase, todo>>
  BY <1>0 DEF HistoryTyped, Work, Start, AddStaging, Progress, RemoveStage, RemoveStaging, End
<1>2. CASE Start(t)
  <2>1. live[t] = "idle" /\ live' = [live EXCEPT ![t] = "running"] /\ phase = "up"
        /\ Store([row EXCEPT ![t] = [state |-> "active", staged |-> FALSE]], Newest(t))
        /\ UNCHANGED <<inventory, disk>>
    BY <1>2 DEF Start, insert_file_transfer
  <2>2. /\ row' \in [Transfers -> TableRows] /\ forgotten \subseteq forgotten'
        /\ \A u \in Transfers \ {t} : /\ Exists(u)' => Exists(u)
                                      /\ row[u].staged => row'[u].staged \/ u \in forgotten'
    BY <1>0, <2>1, StoreKeeps
  <2>3. t \notin disk BY <1>0, <2>1 DEF Accounted
  <2>4. live'[t] = "running" /\ \A u \in Transfers \ {t} : live'[u] = live[u] BY <1>1, <2>1
  <2>5. HistoryTyped' BY <1>0, <1>1, <2>1, <2>2 DEF HistoryTyped
  <2>6. Accounted' BY <1>0, <1>1, <2>1, <2>2, <2>3, <2>4 DEF Accounted
  <2>7. Waiting'
    <3>1. \A u \in Transfers : live[u] = "gone" => live'[u] = "gone" BY <2>1, <2>4
    <3>2. \A c \in Reconcilers : call[c].left \subseteq Transfers /\ call[c].at \in Transfers \cup {None}
      BY <1>0 DEF HistoryTyped
    <3>3. QED BY <1>0, <1>1, <2>1, <3>1, <3>2 DEF Waiting
  <2>8. StageRecordKept' BY <1>0, <2>1, <2>2, <2>3 DEF StageRecordKept, Accounted
  <2>9. QED BY <2>5, <2>6, <2>7, <2>8 DEF Kept
<1>3. CASE AddStaging(t)
  <2>1. /\ live[t] = "running" /\ update_file_transfer(t, "active", TRUE, TRUE)
        /\ inventory' = inventory \cup {t} /\ disk' = disk \cup {t} /\ UNCHANGED live
    BY <1>3 DEF AddStaging
  <2>2. /\ row' \in [Transfers -> TableRows] /\ forgotten \subseteq forgotten'
        /\ \A u \in Transfers : Exists(u)' => Exists(u)
        /\ \A u \in Transfers \ {t} : row[u].staged => row'[u].staged \/ u \in forgotten'
        /\ row'[t].staged \/ t \in forgotten'
    BY <1>0, <2>1, UpdateKeeps
  <2>3. HistoryTyped' BY <1>0, <1>1, <2>1, <2>2 DEF HistoryTyped
  <2>4. Accounted' BY <1>0, <1>1, <2>1, <2>2 DEF Accounted
  <2>5. Waiting' BY <1>0, <1>1, <2>1 DEF Waiting
  <2>6. StageRecordKept' BY <1>0, <2>1, <2>2 DEF StageRecordKept, Accounted
  <2>7. QED BY <2>3, <2>4, <2>5, <2>6 DEF Kept
<1>4. CASE Progress(t)
  <2>1. /\ live[t] = "running" /\ update_file_transfer(t, "active", t \in inventory, TRUE)
        /\ UNCHANGED <<live, inventory, disk>>
    BY <1>4 DEF Progress
  <2>2. /\ row' \in [Transfers -> TableRows] /\ forgotten \subseteq forgotten'
        /\ \A u \in Transfers : Exists(u)' => Exists(u)
        /\ \A u \in Transfers \ {t} : row[u].staged => row'[u].staged \/ u \in forgotten'
        /\ t \in inventory => row'[t].staged \/ t \in forgotten'
    <3> DEFINE staged == t \in inventory
    <3>1. staged \in BOOLEAN OBVIOUS
    <3>2. update_file_transfer(t, "active", staged, TRUE) BY <2>1, Zenon
    <3> HIDE DEF staged
    <3>3. staged => row'[t].staged \/ t \in forgotten' BY <1>0, <3>1, <3>2, UpdateKeeps
    <3>4. QED BY <1>0, <3>1, <3>2, <3>3, UpdateKeeps DEF staged
  <2>3. t \in disk => t \in inventory BY <1>0, <2>1 DEF Accounted
  <2>4. Accounted' /\ StageRecordKept'
    BY <1>0, <1>1, <2>1, <2>2, <2>3 DEF Accounted, StageRecordKept
  <2>5. QED BY <1>0, <1>1, <2>1, <2>2, <2>4 DEF Kept, HistoryTyped, Waiting
<1>5. CASE RemoveStage(t)
  <2>1. disk' = disk \ {t} /\ UNCHANGED <<tableVars, live, inventory>> BY <1>5 DEF RemoveStage
  <2>2. Accounted' /\ StageRecordKept'
    BY <1>0, <1>1, <2>1 DEF Accounted, StageRecordKept, Exists
  <2>3. QED BY <1>0, <1>1, <2>1, <2>2 DEF Kept, HistoryTyped, Waiting
<1>6. ASSUME NEW state \in {"active", "ended"}, NEW staged \in BOOLEAN, update_or_skip(t, state, staged),
             t \in disk => staged
      PROVE  /\ row' \in [Transfers -> TableRows] /\ forgotten \subseteq forgotten'
             /\ \A u \in Transfers : Exists(u)' => Exists(u)
             /\ \A u \in disk : row[u].staged => row'[u].staged \/ u \in forgotten'
  <2>1. CASE update_file_transfer(t, state, staged, TRUE)
    <3>1. disk \subseteq Transfers BY <1>0 DEF Accounted
    <3>2. QED BY <1>0, <1>6, <2>1, <3>1, UpdateKeeps
  <2>2. CASE UNCHANGED tableVars BY <1>0, <2>2 DEF HistoryTyped, Exists
  <2>3. QED BY <1>6, <2>1, <2>2 DEF update_or_skip
<1>7. CASE RemoveStaging(t)
  <2>1. /\ t \notin disk /\ inventory' = inventory \ {t} /\ update_or_skip(t, "active", FALSE)
        /\ UNCHANGED <<live, disk>>
    BY <1>7 DEF RemoveStaging
  <2>2. /\ row' \in [Transfers -> TableRows] /\ forgotten \subseteq forgotten'
        /\ \A u \in Transfers : Exists(u)' => Exists(u)
        /\ \A u \in disk : row[u].staged => row'[u].staged \/ u \in forgotten'
    BY <1>6, <2>1
  <2>3. Accounted' /\ StageRecordKept'
    BY <1>0, <1>1, <2>1, <2>2 DEF Accounted, StageRecordKept
  <2>4. QED BY <1>0, <1>1, <2>1, <2>2, <2>3 DEF Kept, HistoryTyped, Waiting
<1>8. CASE End(t)
  <2>1. /\ live[t] = "running" /\ live' = [live EXCEPT ![t] = "gone"] /\ inventory' = inventory \ {t}
        /\ update_or_skip(t, "ended", t \in inventory) /\ UNCHANGED disk
    BY <1>8 DEF End
  <2>2. t \in disk => t \in inventory BY <1>0, <2>1 DEF Accounted
  <2>3. /\ row' \in [Transfers -> TableRows] /\ forgotten \subseteq forgotten'
        /\ \A u \in Transfers : Exists(u)' => Exists(u)
        /\ \A u \in disk : row[u].staged => row'[u].staged \/ u \in forgotten'
    <3> DEFINE staged == t \in inventory
    <3>1. staged \in BOOLEAN /\ update_or_skip(t, "ended", staged) /\ (t \in disk => staged) BY <2>1, <2>2
    <3> HIDE DEF staged
    <3>2. QED BY <1>6, <3>1
  <2>4. live'[t] = "gone" /\ \A u \in Transfers \ {t} : live'[u] = live[u] BY <1>1, <2>1
  <2>5. HistoryTyped' BY <1>0, <1>1, <2>1, <2>3 DEF HistoryTyped
  <2>6. Accounted' /\ StageRecordKept'
    BY <1>0, <1>1, <2>1, <2>3, <2>4 DEF Accounted, StageRecordKept
  <2>7. Waiting'
    <3>1. \A u \in Transfers : live[u] = "gone" => live'[u] = "gone" BY <2>4
    <3>2. \A c \in Reconcilers : call[c].left \subseteq Transfers /\ call[c].at \in Transfers \cup {None}
      BY <1>0 DEF HistoryTyped
    <3>3. QED BY <1>0, <1>1, <2>1, <3>1, <3>2 DEF Waiting
  <2>8. QED BY <2>5, <2>6, <2>7 DEF Kept
<1>9. QED BY <1>2, <1>3, <1>4, <1>5, <1>7, <1>8 DEF Work

\* Every step of startup recovery: a record is cleared only with its file.
LEMMA KeptRecover ==
  ASSUME Kept, RecoverStep
  PROVE  Kept'
<1>0. HistoryTyped /\ Accounted /\ Waiting /\ StageRecordKept BY DEF Kept
<1>1. CASE RecoverBegin
  <2>1. /\ phase = "down" /\ phase' = "recovering" /\ row' = [t \in Transfers |-> Reconciled(row[t])]
        /\ UNCHANGED <<forgotten, live, inventory, disk, pending, call>>
    BY <1>1 DEF RecoverBegin
  <2>2. /\ row' \in [Transfers -> TableRows]
        /\ \A t \in Transfers : row'[t].staged = row[t].staged /\ (Exists(t)' => Exists(t))
    BY <1>0, <2>1 DEF HistoryTyped, TableRows, Reconciled, Exists
  <2>3. Accounted' /\ StageRecordKept' BY <1>0, <2>1, <2>2, TableStep DEF Accounted
  <2>4. QED BY <1>0, <2>1, <2>2, <2>3 DEF Kept, HistoryTyped, Waiting
<1>2. CASE RecoverDone
  <2>1. UNCHANGED <<tableVars, live, inventory, disk, todo, pending, call>> /\ phase' = "up" /\ todo = <<>>
    BY <1>2 DEF RecoverDone
  <2>2. Accounted' /\ StageRecordKept' BY <1>0, <2>1 DEF Accounted, StageRecordKept, Exists
  <2>3. QED BY <1>0, <2>1, <2>2 DEF Kept, HistoryTyped, Waiting
<1>3. ASSUME NEW t \in Transfers, RecoverThrows(t) PROVE Kept'
  <2>1. /\ disk' \subseteq disk /\ phase' = "down" /\ pending' = {} /\ todo # <<>> /\ todo' = <<>>
        /\ UNCHANGED <<tableVars, live, inventory, call>>
    BY <1>3 DEF RecoverThrows
  <2>2. StageRecordKept' BY <1>0, <2>1 DEF StageRecordKept
  <2>3. Accounted' BY <1>0, <2>1 DEF Accounted, Exists
  <2>4. QED BY <1>0, <2>1, <2>2, <2>3 DEF Kept, HistoryTyped, Waiting
<1>4. ASSUME NEW t \in Transfers, NEW kept \in BOOLEAN, RecoverRecord(t, kept) PROVE Kept'
  <2>1. /\ update_file_transfer(t, "ended", kept, kept) /\ UNCHANGED <<live, inventory, phase, call>>
        /\ pending' = IF kept THEN pending \cup {t} ELSE pending
        /\ disk' = IF kept THEN disk ELSE disk \ {t}
        /\ todo # <<>>
    BY <1>4 DEF RecoverRecord, Recovered
  <2>2. /\ row' \in [Transfers -> TableRows] /\ Exists(t) /\ forgotten \subseteq forgotten'
        /\ \A u \in Transfers : Exists(u)' => Exists(u)
        /\ \A u \in Transfers \ {t} : row[u].staged => row'[u].staged \/ u \in forgotten'
        /\ kept => row'[t].staged \/ t \in forgotten'
    BY <1>0, <2>1, UpdateKeeps
  <2>3. phase = "recovering" /\ live[t] = "gone"
    BY <1>0, <2>1, <2>2 DEF Accounted, HistoryTyped
  <2>4. disk' \subseteq disk /\ \A u \in disk' : row[u].staged => row'[u].staged \/ u \in forgotten'
    BY <1>0, <2>1, <2>2 DEF Accounted
  <2>5. Accounted' /\ StageRecordKept' BY <2>1, <2>2, <2>3, <2>4, TableStep
  <2>6. Waiting' BY <1>0, <2>1, <2>3, <2>4 DEF Waiting
  <2>7. QED BY <1>0, <2>1, <2>2, <2>5, <2>6 DEF Kept, HistoryTyped
<1>5. QED BY <1>1, <1>2, <1>3, <1>4 DEF RecoverStep

\* Every step of a reconciliation: what it strikes off the record it has removed before, and no
\* worker of this process can have created it again.
LEMMA KeptReconcile ==
  ASSUME Kept, NEW c \in Reconcilers, ReconcileStep(c)
  PROVE  Kept'
<1>0. HistoryTyped /\ Accounted /\ Waiting /\ StageRecordKept BY DEF Kept
<1>1. /\ DOMAIN call = Reconcilers
      /\ \A d \in Reconcilers : /\ call[d].left \subseteq Transfers /\ call[d].at \in Transfers \cup {None}
                                /\ DOMAIN call[d] = {"left", "at"}
  BY <1>0 DEF HistoryTyped
<1>2. CASE ReconcileCopy(c)
  <2>1. /\ call' = [call EXCEPT ![c].left = pending \cap Remote]
        /\ UNCHANGED <<tableVars, workVars, disk, phase, todo, pending>>
    BY <1>2 DEF ReconcileCopy
  <2>2. pending \cap Remote \subseteq Transfers BY RemoteAssump
  <2>3. HistoryTyped' BY <1>0, <2>1, <2>2 DEF HistoryTyped
  <2>4. Accounted' /\ StageRecordKept' BY <1>0, <2>1 DEF Accounted, StageRecordKept, Exists
  <2>5. /\ call'[c].left = pending \cap Remote /\ call'[c].at = call[c].at
        /\ \A d \in Reconcilers \ {c} : call'[d] = call[d]
    BY <1>1, <2>1
  <2>6. Waiting' BY <1>0, <2>1, <2>5 DEF Waiting
  <2>7. QED BY <2>3, <2>4, <2>6 DEF Kept
<1>3. ASSUME NEW t \in Transfers, NEW removed \in BOOLEAN, ReconcileRemove(c, t, removed)
      PROVE  Kept'
  <2> DEFINE new == [left |-> call[c].left \ {t}, at |-> IF removed THEN t ELSE None]
  <2>1. /\ t \in call[c].left /\ call' = [call EXCEPT ![c] = new]
        /\ disk' = IF removed THEN disk \ {t} ELSE disk
        /\ UNCHANGED <<tableVars, workVars, phase, todo, pending>>
    BY <1>3 DEF ReconcileRemove
  <2>2. new \in [left : SUBSET Transfers, at : Transfers \cup {None}] BY <1>1
  <2>3. new.left \subseteq call[c].left /\ new.at \in {t, None} /\ (new.at # None => removed) OBVIOUS
  <2> HIDE DEF new
  <2>4. HistoryTyped' BY <1>0, <2>1, <2>2 DEF HistoryTyped
  <2>5. disk' \subseteq disk BY <2>1
  <2>6. Accounted' /\ StageRecordKept' BY <1>0, <2>1, <2>5 DEF Accounted, StageRecordKept, Exists
  <2>7. call'[c] = new /\ \A d \in Reconcilers \ {c} : call'[d] = call[d] BY <1>1, <2>1
  <2>8. live[t] = "gone" BY <1>0, <2>1 DEF Waiting
  <2>9. Waiting' BY <1>0, <2>1, <2>3, <2>5, <2>7, <2>8 DEF Waiting
  <2>10. QED BY <2>4, <2>6, <2>9 DEF Kept
<1>4. CASE ReconcileRecord(c)
  <2> DEFINE t == call[c].at
  <2>1. /\ t # None /\ call' = [call EXCEPT ![c].at = None] /\ pending' \subseteq pending
        /\ UNCHANGED <<workVars, disk, phase, todo>>
        /\ update_file_transfer(t, row[t].state, FALSE, TRUE) \/ UNCHANGED tableVars
    BY <1>4 DEF ReconcileRecord
  <2>2. t \in Transfers /\ t \notin disk BY <1>0, <1>1, <2>1 DEF Waiting
  <2>3. /\ row' \in [Transfers -> TableRows] /\ forgotten \subseteq forgotten'
        /\ \A u \in Transfers : Exists(u)' => Exists(u)
        /\ \A u \in Transfers \ {t} : row[u].staged => row'[u].staged \/ u \in forgotten'
    <3>1. CASE update_file_transfer(t, row[t].state, FALSE, TRUE)
      <4>1. Exists(t) BY <3>1 DEF update_file_transfer
      <4>2. row[t].state \in {"active", "ended"} BY <1>0, <2>2, <4>1 DEF Exists, HistoryTyped, TableRows
      <4> HIDE DEF t
      <4>3. QED BY <1>0, <2>2, <3>1, <4>2, UpdateKeeps
    <3>2. CASE UNCHANGED tableVars BY <1>0, <3>2 DEF HistoryTyped, Exists
    <3>3. QED BY <2>1, <3>1, <3>2
  <2>4. HistoryTyped' BY <1>0, <2>1, <2>3 DEF HistoryTyped
  <2>5. Accounted' /\ StageRecordKept'
    BY <1>0, <2>1, <2>2, <2>3 DEF Accounted, StageRecordKept
  <2>6. /\ call'[c].left = call[c].left /\ call'[c].at = None
        /\ \A d \in Reconcilers \ {c} : call'[d] = call[d]
    BY <1>1, <2>1
  <2>7. Waiting' BY <1>0, <2>1, <2>6 DEF Waiting
  <2>8. QED BY <2>4, <2>5, <2>7 DEF Kept
<1>5. QED BY <1>2, <1>3, <1>4 DEF ReconcileStep

\* A listing rewrites states and no staging, a crash forgets everything but rows and files.
LEMMA KeptOther ==
  ASSUME Kept, Crash \/ \E some \in SUBSET Transfers : ListHistory(some)
  PROVE  Kept'
<1>0. HistoryTyped /\ Accounted /\ Waiting /\ StageRecordKept BY DEF Kept
<1>1. CASE Crash
  <2>1. /\ live' = [t \in Transfers |-> IF live[t] = "running" THEN "gone" ELSE live[t]]
        /\ todo' = <<>> /\ pending' = {} /\ call' = [c \in Reconcilers |-> NoCall]
        /\ UNCHANGED <<row, forgotten, disk>>
    BY <1>1 DEF Crash
  <2>2. HistoryTyped' BY <1>0, <2>1 DEF HistoryTyped, NoCall
  <2>3. Accounted' BY <1>0, <2>1 DEF Accounted, Exists
  <2>4. Waiting' BY <2>1 DEF Waiting, NoCall
  <2>5. StageRecordKept' BY <1>0, <2>1 DEF StageRecordKept
  <2>6. QED BY <2>2, <2>3, <2>4, <2>5 DEF Kept
<1>2. ASSUME NEW some \in SUBSET Transfers, ListHistory(some) PROVE Kept'
  <2>1. /\ row' = [t \in Transfers |-> IF t \in some THEN Reconciled(row[t]) ELSE row[t]]
        /\ UNCHANGED <<forgotten, workVars, disk, phase, todo, pending, call>>
    BY <1>2 DEF ListHistory
  <2>2. /\ row' \in [Transfers -> TableRows]
        /\ \A t \in Transfers : row'[t].staged = row[t].staged /\ (Exists(t)' => Exists(t))
    BY <1>0, <2>1 DEF HistoryTyped, TableRows, Reconciled, Exists
  <2>3. Accounted' /\ StageRecordKept' BY <1>0, <2>1, <2>2 DEF Accounted, StageRecordKept
  <2>4. QED BY <1>0, <2>1, <2>2, <2>3 DEF Kept, HistoryTyped, Waiting
<1>3. QED BY <1>1, <1>2

\* A staging file that exists is named by its transfer's row, through failed removals, crashes at
\* any point of recovery, concurrent reconciliations and listings, unless the retention took the
\* row away.
THEOREM StageRecordTheorem == Spec => []StageRecordKept
<1>1. Init => Kept
  BY DEF Init, Kept, HistoryTyped, TableRows, Accounted, Waiting, StageRecordKept, NoRow, NoCall, Exists
<1>2. Kept /\ [Next]_vars => Kept'
  <2> SUFFICES ASSUME Kept, [Next]_vars PROVE Kept' OBVIOUS
  <2>1. CASE UNCHANGED vars
    BY <2>1 DEF vars, Kept, HistoryTyped, Accounted, Waiting, StageRecordKept, Exists
  <2>2. QED BY <2>1, KeptWork, KeptRecover, KeptReconcile, KeptOther DEF Next
<1>3. Kept => StageRecordKept BY DEF Kept
<1>4. QED BY <1>1, <1>2, <1>3, PTL DEF Spec
=============================================================================
