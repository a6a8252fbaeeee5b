----------------------------- MODULE LocalFiles -----------------------------
(***************************************************************************)
(* The host's two short-lived registries of local files: LocalPathHandles  *)
(* (paths the user picked or dropped, exchanged for opaque handles) and    *)
(* RemoteDragStore (remote files downloaded into a private stage, dragged  *)
(* out of the window with a one-time ticket).                              *)
(*                                                                         *)
(* Picks, drops and drag starts run on the window thread, uploads and the  *)
(* preparation of a drag on the background lane, the download into a stage *)
(* on a worker of the transfer manager.  A stage and its ticket are one    *)
(* value.  The clock is the choice of what has expired.                    *)
(***************************************************************************)
EXTENDS Naturals, FiniteSets

CONSTANTS Paths,            \* local paths the user can pick
          Stages,           \* staging directories, each used once
          MaxHandles,       \* kMaxLocalHandles
          MaxPicks,         \* picks and drops: a bound of the model
          MaxPrepared       \* kMaxPreparedCount

ASSUME LocalFilesAssumption == {MaxHandles, MaxPicks, MaxPrepared} \subseteq Nat \ {0}

VARIABLES handles,    \* LocalPathHandles::entries_: the picks that are registered
          stale,      \* those past their time to live
          now,        \* what each path is on disk
          picks,      \* picks made so far
          uploads,    \* picks handed to an upload, with what the path then was
          disk,       \* stages that exist
          writers,    \* stages a download is writing into
          full,       \* stages that hold exactly the file that was asked for
          preparing,  \* the prepare command on the background lane
          prepared,   \* RemoteDragStore::prepared_
          lapsed,     \* tickets past their time to live
          kept,       \* stages left for the next start
          active,     \* active_native_drag_
          dragging,   \* stages the operating system is dragging
          opened,     \* the store has been opened by this process
          fresh       \* stages no process has used

handleVars == <<handles, stale, now, picks, uploads>>
dragVars == <<disk, writers, full, preparing, prepared, lapsed, kept, active, dragging, opened, fresh>>
localVars == <<handles, stale, now, picks, uploads, disk, writers, full, preparing, prepared,
               lapsed, kept, active, dragging, opened, fresh>>

FileKinds == {"file", "directory", "symlink", "gone"}
Resting0 == [at |-> "idle", stage |-> {}]

LocalFilesInit ==
    /\ handles = {} /\ stale = {} /\ now \in [Paths -> {"file", "directory"}] /\ picks = 0
    /\ uploads = {}
    /\ disk = {} /\ writers = {} /\ full = {} /\ preparing = Resting0 /\ prepared = {}
    /\ lapsed = {} /\ kept = {} /\ active = {} /\ dragging = {} /\ opened = FALSE
    /\ fresh = Stages

----------------------------------------------------------------------------
(* LocalPathHandles.  A handle is [pick, path, kind]. *)

\* prune_locked drops what has expired before every operation.
prune_locked == handles \ stale

\* register_paths rejects symbolic links, missing paths and what no longer fits.
register_paths(chosen) ==
    LET open == {p \in chosen : now[p] \in {"file", "directory"}} IN
    \E new \in SUBSET {[pick |-> picks', path |-> p, kind |-> now[p]] : p \in open} :
       /\ handles' = prune_locked \union new
       /\ \/ Cardinality(new) = Cardinality(open) /\ Cardinality(handles') <= MaxHandles
          \/ Cardinality(new) < Cardinality(open) /\ Cardinality(handles') = MaxHandles

\* local_path_pick, or a drop on the window.
local_path_pick(chosen) ==
    /\ picks < MaxPicks /\ picks' = picks + 1
    /\ register_paths(chosen)
    /\ stale' = {} /\ UNCHANGED <<now, uploads, dragVars>>

\* Mutant of Spent: the handles of an upload are left registered.
SpentNever(sources) == prune_locked

\* What an upload leaves registered: none of its sources.
Spent(sources) == prune_locked \ sources

\* take_upload_sources hands over every source or none: one that expired or is no
\* longer what was picked refuses the whole upload.
take_upload_sources(sources) ==
    sources \subseteq prune_locked /\ \A h \in sources : now[h.path] = h.kind

\* file_transfer_upload consumes the handles before it asks for the manager, so a
\* refused start loses them.
file_transfer_upload(sources) ==
    /\ sources # {}
    /\ IF take_upload_sources(sources)
       THEN /\ handles' = Spent(sources)
            /\ uploads' = uploads \union
                   {[handle |-> h, times |-> IF \E u \in uploads : u.handle = h THEN 2 ELSE 1] :
                        h \in sources}
       ELSE handles' = prune_locked /\ UNCHANGED uploads
    /\ stale' = {} /\ UNCHANGED <<now, picks, dragVars>>

\* take_download_directory leaves the handle registered until it expires; so does
\* read_preview.
take_download_directory == prune_locked
read_preview == prune_locked

\* file_transfer_download and local_file_preview.
file_transfer_download ==
    /\ stale # {} /\ handles' = take_download_directory /\ stale' = {}
    /\ UNCHANGED <<now, picks, uploads, dragVars>>
local_file_preview ==
    /\ stale # {} /\ handles' = read_preview /\ stale' = {}
    /\ UNCHANGED <<now, picks, uploads, dragVars>>

HandleExpires(h) ==
    /\ h \notin stale /\ stale' = stale \union {h}
    /\ UNCHANGED <<handles, now, picks, uploads, dragVars>>

\* Another program replaces a picked path.
PathChanges(p, kind) ==
    /\ \E h \in handles : h.path = p
    /\ now' = [now EXCEPT ![p] = kind]
    /\ UNCHANGED <<handles, stale, picks, uploads, dragVars>>

----------------------------------------------------------------------------
(* RemoteDragStore *)

\* RemoteDragStore::open sweeps the stages earlier runs left.
sweep_stale_directories == disk' = {}

\* ensure_remote_drag_store opens the store once.
ensure_remote_drag_store ==
    /\ ~opened /\ opened' = TRUE /\ sweep_stale_directories
    /\ UNCHANGED <<handleVars, writers, full, preparing, prepared, lapsed, kept, active, dragging, fresh>>

\* create_stage makes a directory under a name nobody used.
create_stage(d) == fresh' = fresh \ {d} /\ disk' = disk \union {d}

\* remote_drag_prepare_command, once the probe found a regular file of a size
\* that is allowed; prepare_mutex_ makes it one at a time.
remote_drag_prepare_command ==
    /\ opened /\ preparing.at = "idle"
    /\ \E d \in fresh : create_stage(d) /\ preparing' = [at |-> "start", stage |-> {d}]
    /\ UNCHANGED <<handleVars, writers, full, prepared, lapsed, kept, active, dragging, opened>>

\* The command returns: ~StagedRemoteDrag removes the stage it still owns.
remove_now == preparing' = Resting0 /\ disk' = disk \ preparing.stage /\ UNCHANGED kept

\* start_download is refused, or a worker begins to write into the stage.
StartDownload ==
    /\ preparing.at = "start"
    /\ \/ remove_now /\ UNCHANGED writers
       \/ /\ writers' = writers \union preparing.stage
          /\ preparing' = [preparing EXCEPT !.at = "wait"] /\ UNCHANGED <<disk, kept>>
    /\ UNCHANGED <<handleVars, full, prepared, lapsed, active, dragging, opened, fresh>>

\* The worker ends, with the one file or without.
DownloadEnds(d) ==
    /\ d \in writers /\ writers' = writers \ {d}
    /\ full' \in {full, full \union {d}}
    /\ UNCHANGED <<handleVars, disk, preparing, prepared, lapsed, kept, active, dragging, opened, fresh>>

Ended0 == preparing.stage \cap writers = {}

\* wait_for_transfer_terminal returns a terminal snapshot, or its timeout passes
\* and the command cancels the transfer.
wait_for_transfer_terminal ==
    /\ preparing.at = "wait"
    /\ \/ Ended0 /\ preparing' = [preparing EXCEPT !.at = "check"]
       \/ ~Ended0 /\ preparing' = [preparing EXCEPT !.at = "grace"]
    /\ UNCHANGED <<handleVars, disk, writers, full, prepared, lapsed, kept, active, dragging, opened, fresh>>

\* Mutant of keep: the command removes the stage of a download that did not stop.
keepNothing == remove_now

\* StagedRemoteDrag::keep leaves the stage to the next start.
keep == preparing' = Resting0 /\ kept' = kept \union preparing.stage /\ UNCHANGED disk

\* The grace period ends, with the cancellation observed or not.
GraceEnds ==
    /\ preparing.at = "grace"
    /\ IF Ended0 THEN remove_now ELSE keep
    /\ UNCHANGED <<handleVars, writers, full, prepared, lapsed, active, dragging, opened, fresh>>

\* collect_staged_regular_files and the checks after it: one regular file of the
\* size the probe saw, inside the stage.
StagedIsSound == preparing.stage \subseteq full

\* RemoteDragStore::insert has room once the expired tickets are gone.
insert == Cardinality(prepared \ lapsed) < MaxPrepared

\* The command ends with a ticket, or without and without its stage.
RegisterTicket ==
    /\ preparing.at = "check"
    /\ LET ticket == IF StagedIsSound /\ insert THEN preparing.stage ELSE {}
           dropped == IF StagedIsSound THEN lapsed ELSE {}
       IN /\ prepared' = (prepared \ dropped) \union ticket
          /\ disk' = disk \ (dropped \union (preparing.stage \ ticket))
          /\ lapsed' = lapsed \ dropped
    /\ preparing' = Resting0
    /\ UNCHANGED <<handleVars, writers, full, kept, active, dragging, opened, fresh>>

TicketLapses(d) ==
    /\ d \in prepared \ lapsed /\ lapsed' = lapsed \union {d}
    /\ UNCHANGED <<handleVars, disk, writers, full, preparing, prepared, kept, active, dragging, opened, fresh>>

\* RemoteDragStore::take drops the expired tickets and consumes d's.
take(d) == prepared' = prepared \ (lapsed \union {d}) /\ lapsed' = {}

\* remote_drag_start_command with the ticket of stage d.  The one
\* active_native_drag_ is replaced, and the stage it held goes with it; a drag that
\* cannot start leaves none.
remote_drag_start_command(d, started) ==
    /\ opened /\ take(d)
    /\ LET found == d \in prepared \ lapsed IN
       /\ active' = IF ~found THEN active ELSE IF started THEN {d} ELSE {}
       /\ dragging' = IF found /\ started THEN dragging \union {d} ELSE dragging
       /\ disk' = disk \ (lapsed \union (IF found THEN active ELSE {})
                                 \union (IF found /\ ~started THEN {d} ELSE {}))
    /\ UNCHANGED <<handleVars, writers, full, preparing, kept, opened, fresh>>

\* The platform's on_ended releases whatever the slot holds.
DragEnded(d) ==
    /\ d \in dragging /\ dragging' = dragging \ {d}
    /\ active' = {} /\ disk' = disk \ active
    /\ UNCHANGED <<handleVars, writers, full, preparing, prepared, lapsed, kept, opened, fresh>>

\* The process ends: the handles and tickets go with it.  A clean exit removes the
\* stages that are registered, a crash none.
ProcessEnds ==
    /\ opened
    /\ disk' \in {disk, disk \ (prepared \union active)}
    /\ writers' = {} /\ preparing' = Resting0 /\ prepared' = {} /\ lapsed' = {} /\ kept' = {}
    /\ active' = {} /\ dragging' = {} /\ opened' = FALSE
    /\ handles' = {} /\ stale' = {}
    /\ UNCHANGED <<now, picks, uploads, full, fresh>>

LocalPathsNext ==
    \/ \E chosen \in SUBSET Paths : local_path_pick(chosen)
    \/ \E sources \in SUBSET handles : file_transfer_upload(sources)
    \/ file_transfer_download \/ local_file_preview
    \/ \E h \in handles : HandleExpires(h)
    \/ \E p \in Paths, kind \in FileKinds : PathChanges(p, kind)

RemoteDragNext ==
    \/ ensure_remote_drag_store \/ remote_drag_prepare_command \/ StartDownload
    \/ wait_for_transfer_terminal \/ GraceEnds \/ RegisterTicket
    \/ \E d \in Stages : DownloadEnds(d) \/ TicketLapses(d) \/ DragEnded(d)
    \/ \E d \in prepared, started \in BOOLEAN : remote_drag_start_command(d, started)
    \/ ProcessEnds

LocalFilesSpec == LocalFilesInit /\ [][LocalPathsNext \/ RemoteDragNext]_localVars

----------------------------------------------------------------------------
LocalFilesTypeOK ==
    /\ handles \subseteq [pick : 1..MaxPicks, path : Paths, kind : {"file", "directory"}]
    /\ Cardinality(handles) <= MaxHandles /\ stale \subseteq handles
    /\ now \in [Paths -> FileKinds] /\ picks \in 0..MaxPicks
    /\ \A s \in {disk, writers, full, prepared, lapsed, kept, active, dragging, fresh} : s \subseteq Stages
    /\ preparing \in [at : {"idle", "start", "wait", "grace", "check"}, stage : SUBSET Stages]
    /\ lapsed \subseteq prepared /\ Cardinality(prepared) <= MaxPrepared
    /\ opened \in BOOLEAN

\* A stage lives exactly as long as something needs it.  While a download writes
\* into it, or a ticket for it can still be used, it exists, whatever the timeout, the
\* grace period, the expiry of tickets and the drags do; and one that exists while the
\* store is open belongs to the command, a ticket, the drag in progress, or is one
\* that was left on purpose for the next start.
StagesAreOwned ==
    /\ writers \union prepared \subseteq disk
    /\ opened => disk \subseteq preparing.stage \union prepared \union active \union kept

\* A picked path serves one upload: whatever expires or changes in between, no
\* handle is handed to a transfer twice.
UploadedOnce == \A u \in uploads : u.times = 1

\* Paths handed to the web view and directories prepared for a drag are used once and exist
\* while they are in use, whatever expires, times out or is closed meanwhile.
LocalFilesAreOwned == StagesAreOwned /\ UploadedOnce
=============================================================================
