---------------------------- MODULE TransferItem ----------------------------
(***************************************************************************)
(* The transfer of one file: upload_file and download_file of               *)
(* native/desktop_host/src/transfer_manager.cpp, with the staging file, its *)
(* durable record, the checks before and after publication, the cleanup     *)
(* after a failure, and the removal of what a dead process left behind.     *)
(*                                                                         *)
(* Everybody else keeps using the source and the destination meanwhile, and *)
(* every call to the other machine may fail, some after taking effect.      *)
(* A file's data is a sequence of chunks; a chunk is the number of the write*)
(* it stems from, so a copy that mixes two versions is told from either.    *)
(***************************************************************************)
EXTENDS Integers, Sequences

CONSTANTS
  Directions,      \* "upload", "download" or both
  Policies,        \* the conflict policies this transfer may have been started with
  Faults,          \* the operations that may fail in this environment
  MaxVersion       \* bound: writes by others, counted from 3

FaultKinds == {"io",       \* a file operation fails without effect
               "lost",     \* a remote operation takes effect and reports an error
               "history",  \* a write of the staging record fails
               "corrupt",  \* a chunk is stored wrongly
               "coarse",   \* a remote write may leave size and time as they were
               "crash"}    \* the host process may end

ASSUME DirectionAssump == Directions \subseteq {"upload", "download"}
ASSUME PolicyAssump    == Policies \subseteq {"ask", "skip", "overwrite"}
ASSUME FaultAssump     == Faults \subseteq FaultKinds
ASSUME VersionAssump   == MaxVersion \in Nat

Names    == {"target", "renamed"}
Data     == UNION {[1 .. n -> 0 .. MaxVersion + 2] : n \in 0 .. 2}
Garbage  == 0
Kinds    == {"none", "file", "other"}
File     == [kind : Kinds, data : Data, mtime : 0 .. MaxVersion + 2]
NoFile   == [kind |-> "none", data |-> <<>>, mtime |-> 0]
Plain(v) == [kind |-> "file", data |-> <<v, v>>, mtime |-> v]
Special  == [kind |-> "other", data |-> <<>>, mtime |-> 0]

\* RemoteStat and LocalFingerprint: all the checks ever compare.
Stat(f) == [kind |-> f.kind, size |-> Len(f.data), mtime |-> f.mtime]
Stats   == [kind : Kinds, size : 0 .. 2, mtime : 0 .. MaxVersion + 2]

VARIABLES
  direction, \* of this transfer; never changes
  atomic_replace, \* backend.supports_atomic_replace(); SFTP v3 has none
  pc,        \* where upload_file or download_file is
  src,       \* the source file
  dir,       \* the destination directory: two names and the staging file
  version,   \* number of the last write by somebody else
  print,     \* the source's fingerprint / initial_stat
  expected,  \* resolution.expected_target
  dest,      \* resolution.target
  choice,    \* resolution.choice
  sent,      \* what copy_stream has read; its digest
  second,    \* what the second read of a download's source has seen
  cancel,
  staging,   \* SnapshotCell::staging_ holds the artifact
  row,       \* staging_json of the durable row holds it
  residue,   \* the snapshot's staging_residue names it
  pending,   \* pending_recovery: "no", "yes", or the file is already "removed"
  outcome,
  offered,   \* history variable: data of the source since the transfer began
  published, \* history variable
  excused    \* history variable: the staging file was created and its record failed

fileVars  == <<src, dir, version>>
localVars == <<print, expected, dest, choice, sent, second>>
stageVars == <<staging, row, residue, pending>>
ghostVars == <<offered, published, excused>>
fixed == <<direction, atomic_replace>>
vars == <<fixed, pc, fileVars, localVars, cancel, stageVars, outcome, ghostVars>>

Upload == direction = "upload"

Places == {"start", "probe", "resolve", "chain", "created", "open", "copy", "copied",
           "staged", "reread", "verified", "link", "swap", "published", "unlink",
           "forget", "cleanup", "drop", "abandon", "ended", "final", "dead", "recovered"}
Alive == pc \notin {"dead", "recovered"}

Init ==
  /\ direction \in Directions
  /\ atomic_replace \in IF Upload THEN BOOLEAN ELSE {FALSE}
  /\ pc = "start"
  /\ src = Plain(1)
  /\ \E there \in {NoFile, Plain(2), Special} :
       dir = [n \in Names \cup {"stage"} |-> IF n = "target" THEN there ELSE NoFile]
  /\ version = 2
  /\ print = Stat(NoFile)
  /\ expected = Stat(NoFile)
  /\ dest = "target"
  /\ choice = "none"
  /\ sent = <<>>
  /\ second = <<>>
  /\ cancel = FALSE
  /\ staging = FALSE
  /\ row = FALSE
  /\ residue = FALSE
  /\ pending = "no"
  /\ outcome = "none"
  /\ offered = {src.data}
  /\ published = FALSE
  /\ excused = FALSE

HistoryOutcome == IF "history" \in Faults THEN BOOLEAN ELSE {TRUE}
Io == "io" \in Faults

Goes(from, to) == pc = from /\ pc' = to

\* Reported by complete_item, skip_item or the batch's push_failure.
Ends(from, result) == Goes(from, "ended") /\ outcome' = result
Throws(from) == Ends(from, "failed")

-----------------------------------------------------------------------------
(* Before anything is staged                                               *)

\* open_local_source, or the lstat of the batch whose result is initial_stat.
Open ==
  /\ Goes("start", "probe")
  /\ print' = Stat(src)
  /\ UNCHANGED <<fileVars, expected, dest, choice, sent, second, cancel, stageVars,
                 outcome, ghostVars>>

\* The destination is looked at once; nothing there means Create.
Probe ==
  /\ dir["target"].kind # "other"
  /\ expected' = Stat(dir["target"])
  /\ IF dir["target"].kind = "none"
     THEN Goes("probe", "chain") /\ choice' = "create"
     ELSE Goes("probe", "resolve") /\ UNCHANGED choice
  /\ UNCHANGED <<fileVars, print, dest, sent, second, cancel, stageVars, outcome, ghostVars>>

\* Any of the calls so far fails, or the destination is not a regular file.
EarlyFailure ==
  /\ Io \/ (pc = "probe" /\ dir["target"].kind = "other")
  /\ \E from \in {"start", "probe", "chain"} : Throws(from)
  /\ UNCHANGED <<fileVars, localVars, cancel, stageVars, ghostVars>>

\* resolve_remote_destination / resolve_local_destination: by policy, or by the
\* answer await_conflict returns.
MayReplace == Upload => atomic_replace
Asked(action) ==
  \/ "ask" \in Policies /\ ~cancel /\ (action = "overwrite" => MayReplace)
  \/ action \in {"skip", "overwrite"} /\ action \in Policies

ResolveSkip ==
  /\ Asked("skip")
  /\ Ends("resolve", "skipped")
  /\ UNCHANGED <<fileVars, localVars, cancel, stageVars, ghostVars>>

ResolveOverwrite ==
  /\ Asked("overwrite")
  /\ IF MayReplace
     THEN Goes("resolve", "chain") /\ choice' = "replace" /\ UNCHANGED outcome
     ELSE Throws("resolve") /\ UNCHANGED choice
  /\ UNCHANGED <<fileVars, print, expected, dest, sent, second, cancel, stageVars, ghostVars>>

ResolveRename ==
  /\ Asked("rename")
  /\ \/ /\ dir["renamed"].kind = "none"
        /\ Goes("resolve", "chain")
        /\ choice' = "create"
        /\ dest' = "renamed"
        /\ UNCHANGED outcome
     \/ /\ dir["renamed"].kind # "none" \/ Io
        /\ Throws("resolve")
        /\ UNCHANGED <<choice, dest>>
  /\ UNCHANGED <<fileVars, print, expected, sent, second, cancel, stageVars, ghostVars>>

ConflictCancelled ==
  /\ "ask" \in Policies
  /\ cancel
  /\ Throws("resolve")
  /\ UNCHANGED <<fileVars, localVars, cancel, stageVars, ghostVars>>

-----------------------------------------------------------------------------
(* The staging file                                                        *)

\* create_remote_stage / create_local_staging_file: exclusive, under a name that
\* only this item of this transfer can have.
CreateStage ==
  /\ Goes("chain", "created")
  /\ dir' = [dir EXCEPT !["stage"] = [NoFile EXCEPT !.kind = "file"]]
  /\ UNCHANGED <<src, version, localVars, cancel, stageVars, outcome, ghostVars>>

\* The remote side creates it and the answer is lost.
CreateStageUnanswered ==
  /\ Upload /\ "lost" \in Faults
  /\ Throws("chain")
  /\ dir' = [dir EXCEPT !["stage"] = [NoFile EXCEPT !.kind = "file"]]
  /\ excused' = TRUE
  /\ UNCHANGED <<src, version, localVars, cancel, stageVars, offered, published>>

\* Mutant of AddStaging: the artifact is kept in memory only.
AddStagingVolatile ==
  /\ Goes("created", IF Upload THEN "copy" ELSE "open")
  /\ staging' = TRUE
  /\ UNCHANGED <<fileVars, localVars, cancel, row, residue, pending, outcome, ghostVars>>

\* add_staging writes the record twice, quietly under the guard and then for certain.
AddStaging ==
  /\ Goes("created", IF Upload THEN "copy" ELSE "open")
  /\ staging' = TRUE
  /\ row' = TRUE
  /\ UNCHANGED <<fileVars, localVars, cancel, residue, pending, outcome, ghostVars>>

AddStagingThrows ==
  /\ "history" \in Faults
  /\ Goes("created", IF Upload THEN "cleanup" ELSE "abandon")
  /\ staging' = TRUE
  /\ row' \in BOOLEAN
  /\ excused' = TRUE
  /\ UNCHANGED <<fileVars, localVars, cancel, residue, pending, outcome, offered, published>>

\* A download whose record failed drops the file and the artifact, and reports
\* neither step's failure.
Abandon ==
  /\ Throws("abandon")
  /\ dir' = [dir EXCEPT !["stage"] = NoFile] \/ (Io /\ UNCHANGED dir)
  /\ staging' = FALSE
  /\ \E ok \in HistoryOutcome : row' = (row /\ ~ok)
  /\ UNCHANGED <<src, version, localVars, cancel, residue, pending, ghostVars>>

\* A download opens its source only now, and checks it is still the one listed.
OpenRemote ==
  /\ Goes("open", "copy")
  /\ Stat(src) = print
  /\ UNCHANGED <<fileVars, localVars, cancel, stageVars, outcome, ghostVars>>

-----------------------------------------------------------------------------
(* Copy, verify, publish.  Whatever goes wrong leads to `cleanup`.          *)

\* One round of copy_stream.  A staging file somebody removed takes no data.
CopyChunk ==
  /\ Goes("copy", "copy")
  /\ ~cancel
  /\ Len(sent) < Len(src.data)
  /\ LET chunk == src.data[Len(sent) + 1]
     IN  /\ sent' = Append(sent, chunk)
         /\ \E stored \in IF "corrupt" \in Faults THEN {chunk, Garbage} ELSE {chunk} :
              dir' = IF dir["stage"].kind = "none" THEN dir
                     ELSE [dir EXCEPT !["stage"].data = Append(@, stored)]
  /\ \E ok \in HistoryOutcome : row' = IF ok THEN staging ELSE row
  /\ UNCHANGED <<src, version, print, expected, dest, choice, second, cancel, staging,
                 residue, pending, outcome, ghostVars>>

CopyEnds ==
  /\ Goes("copy", "copied")
  /\ ~cancel
  /\ Len(sent) >= Len(src.data)
  /\ UNCHANGED <<fileVars, localVars, cancel, stageVars, outcome, ghostVars>>

\* The stream has the announced size, and an upload's source is still the same.
SourceKept == Len(sent) = print.size /\ (Upload => Stat(src) = print)

Finish ==
  /\ Goes("copied", "staged")
  /\ ~cancel
  /\ SourceKept
  /\ UNCHANGED <<fileVars, localVars, cancel, stageVars, outcome, ghostVars>>

\* The staging file is read back and compared with the digest of the stream.
VerifyStage ==
  /\ Goes("staged", IF Upload THEN "verified" ELSE "reread")
  /\ ~cancel
  /\ dir["stage"].kind = "file"
  /\ dir["stage"].data = sent
  /\ UNCHANGED <<fileVars, localVars, cancel, stageVars, outcome, ghostVars>>

\* The remote source of a download is read a second time.
RereadChunk ==
  /\ Goes("reread", "reread")
  /\ ~cancel
  /\ Len(second) < Len(src.data)
  /\ second' = Append(second, src.data[Len(second) + 1])
  /\ UNCHANGED <<fileVars, print, expected, dest, choice, sent, cancel, stageVars, outcome,
                 ghostVars>>

\* Mutant of SourceStable: only the attributes are compared.
SourceStableByStat == Stat(src) = print

SourceStable == second = sent /\ Stat(src) = print

RereadEnds ==
  /\ Goes("reread", "verified")
  /\ ~cancel
  /\ Len(second) >= Len(src.data)
  /\ SourceStable
  /\ UNCHANGED <<fileVars, localVars, cancel, stageVars, outcome, ghostVars>>

\* The destination is looked at again, one call before it is changed.
Recheck ==
  /\ IF choice = "create"
     THEN Goes("verified", "link") /\ dir[dest].kind = "none"
     ELSE Goes("verified", "swap") /\ dir[dest].kind = "file" /\ Stat(dir[dest]) = expected
  /\ UNCHANGED <<fileVars, localVars, cancel, stageVars, outcome, ghostVars>>

\* publish_no_replace and publish_local_no_replace create a hard link: the name
\* must be free at that moment, and the staging file keeps its own name.
LinkAllowed == dir[dest].kind = "none"

Linked ==
  /\ dir["stage"].kind = "file"
  /\ LinkAllowed
  /\ dir' = [dir EXCEPT ![dest] = dir["stage"]]
  /\ published' = TRUE

Link ==
  /\ Goes("link", IF Upload THEN "published" ELSE "unlink")
  /\ Linked
  /\ UNCHANGED <<src, version, localVars, cancel, stageVars, outcome, offered, excused>>

\* The remote link is made and its confirmation is lost.
LinkUnanswered ==
  /\ Upload /\ "lost" \in Faults
  /\ Goes("link", "cleanup")
  /\ Linked
  /\ UNCHANGED <<src, version, localVars, cancel, stageVars, outcome, offered, excused>>

\* rename_replace, and the rename of publish_local_replace.
Swap ==
  /\ Goes("swap", IF Upload THEN "published" ELSE "forget")
  /\ dir["stage"].kind = "file"
  /\ dir' = [dir EXCEPT ![dest] = dir["stage"], !["stage"] = NoFile]
  /\ published' = TRUE
  /\ UNCHANGED <<src, version, localVars, cancel, stageVars, outcome, offered, excused>>

\* An upload looks at what it published.
CheckPublished ==
  /\ Goes("published", IF choice = "create" THEN "unlink" ELSE "forget")
  /\ dir[dest].kind = "file"
  /\ Len(dir[dest].data) = Len(sent)
  /\ UNCHANGED <<fileVars, localVars, cancel, stageVars, outcome, ghostVars>>

\* A check of this part that does not pass, a failing call, or a cancellation
\* noticed between two chunks.  A name taken meanwhile fails the publication.
WorkFails ==
  /\ \/ Io /\ pc \in {"open", "copy", "copied", "staged", "reread", "verified", "link",
                      "swap", "published"}
     \/ cancel /\ pc \in {"copy", "copied", "staged", "reread"}
     \/ pc = "open" /\ Stat(src) # print
     \/ pc = "copied" /\ ~SourceKept
     \/ pc = "staged" /\ (dir["stage"].kind # "file" \/ dir["stage"].data # sent)
     \/ pc = "reread" /\ Len(second) >= Len(src.data) /\ ~SourceStable
     \/ pc = "verified" /\ choice = "create" /\ dir[dest].kind # "none"
     \/ pc = "verified" /\ choice = "replace" /\ Stat(dir[dest]) # expected
     \/ pc = "link" /\ (dir["stage"].kind # "file" \/ ~LinkAllowed)
     \/ pc = "swap" /\ dir["stage"].kind # "file"
     \/ pc = "published" /\ (dir[dest].kind # "file" \/ Len(dir[dest].data) # Len(sent))
  /\ pc' = "cleanup"
  /\ UNCHANGED <<fileVars, localVars, cancel, stageVars, outcome, ghostVars>>

-----------------------------------------------------------------------------
(* After publication, after failure                                        *)

\* The staging name of a linked file is removed.
Unlink ==
  /\ Goes("unlink", "forget")
  /\ dir' = [dir EXCEPT !["stage"] = NoFile]
  /\ UNCHANGED <<src, version, localVars, cancel, stageVars, outcome, ghostVars>>

\* An upload that cannot remove it says so and is complete all the same; a
\* download fails, although its target is in place.
UnlinkFails ==
  /\ \/ Io /\ UNCHANGED dir
     \/ Upload /\ "lost" \in Faults /\ dir' = [dir EXCEPT !["stage"] = NoFile]
  /\ IF Upload THEN Ends("unlink", "completed") /\ residue' = TRUE
               ELSE Goes("unlink", "cleanup") /\ UNCHANGED <<residue, outcome>>
  /\ UNCHANGED <<src, version, localVars, cancel, staging, row, pending, ghostVars>>

\* remove_staging.  If its write fails, a published item is reported as failed.
Forget ==
  /\ Ends("forget", "completed")
  /\ staging' = FALSE
  /\ row' = FALSE
  /\ UNCHANGED <<fileVars, localVars, cancel, residue, pending, ghostVars>>

ForgetThrows ==
  /\ "history" \in Faults
  /\ Throws("forget")
  /\ staging' = FALSE
  /\ row' \in {row, FALSE}
  /\ UNCHANGED <<fileVars, localVars, cancel, residue, pending, ghostVars>>

\* cleanup_remote_stage, and the catch clause of download_file.
Cleanup ==
  /\ Goes("cleanup", "drop")
  /\ dir' = [dir EXCEPT !["stage"] = NoFile]
  /\ UNCHANGED <<src, version, localVars, cancel, stageVars, outcome, ghostVars>>

\* Mutant of CleanupFails: the item fails without naming the file left behind.
CleanupFailsSilently ==
  /\ Io
  /\ Throws("cleanup")
  /\ UNCHANGED <<fileVars, localVars, cancel, stageVars, ghostVars>>

CleanupFails ==
  /\ \/ Io /\ UNCHANGED dir
     \/ Upload /\ "lost" \in Faults /\ dir' = [dir EXCEPT !["stage"] = NoFile]
  /\ Throws("cleanup")
  /\ residue' = TRUE
  /\ UNCHANGED <<src, version, localVars, cancel, staging, row, pending, ghostVars>>

Drop ==
  /\ Throws("drop")
  /\ staging' = FALSE
  /\ \E ok \in HistoryOutcome : row' = (row /\ ~ok)
  /\ UNCHANGED <<fileVars, localVars, cancel, residue, pending, ghostVars>>

\* The transfer's last write, finalize_status, carries the inventory once more.
Finalize ==
  /\ Goes("ended", "final")
  /\ \E ok \in HistoryOutcome : row' = IF ok THEN staging ELSE row
  /\ UNCHANGED <<fileVars, localVars, cancel, staging, residue, pending, outcome, ghostVars>>

-----------------------------------------------------------------------------
(* Everybody else, and the end of the process                              *)

Cancel ==
  /\ Alive
  /\ cancel' = TRUE
  /\ UNCHANGED <<pc, fileVars, localVars, stageVars, outcome, ghostVars>>

\* A write gets a new time, unless it is a remote one within the same second.
Touched(old, remote) ==
  {version + 1} \cup IF remote /\ "coarse" \in Faults /\ old.kind = "file"
                     THEN {old.mtime} ELSE {}

SourceChanges ==
  /\ version < MaxVersion + 2
  /\ version' = version + 1
  /\ \E data \in {<<version + 1, version + 1>>, <<version + 1>>},
        mtime \in Touched(src, ~Upload) :
       /\ src' = [kind |-> "file", data |-> data, mtime |-> mtime]
       /\ offered' = offered \cup {data}
  /\ UNCHANGED <<pc, dir, localVars, cancel, stageVars, outcome, published, excused>>

DestinationChanges(n) ==
  /\ version < MaxVersion + 2
  /\ version' = version + 1
  /\ \/ \E mtime \in Touched(dir[n], Upload) :
          dir' = [dir EXCEPT ![n] = [Plain(version + 1) EXCEPT !.mtime = mtime]]
     \/ dir' = [dir EXCEPT ![n] = NoFile]
  /\ UNCHANGED <<pc, src, localVars, cancel, stageVars, outcome, ghostVars>>

\* Somebody tidies up the directory.
Sweep ==
  /\ dir["stage"].kind = "file"
  /\ dir' = [dir EXCEPT !["stage"] = NoFile]
  /\ UNCHANGED <<pc, src, version, localVars, cancel, stageVars, outcome, ghostVars>>

Crash ==
  /\ "crash" \in Faults
  /\ pc # "dead"
  /\ pc' = "dead"
  /\ cancel' = FALSE
  /\ staging' = FALSE
  /\ pending' = "no"
  /\ excused' = (excused \/ pc = "created")
  /\ UNCHANGED <<fileVars, localVars, row, residue, outcome, offered, published>>

\* recover_into.  A local file is removed at once, a remote one has to wait for
\* an authenticated session; what could not be removed stays on record.
Recover ==
  /\ Goes("dead", "recovered")
  /\ \/ ~row /\ UNCHANGED <<dir, row, residue, pending>>
     \/ row /\ ~Upload /\ row' = FALSE
            /\ dir' = [dir EXCEPT !["stage"] = NoFile] /\ UNCHANGED <<residue, pending>>
     \/ row /\ (Upload \/ Io) /\ residue' = TRUE /\ pending' = "yes" /\ UNCHANGED <<dir, row>>
  /\ UNCHANGED <<src, version, localVars, cancel, staging, outcome, ghostVars>>

\* The recovered state cannot be saved: with_history throws and is tried again.
RecoverThrows ==
  /\ "history" \in Faults
  /\ Goes("dead", "dead")
  /\ row /\ ~Upload
  /\ dir' = [dir EXCEPT !["stage"] = NoFile]
  /\ UNCHANGED <<src, version, localVars, cancel, stageVars, outcome, ghostVars>>

\* reconcile_remote_staging removes the file through remove_recovered_staging,
\* which is content with an absent one, ...
ReconcileRemove ==
  /\ pc = "recovered" /\ Upload /\ pending = "yes"
  /\ dir' = [dir EXCEPT !["stage"] = NoFile]
  /\ pending' = "removed" \/ ("lost" \in Faults /\ pending' = "yes")
  /\ UNCHANGED <<pc, src, version, localVars, cancel, staging, row, residue, outcome, ghostVars>>

\* ... and then clears the record; a failing read leaves it pending, a failing
\* write only leaves the row behind, for the next start.
ReconcileUpdate ==
  /\ pc = "recovered" /\ pending = "removed"
  /\ \/ row' = FALSE /\ residue' = FALSE /\ pending' = "no"
     \/ "history" \in Faults /\ pending' \in {"yes", "no"} /\ UNCHANGED <<row, residue>>
  /\ UNCHANGED <<pc, fileVars, localVars, cancel, staging, outcome, ghostVars>>

-----------------------------------------------------------------------------
Stage == CreateStage \/ CreateStageUnanswered \/ AddStaging \/ AddStagingThrows \/ Abandon

Resolve ==
  \/ Open \/ Probe \/ EarlyFailure \/ ResolveSkip \/ ResolveOverwrite \/ ResolveRename
  \/ ConflictCancelled

Copy ==
  \/ OpenRemote \/ CopyChunk \/ CopyEnds \/ Finish \/ VerifyStage \/ RereadChunk
  \/ RereadEnds \/ WorkFails

Publish == Recheck \/ Link \/ LinkUnanswered \/ Swap \/ CheckPublished

Settle ==
  \/ Unlink \/ UnlinkFails \/ Forget \/ ForgetThrows \/ Cleanup \/ CleanupFails
  \/ Drop \/ Finalize

Others ==
  \/ Cancel \/ SourceChanges \/ Sweep
  \/ \E n \in Names : DestinationChanges(n)

Restart == Crash \/ Recover \/ RecoverThrows \/ ReconcileRemove \/ ReconcileUpdate

Next ==
  /\ Resolve \/ Stage \/ Copy \/ Publish \/ Settle \/ Others \/ Restart
  /\ UNCHANGED fixed

Spec == Init /\ [][Next]_vars

-----------------------------------------------------------------------------
(* Properties                                                              *)

TypeOK ==
  /\ direction \in Directions
  /\ atomic_replace \in BOOLEAN
  /\ pc \in Places
  /\ src \in File
  /\ dir \in [Names \cup {"stage"} -> File]
  /\ version \in Nat
  /\ print \in Stats
  /\ expected \in Stats
  /\ dest \in Names
  /\ choice \in {"none", "create", "replace"}
  /\ sent \in Data
  /\ second \in Data
  /\ cancel \in BOOLEAN
  /\ staging \in BOOLEAN
  /\ row \in BOOLEAN
  /\ residue \in BOOLEAN
  /\ pending \in {"no", "yes", "removed"}
  /\ outcome \in {"none", "completed", "skipped", "failed"}
  /\ offered \subseteq Data
  /\ published \in BOOLEAN
  /\ excused \in BOOLEAN

\* What the destination holds, as the abstract specification sees it.
Content(f) == CASE f.kind = "none" -> <<-1>> [] f.kind = "other" -> <<Garbage>>
                [] f.kind = "file" -> f.data

Abstract == INSTANCE FilePublication WITH
  Contents  <- Data,
  NoContent <- <<-1>>,
  files     <- [n \in Names |-> Content(dir[n])],
  consent   <- (choice = "replace")

\* upload_file and download_file publish at most once, atomically, never over
\* something nobody agreed to lose, and never a copy that is partial, damaged or
\* mixed from two versions of a source that changed while it was read; an item
\* is reported completed only if it was published.
Publication == Abstract!Spec

\* A staging file on disk is named by the durable row, so that a restart can remove
\* it, from the moment it is recorded until it is gone, whatever fails and whenever
\* the process ends.  Only a file whose record never succeeded is excused: its
\* creation was not confirmed, its first write failed, or the process ended between.
StageIsTracked ==
  dir["stage"].kind = "file" => row \/ pc = "created" \/ excused

\* An item that has ended, by whatever path, leaves no staging file behind or the
\* snapshot names it as residue.
ResidueReported ==
  pc \in {"ended", "final"} /\ dir["stage"].kind = "file" => residue \/ excused
=============================================================================
