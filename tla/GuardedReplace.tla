---------------------------- MODULE GuardedReplace ----------------------------
(***************************************************************************)
(* Replacing a remote file that was read earlier (ssh.cpp,                 *)
(* sftp_replace_guarded).  SFTP has no compare-and-swap, so an editor      *)
(* writes a sibling stage, checks that the target still has the size, the  *)
(* modification time and the contents it had when it was read, and renames *)
(* the stage over it.  Two editors and other programs of the remote host   *)
(* race; every request can time out, and the rename of a caller that gave  *)
(* up may still be executed.                                               *)
(***************************************************************************)
EXTENDS Naturals

CONSTANTS
  Editors,      \* calls of sftp_replace_guarded
  Contents,     \* whole contents a file can have
  Short,        \* the contents of one size; the others share another
  MaxMtime,     \* bound: seconds of the remote clock
  MaxWrites     \* bound: writes by programs of the remote host

ASSUME GuardedReplaceAssumption ==
  /\ Short \subseteq Contents /\ Short # {}
  /\ {"partial", "absent"} \cap Contents = {}
  /\ MaxMtime \in Nat
  /\ MaxWrites \in Nat

Partial == "partial"
Absent == "absent"

VARIABLES
  destination,     \* the target: its contents and its modification time
  stageFile,  \* per editor, its stage on the remote host
  edit,       \* per editor, where its call stands
  inFlight,   \* editors whose rename request the server has not executed
  published,  \* editors whose rename the server executed
  disturbed,  \* editors since whose content check the target has changed
  writes      \* writes by other programs so far

replaceVars == <<destination, stageFile, edit, inFlight, published, disturbed, writes>>

SameSize(a, b) == (a \in Short) <=> (b \in Short)

NoEdit == [at |-> "read", base |-> Absent, mtime |-> 0, new |-> Absent,
           created |-> FALSE, outcome |-> "none"]

GuardedReplaceInit ==
  /\ destination = [content |-> CHOOSE c \in Short : TRUE, mtime |-> 0]
  /\ stageFile = [e \in Editors |-> Absent]
  /\ edit = [e \in Editors |-> NoEdit]
  /\ inFlight = {} /\ published = {} /\ disturbed = {}
  /\ writes = 0

Stands(e, step) == edit[e].at = step
MoveTo(e, step) == edit' = [edit EXCEPT ![e].at = step]

\* Whoever had verified the target's contents no longer knows them.
Disturb(except) ==
  disturbed' = disturbed \cup
    {e \in Editors \ except : edit[e].at \in {"recheck", "rename", "renaming"}
                                  \/ e \in inFlight}

(***************************************************************************)
(* The rest of the world.                                                  *)
(***************************************************************************)
\* Another program rewrites the file, perhaps within the same second.
RemoteWrite(c, tick) ==
  /\ writes < MaxWrites
  /\ destination.content # c
  /\ destination.mtime + tick <= MaxMtime
  /\ destination' = [content |-> c, mtime |-> destination.mtime + tick]
  /\ writes' = writes + 1
  /\ Disturb({})
  /\ UNCHANGED <<stageFile, edit, inFlight, published>>

\* The time of the file a stage is to replace, which the stage carries with the
\* owner and the mode: one that does not is not published.
Carried(e) == edit[e].mtime

\* The server executes a rename; the stage carries the metadata of the file
\* it replaces, so the target keeps its old modification time.
ServerRenames(e) ==
  /\ e \in inFlight
  /\ inFlight' = inFlight \ {e}
  /\ destination' = [content |-> stageFile[e], mtime |-> Carried(e)]
  /\ stageFile' = [stageFile EXCEPT ![e] = Absent]
  /\ published' = published \cup {e}
  /\ Disturb({e})
  /\ UNCHANGED <<edit, writes>>

(***************************************************************************)
(* The call.                                                               *)
(***************************************************************************)
\* The caller read the file some time ago and asks for a replacement.
Read(e, c) ==
  /\ Stands(e, "read")
  /\ edit' = [edit EXCEPT ![e] = [NoEdit EXCEPT
       !.at = "inspect", !.base = destination.content, !.mtime = destination.mtime,
       !.new = c]]
  /\ UNCHANGED <<destination, stageFile, inFlight, published, disturbed, writes>>

\* StagingFileCleanup removes a stage it knows of, if the server still answers;
\* requests are executed in order, so not before a rename that is in flight.
Cleans(e, cleaned) ==
  IF edit[e].created /\ cleaned /\ e \notin inFlight /\ e \notin published
    THEN [stageFile EXCEPT ![e] = Absent] ELSE stageFile

Ends(e, outcome, cleaned) ==
  /\ edit' = [edit EXCEPT ![e].at = "done", ![e].outcome = outcome]
  /\ stageFile' = Cleans(e, cleaned)
  /\ UNCHANGED <<destination, inFlight, published, disturbed, writes>>

\* The size and the modification time are the expected ones.
Unchanged(e) ==
  /\ SameSize(destination.content, edit[e].base)
  /\ destination.mtime = edit[e].mtime

\* One of the three metadata checks: before staging, before and after the
\* content check.
Checks(e, step, next, cleaned) ==
  /\ Stands(e, step)
  /\ IF Unchanged(e)
       THEN MoveTo(e, next) /\ UNCHANGED <<destination, stageFile, inFlight,
                                           published, disturbed, writes>>
       ELSE Ends(e, "concurrent_change", cleaned)

Inspect(e, cleaned) == Checks(e, "inspect", "create", cleaned)
BeforeRead(e, cleaned) == Checks(e, "before", "verify", cleaned)
AfterRead(e, cleaned) == Checks(e, "recheck", "rename", cleaned)

\* The exclusive create is refused, answered, or executed unanswered: then
\* the stage exists and nobody knows.
CreateStage(e, answer) ==
  /\ Stands(e, "create")
  /\ \/ answer = "refused" /\ Ends(e, "replace_unsupported", FALSE)
     \/ /\ answer = "created"
        /\ stageFile' = [stageFile EXCEPT ![e] = Partial]
        /\ edit' = [edit EXCEPT ![e].at = "write", ![e].created = TRUE]
        /\ UNCHANGED <<destination, inFlight, published, disturbed, writes>>
     \/ /\ answer = "lost"
        /\ stageFile' = [stageFile EXCEPT ![e] = Partial]
        /\ edit' = [edit EXCEPT ![e].at = "done", ![e].outcome = "timeout"]
        /\ UNCHANGED <<destination, inFlight, published, disturbed, writes>>

\* The whole of the contents is written, or writing stops somewhere.
WriteStage(e, whole) ==
  /\ Stands(e, "write")
  /\ stageFile' = [stageFile EXCEPT ![e] = IF whole THEN edit[e].new ELSE Partial]
  /\ edit' = [edit EXCEPT ![e].at = IF whole THEN "seal" ELSE "failed"]
  /\ UNCHANGED <<destination, inFlight, published, disturbed, writes>>

\* Mutant of StageFailed: a write error does not stop the publication.
StageFailedIgnored(e, cleaned) ==
  /\ Stands(e, "failed")
  /\ MoveTo(e, "before")
  /\ UNCHANGED <<destination, stageFile, inFlight, published, disturbed, writes>>

\* Where a stage that could not be written or sealed takes the call: it
\* returns the failure.
StageFailed(e, cleaned) ==
  Stands(e, "failed") /\ Ends(e, "sftp_error", cleaned)

\* Metadata, fsync, close, and a look at what the stage carries.
SealStage(e, synced, preserved, cleaned) ==
  /\ Stands(e, "seal")
  /\ \/ ~synced /\ MoveTo(e, "failed")
        /\ UNCHANGED <<destination, stageFile, inFlight, published, disturbed, writes>>
     \/ /\ synced /\ preserved /\ MoveTo(e, "before")
        /\ UNCHANGED <<destination, stageFile, inFlight, published, disturbed, writes>>
     \/ synced /\ ~preserved /\ Ends(e, "metadata_not_preserved", cleaned)

\* Mutant of DigestMatches: only the size is compared.
DigestMatchesSize(e) == SameSize(destination.content, edit[e].base)

\* The contents are read back and their digest compared.
DigestMatches(e) == destination.content = edit[e].base

VerifyContent(e, cleaned) ==
  /\ Stands(e, "verify")
  /\ IF DigestMatches(e)
       THEN /\ MoveTo(e, "recheck")
            /\ disturbed' = disturbed \ {e}
            /\ UNCHANGED <<destination, stageFile, inFlight, published, writes>>
       ELSE Ends(e, "concurrent_change", cleaned)

SendRename(e) ==
  /\ Stands(e, "rename")
  /\ MoveTo(e, "renaming")
  /\ inFlight' = inFlight \cup {e}
  /\ UNCHANGED <<destination, stageFile, published, disturbed, writes>>

\* The server does not support the atomic rename: it answers without having
\* done anything.
RenameRefused(e, cleaned) ==
  /\ Stands(e, "renaming") /\ e \in inFlight
  /\ inFlight' = inFlight \ {e}
  /\ edit' = [edit EXCEPT ![e].at = "done", ![e].outcome = "replace_unsupported"]
  /\ stageFile' = IF cleaned THEN [stageFile EXCEPT ![e] = Absent] ELSE stageFile
  /\ UNCHANGED <<destination, published, disturbed, writes>>

RenameAnswered(e) ==
  /\ Stands(e, "renaming") /\ e \in published
  /\ MoveTo(e, "published")
  /\ UNCHANGED <<destination, stageFile, inFlight, published, disturbed, writes>>

\* Mutant of Unconfirmed: no answer counts as a refusal.
UnconfirmedRefused == "replace_unsupported"

\* How a rename without an answer is reported: it may have been executed.
Unconfirmed == "timeout"

RenameUnanswered(e, cleaned) ==
  Stands(e, "renaming") /\ Ends(e, Unconfirmed, cleaned)

VerifyPublished(e) ==
  /\ Stands(e, "published")
  /\ Ends(e, IF SameSize(destination.content, edit[e].new)
               THEN "completed" ELSE "concurrent_change", FALSE)

\* The deadline passes, or the connection breaks, before any other request.
TimesOut(e, cleaned) ==
  /\ edit[e].at \notin {"read", "done", "renaming", "failed"}
  /\ Ends(e, "timeout", cleaned)

GuardedReplaceNext ==
  \/ \E c \in Contents, tick \in 0..1 : RemoteWrite(c, tick)
  \/ \E e \in Editors : ServerRenames(e)
  \/ \E e \in Editors, c \in Contents : Read(e, c)
  \/ \E e \in Editors, cleaned \in BOOLEAN : Inspect(e, cleaned)
  \/ \E e \in Editors, answer \in {"refused", "created", "lost"} :
       CreateStage(e, answer)
  \/ \E e \in Editors, whole \in BOOLEAN : WriteStage(e, whole)
  \/ \E e \in Editors, cleaned \in BOOLEAN : StageFailed(e, cleaned)
  \/ \E e \in Editors, synced, preserved, cleaned \in BOOLEAN :
       SealStage(e, synced, preserved, cleaned)
  \/ \E e \in Editors, cleaned \in BOOLEAN : BeforeRead(e, cleaned)
  \/ \E e \in Editors, cleaned \in BOOLEAN : VerifyContent(e, cleaned)
  \/ \E e \in Editors, cleaned \in BOOLEAN : AfterRead(e, cleaned)
  \/ \E e \in Editors : SendRename(e)
  \/ \E e \in Editors, cleaned \in BOOLEAN : RenameRefused(e, cleaned)
  \/ \E e \in Editors : RenameAnswered(e)
  \/ \E e \in Editors, cleaned \in BOOLEAN : RenameUnanswered(e, cleaned)
  \/ \E e \in Editors : VerifyPublished(e)
  \/ \E e \in Editors, cleaned \in BOOLEAN : TimesOut(e, cleaned)

GuardedReplaceSpec == GuardedReplaceInit /\ [][GuardedReplaceNext]_replaceVars

(***************************************************************************)
(* Properties.                                                             *)
(***************************************************************************)
GuardedReplaceTypeOK ==
  /\ destination \in [content : Contents \cup {Partial}, mtime : 0..MaxMtime]
  /\ stageFile \in [Editors -> Contents \cup {Partial, Absent}]
  /\ inFlight \subseteq Editors /\ published \subseteq Editors
  /\ writes \in 0..MaxWrites

\* Replacing a file never tears it and never lies about it: the target always
\* holds whole contents, whatever failed on the way; a call that reports
\* completion has published and left no stage; one that reports a refusal has
\* published nothing and never will (sftp_replace_guarded_impl).
ReplaceIsHonest ==
  /\ destination.content # Partial
  /\ \A e \in Editors :
       /\ edit[e].outcome = "completed" => e \in published /\ stageFile[e] = Absent
       /\ edit[e].outcome \in {"replace_unsupported", "metadata_not_preserved"}
            => e \notin published \cup inFlight

\* A rename that is executed replaces exactly the contents its caller had read,
\* unless the target changed after the content check: a change made earlier is
\* always noticed, also one of the same size within the same second, also the
\* publication of another editor, which keeps the modification time.
ReplacesChecked ==
  \A e \in Editors :
    e \in published' \ published =>
      destination.content = edit[e].base \/ e \in disturbed

\* What sftp_replace_guarded promises its callers: an honest report, and no contents lost that
\* the caller had not seen when the content check was made.
ReplaceIsGuarded == [][ReplaceIsHonest' /\ ReplacesChecked]_replaceVars
=============================================================================
