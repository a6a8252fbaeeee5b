-------------------------- MODULE TransferItemProofs --------------------------
(***************************************************************************)
(* TransferItem implements FilePublication, and never loses track of its    *)
(* staging file: for every set of directions, policies and faults, and for  *)
(* any number of writes by others.                                          *)
(*                                                                         *)
(* Two inductive invariants carry this.  `Faithful` follows the copy: the   *)
(* chunks read so far never come from a later write than the source's       *)
(* current one, and once the first of them does the others do too.  So a    *)
(* second reading that begins with the same chunk proves that the whole     *)
(* first one was made of one version (download), as an unchanged time does  *)
(* where times cannot repeat (upload).  `Tracked` follows the staging file  *)
(* from the place where it is created to every way an item can end.         *)
(***************************************************************************)
EXTENDS TransferItem, SequenceTheorems, TLAPS

USE DEF fileVars, localVars, stageVars, ghostVars, fixed, Goes, Ends, Throws

Before     == {"start", "probe", "resolve", "chain"}
Opening    == {"created", "open"}
Reading    == {"copied", "staged", "reread"}
Working    == Opening \cup Reading \cup {"chain", "copy", "verified", "link", "swap"}
Publishing == {"published", "unlink", "forget"}
Over       == {"ended", "final", "dead", "recovered"}
Current    == src.data[1]
HasStage   == dir["stage"].kind = "file"

\* The source is a file that one write has made, the last one; a local file's time is its write's.
Sourced ==
  /\ src.kind = "file" /\ src.data # <<>> /\ src.data \in offered
  /\ Current \in 1 .. version
  /\ \A i \in 1 .. Len(src.data) : src.data[i] = Current
  /\ Upload => src.mtime = Current /\ print.mtime <= Current

\* What has been read, once and a second time.
Copied ==
  /\ pc \in Before \cup Opening => sent = <<>>
  /\ \A i \in 1 .. Len(sent) : sent[i] <= Current /\ (Upload => print.mtime <= sent[i])
  /\ sent # <<>> /\ sent[1] = Current =>
       Len(sent) <= Len(src.data) /\ \A i \in 1 .. Len(sent) : sent[i] = Current
  /\ pc \in Reading => sent # <<>> /\ (sent[1] = Current => sent = src.data)
  /\ pc \in Before \cup Opening \cup {"copy", "copied", "staged"} => second = <<>>
  /\ pc = "reread" => ~Upload /\ (second # <<>> /\ second[1] = sent[1] => sent \in offered)
  /\ pc = "staged" /\ Upload => sent \in offered
  /\ pc \in {"verified", "link", "swap"} => sent \in offered

\* What the staging file holds, if nobody has removed it.
Stored ==
  /\ dir["stage"].kind \in {"none", "file"}
  /\ HasStage =>
       /\ pc \in Opening => dir["stage"].data = <<>>
       /\ pc = "copy" => Len(dir["stage"].data) = Len(sent)
       /\ pc \in {"reread", "verified", "link", "swap"} => dir["stage"].data = sent

\* What a place says of the choice, the publication and the report.
Placed ==
  /\ pc \in {"start", "probe", "resolve"} => choice = "none" /\ ~published
  /\ pc \in Working => choice # "none" /\ ~published
  /\ pc = "swap" => choice = "replace"
  /\ pc = "link" => choice = "create"
  /\ pc \in Publishing => published
  /\ pc \notin Over => outcome = "none"

Typed == TypeOK /\ version <= MaxVersion + 2
Faithful == Typed /\ Sourced /\ Copied /\ Stored /\ Placed

-----------------------------------------------------------------------------
(* Data                                                                    *)

Chunks == 0 .. MaxVersion + 2

\* A file's data is a sequence of at most two chunks.
LEMMA DataIsSeq == ASSUME NEW d PROVE d \in Data <=> d \in Seq(Chunks) /\ Len(d) <= 2
<1>1. ASSUME d \in Data PROVE d \in Seq(Chunks) /\ Len(d) <= 2
  <2>1. PICK n \in 0 .. 2 : d \in [1 .. n -> Chunks] BY <1>1 DEF Data, Chunks
  <2>2. d \in Seq(Chunks) BY <2>1
  <2>3. Len(d) = n BY <2>1, <2>2, LenProperties
  <2>4. QED BY <2>2, <2>3
<1>2. ASSUME d \in Seq(Chunks), Len(d) <= 2 PROVE d \in Data
  <2>1. d \in [1 .. Len(d) -> Chunks] BY <1>2, LenProperties
  <2>2. Len(d) \in 0 .. 2
    <3> DEFINE n == Len(d)
    <3>1. n \in Nat /\ n <= 2 BY <1>2, LenProperties
    <3> HIDE DEF n
    <3>2. n \in 0 .. 2 BY <3>1
    <3>3. QED BY <3>2 DEF n
  <2>3. QED BY <2>1, <2>2 DEF Data, Chunks
<1>3. QED BY <1>1, <1>2

\* The length of a file's data, and its chunks.
LEMMA DataLength ==
  ASSUME NEW d \in Data
  PROVE  /\ Len(d) \in 0 .. 2 /\ (d = <<>> <=> Len(d) = 0)
         /\ \A i \in 1 .. Len(d) : d[i] \in Chunks
<1>1. d \in Seq(Chunks) /\ Len(d) <= 2 BY DataIsSeq
<1>2. Len(d) \in 0 .. 2
  <2> DEFINE n == Len(d)
  <2>1. n \in Nat /\ n <= 2 BY <1>1, LenProperties
  <2> HIDE DEF n
  <2>2. n \in 0 .. 2 BY <2>1
  <2>3. QED BY <2>2 DEF n
<1>3. d = <<>> <=> Len(d) = 0 BY <1>1, EmptySeq
<1>4. \A i \in 1 .. Len(d) : d[i] \in Chunks BY <1>1, ElementOfSeq
<1>5. QED BY <1>2, <1>3, <1>4

\* Two of the same length and the same chunks are one.
LEMMA DataEqual ==
  ASSUME NEW d \in Data, NEW e \in Data, Len(d) = Len(e), \A i \in 1 .. Len(d) : d[i] = e[i]
  PROVE  d = e
BY DataIsSeq, SeqEqual

\* A chunk more.
LEMMA DataAppend ==
  ASSUME NEW d \in Data, Len(d) < 2, NEW x \in Chunks
  PROVE  /\ Append(d, x) \in Data /\ Len(Append(d, x)) = Len(d) + 1 /\ Append(d, x) # <<>>
         /\ Append(d, x)[Len(d) + 1] = x
         /\ \A i \in 1 .. Len(d) : Append(d, x)[i] = d[i]
<1>1. d \in Seq(Chunks) /\ Len(d) \in 0 .. 1 BY DataIsSeq, DataLength
<1>2. /\ Append(d, x) \in Seq(Chunks) /\ Len(Append(d, x)) = Len(d) + 1
      /\ Append(d, x)[Len(d) + 1] = x /\ \A i \in 1 .. Len(d) : Append(d, x)[i] = d[i]
  BY <1>1, AppendProperties
<1>3. \A e : e \in Seq(Chunks) /\ Len(e) <= 2 => e \in Data BY DataIsSeq
<1>4. Len(Append(d, x)) <= 2 BY <1>1, <1>2
<1>5. Append(d, x) \in Data BY <1>2, <1>3, <1>4
<1>6. QED BY <1>1, <1>2, <1>5, DataLength

\* The data of the files this module writes down.
LEMMA DataBasics ==
  /\ <<>> \in Data /\ Len(<<>>) = 0
  /\ \A v \in Chunks : /\ <<v>> \in Data /\ Len(<<v>>) = 1 /\ <<v>>[1] = v
                       /\ <<v, v>> \in Data /\ Len(<<v, v>>) = 2 /\ <<v, v>>[1] = v /\ <<v, v>>[2] = v
                       /\ <<v>> # <<>> /\ <<v, v>> # <<>>
<1>0. \A e : e \in Seq(Chunks) /\ Len(e) <= 2 => e \in Data BY DataIsSeq
<1>1. <<>> \in Seq(Chunks) /\ Len(<<>>) = 0 BY EmptySeq
<1>2. ASSUME NEW v \in Chunks
      PROVE  /\ <<v>> \in Data /\ Len(<<v>>) = 1 /\ <<v>>[1] = v
             /\ <<v, v>> \in Data /\ Len(<<v, v>>) = 2 /\ <<v, v>>[1] = v /\ <<v, v>>[2] = v
             /\ <<v>> # <<>> /\ <<v, v>> # <<>>
  <2>1. <<v>> \in Seq(Chunks) /\ Len(<<v>>) = 1 /\ <<v>>[1] = v OBVIOUS
  <2>2. <<v, v>> \in Seq(Chunks) /\ Len(<<v, v>>) = 2 /\ <<v, v>>[1] = v /\ <<v, v>>[2] = v OBVIOUS
  <2> DEFINE one == <<v>>
             two == <<v, v>>
  <2>3. one \in Seq(Chunks) /\ Len(one) <= 2 /\ two \in Seq(Chunks) /\ Len(two) <= 2
    BY <2>1, <2>2
  <2> HIDE DEF one, two
  <2>5. one \in Data /\ two \in Data BY <1>0, <2>3
  <2>4. QED BY <2>1, <2>2, <2>5, DataLength DEF one, two
<1> DEFINE none == <<>>
<1>3. none \in Seq(Chunks) /\ Len(none) <= 2 BY <1>1
<1> HIDE DEF none
<1>4. none \in Data BY <1>0, <1>3
<1>5. QED BY <1>1, <1>2, <1>4 DEF none

\* The files it writes down, and what the checks compare of a file.
LEMMA FilesAreFiles ==
  /\ NoFile \in File /\ Special \in File
  /\ \A v \in 1 .. MaxVersion + 2 : Plain(v) \in File
  /\ \A f \in File : Stat(f) \in Stats
<1>1. MaxVersion \in Nat BY VersionAssump
<1>2. NoFile \in File /\ Special \in File BY <1>1, DataBasics DEF NoFile, Special, File, Kinds
<1>3. ASSUME NEW v \in 1 .. MaxVersion + 2 PROVE Plain(v) \in File
  <2>1. v \in Chunks BY <1>1 DEF Chunks
  <2>2. <<v, v>> \in Data BY <2>1, DataBasics
  <2>3. QED BY <1>1, <2>2 DEF Plain, File, Kinds
<1>4. ASSUME NEW f \in File PROVE Stat(f) \in Stats
  <2>1. f.data \in Data /\ f.kind \in Kinds /\ f.mtime \in 0 .. MaxVersion + 2 BY DEF File
  <2>2. Len(f.data) \in 0 .. 2 BY <2>1, DataLength
  <2>3. QED BY <2>1, <2>2 DEF Stat, Stats
<1>5. QED BY <1>2, <1>3, <1>4

-----------------------------------------------------------------------------
(* Steps that leave most of it alone                                       *)

\* Nothing happens to the source or to what was read of it.
Unread == UNCHANGED <<src, version, print, sent, second, offered, direction>>

\* The places from which nothing is published any more.
Settled == {"cleanup", "drop", "abandon"} \cup Over

\* Then what is said of the source stays.
LEMMA SourcedStays == ASSUME Sourced, Unread PROVE Sourced'
BY DEF Sourced, Unread, Current, Upload

\* And what is said of the copy, if nothing will be published, or if the place stays.
LEMMA CopiedStays ==
  ASSUME Copied, Unread, pc' \in Settled \/ pc' = pc
  PROVE  Copied'
<1>1. CASE pc' = pc BY <1>1 DEF Copied, Unread, Current, Upload
<1>2. CASE pc' \in Settled
  <2>1. /\ pc' \notin Before \cup Opening \cup {"copy", "copied", "staged"}
        /\ pc' \notin Before \cup Opening /\ pc' \notin Reading
        /\ pc' \notin {"reread", "staged", "verified", "link", "swap"}
    BY <1>2 DEF Settled, Over, Before, Opening, Reading
  <2>2. QED BY <2>1 DEF Copied, Unread, Current, Upload
<1>3. QED BY <1>1, <1>2

\* Nor does it matter then what becomes of the staging file.
LEMMA StoredSettled ==
  ASSUME pc' \in Settled, dir'["stage"].kind \in {"none", "file"}
  PROVE  Stored'
BY DEF Stored, HasStage, Settled, Over, Opening

\* A removed staging file holds nothing.
LEMMA StoredNone == ASSUME dir'["stage"] = NoFile PROVE Stored'
BY DEF Stored, HasStage, NoFile

\* Nor a staging file at the same place as before, that may have been removed.
LEMMA StoredStays == ASSUME Stored, UNCHANGED <<pc, sent>>, dir'["stage"] = dir["stage"] PROVE Stored'
BY DEF Stored, HasStage

\* The names and the staging file are told apart.
LEMMA StageChange ==
  ASSUME Typed, NEW f \in File, dir' = [dir EXCEPT !["stage"] = f]
  PROVE  /\ dir' \in [Names \cup {"stage"} -> File] /\ dir'["stage"] = f
         /\ \A n \in Names : dir'[n] = dir[n]
BY DEF Typed, TypeOK, Names

\* Whoever writes a destination leaves a file or nothing.
LEMMA DestinationWrites ==
  ASSUME Typed, NEW n \in Names, DestinationChanges(n)
  PROVE  \E f \in File : dir' = [dir EXCEPT ![n] = f]
<1>1. CASE dir' = [dir EXCEPT ![n] = NoFile] BY <1>1, FilesAreFiles
<1>2. CASE dir' # [dir EXCEPT ![n] = NoFile]
  <2>1. PICK mtime \in Touched(dir[n], Upload) :
          dir' = [dir EXCEPT ![n] = [Plain(version + 1) EXCEPT !.mtime = mtime]]
    BY <1>2 DEF DestinationChanges
  <2>2. version + 1 \in 1 .. MaxVersion + 2 /\ dir[n] \in File
    BY VersionAssump DEF DestinationChanges, Typed, TypeOK, Names
  <2>3. dir[n].mtime \in 0 .. MaxVersion + 2 BY <2>2 DEF File
  <2>4. mtime \in 0 .. MaxVersion + 2 BY <2>1, <2>2, <2>3 DEF Touched
  <2> DEFINE file == [Plain(version + 1) EXCEPT !.mtime = mtime]
  <2>5. Plain(version + 1) \in File BY <2>2, FilesAreFiles
  <2>6. file \in File BY <2>4, <2>5 DEF File
  <2>7. QED BY <2>1, <2>6
<1>3. QED BY <1>1, <1>2

-----------------------------------------------------------------------------
(* Every step keeps Faithful                                               *)

\* Before anything is staged.
LEMMA FaithfulResolve ==
  ASSUME Faithful, Resolve, UNCHANGED fixed
  PROVE  Faithful'
<1>0. Typed /\ Sourced /\ Copied /\ Stored /\ Placed BY DEF Faithful
<1>1. CASE Open
  <2>1. pc = "start" /\ pc' = "probe" /\ print' = Stat(src)
        /\ UNCHANGED <<direction, src, dir, version, sent, second, choice, outcome, offered, published>>
    BY <1>1 DEF Open
  <2>2. src \in File /\ Stat(src) \in Stats /\ Stat(src).mtime = src.mtime
    BY <1>0, FilesAreFiles DEF Typed, TypeOK, Stat
  <2>3. Typed' BY <1>0, <1>1, <2>2 DEF Open, Typed, TypeOK, Places
  <2>4. sent = <<>> /\ second = <<>> BY <1>0, <2>1 DEF Copied, Before
  <2>5. Len(sent) = 0 BY <2>4, DataBasics
  <2>6. Sourced' BY <1>0, <2>1, <2>2, <1>0 DEF Sourced, Current, Upload, Typed, TypeOK
  <2>7. Copied' BY <2>1, <2>4, <2>5 DEF Copied, Before, Opening, Reading
  <2>8. Stored' BY <1>0, <2>1 DEF Stored, HasStage, Opening
  <2>9. Placed' BY <1>0, <2>1 DEF Placed, Working, Before, Opening, Reading, Publishing, Over
  <2>10. QED BY <2>3, <2>6, <2>7, <2>8, <2>9 DEF Faithful
<1>2. CASE Probe
  <2>1. /\ pc = "probe" /\ pc' \in {"resolve", "chain"} /\ choice' \in {choice, "create"}
        /\ (pc' = "resolve" => choice' = choice) /\ (pc' = "chain" => choice' = "create")
        /\ UNCHANGED <<direction, src, dir, version, print, sent, second, outcome, offered, published>>
    BY <1>2 DEF Probe
  <2>2. dir["target"] \in File /\ Stat(dir["target"]) \in Stats
    BY <1>0, FilesAreFiles DEF Typed, TypeOK, Names
  <2>3. Typed' BY <1>0, <1>2, <2>1, <2>2 DEF Probe, Typed, TypeOK, Places
  <2>4. Unread BY <2>1 DEF Unread
  <2>5. Copied' BY <1>0, <2>1 DEF Copied, Before, Opening, Reading, Current, Upload
  <2>6. Stored' BY <1>0, <2>1 DEF Stored, HasStage, Opening
  <2>7. Placed' BY <1>0, <2>1 DEF Placed, Working, Before, Opening, Reading, Publishing, Over
  <2>8. QED BY <1>0, <2>3, <2>4, <2>5, <2>6, <2>7, SourcedStays DEF Faithful
<1>3. CASE EarlyFailure \/ ResolveSkip \/ ConflictCancelled
  <2>1. /\ pc' = "ended" /\ outcome' \in {"failed", "skipped"}
        /\ UNCHANGED <<direction, atomic_replace, src, dir, version, localVars, cancel, stageVars, ghostVars>>
    BY <1>3 DEF EarlyFailure, ResolveSkip, ConflictCancelled
  <2>2. Typed' BY <1>0, <2>1 DEF Typed, TypeOK, Places
  <2>3. Unread BY <2>1 DEF Unread
  <2>4. pc' \in Settled BY <2>1 DEF Settled, Over
  <2>5. Stored' BY <1>0, <2>1, <2>4, StoredSettled DEF Stored
  <2>6. Placed' BY <2>1 DEF Placed, Working, Before, Opening, Reading, Publishing, Over
  <2>7. QED BY <1>0, <2>2, <2>3, <2>4, <2>5, <2>6, SourcedStays, CopiedStays DEF Faithful
<1>4. CASE ResolveOverwrite \/ ResolveRename
  <2>1. /\ pc = "resolve" /\ pc' \in {"chain", "ended"} /\ outcome' \in {outcome, "failed"}
        /\ (pc' = "chain" => outcome' = outcome /\ choice' \in {"create", "replace"})
        /\ choice' \in {choice, "create", "replace"} /\ dest' \in {dest, "renamed"}
        /\ UNCHANGED <<fixed, src, dir, version, print, expected, sent, second, cancel, stageVars,
                       ghostVars>>
    BY <1>4 DEF ResolveOverwrite, ResolveRename
  <2>2. Typed' BY <1>0, <2>1 DEF Typed, TypeOK, Places, Names
  <2>3. Unread BY <2>1 DEF Unread
  <2>5. Copied' BY <1>0, <2>1 DEF Copied, Before, Opening, Reading, Current, Upload
  <2>6. Stored' BY <1>0, <2>1 DEF Stored, HasStage, Opening
  <2>7. Placed' BY <1>0, <2>1 DEF Placed, Working, Before, Opening, Reading, Publishing, Over
  <2>8. QED BY <1>0, <2>2, <2>3, <2>5, <2>6, <2>7, SourcedStays DEF Faithful
<1>5. QED BY <1>1, <1>2, <1>3, <1>4 DEF Resolve

\* The staging file is created and recorded, or its record fails.
LEMMA FaithfulStage ==
  ASSUME Faithful, Stage, UNCHANGED fixed
  PROVE  Faithful'
<1>0. Typed /\ Sourced /\ Copied /\ Stored /\ Placed BY DEF Faithful
<1> DEFINE empty == [NoFile EXCEPT !.kind = "file"]
<1>1. empty \in File /\ empty.kind = "file" /\ empty.data = <<>> /\ NoFile \in File /\ NoFile.kind = "none"
  BY FilesAreFiles DEF NoFile, File, Kinds
<1> HIDE DEF empty
<1>2. CASE CreateStage
  <2>1. /\ pc = "chain" /\ pc' = "created" /\ dir' = [dir EXCEPT !["stage"] = empty]
        /\ UNCHANGED <<fixed, src, version, localVars, cancel, stageVars, outcome, ghostVars>>
    BY <1>2 DEF CreateStage, empty
  <2>2. dir' \in [Names \cup {"stage"} -> File] /\ dir'["stage"] = empty
    BY <1>0, <1>1, <2>1, StageChange
  <2>3. Typed' BY <1>0, <2>1, <2>2 DEF Typed, TypeOK, Places
  <2>4. Unread BY <2>1 DEF Unread
  <2>5. Copied' BY <1>0, <2>1 DEF Copied, Before, Opening, Reading, Current, Upload
  <2>6. Stored' BY <1>1, <2>1, <2>2 DEF Stored, HasStage, Opening
  <2>7. Placed' BY <1>0, <2>1 DEF Placed, Working, Before, Opening, Reading, Publishing, Over
  <2>8. QED BY <1>0, <2>3, <2>4, <2>5, <2>6, <2>7, SourcedStays DEF Faithful
<1>3. CASE CreateStageUnanswered
  <2>1. /\ pc = "chain" /\ pc' = "ended" /\ outcome' = "failed" /\ excused' = TRUE
        /\ dir' = [dir EXCEPT !["stage"] = empty]
        /\ UNCHANGED <<fixed, src, version, localVars, cancel, stageVars, offered, published>>
    BY <1>3 DEF CreateStageUnanswered, empty
  <2>2. dir' \in [Names \cup {"stage"} -> File] /\ dir'["stage"] = empty
    BY <1>0, <1>1, <2>1, StageChange
  <2>3. Typed' BY <1>0, <2>1, <2>2 DEF Typed, TypeOK, Places
  <2>4. Unread BY <2>1 DEF Unread
  <2>5. pc' \in Settled BY <2>1 DEF Settled, Over
  <2>6. Stored' BY <1>1, <2>2, <2>5, StoredSettled
  <2>7. Placed' BY <2>1 DEF Placed, Working, Before, Opening, Reading, Publishing, Over
  <2>8. QED BY <1>0, <2>3, <2>4, <2>5, <2>6, <2>7, SourcedStays, CopiedStays DEF Faithful
<1>4. CASE AddStaging
  <2>1. /\ pc = "created" /\ pc' \in {"copy", "open"} /\ staging' = TRUE /\ row' = TRUE
        /\ UNCHANGED <<fixed, fileVars, localVars, cancel, residue, pending, outcome, ghostVars>>
    BY <1>4 DEF AddStaging
  <2>2. Typed' BY <1>0, <2>1 DEF Typed, TypeOK, Places
  <2>3. Unread BY <2>1 DEF Unread
  <2>4. Copied' BY <1>0, <2>1 DEF Copied, Before, Opening, Reading, Current, Upload
  <2>5. Stored'
    <3>1. sent = <<>> /\ Len(sent) = 0 BY <1>0, <2>1, DataBasics DEF Copied, Opening
    <3>2. QED BY <1>0, <2>1, <3>1 DEF Stored, HasStage, Opening
  <2>6. Placed' BY <1>0, <2>1 DEF Placed, Working, Before, Opening, Reading, Publishing, Over
  <2>7. QED BY <1>0, <2>2, <2>3, <2>4, <2>5, <2>6, SourcedStays DEF Faithful
<1>5. CASE AddStagingThrows
  <2>1. /\ pc = "created" /\ pc' \in {"cleanup", "abandon"} /\ staging' = TRUE /\ row' \in BOOLEAN
        /\ excused' = TRUE
        /\ UNCHANGED <<fixed, fileVars, localVars, cancel, residue, pending, outcome, offered, published>>
    BY <1>5 DEF AddStagingThrows
  <2>2. Typed' BY <1>0, <2>1 DEF Typed, TypeOK, Places
  <2>3. Unread BY <2>1 DEF Unread
  <2>4. pc' \in Settled BY <2>1 DEF Settled
  <2>5. Stored' BY <1>0, <2>1, <2>4, StoredSettled DEF Stored
  <2>6. Placed' BY <1>0, <2>1 DEF Placed, Working, Before, Opening, Reading, Publishing, Over
  <2>7. QED BY <1>0, <2>2, <2>3, <2>4, <2>5, <2>6, SourcedStays, CopiedStays DEF Faithful
<1>6. CASE Abandon
  <2>1. /\ pc' = "ended" /\ outcome' = "failed" /\ staging' = FALSE /\ row' \in BOOLEAN
        /\ dir' = [dir EXCEPT !["stage"] = NoFile] \/ dir' = dir
        /\ UNCHANGED <<fixed, src, version, localVars, cancel, residue, pending, ghostVars>>
    BY <1>6 DEF Abandon, HistoryOutcome
  <2>2. dir' \in [Names \cup {"stage"} -> File] /\ dir'["stage"] \in {dir["stage"], NoFile}
    BY <1>0, <1>1, <2>1, StageChange DEF Typed, TypeOK
  <2>3. Typed' BY <1>0, <2>1, <2>2 DEF Typed, TypeOK, Places
  <2>4. Unread BY <2>1 DEF Unread
  <2>5. pc' \in Settled BY <2>1 DEF Settled, Over
  <2>6. Stored' BY <1>0, <1>1, <2>2, <2>5, StoredSettled DEF Stored
  <2>7. Placed' BY <2>1 DEF Placed, Working, Before, Opening, Reading, Publishing, Over
  <2>8. QED BY <1>0, <2>3, <2>4, <2>5, <2>6, <2>7, SourcedStays, CopiedStays DEF Faithful
<1>7. QED BY <1>2, <1>3, <1>4, <1>5, <1>6 DEF Stage

\* The first reading: a chunk more, the end of it, and what Finish compares.
LEMMA FaithfulCopying ==
  ASSUME Faithful, OpenRemote \/ CopyChunk \/ CopyEnds \/ Finish, UNCHANGED fixed
  PROVE  Faithful'
<1>0. Typed /\ Sourced /\ Copied /\ Stored /\ Placed BY DEF Faithful
<1>1. /\ src \in File /\ src.data \in Data /\ sent \in Data
      /\ Len(sent) \in 0 .. 2 /\ Len(src.data) \in 1 .. 2 /\ Current \in Nat
      /\ (sent = <<>> <=> Len(sent) = 0)
  <2>1. src \in File /\ src.data \in Data /\ sent \in Data BY <1>0 DEF Typed, TypeOK, File
  <2>2. Len(sent) \in 0 .. 2 /\ Len(src.data) \in 1 .. 2 /\ (sent = <<>> <=> Len(sent) = 0)
    BY <1>0, <2>1, DataLength DEF Sourced
  <2>3. QED BY <1>0, <2>1, <2>2 DEF Sourced, Typed, TypeOK
<1>2. CASE OpenRemote
  <2>1. /\ pc = "open" /\ pc' = "copy"
        /\ UNCHANGED <<fixed, fileVars, localVars, cancel, stageVars, outcome, ghostVars>>
    BY <1>2 DEF OpenRemote
  <2>2. Typed' BY <1>0, <2>1 DEF Typed, TypeOK, Places
  <2>3. Unread BY <2>1 DEF Unread
  <2>4. Copied' BY <1>0, <2>1 DEF Copied, Before, Opening, Reading, Current, Upload
  <2>5. Stored'
    <3>1. sent = <<>> /\ Len(sent) = 0 BY <1>0, <2>1, DataBasics DEF Copied, Opening
    <3>2. QED BY <1>0, <2>1, <3>1 DEF Stored, HasStage, Opening
  <2>6. Placed' BY <1>0, <2>1 DEF Placed, Working, Before, Opening, Reading, Publishing, Over
  <2>7. QED BY <1>0, <2>2, <2>3, <2>4, <2>5, <2>6, SourcedStays DEF Faithful
<1>3. CASE CopyChunk
  <2> DEFINE chunk == src.data[Len(sent) + 1]
  <2>1. PICK stored \in {chunk, Garbage} :
          /\ pc = "copy" /\ pc' = "copy" /\ Len(sent) < Len(src.data)
          /\ sent' = Append(sent, chunk)
          /\ dir' = IF dir["stage"].kind = "none" THEN dir
                    ELSE [dir EXCEPT !["stage"].data = Append(@, stored)]
    BY <1>3 DEF CopyChunk
  <2>2. /\ row' \in {staging, row}
        /\ UNCHANGED <<fixed, src, version, print, expected, dest, choice, second, cancel, staging,
                       residue, pending, outcome, ghostVars>>
    BY <1>3 DEF CopyChunk
  <2>3. chunk = Current /\ chunk \in Chunks BY <1>0, <1>1, <2>1, DataLength DEF Sourced
  <2>4. stored \in Chunks BY <2>3, VersionAssump DEF Garbage, Chunks
  <2>5. /\ sent' \in Data /\ Len(sent') = Len(sent) + 1 /\ sent' # <<>>
        /\ sent'[Len(sent) + 1] = Current /\ \A i \in 1 .. Len(sent) : sent'[i] = sent[i]
    <3>1. Len(sent) < 2 BY <1>1, <2>1
    <3> HIDE DEF chunk
    <3>2. QED BY <1>1, <2>1, <2>3, <3>1, DataAppend
  <2>6. dir' \in [Names \cup {"stage"} -> File] /\ dir'["stage"].kind = dir["stage"].kind
        /\ (HasStage => Len(dir'["stage"].data) = Len(sent) + 1)
    <3>1. CASE dir["stage"].kind = "none" BY <1>0, <2>1, <3>1 DEF Typed, TypeOK, HasStage
    <3>2. CASE dir["stage"].kind # "none"
      <4>1. HasStage BY <1>0, <3>2 DEF Stored, HasStage
      <4>2. Len(dir["stage"].data) = Len(sent) BY <1>0, <2>1, <4>1 DEF Stored
      <4>3. dir["stage"] \in File /\ dir["stage"].data \in Data BY <1>0 DEF Typed, TypeOK, File
      <4> DEFINE longer == Append(dir["stage"].data, stored)
                 file == [dir["stage"] EXCEPT !.data = longer]
      <4>4. longer \in Data /\ Len(longer) = Len(sent) + 1
        BY <1>1, <2>1, <2>4, <4>2, <4>3, DataAppend
      <4>5. dir' = [dir EXCEPT !["stage"] = file] BY <2>1, <3>2
      <4> HIDE DEF longer
      <4>6. file \in File /\ file.kind = dir["stage"].kind /\ file.data = longer BY <4>3, <4>4 DEF File
      <4> HIDE DEF file
      <4>7. dir' \in [Names \cup {"stage"} -> File] /\ dir'["stage"] = file
        BY <1>0, <4>5, <4>6, StageChange
      <4>8. QED BY <4>4, <4>6, <4>7
    <3>3. QED BY <3>1, <3>2
  <2>7. Typed' BY <1>0, <2>1, <2>2, <2>5, <2>6 DEF Typed, TypeOK, Places
  <2>8. Sourced' BY <1>0, <2>2 DEF Sourced, Current, Upload
  <2>9. Copied'
    <3>1. \A i \in 1 .. Len(sent') : i = Len(sent) + 1 \/ i \in 1 .. Len(sent) BY <1>1, <2>5
    <3>2. \A i \in 1 .. Len(sent') : sent'[i] <= Current /\ (Upload => print.mtime <= sent'[i])
      BY <1>0, <1>1, <2>5, <3>1 DEF Copied, Sourced
    <3>3. sent'[1] = Current => Len(sent') <= Len(src.data) /\ \A i \in 1 .. Len(sent') : sent'[i] = Current
      <4>1. ASSUME sent'[1] = Current PROVE \A i \in 1 .. Len(sent) : sent[i] = Current
        <5>1. CASE Len(sent) = 0 BY <5>1
        <5>2. CASE Len(sent) # 0
          <6>1. sent[1] = Current BY <1>1, <2>5, <4>1, <5>2
          <6>2. QED BY <1>0, <1>1, <5>2, <6>1 DEF Copied
        <5>3. QED BY <5>1, <5>2
      <4>2. Len(sent') <= Len(src.data) BY <1>1, <2>1, <2>5
      <4>3. QED BY <2>5, <3>1, <4>1, <4>2
    <3>4. second = <<>> BY <1>0, <2>1 DEF Copied
    <3>5. QED BY <2>1, <2>2, <2>5, <3>2, <3>3, <3>4 DEF Copied, Before, Opening, Reading, Current, Upload
  <2>10. Stored' BY <1>0, <2>1, <2>5, <2>6 DEF Stored, HasStage, Opening
  <2>11. Placed' BY <1>0, <2>1, <2>2 DEF Placed
  <2>12. QED BY <2>7, <2>8, <2>9, <2>10, <2>11 DEF Faithful
<1>4. CASE CopyEnds \/ Finish
  <2>1. /\ (pc = "copy" /\ pc' = "copied") \/ (pc = "copied" /\ pc' = "staged")
        /\ UNCHANGED <<fixed, fileVars, localVars, cancel, stageVars, outcome, ghostVars>>
    BY <1>4 DEF CopyEnds, Finish
  <2>2. Typed' BY <1>0, <2>1 DEF Typed, TypeOK, Places
  <2>3. Unread BY <2>1 DEF Unread
  <2>4. sent # <<>> /\ (sent[1] = Current => sent = src.data)
    <3>1. CASE CopyEnds
      <4>1. Len(sent) >= Len(src.data) BY <3>1 DEF CopyEnds
      <4>2. sent # <<>> BY <1>1, <4>1
      <4>3. ASSUME sent[1] = Current PROVE sent = src.data
        <5>1. Len(sent) = Len(src.data) /\ \A i \in 1 .. Len(sent) : sent[i] = src.data[i]
          BY <1>0, <1>1, <4>1, <4>2, <4>3 DEF Copied, Sourced
        <5>2. QED BY <1>1, <5>1, DataEqual
      <4>4. QED BY <4>2, <4>3
    <3>2. CASE Finish BY <1>0, <3>2 DEF Finish, Copied, Reading
    <3>3. QED BY <1>4, <3>1, <3>2
  <2>5. ASSUME pc' = "staged", Upload PROVE sent \in offered
    <3>1. Stat(src) = print BY <1>4, <2>1, <2>5 DEF CopyEnds, Finish, SourceKept
    <3>2. print.mtime = Current BY <1>0, <2>5, <3>1 DEF Stat, Sourced
    <3>3. sent[1] = Current
      <4>1. 1 \in 1 .. Len(sent) BY <1>1, <2>4
      <4>2. sent[1] <= Current /\ Current <= sent[1] BY <1>0, <2>5, <3>2, <4>1 DEF Copied
      <4>3. sent[1] \in Nat BY <1>1, <4>1, DataLength, VersionAssump DEF Chunks
      <4>4. QED BY <1>1, <4>2, <4>3
    <3>4. QED BY <1>0, <2>4, <3>3 DEF Sourced
  <2>6. Copied' BY <1>0, <2>1, <2>4, <2>5 DEF Copied, Before, Opening, Reading, Current, Upload
  <2>7. Stored' BY <1>0, <2>1 DEF Stored, HasStage, Opening
  <2>8. Placed' BY <1>0, <2>1 DEF Placed, Working, Before, Opening, Reading, Publishing, Over
  <2>9. QED BY <1>0, <2>2, <2>3, <2>6, <2>7, <2>8, SourcedStays DEF Faithful
<1>5. QED BY <1>2, <1>3, <1>4

\* The staging file is read back; a download's source is read again; or something goes wrong.
LEMMA FaithfulVerifying ==
  ASSUME Faithful, VerifyStage \/ RereadChunk \/ RereadEnds \/ WorkFails, UNCHANGED fixed
  PROVE  Faithful'
<1>0. Typed /\ Sourced /\ Copied /\ Stored /\ Placed BY DEF Faithful
<1>1. /\ src \in File /\ src.data \in Data /\ second \in Data
      /\ Len(second) \in 0 .. 2 /\ Len(src.data) \in 1 .. 2
      /\ (second = <<>> <=> Len(second) = 0)
  <2>1. src \in File /\ src.data \in Data /\ second \in Data BY <1>0 DEF Typed, TypeOK, File
  <2>2. Len(second) \in 0 .. 2 /\ Len(src.data) \in 1 .. 2 /\ (second = <<>> <=> Len(second) = 0)
    BY <1>0, <2>1, DataLength DEF Sourced
  <2>3. QED BY <2>1, <2>2
<1>2. CASE VerifyStage
  <2>1. /\ pc = "staged" /\ pc' = (IF Upload THEN "verified" ELSE "reread")
        /\ dir["stage"].data = sent
        /\ UNCHANGED <<fixed, fileVars, localVars, cancel, stageVars, outcome, ghostVars>>
    BY <1>2 DEF VerifyStage
  <2>2. Typed' BY <1>0, <2>1 DEF Typed, TypeOK, Places
  <2>3. Unread BY <2>1 DEF Unread
  <2>4. second = <<>> /\ (Upload => sent \in offered) BY <1>0, <2>1 DEF Copied
  <2>5. sent # <<>> /\ (sent[1] = Current => sent = src.data) BY <1>0, <2>1 DEF Copied, Reading
  <2>6. Copied' BY <1>0, <2>1, <2>4, <2>5 DEF Copied, Before, Opening, Reading, Current, Upload
  <2>7. Stored' BY <1>0, <2>1 DEF Stored, HasStage, Opening
  <2>8. Placed' BY <1>0, <2>1 DEF Placed, Working, Before, Opening, Reading, Publishing, Over
  <2>9. QED BY <1>0, <2>2, <2>3, <2>6, <2>7, <2>8, SourcedStays DEF Faithful
<1>3. CASE RereadChunk
  <2> DEFINE chunk == src.data[Len(second) + 1]
  <2>1. /\ pc = "reread" /\ pc' = "reread" /\ Len(second) < Len(src.data)
        /\ second' = Append(second, chunk)
        /\ UNCHANGED <<fixed, fileVars, print, expected, dest, choice, sent, cancel, stageVars, outcome,
                       ghostVars>>
    BY <1>3 DEF RereadChunk
  <2>2. chunk = Current /\ chunk \in Chunks BY <1>0, <1>1, <2>1, DataLength DEF Sourced
  <2>3. /\ second' \in Data /\ second' # <<>> /\ second'[Len(second) + 1] = Current
        /\ \A i \in 1 .. Len(second) : second'[i] = second[i]
    <3>1. Len(second) < 2 BY <1>1, <2>1
    <3> HIDE DEF chunk
    <3>2. QED BY <1>1, <2>1, <2>2, <3>1, DataAppend
  <2>4. Typed' BY <1>0, <2>1, <2>3 DEF Typed, TypeOK, Places
  <2>5. Sourced' BY <1>0, <2>1 DEF Sourced, Current, Upload
  <2>6. ASSUME second'[1] = sent[1] PROVE sent \in offered
    <3>1. CASE Len(second) = 0
      <4>1. sent[1] = Current BY <2>3, <2>6, <3>1
      <4>2. QED BY <1>0, <2>1, <4>1 DEF Copied, Reading, Sourced
    <3>2. CASE Len(second) # 0
      <4>1. second # <<>> /\ second[1] = sent[1] BY <1>1, <2>3, <2>6, <3>2
      <4>2. QED BY <1>0, <2>1, <4>1 DEF Copied
    <3>3. QED BY <3>1, <3>2
  <2>7. Copied' BY <1>0, <2>1, <2>6 DEF Copied, Before, Opening, Reading, Current, Upload
  <2>8. Stored' BY <1>0, <2>1 DEF Stored, HasStage, Opening
  <2>9. Placed' BY <1>0, <2>1 DEF Placed
  <2>10. QED BY <2>4, <2>5, <2>7, <2>8, <2>9 DEF Faithful
<1>4. CASE RereadEnds
  <2>1. /\ pc = "reread" /\ pc' = "verified" /\ Len(second) >= Len(src.data) /\ second = sent
        /\ UNCHANGED <<fixed, fileVars, localVars, cancel, stageVars, outcome, ghostVars>>
    BY <1>4 DEF RereadEnds, SourceStable
  <2>2. Typed' BY <1>0, <2>1 DEF Typed, TypeOK, Places
  <2>3. Unread BY <2>1 DEF Unread
  <2>4. sent \in offered BY <1>0, <1>1, <2>1 DEF Copied
  <2>5. Copied' BY <1>0, <2>1, <2>4 DEF Copied, Before, Opening, Reading, Current, Upload
  <2>6. Stored' BY <1>0, <2>1 DEF Stored, HasStage, Opening
  <2>7. Placed' BY <1>0, <2>1 DEF Placed, Working, Before, Opening, Reading, Publishing, Over
  <2>8. QED BY <1>0, <2>2, <2>3, <2>5, <2>6, <2>7, SourcedStays DEF Faithful
<1>5. CASE WorkFails
  <2>1. /\ pc \in {"open", "copy", "verified", "link", "swap", "published"} \cup Reading
        /\ pc' = "cleanup"
        /\ UNCHANGED <<fixed, fileVars, localVars, cancel, stageVars, outcome, ghostVars>>
    BY <1>5 DEF WorkFails, Reading
  <2>2. Typed' BY <1>0, <2>1 DEF Typed, TypeOK, Places
  <2>3. Unread BY <2>1 DEF Unread
  <2>4. pc' \in Settled BY <2>1 DEF Settled
  <2>5. Stored' BY <1>0, <2>1, <2>4, StoredSettled DEF Stored
  <2>6. Placed' BY <1>0, <2>1 DEF Placed, Working, Before, Opening, Reading, Publishing, Over
  <2>7. QED BY <1>0, <2>2, <2>3, <2>4, <2>5, <2>6, SourcedStays, CopiedStays DEF Faithful
<1>6. QED BY <1>2, <1>3, <1>4, <1>5

\* The destination is looked at again and changed.
LEMMA FaithfulPublish ==
  ASSUME Faithful, Publish, UNCHANGED fixed
  PROVE  Faithful'
<1>0. Typed /\ Sourced /\ Copied /\ Stored /\ Placed BY DEF Faithful
<1>1. CASE Recheck
  <2>1. /\ pc = "verified" /\ pc' = (IF choice = "create" THEN "link" ELSE "swap")
        /\ UNCHANGED <<fixed, fileVars, localVars, cancel, stageVars, outcome, ghostVars>>
    BY <1>1 DEF Recheck
  <2>2. Typed' BY <1>0, <2>1 DEF Typed, TypeOK, Places
  <2>3. Unread BY <2>1 DEF Unread
  <2>4. Copied' BY <1>0, <2>1 DEF Copied, Before, Opening, Reading, Current, Upload
  <2>5. Stored' BY <1>0, <2>1 DEF Stored, HasStage, Opening
  <2>6. Placed'
    <3>1. choice \in {"create", "replace"} BY <1>0, <2>1 DEF Placed, Working, Typed, TypeOK
    <3>2. QED BY <1>0, <2>1, <3>1 DEF Placed, Working, Opening, Reading, Publishing, Over
  <2>7. QED BY <1>0, <2>2, <2>3, <2>4, <2>5, <2>6, SourcedStays DEF Faithful
<1>2. CASE Link \/ LinkUnanswered
  <2>1. /\ pc = "link" /\ pc' \in {"published", "unlink", "cleanup"} /\ published' = TRUE
        /\ dir' = [dir EXCEPT ![dest] = dir["stage"]]
        /\ UNCHANGED <<fixed, src, version, localVars, cancel, stageVars, outcome, offered, excused>>
    BY <1>2 DEF Link, LinkUnanswered, Linked
  <2>2. dir' \in [Names \cup {"stage"} -> File] /\ dir'["stage"] = dir["stage"]
    BY <1>0, <2>1 DEF Typed, TypeOK, Names
  <2>3. Typed' BY <1>0, <2>1, <2>2 DEF Typed, TypeOK, Places
  <2>4. Unread BY <2>1 DEF Unread
  <2>5. Copied' BY <1>0, <2>1 DEF Copied, Before, Opening, Reading, Current, Upload
  <2>6. Stored' BY <1>0, <2>1, <2>2 DEF Stored, HasStage, Opening
  <2>7. Placed' BY <1>0, <2>1 DEF Placed, Working, Before, Opening, Reading, Publishing, Over
  <2>8. QED BY <1>0, <2>3, <2>4, <2>5, <2>6, <2>7, SourcedStays DEF Faithful
<1>3. CASE Swap
  <2>1. /\ pc = "swap" /\ pc' \in {"published", "forget"} /\ published' = TRUE
        /\ dir' = [dir EXCEPT ![dest] = dir["stage"], !["stage"] = NoFile]
        /\ UNCHANGED <<fixed, src, version, localVars, cancel, stageVars, outcome, offered, excused>>
    BY <1>3 DEF Swap
  <2>2. dir' \in [Names \cup {"stage"} -> File] /\ dir'["stage"] = NoFile
    BY <1>0, <2>1, FilesAreFiles DEF Typed, TypeOK, Names
  <2>3. Typed' BY <1>0, <2>1, <2>2 DEF Typed, TypeOK, Places
  <2>4. Unread BY <2>1 DEF Unread
  <2>5. Copied' BY <1>0, <2>1 DEF Copied, Before, Opening, Reading, Current, Upload
  <2>6. Stored' BY <2>2, StoredNone
  <2>7. Placed' BY <1>0, <2>1 DEF Placed, Working, Before, Opening, Reading, Publishing, Over
  <2>8. QED BY <1>0, <2>3, <2>4, <2>5, <2>6, <2>7, SourcedStays DEF Faithful
<1>4. CASE CheckPublished
  <2>1. /\ pc = "published" /\ pc' \in {"unlink", "forget"}
        /\ UNCHANGED <<fixed, fileVars, localVars, cancel, stageVars, outcome, ghostVars>>
    BY <1>4 DEF CheckPublished
  <2>2. Typed' BY <1>0, <2>1 DEF Typed, TypeOK, Places
  <2>3. Unread BY <2>1 DEF Unread
  <2>4. Copied' BY <1>0, <2>1 DEF Copied, Before, Opening, Reading, Current, Upload
  <2>5. Stored' BY <1>0, <2>1 DEF Stored, HasStage, Opening
  <2>6. Placed' BY <1>0, <2>1 DEF Placed, Working, Before, Opening, Reading, Publishing, Over
  <2>7. QED BY <1>0, <2>2, <2>3, <2>4, <2>5, <2>6, SourcedStays DEF Faithful
<1>5. QED BY <1>1, <1>2, <1>3, <1>4 DEF Publish

\* What follows a publication or a failure.
LEMMA FaithfulSettle ==
  ASSUME Faithful, Settle, UNCHANGED fixed
  PROVE  Faithful'
<1>0. Typed /\ Sourced /\ Copied /\ Stored /\ Placed BY DEF Faithful
<1>1. NoFile \in File /\ NoFile.kind = "none" BY FilesAreFiles DEF NoFile
<1>2. CASE Unlink
  <2>1. /\ pc = "unlink" /\ pc' = "forget" /\ dir' = [dir EXCEPT !["stage"] = NoFile]
        /\ UNCHANGED <<fixed, src, version, localVars, cancel, stageVars, outcome, ghostVars>>
    BY <1>2 DEF Unlink
  <2>2. dir' \in [Names \cup {"stage"} -> File] /\ dir'["stage"] = NoFile
    BY <1>0, <1>1, <2>1, StageChange
  <2>3. Typed' BY <1>0, <2>1, <2>2 DEF Typed, TypeOK, Places
  <2>4. Unread BY <2>1 DEF Unread
  <2>5. Copied' BY <1>0, <2>1 DEF Copied, Before, Opening, Reading, Current, Upload
  <2>6. Stored' BY <2>2, StoredNone
  <2>7. Placed' BY <1>0, <2>1 DEF Placed, Working, Before, Opening, Reading, Publishing, Over
  <2>8. QED BY <1>0, <2>3, <2>4, <2>5, <2>6, <2>7, SourcedStays DEF Faithful
<1>3. CASE UnlinkFails \/ Cleanup \/ CleanupFails
  <2>1. /\ pc \in {"unlink", "cleanup"} /\ pc' \in {"ended", "cleanup", "drop"}
        /\ dir' = [dir EXCEPT !["stage"] = NoFile] \/ dir' = dir
        /\ outcome' \in {outcome, "completed", "failed"} /\ (pc' # "ended" => outcome' = outcome)
        /\ UNCHANGED <<fixed, src, version, localVars, cancel, staging, row, pending, ghostVars>>
    BY <1>3 DEF UnlinkFails, Cleanup, CleanupFails
  <2>9. residue' \in BOOLEAN
    BY <1>0, <1>3 DEF UnlinkFails, Cleanup, CleanupFails, Typed, TypeOK
  <2>2. dir' \in [Names \cup {"stage"} -> File] /\ dir'["stage"] \in {dir["stage"], NoFile}
    BY <1>0, <1>1, <2>1, StageChange DEF Typed, TypeOK
  <2>3. Typed' BY <1>0, <2>1, <2>2, <2>9 DEF Typed, TypeOK, Places
  <2>4. Unread BY <2>1 DEF Unread
  <2>5. pc' \in Settled BY <2>1 DEF Settled, Over
  <2>6. Stored' BY <1>0, <1>1, <2>2, <2>5, StoredSettled DEF Stored
  <2>7. Placed' BY <1>0, <2>1 DEF Placed, Working, Before, Opening, Reading, Publishing, Over
  <2>8. QED BY <1>0, <2>3, <2>4, <2>5, <2>6, <2>7, SourcedStays, CopiedStays DEF Faithful
<1>4. CASE Forget \/ ForgetThrows \/ Drop \/ Finalize
  <2>1. /\ pc' \in {"ended", "final"} /\ outcome' \in {outcome, "completed", "failed"}
        /\ staging' \in BOOLEAN /\ row' \in BOOLEAN
        /\ UNCHANGED <<fixed, fileVars, localVars, cancel, residue, pending, ghostVars>>
    <3>1. row \in BOOLEAN /\ staging \in BOOLEAN BY <1>0 DEF Typed, TypeOK
    <3>2. CASE Forget BY <3>1, <3>2 DEF Forget
    <3>3. CASE ForgetThrows BY <3>1, <3>3 DEF ForgetThrows
    <3>4. CASE Drop BY <3>1, <3>4 DEF Drop, HistoryOutcome
    <3>5. CASE Finalize BY <3>1, <3>5 DEF Finalize, HistoryOutcome
    <3>6. QED BY <1>4, <3>2, <3>3, <3>4, <3>5
  <2>2. Typed' BY <1>0, <2>1 DEF Typed, TypeOK, Places
  <2>3. Unread BY <2>1 DEF Unread
  <2>4. pc' \in Settled BY <2>1 DEF Settled, Over
  <2>5. Stored' BY <1>0, <2>1, <2>4, StoredSettled DEF Stored
  <2>6. Placed' BY <2>1 DEF Placed, Working, Before, Opening, Reading, Publishing, Over
  <2>7. QED BY <1>0, <2>2, <2>3, <2>4, <2>5, <2>6, SourcedStays, CopiedStays DEF Faithful
<1>5. QED BY <1>2, <1>3, <1>4 DEF Settle

\* What others do to the source, the destination and the staging file.
LEMMA FaithfulOthers ==
  ASSUME Faithful, Others, UNCHANGED fixed
  PROVE  Faithful'
<1>0. Typed /\ Sourced /\ Copied /\ Stored /\ Placed BY DEF Faithful
<1>1. CASE Cancel
  <2>1. cancel' = TRUE /\ UNCHANGED <<fixed, pc, fileVars, localVars, stageVars, outcome, ghostVars>>
    BY <1>1 DEF Cancel
  <2>2. Typed' BY <1>0, <2>1 DEF Typed, TypeOK
  <2>3. Unread BY <2>1 DEF Unread
  <2>4. Stored' BY <1>0, <2>1, StoredStays
  <2>5. Placed' BY <1>0, <2>1 DEF Placed
  <2>6. QED BY <1>0, <2>1, <2>2, <2>3, <2>4, <2>5, SourcedStays, CopiedStays DEF Faithful
<1>2. CASE SourceChanges
  <2> DEFINE new == version + 1
  <2>1. PICK data \in {<<new, new>>, <<new>>}, mtime \in Touched(src, ~Upload) :
          /\ version < MaxVersion + 2 /\ version' = new
          /\ src' = [kind |-> "file", data |-> data, mtime |-> mtime]
          /\ offered' = offered \cup {data}
    BY <1>2 DEF SourceChanges
  <2>2. UNCHANGED <<fixed, pc, dir, localVars, cancel, stageVars, outcome, published, excused>>
    BY <1>2 DEF SourceChanges
  <2>3. /\ version \in Nat /\ new \in Chunks /\ new \in Nat /\ new <= MaxVersion + 2
        /\ Current \in Nat /\ Current < new /\ 1 <= new
    BY <1>0, <2>1, VersionAssump DEF Typed, TypeOK, Sourced, Chunks
  <2>4. /\ data \in Data /\ data # <<>> /\ data[1] = new
        /\ \A i \in 1 .. Len(data) : data[i] = new
    <3> HIDE DEF new
    <3>1. CASE data = <<new, new>>
      <4>1. Len(data) = 2 /\ data[1] = new /\ data[2] = new /\ data \in Data /\ data # <<>>
        BY <2>3, <3>1, DataBasics
      <4>2. QED BY <4>1
    <3>2. CASE data = <<new>>
      <4>1. Len(data) = 1 /\ data[1] = new /\ data \in Data /\ data # <<>>
        BY <2>3, <3>2, DataBasics
      <4>2. QED BY <4>1
    <3>3. QED BY <2>1, <3>1, <3>2
  <2>5. mtime \in 0 .. MaxVersion + 2 /\ (Upload => mtime = new)
    <3>1. src.mtime \in 0 .. MaxVersion + 2 BY <1>0 DEF Typed, TypeOK, File
    <3>2. QED BY <2>1, <2>3, <3>1, VersionAssump DEF Touched
  <2>6. src'.kind = "file" /\ src'.data = data /\ src'.mtime = mtime /\ src' \in File
    BY <2>1, <2>4, <2>5 DEF File, Kinds
  <2>7. Typed' BY <1>0, <2>1, <2>2, <2>3, <2>4, <2>6 DEF Typed, TypeOK
  <2>8. Sourced'
    <3>1. Upload => print.mtime <= new
      <4>1. print.mtime \in 0 .. MaxVersion + 2 BY <1>0 DEF Typed, TypeOK, Stats
      <4>2. QED BY <1>0, <2>3, <4>1, VersionAssump DEF Sourced
    <3> HIDE DEF new
    <3>2. QED BY <2>1, <2>2, <2>3, <2>4, <2>5, <2>6, <3>1 DEF Sourced, Current, Upload
  <2>9. Copied'
    <3>1. src'.data[1] = new BY <2>4, <2>6
    <3>2. sent \in Data /\ \A i \in 1 .. Len(sent) : sent[i] \in Nat
      BY <1>0, DataLength, VersionAssump DEF Typed, TypeOK, Chunks
    <3>3. \A i \in 1 .. Len(sent) : sent[i] < new BY <1>0, <2>3, <3>2 DEF Copied
    <3>4. sent # <<>> => sent[1] # new
      <4>1. sent # <<>> => 1 \in 1 .. Len(sent) BY <3>2, DataLength
      <4>2. QED BY <2>3, <3>2, <3>3, <4>1
    <3>5. \A i \in 1 .. Len(sent) : sent[i] <= new BY <2>3, <3>2, <3>3
    <3> HIDE DEF new
    <3>6. QED BY <1>0, <2>1, <2>2, <3>1, <3>4, <3>5 DEF Copied, Current, Upload
  <2>10. Stored' BY <1>0, <2>2, StoredStays
  <2>11. Placed' BY <1>0, <2>2 DEF Placed
  <2>12. QED BY <2>7, <2>8, <2>9, <2>10, <2>11 DEF Faithful
<1>3. CASE Sweep
  <2>1. /\ dir' = [dir EXCEPT !["stage"] = NoFile]
        /\ UNCHANGED <<fixed, pc, src, version, localVars, cancel, stageVars, outcome, ghostVars>>
    BY <1>3 DEF Sweep
  <2>2. dir' \in [Names \cup {"stage"} -> File] /\ dir'["stage"] = NoFile
    BY <1>0, <2>1, StageChange, FilesAreFiles
  <2>3. Typed' BY <1>0, <2>1, <2>2 DEF Typed, TypeOK
  <2>4. Unread BY <2>1 DEF Unread
  <2>5. Stored' BY <2>2, StoredNone
  <2>6. Placed' BY <1>0, <2>1 DEF Placed
  <2>7. QED BY <1>0, <2>1, <2>3, <2>4, <2>5, <2>6, SourcedStays, CopiedStays DEF Faithful
<1>4. ASSUME NEW n \in Names, DestinationChanges(n) PROVE Faithful'
  <2>1. /\ version < MaxVersion + 2 /\ version' = version + 1
        /\ UNCHANGED <<fixed, pc, src, localVars, cancel, stageVars, outcome, ghostVars>>
    BY <1>4 DEF DestinationChanges
  <2>2. PICK f \in File : dir' = [dir EXCEPT ![n] = f] BY <1>0, <1>4, DestinationWrites
  <2>3. dir' \in [Names \cup {"stage"} -> File] /\ dir'["stage"] = dir["stage"]
    BY <1>0, <2>2 DEF Typed, TypeOK, Names
  <2>4. Typed' BY <1>0, <2>1, <2>3, VersionAssump DEF Typed, TypeOK
  <2>5. Sourced'
    <3>1. Current \in 1 .. version' BY <1>0, <2>1 DEF Sourced, Typed, TypeOK
    <3>2. QED BY <1>0, <2>1, <3>1 DEF Sourced, Current, Upload
  <2>6. Copied' BY <1>0, <2>1 DEF Copied, Current, Upload
  <2>7. Stored' BY <1>0, <2>1, <2>3, StoredStays
  <2>8. Placed' BY <1>0, <2>1 DEF Placed
  <2>9. QED BY <2>4, <2>5, <2>6, <2>7, <2>8 DEF Faithful
<1>5. QED BY <1>1, <1>2, <1>3, <1>4 DEF Others

\* The end of the process, and what the next one does about the staging file.
LEMMA FaithfulRestart ==
  ASSUME Faithful, Restart, UNCHANGED fixed
  PROVE  Faithful'
<1>0. Typed /\ Sourced /\ Copied /\ Stored /\ Placed BY DEF Faithful
<1>1. /\ pc' \in {"dead", "recovered"}
      /\ UNCHANGED <<fixed, src, version, localVars, outcome, offered, published>>
  BY DEF Restart, Crash, Recover, RecoverThrows, ReconcileRemove, ReconcileUpdate
<1>2. /\ cancel' \in BOOLEAN /\ staging' \in BOOLEAN /\ row' \in BOOLEAN
      /\ residue' \in BOOLEAN /\ excused' \in BOOLEAN /\ pending' \in {"no", "yes", "removed"}
  <2>1. /\ cancel \in BOOLEAN /\ staging \in BOOLEAN /\ row \in BOOLEAN
        /\ residue \in BOOLEAN /\ excused \in BOOLEAN /\ pending \in {"no", "yes", "removed"}
    BY <1>0 DEF Typed, TypeOK
  <2>2. CASE Crash BY <2>1, <2>2 DEF Crash
  <2>3. CASE Recover BY <2>1, <2>3 DEF Recover
  <2>4. CASE RecoverThrows BY <2>1, <2>4 DEF RecoverThrows
  <2>5. CASE ReconcileRemove BY <2>1, <2>5 DEF ReconcileRemove
  <2>6. CASE ReconcileUpdate BY <2>1, <2>6 DEF ReconcileUpdate
  <2>7. QED BY <2>2, <2>3, <2>4, <2>5, <2>6 DEF Restart
<1>3. dir' = [dir EXCEPT !["stage"] = NoFile] \/ dir' = dir
  BY DEF Restart, Crash, Recover, RecoverThrows, ReconcileRemove, ReconcileUpdate
<1>4. dir' \in [Names \cup {"stage"} -> File] /\ dir'["stage"] \in {dir["stage"], NoFile}
  BY <1>0, <1>3, StageChange, FilesAreFiles DEF Typed, TypeOK
<1>5. Typed' BY <1>0, <1>1, <1>2, <1>4 DEF Typed, TypeOK, Places
<1>6. Unread BY <1>1 DEF Unread
<1>7. pc' \in Settled BY <1>1 DEF Settled, Over
<1>8. Stored' BY <1>0, <1>4, <1>7, StoredSettled DEF Stored, NoFile
<1>9. Placed' BY <1>1 DEF Placed, Working, Before, Opening, Reading, Publishing, Over
<1>10. QED BY <1>0, <1>5, <1>6, <1>7, <1>8, <1>9, SourcedStays, CopiedStays DEF Faithful

\* Every transfer begins with it.
LEMMA FaithfulInit == Init => Faithful
<1> SUFFICES ASSUME Init PROVE Faithful
  OBVIOUS
<1>1. MaxVersion \in Nat /\ 1 \in Chunks /\ 1 \in 1 .. MaxVersion + 2 /\ 2 \in 1 .. MaxVersion + 2
  BY VersionAssump DEF Chunks
<1>2. src = Plain(1) /\ src \in File /\ src.kind = "file" /\ src.data = <<1, 1>> /\ src.mtime = 1
  BY <1>1, FilesAreFiles DEF Init, Plain
<1>3. PICK there \in {NoFile, Plain(2), Special} :
        dir = [n \in Names \cup {"stage"} |-> IF n = "target" THEN there ELSE NoFile]
  BY DEF Init
<1>4. there \in File /\ NoFile \in File BY <1>1, <1>3, FilesAreFiles
<1>5. dir \in [Names \cup {"stage"} -> File] /\ dir["stage"] = NoFile BY <1>3, <1>4 DEF Names
<1>6. <<>> \in Data /\ Len(<<>>) = 0 /\ <<1, 1>> \in Data /\ Len(<<1, 1>>) = 2
      /\ <<1, 1>>[1] = 1 /\ <<1, 1>>[2] = 1 /\ <<1, 1>> # <<>>
  BY <1>1, DataBasics
<1>7. Stat(NoFile) \in Stats /\ Stat(NoFile).mtime = 0 BY <1>4, FilesAreFiles DEF Stat, NoFile
<1>8. Typed
  <2>1. offered \subseteq Data /\ sent \in Data /\ second \in Data BY <1>2, <1>6 DEF Init
  <2>2. print \in Stats /\ expected \in Stats /\ version = 2 /\ version <= MaxVersion + 2
    BY <1>1, <1>7 DEF Init
  <2>3. direction \in Directions /\ atomic_replace \in BOOLEAN /\ pc \in Places BY DEF Init, Places
  <2>4. /\ dest \in Names /\ choice = "none" /\ pending = "no" /\ outcome = "none"
        /\ cancel = FALSE /\ staging = FALSE /\ row = FALSE /\ residue = FALSE
        /\ published = FALSE /\ excused = FALSE
    BY DEF Init, Names
  <2>5. QED BY <1>2, <1>5, <2>1, <2>2, <2>3, <2>4 DEF Typed, TypeOK
<1>9. Sourced
  <2>1. \A i \in 1 .. Len(src.data) : src.data[i] = 1 BY <1>2, <1>6
  <2>2. src.data \in offered /\ version = 2 /\ print.mtime = 0 BY <1>7 DEF Init
  <2>3. QED BY <1>2, <1>6, <2>1, <2>2 DEF Sourced, Current
<1>10. Copied BY <1>6 DEF Init, Copied, Reading
<1>11. Stored BY <1>5 DEF Stored, HasStage, NoFile
<1>12. Placed BY DEF Init, Placed, Working, Opening, Reading, Publishing
<1>13. QED BY <1>8, <1>9, <1>10, <1>11, <1>12 DEF Faithful

\* And keeps it.
LEMMA FaithfulNext == Faithful /\ [Next]_vars => Faithful'
<1> SUFFICES ASSUME Faithful, [Next]_vars PROVE Faithful'
  OBVIOUS
<1>1. CASE UNCHANGED vars
  <2>1. UNCHANGED <<fixed, pc, fileVars, localVars, cancel, stageVars, outcome, ghostVars>> BY <1>1 DEF vars
  <2>2. Typed' BY <2>1 DEF Faithful, Typed, TypeOK
  <2>3. Sourced' /\ Copied' /\ Stored' /\ Placed'
    BY <2>1 DEF Faithful, Sourced, Copied, Stored, Placed, HasStage, Current, Upload
  <2>4. QED BY <2>2, <2>3 DEF Faithful
<1>2. CASE Next
  <2>1. UNCHANGED fixed BY <1>2 DEF Next
  <2>2. CASE Copy BY <2>1, <2>2, FaithfulCopying, FaithfulVerifying DEF Copy
  <2>3. Resolve \/ Stage \/ Copy \/ Publish \/ Settle \/ Others \/ Restart BY <1>2 DEF Next
  <2>4. QED BY <2>1, <2>2, <2>3, FaithfulResolve, FaithfulStage, FaithfulPublish, FaithfulSettle,
              FaithfulOthers, FaithfulRestart
<1>3. QED BY <1>1, <1>2

\* What is read, staged and published belongs together, at every place of upload_file and
\* download_file: the invariant the publication below rests on, types included.
THEOREM FaithfulInvariant == Spec => []Faithful
<1>1. QED BY FaithfulInit, FaithfulNext, PTL DEF Spec

-----------------------------------------------------------------------------
(* The refinement of FilePublication                                       *)

\* A step that shows nothing to whoever looks at the destination.
LEMMA AbstractStutters ==
  ASSUME UNCHANGED <<offered, published, outcome>>,
         choice' = "replace" <=> choice = "replace",
         \A n \in Names : dir'[n] = dir[n]
  PROVE  UNCHANGED Abstract!vars
<1>1. \A n \in Names : Content(dir'[n]) = Content(dir[n]) OBVIOUS
<1>2. [n \in Names |-> Content(dir'[n])] = [n \in Names |-> Content(dir[n])] BY <1>1
<1>3. (choice' = "replace") = (choice = "replace") OBVIOUS
<1>4. QED BY <1>2, <1>3 DEF Abstract!vars

\* The transfer is reported, and nothing else is to be seen.
LEMMA AbstractEnds ==
  ASSUME outcome = "none", outcome' \in {"completed", "skipped", "failed"},
         outcome' = "completed" => published, outcome' = "skipped" => ~published,
         UNCHANGED <<offered, published, choice>>,
         \A n \in Names : dir'[n] = dir[n]
  PROVE  Abstract!End
<1>1. \A n \in Names : Content(dir'[n]) = Content(dir[n]) OBVIOUS
<1>2. [n \in Names |-> Content(dir'[n])] = [n \in Names |-> Content(dir[n])] BY <1>1
<1>3. QED BY <1>2 DEF Abstract!End

\* One name gets other contents.
LEMMA ContentsChange ==
  ASSUME Typed, NEW n \in Names, NEW f \in File, \A k \in Names : dir'[k] = IF k = n THEN f ELSE dir[k]
  PROVE  [k \in Names |-> Content(dir'[k])] = [[k \in Names |-> Content(dir[k])] EXCEPT ![n] = Content(f)]
OBVIOUS

\* What a file shows is data or the absence of a file.
LEMMA ContentsAreData ==
  ASSUME NEW f \in File
  PROVE  /\ Content(f) \in Data \cup {<<-1>>}
         /\ f.kind = "none" => Content(f) = <<-1>>
         /\ f.kind = "file" => Content(f) = f.data
<1>1. f.kind \in Kinds /\ f.data \in Data BY DEF File
<1>2. <<Garbage>> \in Data
  <2>1. 0 \in Chunks BY VersionAssump DEF Chunks
  <2>2. QED BY <2>1, DataBasics DEF Garbage
<1>3. QED BY <1>1, <1>2 DEF Content, Kinds

\* What upload_file and download_file put under the destination's name is a version the source
\* had, and it is put there while the name is free or may be replaced.
LEMMA PublicationStep ==
  ASSUME Faithful, Link \/ LinkUnanswered \/ Swap, UNCHANGED fixed
  PROVE  Abstract!Publish(dest)
<1>0. Typed /\ Sourced /\ Copied /\ Stored /\ Placed BY DEF Faithful
<1>1. /\ pc \in {"link", "swap"} /\ published' = TRUE /\ HasStage
      /\ UNCHANGED <<offered, choice, outcome>>
  BY DEF Link, LinkUnanswered, Swap, Linked, HasStage
<1>2. dest \in Names /\ dir["stage"] \in File /\ dir[dest] \in File BY <1>0 DEF Typed, TypeOK, Names
<1>3. \A k \in Names : dir'[k] = IF k = dest THEN dir["stage"] ELSE dir[k]
  BY <1>0, <1>2 DEF Link, LinkUnanswered, Swap, Linked, Typed, TypeOK, Names
<1>4. Content(dir["stage"]) = sent /\ sent \in offered
  BY <1>0, <1>1, <1>2, ContentsAreData DEF Stored, HasStage, Copied
<1>5. [k \in Names |-> Content(dir'[k])] = [[k \in Names |-> Content(dir[k])] EXCEPT ![dest] = sent]
  BY <1>0, <1>2, <1>3, <1>4, ContentsChange
<1>6. ~published /\ outcome = "none" BY <1>0, <1>1 DEF Placed, Working, Over
<1>7. [k \in Names |-> Content(dir[k])][dest] = <<-1>> \/ choice = "replace"
  <2>1. CASE pc = "swap" BY <1>0, <2>1 DEF Placed
  <2>2. CASE pc = "link"
    <3>1. dir[dest].kind = "none" BY <2>2 DEF Link, LinkUnanswered, Swap, Linked, LinkAllowed
    <3>2. QED BY <1>2, <3>1, ContentsAreData
  <2>3. QED BY <1>1, <2>1, <2>2
<1>8. QED BY <1>1, <1>4, <1>5, <1>6, <1>7 DEF Abstract!Publish

\* Every initial state of a transfer is one of the abstract specification.
LEMMA AbstractInit == Init => Abstract!Init
<1> SUFFICES ASSUME Init PROVE Abstract!Init
  OBVIOUS
<1>1. Typed /\ Placed BY FaithfulInit DEF Faithful
<1>2. \A n \in Names : dir[n] \in File BY <1>1 DEF Typed, TypeOK
<1>3. [n \in Names |-> Content(dir[n])] \in [Names -> Data \cup {<<-1>>}] BY <1>2, ContentsAreData
<1>4. offered \in SUBSET Data BY <1>1 DEF Typed, TypeOK
<1>5. published = FALSE /\ outcome = "none" /\ (choice = "replace") = FALSE BY DEF Init
<1>6. QED BY <1>3, <1>4, <1>5 DEF Abstract!Init

\* Before anything is staged: an answer to replace is the consent, a refusal the end.
LEMMA AbstractResolve ==
  ASSUME Faithful, Resolve, UNCHANGED fixed
  PROVE  [Abstract!Next]_(Abstract!vars)
<1>0. Placed /\ Typed BY DEF Faithful
<1>1. CASE Open \/ Probe
  <2>1. UNCHANGED <<offered, published, outcome, dir>> /\ choice' \in {choice, "create"}
        /\ pc \in {"start", "probe"}
    BY <1>1 DEF Open, Probe
  <2>2. choice = "none" BY <1>0, <2>1 DEF Placed
  <2>3. QED BY <2>1, <2>2, AbstractStutters
<1>2. CASE EarlyFailure \/ ResolveSkip \/ ConflictCancelled
  <2>1. /\ outcome' \in {"failed", "skipped"} /\ UNCHANGED <<offered, published, choice, dir>>
        /\ pc \in {"start", "probe", "resolve", "chain"} /\ (outcome' = "skipped" => pc = "resolve")
    BY <1>2 DEF EarlyFailure, ResolveSkip, ConflictCancelled
  <2>2. outcome = "none" /\ (outcome' = "skipped" => ~published)
    BY <1>0, <2>1 DEF Placed, Over
  <2>3. Abstract!End BY <2>1, <2>2, AbstractEnds
  <2>4. QED BY <2>3 DEF Abstract!Next
<1>3. CASE ResolveOverwrite \/ ResolveRename
  <2>1. /\ pc = "resolve" /\ UNCHANGED <<offered, published, dir>>
        /\ \/ outcome' = outcome /\ choice' \in {"create", "replace"}
           \/ outcome' = "failed" /\ choice' = choice
    BY <1>3 DEF ResolveOverwrite, ResolveRename
  <2>2. outcome = "none" /\ choice = "none" BY <1>0, <2>1 DEF Placed, Over
  <2>3. CASE outcome' = "failed" /\ choice' = choice
    <3>1. Abstract!End BY <2>1, <2>2, <2>3, AbstractEnds
    <3>2. QED BY <3>1 DEF Abstract!Next
  <2>4. CASE outcome' = outcome /\ choice' = "create"
    <3>1. UNCHANGED Abstract!vars BY <2>1, <2>2, <2>4, AbstractStutters
    <3>2. QED BY <3>1
  <2>5. CASE outcome' = outcome /\ choice' = "replace"
    <3>1. [n \in Names |-> Content(dir'[n])] = [n \in Names |-> Content(dir[n])] BY <2>1
    <3>2. (choice' = "replace") = TRUE BY <2>5
    <3>3. Abstract!Agree BY <2>1, <2>5, <3>1, <3>2 DEF Abstract!Agree
    <3>4. QED BY <3>3 DEF Abstract!Next
  <2>6. QED BY <2>1, <2>3, <2>4, <2>5
<1>4. QED BY <1>1, <1>2, <1>3 DEF Resolve

\* Staging shows nothing, unless it fails.
LEMMA AbstractStage ==
  ASSUME Faithful, Stage, UNCHANGED fixed
  PROVE  [Abstract!Next]_(Abstract!vars)
<1>0. Placed /\ Typed BY DEF Faithful
<1>1. \A n \in Names : dir'[n] = dir[n]
  BY <1>0 DEF Stage, CreateStage, CreateStageUnanswered, AddStaging, AddStagingThrows, Abandon,
              Typed, TypeOK, Names
<1>2. UNCHANGED <<offered, published, choice>>
  BY DEF Stage, CreateStage, CreateStageUnanswered, AddStaging, AddStagingThrows, Abandon
<1>3. CASE CreateStage \/ AddStaging \/ AddStagingThrows
  <2>1. outcome' = outcome BY <1>3 DEF CreateStage, AddStaging, AddStagingThrows
  <2>2. QED BY <1>1, <1>2, <2>1, AbstractStutters
<1>4. CASE CreateStageUnanswered \/ Abandon
  <2>1. outcome' = "failed" /\ pc \in {"chain", "abandon"} BY <1>4 DEF CreateStageUnanswered, Abandon
  <2>2. outcome = "none" BY <1>0, <2>1 DEF Placed, Over
  <2>3. Abstract!End BY <1>1, <1>2, <2>1, <2>2, AbstractEnds
  <2>4. QED BY <2>3 DEF Abstract!Next
<1>5. QED BY <1>3, <1>4 DEF Stage

\* Copying shows nothing at all.
LEMMA AbstractCopy ==
  ASSUME Faithful, Copy, UNCHANGED fixed
  PROVE  [Abstract!Next]_(Abstract!vars)
<1>0. Typed BY DEF Faithful
<1>1. CASE CopyChunk
  <2>1. UNCHANGED <<offered, published, choice, outcome>> BY <1>1 DEF CopyChunk
  <2>2. \A n \in Names : dir'[n] = dir[n] BY <1>0, <1>1 DEF CopyChunk, Typed, TypeOK, Names
  <2>3. QED BY <2>1, <2>2, AbstractStutters
<1>2. CASE ~CopyChunk
  <2>1. UNCHANGED <<offered, published, choice, outcome, dir>>
    BY <1>2 DEF Copy, OpenRemote, CopyEnds, Finish, VerifyStage, RereadChunk, RereadEnds, WorkFails
  <2>2. QED BY <2>1, AbstractStutters
<1>3. QED BY <1>1, <1>2

\* The publication, and the looks before and after it.
LEMMA AbstractPublish ==
  ASSUME Faithful, Publish, UNCHANGED fixed
  PROVE  [Abstract!Next]_(Abstract!vars)
<1>1. CASE Link \/ LinkUnanswered \/ Swap
  <2>1. dest \in Names BY DEF Faithful, Typed, TypeOK
  <2>2. Abstract!Publish(dest) BY <1>1, PublicationStep
  <2>3. QED BY <2>1, <2>2 DEF Abstract!Next
<1>2. CASE Recheck \/ CheckPublished
  <2>1. UNCHANGED <<offered, published, choice, outcome, dir>> BY <1>2 DEF Recheck, CheckPublished
  <2>2. QED BY <2>1, AbstractStutters
<1>3. QED BY <1>1, <1>2 DEF Publish

\* Success is reported after the publication only.
LEMMA AbstractSettle ==
  ASSUME Faithful, Settle, UNCHANGED fixed
  PROVE  [Abstract!Next]_(Abstract!vars)
<1>0. Placed /\ Typed BY DEF Faithful
<1>1. \A n \in Names : dir'[n] = dir[n]
  BY <1>0 DEF Settle, Unlink, UnlinkFails, Forget, ForgetThrows, Cleanup, CleanupFails, Drop, Finalize,
              Typed, TypeOK, Names
<1>2. UNCHANGED <<offered, published, choice>>
  BY DEF Settle, Unlink, UnlinkFails, Forget, ForgetThrows, Cleanup, CleanupFails, Drop, Finalize
<1>3. CASE outcome' = outcome BY <1>1, <1>2, <1>3, AbstractStutters
<1>4. CASE outcome' # outcome
  <2>1. /\ outcome' \in {"completed", "failed"} /\ pc \in {"unlink", "forget", "cleanup", "drop"}
        /\ (outcome' = "completed" => pc \in {"unlink", "forget"})
    BY <1>4 DEF Settle, Unlink, UnlinkFails, Forget, ForgetThrows, Cleanup, CleanupFails, Drop, Finalize
  <2>2. outcome = "none" /\ (outcome' = "completed" => published)
    BY <1>0, <2>1 DEF Placed, Over, Publishing
  <2>3. Abstract!End BY <1>1, <1>2, <2>1, <2>2, AbstractEnds
  <2>4. QED BY <2>3 DEF Abstract!Next
<1>5. QED BY <1>3, <1>4

\* The others offer another version of the source, or write the destination themselves.
LEMMA AbstractOthers ==
  ASSUME Faithful, Faithful', Others, UNCHANGED fixed
  PROVE  [Abstract!Next]_(Abstract!vars)
<1>0. Typed BY DEF Faithful
<1>1. CASE Cancel \/ Sweep
  <2>1. UNCHANGED <<offered, published, choice, outcome>> BY <1>1 DEF Cancel, Sweep
  <2>2. \A n \in Names : dir'[n] = dir[n] BY <1>0, <1>1 DEF Cancel, Sweep, Typed, TypeOK, Names
  <2>3. QED BY <2>1, <2>2, AbstractStutters
<1>2. CASE SourceChanges
  <2>1. offered \subseteq offered' /\ UNCHANGED <<published, choice, outcome, dir>>
    BY <1>2 DEF SourceChanges
  <2>2. offered' \in SUBSET Data BY DEF Faithful, Typed, TypeOK
  <2>3. [n \in Names |-> Content(dir'[n])] = [n \in Names |-> Content(dir[n])] BY <2>1
  <2>4. (choice' = "replace") = (choice = "replace") BY <2>1
  <2>5. Abstract!Offer BY <2>1, <2>2, <2>3, <2>4 DEF Abstract!Offer
  <2>6. QED BY <2>5 DEF Abstract!Next
<1>3. ASSUME NEW n \in Names, DestinationChanges(n) PROVE [Abstract!Next]_(Abstract!vars)
  <2>1. UNCHANGED <<offered, published, choice, outcome>> BY <1>3 DEF DestinationChanges
  <2>2. PICK f \in File : dir' = [dir EXCEPT ![n] = f] BY <1>0, <1>3, DestinationWrites
  <2>3. \A k \in Names : dir'[k] = IF k = n THEN f ELSE dir[k] BY <1>0, <2>2 DEF Typed, TypeOK, Names
  <2>4. [k \in Names |-> Content(dir'[k])] = [[k \in Names |-> Content(dir[k])] EXCEPT ![n] = Content(f)]
    BY <1>0, <2>3, ContentsChange
  <2>5. Content(f) \in Data \cup {<<-1>>} BY ContentsAreData
  <2>6. (choice' = "replace") = (choice = "replace") BY <2>1
  <2>7. Abstract!Interfere(n) BY <2>1, <2>4, <2>5, <2>6 DEF Abstract!Interfere
  <2>8. QED BY <2>7 DEF Abstract!Next
<1>4. QED BY <1>1, <1>2, <1>3 DEF Others

\* A restart and what it removes show nothing.
LEMMA AbstractRestart ==
  ASSUME Faithful, Restart, UNCHANGED fixed
  PROVE  [Abstract!Next]_(Abstract!vars)
<1>0. Typed BY DEF Faithful
<1>1. UNCHANGED <<offered, published, choice, outcome>>
  BY DEF Restart, Crash, Recover, RecoverThrows, ReconcileRemove, ReconcileUpdate
<1>2. dir' = dir \/ dir' = [dir EXCEPT !["stage"] = NoFile]
  BY DEF Restart, Crash, Recover, RecoverThrows, ReconcileRemove, ReconcileUpdate
<1>3. \A n \in Names : dir'[n] = dir[n] BY <1>0, <1>2 DEF Typed, TypeOK, Names
<1>4. QED BY <1>1, <1>3, AbstractStutters

\* Every step of a transfer is a step of the abstract specification, or shows nothing.
LEMMA AbstractNext ==
  Faithful /\ Faithful' /\ [Next]_vars => [Abstract!Next]_(Abstract!vars)
<1> SUFFICES ASSUME Faithful, Faithful', [Next]_vars PROVE [Abstract!Next]_(Abstract!vars)
  OBVIOUS
<1>1. CASE UNCHANGED vars
  <2>1. UNCHANGED <<offered, published, choice, outcome, dir>> BY <1>1 DEF vars
  <2>2. QED BY <2>1, AbstractStutters
<1>2. CASE Next
  <2>1. UNCHANGED fixed BY <1>2 DEF Next
  <2>2. Resolve \/ Stage \/ Copy \/ Publish \/ Settle \/ Others \/ Restart BY <1>2 DEF Next
  <2>3. QED BY <2>1, <2>2, AbstractResolve, AbstractStage, AbstractCopy, AbstractPublish,
              AbstractSettle, AbstractOthers, AbstractRestart
<1>3. QED BY <1>1, <1>2

\* upload_file and download_file publish at most once, atomically, never over something nobody
\* agreed to lose, and never a copy that is partial, damaged or mixed from two versions of a
\* source that changed while it was read; completed is said of a published item only.
THEOREM PublicationTheorem == Spec => Publication
<1>1. Init => Abstract!Init BY AbstractInit
<1>2. Faithful /\ Faithful' /\ [Next]_vars => [Abstract!Next]_(Abstract!vars) BY AbstractNext
<1>3. QED BY <1>1, <1>2, FaithfulInvariant, PTL DEF Spec, Publication, Abstract!Spec

-----------------------------------------------------------------------------
(* The staging file is on record                                           *)

\* What a place says of the staging file and of the inventory.
Inventoried ==
  /\ pc \in Before \cup {"forget", "drop"} => ~HasStage
  /\ pc = "published" /\ choice # "create" => ~HasStage
  /\ pc = "abandon" => excused
  /\ pc \in {"open", "copy", "verified", "link", "swap", "cleanup"} \cup Reading \cup Publishing => staging
  /\ pc \in {"ended", "final"} /\ HasStage => (staging /\ residue) \/ excused
  /\ pending = "removed" => ~HasStage
  /\ pc # "recovered" => pending = "no"

Tracked == Faithful /\ StageIsTracked /\ Inventoried

\* Only create_remote_stage and create_local_staging_file make a staging file.
LEMMA StageStays ==
  ASSUME Typed, Next, HasStage'
  PROVE  HasStage \/ CreateStage \/ CreateStageUnanswered
<1>1. CASE CopyChunk BY <1>1 DEF CopyChunk, HasStage, Typed, TypeOK, Names
<1>2. CASE Publish BY <1>2 DEF Publish, Recheck, Link, LinkUnanswered, Linked, Swap, CheckPublished,
                              HasStage, Typed, TypeOK, Names, NoFile
<1>3. CASE Restart BY <1>3 DEF Restart, Crash, Recover, RecoverThrows, ReconcileRemove, ReconcileUpdate,
                              HasStage, Typed, TypeOK, Names, NoFile
<1>4. CASE Settle
  <2>1. dir' = dir \/ dir' = [dir EXCEPT !["stage"] = NoFile]
    BY <1>4 DEF Settle, Unlink, UnlinkFails, Forget, ForgetThrows, Cleanup, CleanupFails, Drop, Finalize
  <2>2. QED BY <2>1 DEF HasStage, Typed, TypeOK, Names, NoFile
<1>5. CASE Resolve BY <1>5 DEF Resolve, Open, Probe, EarlyFailure, ResolveSkip, ResolveOverwrite,
                               ResolveRename, ConflictCancelled, HasStage
<1>6. CASE Copy /\ ~CopyChunk
  BY <1>6 DEF Copy, OpenRemote, CopyEnds, Finish, VerifyStage, RereadChunk, RereadEnds, WorkFails, HasStage
<1>7. CASE AddStaging \/ AddStagingThrows \/ Abandon
  BY <1>7 DEF AddStaging, AddStagingThrows, Abandon, HasStage, Typed, TypeOK, Names, NoFile
<1>8. CASE Cancel \/ Sweep \/ SourceChanges
  BY <1>8 DEF Cancel, Sweep, SourceChanges, HasStage, Typed, TypeOK, Names, NoFile
<1>9. ASSUME NEW n \in Names, DestinationChanges(n) PROVE HasStage
  <2>1. PICK f \in File : dir' = [dir EXCEPT ![n] = f] BY <1>9, DestinationWrites
  <2>2. QED BY <1>9, <2>1 DEF HasStage, Typed, TypeOK, Names
<1>10. QED BY <1>1, <1>2, <1>3, <1>4, <1>5, <1>6, <1>7, <1>8, <1>9 DEF Next, Stage, Others

\* Until the staging file is recorded there is none, or its creation is the step before.
LEMMA TrackedEarly ==
  ASSUME Tracked, Next, Resolve \/ Stage
  PROVE  StageIsTracked' /\ Inventoried'
<1>0. Typed /\ Placed /\ StageIsTracked /\ Inventoried BY DEF Tracked, Faithful
<1>1. HasStage' => HasStage \/ CreateStage \/ CreateStageUnanswered BY <1>0, StageStays
<1>2. CASE Resolve
  <2>1. /\ pc \in Before /\ pc' \in Before \cup {"ended"}
        /\ UNCHANGED <<dir, staging, row, residue, pending, excused>>
    BY <1>2 DEF Resolve, Open, Probe, EarlyFailure, ResolveSkip, ResolveOverwrite, ResolveRename,
                ConflictCancelled, Before
  <2>2. ~HasStage /\ ~HasStage' /\ pending = "no" BY <1>0, <2>1 DEF Inventoried, HasStage, Before
  <2>3. QED BY <2>1, <2>2 DEF Inventoried, StageIsTracked, HasStage, Before, Reading, Publishing
<1>3. CASE CreateStage
  <2>1. pc = "chain" /\ pc' = "created" /\ UNCHANGED <<staging, row, residue, pending, excused>>
    BY <1>3 DEF CreateStage
  <2>2. pending = "no" BY <1>0, <2>1 DEF Inventoried
  <2>3. QED BY <2>1, <2>2 DEF Inventoried, StageIsTracked, Before, Reading, Publishing
<1>4. CASE CreateStageUnanswered
  <2>1. pc = "chain" /\ pc' = "ended" /\ excused' = TRUE /\ UNCHANGED pending
    BY <1>4 DEF CreateStageUnanswered
  <2>2. pending = "no" BY <1>0, <2>1 DEF Inventoried
  <2>3. QED BY <2>1, <2>2 DEF Inventoried, StageIsTracked, Before, Reading, Publishing
<1>5. CASE AddStaging \/ AddStagingThrows
  <2>1. /\ \/ pc' \in {"copy", "open"} /\ row' = TRUE
           \/ pc' \in {"cleanup", "abandon"} /\ excused' = TRUE
        /\ pc = "created" /\ staging' = TRUE /\ UNCHANGED <<dir, pending>>
    BY <1>5 DEF AddStaging, AddStagingThrows
  <2>2. QED BY <1>0, <2>1 DEF Inventoried, StageIsTracked, HasStage, Before, Reading, Publishing
<1>6. CASE Abandon
  <2>1. pc = "abandon" /\ pc' = "ended" /\ UNCHANGED <<excused, pending>> BY <1>6 DEF Abandon
  <2>2. excused' BY <1>0, <2>1 DEF Inventoried
  <2>3. HasStage' => HasStage BY <1>1, <2>1 DEF CreateStage, CreateStageUnanswered
  <2>4. QED BY <1>0, <2>1, <2>2, <2>3 DEF Inventoried, StageIsTracked, Before, Reading, Publishing
<1>7. QED BY <1>2, <1>3, <1>4, <1>5, <1>6 DEF Stage

\* While the file is copied and published, the inventory and the row name it.
LEMMA TrackedWork ==
  ASSUME Tracked, Next, Copy \/ Publish
  PROVE  StageIsTracked' /\ Inventoried'
<1>0. Typed /\ Placed /\ StageIsTracked /\ Inventoried BY DEF Tracked, Faithful
<1>1. pc \notin {"chain"} BY DEF Copy, OpenRemote, CopyChunk, CopyEnds, Finish, VerifyStage, RereadChunk, RereadEnds,
                         WorkFails, Publish, Recheck, Link, LinkUnanswered, Swap, CheckPublished
<1>2. HasStage' => HasStage BY <1>0, <1>1, StageStays DEF CreateStage, CreateStageUnanswered
<1>3. CASE CopyChunk
  <2>1. pc = "copy" /\ pc' = "copy" /\ row' \in {staging, row} /\ UNCHANGED <<staging, pending, excused>>
    BY <1>3 DEF CopyChunk
  <2>2. staging BY <1>0, <2>1 DEF Inventoried
  <2>3. HasStage => row \/ excused BY <1>0, <2>1 DEF StageIsTracked, HasStage
  <2>4. HasStage' => row' \/ excused' BY <1>2, <2>1, <2>2, <2>3
  <2>5. QED BY <1>0, <1>2, <2>1, <2>2, <2>4 DEF Inventoried, StageIsTracked, HasStage, Before, Reading, Publishing
<1>4. CASE Copy /\ ~CopyChunk
  <2>1. /\ pc \in {"open", "copy", "verified", "link", "swap", "published"} \cup Reading
        /\ pc' \in {"copy", "verified", "cleanup"} \cup Reading
        /\ UNCHANGED <<dir, staging, row, pending, excused>>
    BY <1>4 DEF Copy, OpenRemote, CopyEnds, Finish, VerifyStage, RereadChunk, RereadEnds, WorkFails, Reading
  <2>2. staging /\ pending = "no" /\ (HasStage => row \/ excused)
    BY <1>0, <2>1 DEF Inventoried, StageIsTracked, HasStage, Reading, Publishing
  <2>3. QED BY <2>1, <2>2 DEF Inventoried, StageIsTracked, HasStage, Before, Reading, Publishing
<1>5. CASE Recheck \/ Link \/ LinkUnanswered
  <2>1. /\ pc \in {"verified", "link"} /\ pc' \in {"link", "swap", "published", "unlink", "cleanup"}
        /\ (pc' = "published" => pc = "link") /\ UNCHANGED <<choice, staging, row, pending, excused>>
    BY <1>5 DEF Recheck, Link, LinkUnanswered
  <2>2. staging /\ pending = "no" /\ (HasStage => row \/ excused) /\ (pc = "link" => choice = "create")
    BY <1>0, <2>1 DEF Inventoried, StageIsTracked, HasStage, Placed
  <2>3. HasStage' => row' \/ excused' BY <1>2, <2>1, <2>2
  <2>4. QED BY <2>1, <2>2, <2>3 DEF Inventoried, StageIsTracked, HasStage, Before, Reading, Publishing
<1>6. CASE Swap
  <2>1. /\ pc = "swap" /\ pc' \in {"published", "forget"} /\ UNCHANGED <<staging, row, pending, excused>>
        /\ dir' = [dir EXCEPT ![dest] = dir["stage"], !["stage"] = NoFile]
    BY <1>6 DEF Swap
  <2>2. ~HasStage' BY <1>0, <2>1 DEF HasStage, NoFile, Typed, TypeOK, Names
  <2>3. staging /\ pending = "no" BY <1>0, <2>1 DEF Inventoried
  <2>4. QED BY <2>1, <2>2, <2>3 DEF Inventoried, StageIsTracked, HasStage, Before, Reading, Publishing
<1>7. CASE CheckPublished
  <2>1. /\ pc = "published" /\ pc' = IF choice = "create" THEN "unlink" ELSE "forget"
        /\ UNCHANGED <<dir, staging, row, pending, excused>>
    BY <1>7 DEF CheckPublished
  <2>2. staging /\ pending = "no" /\ (HasStage => row \/ excused) /\ (choice # "create" => ~HasStage)
    BY <1>0, <2>1 DEF Inventoried, StageIsTracked, HasStage, Publishing
  <2>3. QED BY <2>1, <2>2 DEF Inventoried, StageIsTracked, HasStage, Before, Reading, Publishing
<1>8. QED BY <1>3, <1>4, <1>5, <1>6, <1>7 DEF Publish

\* A removal that fails leaves the file named in the inventory and as residue; every other end
\* has removed it.
LEMMA TrackedSettle ==
  ASSUME Tracked, Next, Settle
  PROVE  StageIsTracked' /\ Inventoried'
<1>0. Typed /\ Placed /\ StageIsTracked /\ Inventoried BY DEF Tracked, Faithful
<1>1. pc \in {"unlink", "forget", "cleanup", "drop", "ended"} /\ UNCHANGED <<excused, pending>>
  BY DEF Settle, Unlink, UnlinkFails, Forget, ForgetThrows, Cleanup, CleanupFails, Drop, Finalize
<1>2. HasStage' => HasStage BY <1>0, <1>1, StageStays DEF CreateStage, CreateStageUnanswered
<1>3. pending = "no" /\ (HasStage => row \/ excused) /\ (pc \in {"unlink", "cleanup"} => staging)
      /\ (pc \in {"forget", "drop"} => ~HasStage)
  BY <1>0, <1>1 DEF Inventoried, StageIsTracked, HasStage, Publishing
<1>4. CASE Unlink \/ Cleanup
  <2>1. /\ pc' \in {"forget", "drop"} /\ dir' = [dir EXCEPT !["stage"] = NoFile] /\ UNCHANGED staging
        /\ pc \in {"unlink", "cleanup"}
    BY <1>4 DEF Unlink, Cleanup
  <2>2. ~HasStage' BY <1>0, <2>1 DEF HasStage, NoFile, Typed, TypeOK, Names
  <2>3. QED BY <1>1, <1>3, <2>1, <2>2 DEF Inventoried, StageIsTracked, HasStage, Before, Reading, Publishing
<1>5. CASE UnlinkFails \/ CleanupFails
  <2>1. /\ pc \in {"unlink", "cleanup"} /\ UNCHANGED <<staging, row>>
        /\ (pc' = "ended" /\ residue' = TRUE) \/ pc' = "cleanup"
    BY <1>5 DEF UnlinkFails, CleanupFails
  <2>2. HasStage' => row' \/ excused' BY <1>1, <1>2, <1>3, <2>1
  <2>3. QED BY <1>1, <1>3, <2>1, <2>2 DEF Inventoried, StageIsTracked, HasStage, Before, Reading, Publishing
<1>6. CASE Forget \/ ForgetThrows \/ Drop
  <2>1. pc \in {"forget", "drop"} /\ pc' = "ended" BY <1>6 DEF Forget, ForgetThrows, Drop
  <2>2. ~HasStage' BY <1>2, <1>3, <2>1
  <2>3. QED BY <1>1, <1>3, <2>1, <2>2 DEF Inventoried, StageIsTracked, HasStage, Before, Reading, Publishing
<1>7. CASE Finalize
  <2>1. /\ pc = "ended" /\ pc' = "final" /\ row' \in {staging, row} /\ UNCHANGED <<dir, staging, residue>>
    BY <1>7 DEF Finalize
  <2>2. HasStage => (staging /\ residue) \/ excused BY <1>0, <2>1 DEF Inventoried
  <2>3. HasStage => row' \/ excused BY <1>3, <2>1, <2>2
  <2>4. QED BY <1>1, <1>3, <2>1, <2>2, <2>3 DEF Inventoried, StageIsTracked, HasStage, Before, Reading, Publishing
<1>8. QED BY <1>4, <1>5, <1>6, <1>7 DEF Settle

\* The others can only remove it.
LEMMA TrackedOthers ==
  ASSUME Tracked, Next, Others
  PROVE  StageIsTracked' /\ Inventoried'
<1>0. Typed /\ StageIsTracked /\ Inventoried BY DEF Tracked, Faithful
<1>1. UNCHANGED <<pc, choice, staging, row, residue, pending, excused>>
  BY DEF Others, Cancel, SourceChanges, Sweep, DestinationChanges
<1>2. HasStage' => HasStage
  BY <1>0, <1>1, StageStays DEF CreateStage, CreateStageUnanswered
<1>3. QED BY <1>0, <1>1, <1>2 DEF Inventoried, StageIsTracked, HasStage

\* After a restart the row leads to the file, until the file is gone.
LEMMA TrackedRestart ==
  ASSUME Tracked, Next, Restart
  PROVE  StageIsTracked' /\ Inventoried'
<1>0. Typed /\ StageIsTracked /\ Inventoried BY DEF Tracked, Faithful
<1>1. pc' \in {"dead", "recovered"}
  BY DEF Restart, Crash, Recover, RecoverThrows, ReconcileRemove, ReconcileUpdate
<1>2. HasStage' => HasStage
  BY <1>0, <1>1, StageStays DEF CreateStage, CreateStageUnanswered
<1>3. HasStage => row \/ pc = "created" \/ excused BY <1>0 DEF StageIsTracked, HasStage
<1>4. SUFFICES /\ HasStage' => row' \/ excused'
               /\ pending' = "removed" => ~HasStage'
               /\ pc' # "recovered" => pending' = "no"
  BY <1>1 DEF Inventoried, StageIsTracked, HasStage, Before, Reading, Publishing
<1>5. CASE Crash
  <2>1. pending' = "no" /\ (excused \/ pc = "created" => excused') /\ UNCHANGED row BY <1>5 DEF Crash
  <2>2. QED BY <1>2, <1>3, <2>1
<1>6. CASE Recover
  <2>1. pc = "dead" /\ pc' = "recovered" /\ UNCHANGED excused BY <1>6 DEF Recover
  <2>2. pending = "no" BY <1>0, <2>1 DEF Inventoried
  <2>3. CASE UNCHANGED <<row, pending>> BY <1>2, <1>3, <2>1, <2>2, <2>3
  <2>4. CASE row' = row /\ pending' = "yes" BY <1>2, <1>3, <2>1, <2>4
  <2>5. CASE dir' = [dir EXCEPT !["stage"] = NoFile] /\ UNCHANGED pending
    <3>1. ~HasStage' BY <1>0, <2>5 DEF HasStage, NoFile, Typed, TypeOK, Names
    <3>2. QED BY <2>1, <3>1
  <2>6. QED BY <1>6, <2>3, <2>4, <2>5 DEF Recover
<1>7. CASE RecoverThrows
  <2>1. pc = "dead" /\ UNCHANGED <<row, excused, pending>> BY <1>7 DEF RecoverThrows
  <2>2. pending = "no" BY <1>0, <2>1 DEF Inventoried
  <2>3. QED BY <1>2, <1>3, <2>1, <2>2
<1>8. CASE ReconcileRemove
  <2>1. /\ pc = "recovered" /\ UNCHANGED <<pc, row, excused>>
        /\ dir' = [dir EXCEPT !["stage"] = NoFile]
    BY <1>8 DEF ReconcileRemove
  <2>2. ~HasStage' BY <1>0, <2>1 DEF HasStage, NoFile, Typed, TypeOK, Names
  <2>3. QED BY <2>1, <2>2
<1>9. CASE ReconcileUpdate
  <2>1. pc = "recovered" /\ pending = "removed" /\ UNCHANGED <<pc, dir>> BY <1>9 DEF ReconcileUpdate
  <2>2. ~HasStage' BY <1>0, <2>1 DEF Inventoried, HasStage
  <2>3. QED BY <2>1, <2>2
<1>10. QED BY <1>5, <1>6, <1>7, <1>8, <1>9 DEF Restart

\* The whole invariant, from the first state and from step to step.
LEMMA TrackedNext == Tracked /\ [Next]_vars => Tracked'
<1> SUFFICES ASSUME Tracked, [Next]_vars PROVE Tracked'
  OBVIOUS
<1>1. Faithful' BY FaithfulNext DEF Tracked
<1>2. CASE UNCHANGED vars
  <2>1. UNCHANGED <<pc, dir, choice, stageVars, excused>> BY <1>2 DEF vars
  <2>2. StageIsTracked' /\ Inventoried' BY <2>1 DEF Tracked, StageIsTracked, Inventoried, HasStage
  <2>3. QED BY <1>1, <2>2 DEF Tracked
<1>3. CASE Next
  <2>1. Resolve \/ Stage \/ Copy \/ Publish \/ Settle \/ Others \/ Restart BY <1>3 DEF Next
  <2>2. StageIsTracked' /\ Inventoried'
    BY <1>3, <2>1, TrackedEarly, TrackedWork, TrackedSettle, TrackedOthers, TrackedRestart
  <2>3. QED BY <1>1, <2>2 DEF Tracked
<1>4. QED BY <1>2, <1>3

\* The inductive invariant of the two theorems below.
THEOREM TrackedInvariant == Spec => []Tracked
<1>1. Init => Tracked
  <2>1. ASSUME Init PROVE StageIsTracked /\ Inventoried
    <3>1. pc = "start" /\ pending = "no" /\ dir["stage"] = NoFile BY <2>1 DEF Init, Names
    <3>2. QED BY <3>1 DEF StageIsTracked, Inventoried, HasStage, NoFile, Reading, Publishing
  <2>2. QED BY <2>1, FaithfulInit DEF Tracked
<1>2. QED BY <1>1, TrackedNext, PTL DEF Spec

\* A staging file on disk is named by the durable row from the moment add_staging has recorded it
\* until it is gone, whatever fails and whenever the process ends; only a file whose record never
\* succeeded is excused.
THEOREM StageTheorem == Spec => []StageIsTracked
<1>1. Tracked => StageIsTracked BY DEF Tracked
<1>2. QED BY <1>1, TrackedInvariant, PTL

\* An item that has ended leaves no staging file behind or names it as residue (cleanup_remote_stage,
\* and the removals after a publication).
THEOREM ResidueTheorem == Spec => []ResidueReported
<1>1. Tracked => ResidueReported BY DEF Tracked, Inventoried, HasStage, ResidueReported
<1>2. QED BY <1>1, TrackedInvariant, PTL
=============================================================================
