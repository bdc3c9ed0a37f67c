------------------------- MODULE SftpTransferProofs -------------------------
(***************************************************************************)
(* Safety of SftpTransfer for every set of transfers and of process ids,   *)
(* any number of restarts and files of any length.  That a target is whole *)
(* depends on what its temporary file was, so SftpInv follows a transfer   *)
(* from the path it draws to the file it publishes.                        *)
(***************************************************************************)
EXTENDS SftpTransfer, TLAPS

(* The transfers whose temporary file is not published or given up.        *)
Owning == {"copy", "rename", "cleanup"}

(* The path of such a transfer was drawn by this process, and no other     *)
(* such transfer has it.                                                   *)
PathsAreDrawn ==
  \A t \in Transfers : phase[t] \in Owning =>
    /\ temporary[t] \in Temporary
    /\ temporary[t][1] = pid
    /\ temporary[t][2] < sequence

PathsDiffer ==
  \A t, u \in Transfers :
    phase[t] \in Owning /\ phase[u] \in Owning /\ t # u => temporary[t] # temporary[u]

(* A file is complete and synced before it is renamed.                     *)
RenamedIsComplete ==
  \A t \in Transfers : phase[t] = "rename" =>
    copied[t] = FileChunks /\ files[temporary[t]].durable

PublishedIsComplete == target # None => target.chunks = FileChunks /\ target.durable

(* On a server that refuses to rename over a file, a transfer that         *)
(* published its file finds it until it removes it itself.                 *)
PublishedIsOwn ==
  host = "strict" => \A t \in Transfers : phase[t] \in {"verify", "discard"} =>
    target # None /\ target.source = t

(* Where the paths, the temporary files and the target stand.              *)
PathsInv == PathsAreDrawn /\ PathsDiffer
FilesInv == TemporaryIsOwn /\ RenamedIsComplete /\ NoLeftovers
TargetInv == PublishedIsComplete /\ PublishedIsOwn /\ SucceededIsThere

SftpInv == SftpTypeOK /\ PathsInv /\ FilesInv /\ TargetInv

USE SftpAssumption, NoFileAssumption
    DEF Phase, Running, Owning, SftpInv, PathsInv, FilesInv, TargetInv

(* What a transfer publishes and what it starts from are files.            *)
LEMMA FilesAreFiles ==
  ASSUME NEW t \in Transfers \cup {Foreign}
  PROVE  Whole(t) \in File /\ NewFile(t) \in File
  BY DEF Whole, NewFile, File

(* A file that is synced is the same file.                                 *)
LEMMA FileSealed ==
  ASSUME NEW f \in File
  PROVE  LET g == [f EXCEPT !.durable = TRUE]
         IN  g \in File /\ g.source = f.source /\ g.chunks = f.chunks /\ g.durable
  BY DEF File

-----------------------------------------------------------------------------
(* A step that changes only the phase of one transfer, which neither comes *)
(* to own a temporary file nor forgets one, and which has published a file *)
(* if it is to look at the target or to succeed.                           *)
LEMMA OnlyPhaseChanges ==
  ASSUME SftpInv, NEW t \in Transfers, NEW from \in Phase, NEW to \in Phase,
         GoTo(t, from, to),
         UNCHANGED <<host, target, files, processVars, temporary, copied, litter>>,
         to \in Owning <=> from \in Owning,
         to \notin {"copy", "rename", "verify"},
         to = "discard" => from = "verify",
         to = "ok" => target = Whole(t)
  PROVE  SftpInv'
<1> USE DEF GoTo, SftpTypeOK, processVars
<1>1. SftpTypeOK'
  OBVIOUS
<1>2. PathsInv'
  BY DEF PathsAreDrawn, PathsDiffer
<1>3. FilesInv'
  BY DEF TemporaryIsOwn, RenamedIsComplete, NoLeftovers
<1>4. TargetInv'
  BY DEF PublishedIsComplete, PublishedIsOwn, SucceededIsThere, Whole
<1> QED  BY <1>1, <1>2, <1>3, <1>4

(* The path is new, because the sequence has passed those of the others.   *)
LEMMA OpenPreserves ==
  ASSUME SftpInv, NEW t \in Transfers, Open(t)
  PROVE  SftpInv'
<1> USE DEF Open, GoTo, SftpTypeOK, processVars, DrawTemporary, NextTemporary,
           CreateTemporary
<1>1. SftpTypeOK'
  BY FilesAreFiles DEF Temporary
<1>2. PathsInv'
  BY DEF PathsAreDrawn, PathsDiffer, Temporary
<1>3. FilesInv'
  <2>. DEFINE p == <<pid, sequence>>
  <2>1. p \in Temporary /\ files' = [files EXCEPT ![p] = NewFile(t)]
    BY DEF Temporary
  <2>2. \A u \in Transfers : phase[u] \in Owning => temporary[u] # p
    BY DEF PathsAreDrawn
  <2>3. /\ temporary'[t] = p /\ copied'[t] = 0 /\ phase'[t] = "copy" /\ files'[p] = NewFile(t)
        /\ NewFile(t) # None /\ NewFile(t).source = t /\ NewFile(t).chunks = 0
    BY <2>1, FilesAreFiles DEF NewFile
  <2>4. \A u \in Transfers : u # t => /\ phase'[u] = phase[u] /\ copied'[u] = copied[u]
                                      /\ temporary'[u] = temporary[u]
                                      /\ phase[u] \in Owning =>
                                           files'[temporary[u]] = files[temporary[u]]
    BY <2>1, <2>2 DEF PathsAreDrawn
  <2>5. TemporaryIsOwn' /\ RenamedIsComplete'
    BY <2>3, <2>4 DEF TemporaryIsOwn, RenamedIsComplete
  <2>6. NoLeftovers'
    BY <2>1, <2>2 DEF NoLeftovers
  <2> QED  BY <2>5, <2>6
<1>4. TargetInv'
  BY DEF PublishedIsComplete, PublishedIsOwn, SucceededIsThere, Whole
<1> QED  BY <1>1, <1>2, <1>3, <1>4

LEMMA OpenFailsPreserves ==
  ASSUME SftpInv, NEW t \in Transfers, OpenFails(t)
  PROVE  SftpInv'
<1> USE DEF OpenFails, GoTo, SftpTypeOK, processVars, DrawTemporary, NextTemporary,
           CreateTemporary
<1>1. SftpTypeOK'
  <2>1. <<pid, sequence>> \in Temporary /\ NewFile(t) \in File
    BY FilesAreFiles DEF Temporary
  <2> QED  BY <2>1
<1>2. PathsInv'
  BY DEF PathsAreDrawn, PathsDiffer, Temporary
<1>3. FilesInv'
  BY DEF PathsAreDrawn, NewFile, Temporary,
         TemporaryIsOwn, RenamedIsComplete, NoLeftovers
<1>4. TargetInv'
  BY DEF PublishedIsComplete, PublishedIsOwn, SucceededIsThere, Whole
<1> QED  BY <1>1, <1>2, <1>3, <1>4

LEMMA CopyChunkPreserves ==
  ASSUME SftpInv, NEW t \in Transfers, CopyChunk(t)
  PROVE  SftpInv'
<1>. DEFINE p == temporary[t]
            n == copied[t] + 1
<1>1. /\ phase[t] = "copy" /\ copied[t] < FileChunks
      /\ copied' = [copied EXCEPT ![t] = n]
      /\ UNCHANGED <<host, target, pid, sequence, restarts, phase, temporary, litter>>
  BY DEF CopyChunk, processVars
<1>2. p \in Temporary /\ files[p] \in File /\ files[p].source = t /\ n \in 0..FileChunks
  BY <1>1 DEF SftpTypeOK, PathsAreDrawn, TemporaryIsOwn
<1>3. PICK damaged \in BOOLEAN :
        files' = [files EXCEPT ![p] = [files[p] EXCEPT !.chunks = n, !.damaged = damaged]]
  BY <1>2 DEF CopyChunk, File
<1>. DEFINE g == [files[p] EXCEPT !.chunks = n, !.damaged = damaged]
<1>4. g \in File /\ g.source = t /\ g.chunks = n
  <2>. HIDE DEF p, n
  <2> QED  BY <1>2 DEF File
<1>5. files' = [files EXCEPT ![p] = g]
  BY <1>3
<1>. HIDE DEF g
<1>6. SftpTypeOK'
  BY <1>1, <1>2, <1>4, <1>5 DEF SftpTypeOK
<1>7. PathsInv'
  BY <1>1 DEF PathsAreDrawn, PathsDiffer
<1>8. FilesInv'
  <2>1. g # None
    BY <1>4
  <2>2. TemporaryIsOwn' /\ RenamedIsComplete'
    BY <1>1, <1>2, <1>4, <1>5, <2>1 DEF SftpTypeOK, PathsAreDrawn, PathsDiffer,
                                  TemporaryIsOwn, RenamedIsComplete
  <2>3. NoLeftovers'
    BY <1>1, <1>2, <1>5 DEF SftpTypeOK, NoLeftovers
  <2> QED  BY <2>2, <2>3
<1>9. TargetInv'
  BY <1>1 DEF PublishedIsComplete, PublishedIsOwn, SucceededIsThere, Whole
<1> QED  BY <1>6, <1>7, <1>8, <1>9

LEMMA SealPreserves ==
  ASSUME SftpInv, NEW t \in Transfers, Seal(t)
  PROVE  SftpInv'
<1>. DEFINE p == temporary[t]
            g == [files[p] EXCEPT !.durable = TRUE]
<1>1. /\ phase[t] = "copy" /\ phase' = [phase EXCEPT ![t] = "rename"]
      /\ copied[t] = FileChunks
      /\ files' = [files EXCEPT ![p] = g]
      /\ UNCHANGED <<host, target, pid, sequence, restarts, temporary, copied, litter>>
  BY DEF Seal, GoTo, processVars
<1>2. /\ p \in Temporary /\ files[p] \in File
      /\ files[p].source = t /\ files[p].chunks = copied[t]
  BY <1>1 DEF SftpTypeOK, PathsAreDrawn, TemporaryIsOwn
<1>3. g \in File /\ g.source = t /\ g.chunks = copied[t] /\ g.durable
  BY <1>2, FileSealed
<1>. HIDE DEF g
<1>4. SftpTypeOK'
  BY <1>1, <1>2, <1>3 DEF SftpTypeOK
<1>5. PathsInv'
  BY <1>1 DEF SftpTypeOK, PathsAreDrawn, PathsDiffer
<1>6. FilesInv'
  <2>1. g # None
    BY <1>3
  <2>2. TemporaryIsOwn' /\ RenamedIsComplete'
    BY <1>1, <1>2, <1>3, <2>1 DEF SftpTypeOK, PathsAreDrawn, PathsDiffer,
                                  TemporaryIsOwn, RenamedIsComplete
  <2>3. NoLeftovers'
    BY <1>1, <1>2 DEF SftpTypeOK, NoLeftovers
  <2> QED  BY <2>2, <2>3
<1>7. TargetInv'
  BY <1>1 DEF SftpTypeOK, PublishedIsComplete, PublishedIsOwn, SucceededIsThere, Whole
<1> QED  BY <1>4, <1>5, <1>6, <1>7

(* What is renamed to the target is complete and the transfer's own; on a  *)
(* strict server there is nothing that it could replace.                   *)
LEMMA MoveKeepsTarget ==
  ASSUME SftpInv, NEW t \in Transfers, phase[t] = "rename", MoveToTarget(t), host' = host,
         phase' = [phase EXCEPT ![t] = "verify"] \/ phase' = [phase EXCEPT ![t] = "cleanup"]
  PROVE  TargetInv'
<1> USE DEF SftpTypeOK, MoveToTarget
<1>1. PublishedIsComplete'
  BY DEF TemporaryIsOwn, RenamedIsComplete, PublishedIsComplete
<1>2. PublishedIsOwn'
  BY DEF TemporaryIsOwn, PublishedIsOwn
<1>3. SucceededIsThere'
  <2>1. FileChunks \in Nat /\ \A u \in Transfers : Whole(u) # None
    BY FilesAreFiles
  <2>2. host = "strict" /\ target = None => \A u \in Transfers : phase[u] # "ok"
    BY <2>1 DEF SucceededIsThere
  <2> QED  BY <2>1, <2>2 DEF SucceededIsThere, Whole
<1> QED  BY <1>1, <1>2, <1>3

LEMMA RenamePreserves ==
  ASSUME SftpInv, NEW t \in Transfers, Rename(t)
  PROVE  SftpInv'
<1> USE DEF Rename, GoTo, SftpTypeOK, processVars, MoveToTarget
<1>1. SftpTypeOK'
  BY DEF PathsAreDrawn
<1>2. PathsInv'
  BY DEF PathsAreDrawn, PathsDiffer
<1>3. FilesInv'
  BY DEF PathsAreDrawn, PathsDiffer,
         TemporaryIsOwn, RenamedIsComplete, NoLeftovers
<1>4. TargetInv'
  BY MoveKeepsTarget
<1> QED  BY <1>1, <1>2, <1>3, <1>4

LEMMA RenameFailsPreserves ==
  ASSUME SftpInv, NEW t \in Transfers, RenameFails(t)
  PROVE  SftpInv'
<1> USE DEF RenameFails, GoTo, SftpTypeOK, processVars, MoveToTarget
<1>1. SftpTypeOK'
  BY DEF PathsAreDrawn
<1>2. PathsInv'
  BY DEF PathsAreDrawn, PathsDiffer
<1>3. FilesInv'
  BY DEF PathsAreDrawn, PathsDiffer,
         TemporaryIsOwn, RenamedIsComplete, NoLeftovers
<1>4. TargetInv'
  <2>1. CASE UNCHANGED target
    BY <2>1 DEF PublishedIsComplete, PublishedIsOwn, SucceededIsThere, Whole
  <2> QED  BY <2>1, MoveKeepsTarget
<1> QED  BY <1>1, <1>2, <1>3, <1>4

LEMMA DiscardPreserves ==
  ASSUME SftpInv, NEW t \in Transfers, Discard(t)
  PROVE  SftpInv'
<1> USE DEF Discard, GoTo, SftpTypeOK, processVars
<1>1. SftpTypeOK'
  OBVIOUS
<1>2. PathsInv'
  BY DEF PathsAreDrawn, PathsDiffer
<1>3. FilesInv'
  BY DEF TemporaryIsOwn, RenamedIsComplete, NoLeftovers
<1>4. TargetInv'
  BY DEF PublishedIsComplete, PublishedIsOwn, SucceededIsThere, Whole
<1> QED  BY <1>1, <1>2, <1>3, <1>4

LEMMA CleanUpPreserves ==
  ASSUME SftpInv, NEW t \in Transfers, CleanUp(t)
  PROVE  SftpInv'
<1> USE DEF CleanUp, GoTo, SftpTypeOK, processVars
<1>1. SftpTypeOK'
  OBVIOUS
<1>2. PathsInv'
  BY DEF PathsAreDrawn, PathsDiffer
<1>3. FilesInv'
  BY DEF PathsAreDrawn, PathsDiffer,
         TemporaryIsOwn, RenamedIsComplete, NoLeftovers
<1>4. TargetInv'
  BY DEF PublishedIsComplete, PublishedIsOwn, SucceededIsThere, Whole
<1> QED  BY <1>1, <1>2, <1>3, <1>4

LEMMA CleanUpFailsPreserves ==
  ASSUME SftpInv, NEW t \in Transfers, CleanUpFails(t)
  PROVE  SftpInv'
<1> USE DEF CleanUpFails, GoTo, SftpTypeOK, processVars
<1>1. SftpTypeOK'
  BY DEF PathsAreDrawn
<1>2. PathsInv'
  BY DEF PathsAreDrawn, PathsDiffer
<1>3. FilesInv'
  BY DEF TemporaryIsOwn, RenamedIsComplete, NoLeftovers
<1>4. TargetInv'
  BY DEF PublishedIsComplete, PublishedIsOwn, SucceededIsThere, Whole
<1> QED  BY <1>1, <1>2, <1>3, <1>4

LEMMA CreateForeignPreserves ==
  ASSUME SftpInv, CreateForeign
  PROVE  SftpInv'
<1> USE DEF CreateForeign, SftpTypeOK, processVars, transferVars
<1>1. SftpTypeOK'
  BY FilesAreFiles
<1>2. PathsInv' /\ FilesInv'
  BY DEF PathsAreDrawn, PathsDiffer, TemporaryIsOwn, RenamedIsComplete, NoLeftovers
<1>3. TargetInv'
  <2>1. \A u \in Transfers : Whole(u) # None
    BY FilesAreFiles
  <2> QED  BY <2>1 DEF PublishedIsComplete, PublishedIsOwn, SucceededIsThere, Whole
<1> QED  BY <1>1, <1>2, <1>3

(* After a restart no transfer owns a temporary file, and a file that was  *)
(* published has lost nothing.                                             *)
LEMMA RestartPreserves ==
  ASSUME SftpInv, Restart
  PROVE  SftpInv'
<1> USE DEF Restart, SftpTypeOK
<1>1. \A t \in Transfers : /\ phase'[t] \in {"idle", "ok", "failed", "lost"}
                           /\ phase'[t] = "ok" => phase[t] = "ok"
  OBVIOUS
<1>2. PICK machine \in BOOLEAN :
        LET After(f) == IF machine /\ host = "local" /\ Forgets(f) THEN Forgotten(f) ELSE f IN
        /\ files' = [p \in Temporary |-> After(files[p])]
        /\ target' = After(target)
  OBVIOUS
<1>3. \A f \in File \cup {None} : Forgets(f) => Forgotten(f) \in File
  BY DEF Forgets, Forgotten, File
<1>4. target' = target
  BY <1>2 DEF PublishedIsComplete, Forgets
<1>5. files' \in [Temporary -> File \cup {None}]
  BY <1>2, <1>3
<1>6. \A p \in Temporary : files'[p] # None => files[p] # None
  BY <1>2 DEF Forgets
<1>7. SftpTypeOK'
  BY <1>4, <1>5
<1>8. PathsInv' /\ FilesInv'
  BY <1>1, <1>6 DEF PathsAreDrawn, PathsDiffer, TemporaryIsOwn, RenamedIsComplete, NoLeftovers
<1>9. TargetInv'
  BY <1>1, <1>4 DEF PublishedIsComplete, PublishedIsOwn, SucceededIsThere, Whole
<1> QED  BY <1>7, <1>8, <1>9

LEMMA SftpInvStarts == SftpInit => SftpInv
<1> SUFFICES ASSUME SftpInit  PROVE SftpInv
  OBVIOUS
<1> USE DEF SftpInit
<1>1. SftpTypeOK
  BY FilesAreFiles DEF SftpTypeOK
<1>2. PathsInv /\ FilesInv
  BY DEF PathsAreDrawn, PathsDiffer, TemporaryIsOwn, RenamedIsComplete, NoLeftovers
<1>3. TargetInv
  BY DEF PublishedIsComplete, PublishedIsOwn, SucceededIsThere, Whole
<1> QED  BY <1>1, <1>2, <1>3

LEMMA SftpInvPreserved == SftpInv /\ [SftpNext]_sftpVars => SftpInv'
<1> SUFFICES ASSUME SftpInv, [SftpNext]_sftpVars  PROVE SftpInv'
  OBVIOUS
<1>1. ASSUME NEW t \in Transfers, TransferStep(t)  PROVE SftpInv'
  <2>1. CASE CheckTarget(t) \/ Refuse(t) \/ CopyFails(t) \/ Verify(t) \/ VerifyFails(t)
    BY <2>1, OnlyPhaseChanges DEF CheckTarget, Refuse, CopyFails, Verify, VerifyFails
  <2>2. CASE Open(t) \/ OpenFails(t) \/ CopyChunk(t) \/ Seal(t)
    BY <2>2, OpenPreserves, OpenFailsPreserves, CopyChunkPreserves, SealPreserves
  <2>3. CASE Rename(t) \/ RenameFails(t) \/ Discard(t) \/ CleanUp(t) \/ CleanUpFails(t)
    BY <2>3, RenamePreserves, RenameFailsPreserves, DiscardPreserves, CleanUpPreserves,
       CleanUpFailsPreserves
  <2> QED  BY <1>1, <2>1, <2>2, <2>3 DEF TransferStep
<1>2. CASE UNCHANGED sftpVars
  BY <1>2 DEF SftpTypeOK, PathsAreDrawn, PathsDiffer, TemporaryIsOwn,
     RenamedIsComplete, NoLeftovers, PublishedIsComplete, PublishedIsOwn, SucceededIsThere,
     Whole, sftpVars, processVars, transferVars
<1> QED  BY <1>1, <1>2, CreateForeignPreserves, RestartPreserves DEF SftpNext

(* Every state reached satisfies SftpInv (upload_file, download_file).     *)
THEOREM SftpInvHolds == SftpSpec => []SftpInv
  BY SftpInvStarts, SftpInvPreserved, PTL DEF SftpSpec

(* The variables keep their types (sftp.rs).                               *)
THEOREM SftpTypes == SftpSpec => []SftpTypeOK
<1>1. SftpInv => SftpTypeOK
  OBVIOUS
<1> QED  BY <1>1, SftpInvHolds, PTL

(* No two transfers write to one temporary file, for any number of         *)
(* restarts with any process ids (temporary_remote_path).                  *)
THEOREM TemporariesAreOwn == SftpSpec => []TemporaryIsOwn
<1>1. SftpInv => TemporaryIsOwn
  OBVIOUS
<1> QED  BY <1>1, SftpInvHolds, PTL

(* The target never holds a part of a file (upload_file, download_file).   *)
THEOREM PublishedFilesAreWhole == SftpSpec => []PublishedIsWhole
<1>1. SftpInv => PublishedIsWhole
  BY DEF PublishedIsComplete, PublishedIsWhole
<1> QED  BY <1>1, SftpInvHolds, PTL

(* A successful upload stays at a target on a server that refuses to       *)
(* rename over a file (upload_file).                                       *)
THEOREM SuccessStays == SftpSpec => []SucceededIsThere
<1>1. SftpInv => SucceededIsThere
  OBVIOUS
<1> QED  BY <1>1, SftpInvHolds, PTL

(* A temporary file is either a transfer's or accounted for (the error     *)
(* paths of upload_file and download_file).                                *)
THEOREM LeftoversAreAccounted == SftpSpec => []NoLeftovers
<1>1. SftpInv => NoLeftovers
  OBVIOUS
<1> QED  BY <1>1, SftpInvHolds, PTL

(* An upload neither replaces nor removes another program's file on such a *)
(* server (upload_file).                                                   *)
THEOREM UploadsKeepForeign == SftpSpec => UploadKeepsForeign
<1>1. SftpInv /\ [SftpNext]_sftpVars =>
        [host = "strict" /\ target = Whole(Foreign) => target' = target]_sftpVars
  <2> SUFFICES ASSUME SftpInv, SftpNext, host = "strict", target = Whole(Foreign)
               PROVE  target' = target
    BY DEF sftpVars
  <2>1. Whole(Foreign) # None /\ Whole(Foreign).source = Foreign
    BY FilesAreFiles DEF Whole
  <2>2. ASSUME NEW t \in Transfers, TransferStep(t)  PROVE target' = target
    <3>1. ~Discard(t)
      BY <2>1 DEF Discard, GoTo, PublishedIsOwn
    <3>2. ~MoveToTarget(t)
      BY <2>1 DEF MoveToTarget
    <3> QED  BY <2>2, <3>1, <3>2 DEF TransferStep, CheckTarget, Refuse, Open, OpenFails,
          CopyChunk, Seal, CopyFails, Rename, RenameFails, Verify, VerifyFails, CleanUp,
          CleanUpFails
  <2>3. ~CreateForeign
    BY <2>1 DEF CreateForeign
  <2>4. Restart => target' = target
    BY DEF Restart
  <2> QED  BY <2>2, <2>3, <2>4 DEF SftpNext
<1> QED  BY <1>1, SftpInvHolds, PTL DEF SftpSpec, UploadKeepsForeign
=============================================================================
