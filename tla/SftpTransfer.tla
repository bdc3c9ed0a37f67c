---------------------------- MODULE SftpTransfer ----------------------------
(***************************************************************************)
(* SftpClient::upload_file and download_file (ssh-core/src/sftp.rs): every *)
(* transfer copies its source to a temporary file beside the target,       *)
(* renames it to the target and hashes what is then there.  The transfers  *)
(* here all go to one target, from different sources, in sessions of their *)
(* own: the mutex that keeps the transfers of one session apart is in      *)
(* SessionLifecycle.                                                       *)
(*                                                                         *)
(* The three kinds of file system a target can be on differ where the code *)
(* relies on them: a download goes to a "local" one, which creates the     *)
(* temporary file exclusively, replaces a file on rename and forgets what  *)
(* was not synced when the machine stops; an upload goes to a server that  *)
(* truncates a temporary file that is already there, may act on a request  *)
(* whose answer never arrives, and either refuses to rename over a file    *)
(* ("strict", as OpenSSH) or does not ("lenient").                         *)
(***************************************************************************)
EXTENDS Naturals

CONSTANTS
  Transfers,    \* calls of upload_file or download_file
  FileChunks,   \* reads of copy_and_hash until its source ends
  Pids,         \* process ids the application can be started with
  Foreign,      \* the source of a file another program puts at the target
  None,
  MaxSequence,  \* bound on TEMPORARY_PATH_SEQUENCE
  MaxRestarts   \* bound on the times the application is restarted

ASSUME SftpAssumption ==
  /\ FileChunks \in Nat /\ MaxSequence \in Nat /\ MaxRestarts \in Nat
  /\ Foreign \notin Transfers

File == [source : Transfers \cup {Foreign}, chunks : 0..FileChunks,
         damaged : BOOLEAN, durable : BOOLEAN]
Temporary == Pids \X (1..MaxSequence)

ASSUME NoFileAssumption == None \notin File \cup Temporary

VARIABLES
  host,       \* the file system of the target
  target,     \* the file at the target, or None
  files,      \* the file at every temporary path, or None
  pid,        \* std::process::id()
  sequence,   \* TEMPORARY_PATH_SEQUENCE
  restarts,   \* how often the application was restarted
  phase,      \* where each transfer is
  temporary,  \* temporary_path of each transfer, once it created the file
  copied,     \* the chunks each transfer has copied
  litter      \* history: temporary files whose removal was not possible

processVars == <<pid, sequence, restarts>>
transferVars == <<phase, temporary, copied>>
sftpVars == <<host, target, files, processVars, transferVars, litter>>

Running == {"open", "copy", "rename", "verify", "discard", "cleanup"}
Phase == {"idle", "ok", "failed", "lost"} \cup Running

SftpTypeOK ==
  /\ host \in {"local", "strict", "lenient"}
  /\ target \in File \cup {None}
  /\ files \in [Temporary -> File \cup {None}]
  /\ pid \in Pids
  /\ sequence \in 1..(MaxSequence + 1)
  /\ restarts \in 0..MaxRestarts
  /\ phase \in [Transfers -> Phase]
  /\ temporary \in [Transfers -> Temporary \cup {None}]
  /\ copied \in [Transfers -> 0..FileChunks]
  /\ litter \in SUBSET Temporary

(* What a transfer should leave at the target, and what it starts from.    *)
Whole(t) == [source |-> t, chunks |-> FileChunks, damaged |-> FALSE, durable |-> TRUE]
NewFile(t) == [source |-> t, chunks |-> 0, damaged |-> FALSE, durable |-> FALSE]

SftpInit ==
  /\ host \in {"local", "strict", "lenient"}
  /\ target \in {None, Whole(Foreign)}
  /\ files = [p \in Temporary |-> None]
  /\ pid \in Pids /\ sequence = 1 /\ restarts = 0
  /\ phase = [t \in Transfers |-> "idle"]
  /\ temporary = [t \in Transfers |-> None]
  /\ copied = [t \in Transfers |-> 0]
  /\ litter = {}

GoTo(t, from, to) == phase[t] = from /\ phase' = [phase EXCEPT ![t] = to]

-----------------------------------------------------------------------------
(* The target must not exist when a transfer starts.                       *)
CheckTarget(t) ==
  /\ GoTo(t, "idle", "open")
  /\ target = None
  /\ UNCHANGED <<host, target, files, processVars, temporary, copied, litter>>

(* The target exists, a path is invalid, or what the check asks fails.     *)
Refuse(t) ==
  /\ GoTo(t, "idle", "failed")
  /\ UNCHANGED <<host, target, files, processVars, temporary, copied, litter>>

(* A counter that does not advance gives every transfer the same path.     *)
DrawTemporary_Repeats ==
  /\ sequence <= MaxSequence
  /\ UNCHANGED <<pid, sequence, restarts>>

(* temporary_remote_path and temporary_local_path: a path no other         *)
(* transfer of this process gets.                                          *)
NextTemporary == <<pid, sequence>>

DrawTemporary ==
  /\ sequence <= MaxSequence
  /\ sequence' = sequence + 1
  /\ UNCHANGED <<pid, restarts>>

CreateTemporary(t) == files' = [files EXCEPT ![NextTemporary] = NewFile(t)]

Open(t) ==
  /\ GoTo(t, "open", "copy")
  /\ DrawTemporary
  /\ host = "local" => files[NextTemporary] = None
  /\ CreateTemporary(t)
  /\ temporary' = [temporary EXCEPT ![t] = NextTemporary]
  /\ copied' = [copied EXCEPT ![t] = 0]
  /\ litter' = litter \ {NextTemporary}
  /\ UNCHANGED <<host, target>>

(* The source cannot be opened or the temporary file not created; a server *)
(* may have created it although the answer did not arrive.                 *)
OpenFails(t) ==
  /\ GoTo(t, "open", "failed")
  /\ DrawTemporary
  /\ \/ UNCHANGED <<files, litter>>
     \/ /\ host # "local"
        /\ CreateTemporary(t)
        /\ litter' = litter \cup {NextTemporary}
  /\ UNCHANGED <<host, target, temporary, copied>>

(* One round of copy_and_hash.  What is written may differ from what was   *)
(* read and hashed.                                                        *)
CopyChunk(t) ==
  LET p == temporary[t] IN
  /\ phase[t] = "copy" /\ copied[t] < FileChunks
  /\ copied' = [copied EXCEPT ![t] = @ + 1]
  /\ \E damaged \in {files[p].damaged, TRUE} :
       files' = [files EXCEPT ![p] = [@ EXCEPT !.chunks = copied[t] + 1,
                                               !.damaged = damaged]]
  /\ UNCHANGED <<host, target, processVars, phase, temporary, litter>>

(* A local file renamed without sync_all.                                  *)
Seal_NoSync(t) ==
  /\ GoTo(t, "copy", "rename")
  /\ copied[t] = FileChunks
  /\ UNCHANGED <<host, target, files, processVars, temporary, copied, litter>>

(* The source ended: shutdown, and for a local file flush and sync_all.    *)
Seal(t) ==
  LET p == temporary[t] IN
  /\ GoTo(t, "copy", "rename")
  /\ copied[t] = FileChunks
  /\ files' = [files EXCEPT ![p] = [@ EXCEPT !.durable = TRUE]]
  /\ UNCHANGED <<host, target, processVars, temporary, copied, litter>>

(* A failed copy reported without removing the temporary file.             *)
CopyFails_Leaves(t) ==
  /\ GoTo(t, "copy", "failed")
  /\ UNCHANGED <<host, target, files, processVars, temporary, copied, litter>>

(* Reading, writing, or closing the copy fails.                            *)
CopyFails(t) ==
  /\ GoTo(t, "copy", "cleanup")
  /\ UNCHANGED <<host, target, files, processVars, temporary, copied, litter>>

(* The temporary file becomes the target, in one step of the file system.  *)
MoveToTarget(t) ==
  /\ host = "strict" => target = None
  /\ target' = files[temporary[t]]
  /\ files' = [files EXCEPT ![temporary[t]] = None]

Rename(t) ==
  /\ GoTo(t, "rename", "verify")
  /\ MoveToTarget(t)
  /\ UNCHANGED <<host, processVars, temporary, copied, litter>>

(* A failed rename handled as a failed verification.                       *)
RenameFails_Discards(t) ==
  /\ GoTo(t, "rename", "discard")
  /\ UNCHANGED <<host, target, files, processVars, temporary, copied, litter>>

(* The rename is refused, or a server's answer does not arrive: then the   *)
(* rename may have happened.                                               *)
RenameFails(t) ==
  /\ GoTo(t, "rename", "cleanup")
  /\ \/ UNCHANGED <<target, files>>
     \/ host # "local" /\ MoveToTarget(t)
  /\ UNCHANGED <<host, processVars, temporary, copied, litter>>

(* The size alone is compared.                                             *)
Verify_Size(t) ==
  /\ GoTo(t, "verify", "ok")
  /\ target # None /\ target.chunks = FileChunks
  /\ UNCHANGED <<host, target, files, processVars, temporary, copied, litter>>

(* The target is read back; its size and hash are those of the copy.       *)
Verify(t) ==
  /\ GoTo(t, "verify", "ok")
  /\ target = Whole(t)
  /\ UNCHANGED <<host, target, files, processVars, temporary, copied, litter>>

(* The target cannot be read, or holds something else.                     *)
VerifyFails(t) ==
  /\ GoTo(t, "verify", "discard")
  /\ UNCHANGED <<host, target, files, processVars, temporary, copied, litter>>

(* The file at the target is removed, if that succeeds.                    *)
Discard(t) ==
  /\ GoTo(t, "discard", "failed")
  /\ target' \in {target, None}
  /\ UNCHANGED <<host, files, processVars, temporary, copied, litter>>

(* The temporary file is removed.                                          *)
CleanUp(t) ==
  /\ GoTo(t, "cleanup", "failed")
  /\ files' = [files EXCEPT ![temporary[t]] = None]
  /\ UNCHANGED <<host, target, processVars, temporary, copied, litter>>

(* The removal fails and is not tried again.                               *)
CleanUpFails(t) ==
  /\ GoTo(t, "cleanup", "failed")
  /\ litter' = litter \cup {temporary[t]}
  /\ UNCHANGED <<host, target, files, processVars, temporary, copied>>

-----------------------------------------------------------------------------
(* Another program creates a file at the target.                           *)
CreateForeign ==
  /\ target = None
  /\ target' = Whole(Foreign)
  /\ UNCHANGED <<host, files, processVars, transferVars, litter>>

(* What remains of a file when the machine that holds it stops.            *)
Forgets(f) == f # None /\ ~f.durable
Forgotten(f) == [f EXCEPT !.chunks = 0]

(* The application ends while transfers run, with or without the machine,  *)
(* and is started again.  Neither close_all nor the exit waits for them.   *)
Restart ==
  /\ restarts < MaxRestarts
  /\ restarts' = restarts + 1
  /\ pid' \in Pids
  /\ sequence' = 1
  /\ phase' = [t \in Transfers |-> IF phase[t] \in Running THEN "lost" ELSE phase[t]]
  /\ litter' = litter \cup {p \in Temporary : files[p] # None}
  /\ \E machine \in BOOLEAN :
       LET After(f) == IF machine /\ host = "local" /\ Forgets(f) THEN Forgotten(f) ELSE f IN
       /\ files' = [p \in Temporary |-> After(files[p])]
       /\ target' = After(target)
  /\ UNCHANGED <<host, temporary, copied>>

TransferStep(t) ==
  \/ CheckTarget(t) \/ Refuse(t) \/ Open(t) \/ OpenFails(t)
  \/ CopyChunk(t) \/ Seal(t) \/ CopyFails(t)
  \/ Rename(t) \/ RenameFails(t) \/ Verify(t) \/ VerifyFails(t)
  \/ Discard(t) \/ CleanUp(t) \/ CleanUpFails(t)

SftpNext == (\E t \in Transfers : TransferStep(t)) \/ CreateForeign \/ Restart

SftpSpec == SftpInit /\ [][SftpNext]_sftpVars

-----------------------------------------------------------------------------
(* A temporary file holds what its transfer has copied and nothing else:   *)
(* no two transfers write to the same one, although the sequence starts    *)
(* again after a restart, the process id may be the same, and files of the *)
(* previous process may be left (temporary_remote_path, create_new).       *)
TemporaryIsOwn ==
  \A t \in Transfers : phase[t] \in {"copy", "rename"} =>
    /\ files[temporary[t]] # None
    /\ files[temporary[t]].source = t
    /\ files[temporary[t]].chunks = copied[t]

(* At the target there is never a part of a file, whatever fails, and not  *)
(* after a power failure either: the copy is complete and synced before it *)
(* gets the name (the renames of upload_file and download_file).           *)
PublishedIsWhole == target # None => target.chunks = FileChunks

(* An upload that reported success is there, whole and undamaged, and      *)
(* stays there: neither an upload that passed the check at the same time   *)
(* nor its cleanup takes it away, as long as the server refuses to rename  *)
(* over a file (upload_file).                                              *)
SucceededIsThere ==
  host = "strict" => \A t \in Transfers : phase[t] = "ok" => target = Whole(t)

(* A temporary file that no transfer will remove is one whose removal, or  *)
(* whose creation, failed, or one the application left when it ended (the  *)
(* error paths of upload_file and download_file).                          *)
NoLeftovers ==
  \A p \in Temporary : files[p] # None =>
    \/ p \in litter
    \/ \E t \in Transfers : temporary[t] = p /\ phase[t] \in {"copy", "rename", "cleanup"}

(* The file of another program is not touched by uploads, whenever it was  *)
(* put there, if the server refuses to rename over a file (upload_file).   *)
UploadKeepsForeign ==
  [][host = "strict" /\ target = Whole(Foreign) => target' = target]_sftpVars

(* security/threat-model.md:20 says that SFTP overwrites files only after  *)
(* an "overwrite confirmation": a download does not replace or remove the  *)
(* file another program put at the target.                                 *)
DownloadKeepsForeign ==
  [][host = "local" /\ target = Whole(Foreign) => target' = target]_sftpVars
=============================================================================
