----------------------------- MODULE SshSessions -----------------------------
(***************************************************************************)
(* The established sessions of SshSessionManager                           *)
(* (apps/desktop/src-tauri/src/session_manager.rs): who owns each, and of  *)
(* which kind it is.  Every command on a session is authorised here.       *)
(*                                                                         *)
(* The id of a session is the version 4 UUID complete_attempt draws, drawn *)
(* again while it is in use, so a session is named here by the invocation  *)
(* of the start_* command that it is drawn for.                            *)
(***************************************************************************)
CONSTANTS
  Windows,      \* labels of the webview windows that issue commands
  Invocations,  \* invocations of the start_* commands
  None          \* "no entry in the map"

VARIABLE
  sessions      \* session id -> the established session, or None

SessionKind == {"Terminal", "Sftp"}

Session == [owner : Windows, kind : SessionKind]

SessionsTypeOK == sessions \in [Invocations -> Session \cup {None}]

SessionsInit == sessions = [s \in Invocations |-> None]

EstablishSession(session, owner, kind) ==
  sessions' = [sessions EXCEPT ![session] = [owner |-> owner, kind |-> kind]]

AuthorizeSession(owner, session, kind) ==
  /\ sessions[session] # None
  /\ sessions[session] = [owner |-> owner, kind |-> kind]

(* A session of the other kind, or one already gone, is left alone.        *)
RemoveSession(session, kind) ==
  sessions' = IF sessions[session] # None /\ sessions[session].kind = kind
              THEN [sessions EXCEPT ![session] = None]
              ELSE sessions

ClearSessions == sessions' = [s \in Invocations |-> None]
=============================================================================
