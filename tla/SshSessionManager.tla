-------------------------- MODULE SshSessionManager --------------------------
(***************************************************************************)
(* SshSessionManager (apps/desktop/src-tauri/src/session_manager.rs): one  *)
(* mutex around two maps, the connection attempts under way and the        *)
(* established sessions (SshSessions).  Every method locks the mutex once, *)
(* so every method is one action here; a call that returns an error and    *)
(* changes nothing is the negation of the action's guard, for the caller   *)
(* to use.  The cancellation object begin_attempt hands out is named by    *)
(* the invocation of the start_* command that owns it.                     *)
(***************************************************************************)
EXTENDS ConnectionStage, SshSessions

CONSTANT
  AttemptIds    \* attempt ids the frontend may draw

Attempt == [owner : Windows, kind : SessionKind, stage : Stage,
            token : Invocations]

ASSUME NoneAssumption == None \notin Attempt \cup Session \cup Stage

VARIABLES
  attempts,   \* attempt id -> the attempt under way, or None
  cancelled   \* cancellation object -> has cancel() been called on it

managerVars == <<attempts, sessions, cancelled>>

ManagerTypeOK ==
  /\ attempts \in [AttemptIds -> Attempt \cup {None}]
  /\ SessionsTypeOK
  /\ cancelled \in [Invocations -> BOOLEAN]

ManagerInit ==
  /\ attempts = [a \in AttemptIds |-> None]
  /\ SessionsInit
  /\ cancelled = [t \in Invocations |-> FALSE]

(* attempts.get(id).filter(|attempt| attempt.owner == owner)               *)
OwnedAttempt(owner, id) ==
  /\ attempts[id] # None
  /\ attempts[id].owner = owner

(* The attempt is inserted with a new cancellation object, unless the id   *)
(* is already active.                                                      *)
BeginAttempt_Overwrites(owner, id, kind, token) ==
  /\ attempts' = [attempts EXCEPT ![id] =
                    [owner |-> owner, kind |-> kind, stage |-> FirstStage,
                     token |-> token]]
  /\ UNCHANGED <<sessions, cancelled>>

BeginAttempt(owner, id, kind, token) ==
  /\ attempts[id] = None
  /\ attempts' = [attempts EXCEPT ![id] =
                    [owner |-> owner, kind |-> kind, stage |-> FirstStage,
                     token |-> token]]
  /\ UNCHANGED <<sessions, cancelled>>

CanTransition(owner, id, stage) ==
  /\ OwnedAttempt(owner, id)
  /\ ValidTransition(attempts[id].stage, stage)

TransitionAttempt(owner, id, stage) ==
  /\ CanTransition(owner, id, stage)
  /\ attempts' = [attempts EXCEPT ![id].stage = stage]
  /\ UNCHANGED <<sessions, cancelled>>

(* The attempt leaves the map and its owner and kind become a session.  An *)
(* attempt that cannot become Connected is put back.                       *)
CompleteAttempt(owner, id, session) ==
  /\ CanTransition(owner, id, "Connected")
  /\ attempts' = [attempts EXCEPT ![id] = None]
  /\ EstablishSession(session, owner, attempts[id].kind)
  /\ UNCHANGED cancelled

(* The owner's attempt leaves the map, whether or not its state accepts    *)
(* the final stage.                                                        *)
FinishAttempt(owner, id) ==
  /\ OwnedAttempt(owner, id)
  /\ attempts' = [attempts EXCEPT ![id] = None]
  /\ UNCHANGED <<sessions, cancelled>>

(* Cancelling only raises the attempt's flag: its worker takes it down.    *)
CancelAttempt(owner, id) ==
  /\ OwnedAttempt(owner, id)
  /\ cancelled' = [cancelled EXCEPT ![attempts[id].token] = TRUE]
  /\ UNCHANGED <<attempts, sessions>>

(* Both maps are emptied and every attempt that was under way is           *)
(* cancelled.                                                              *)
Clear ==
  /\ attempts' = [a \in AttemptIds |-> None]
  /\ ClearSessions
  /\ cancelled' = [t \in Invocations |->
       \/ cancelled[t]
       \/ \E a \in AttemptIds : attempts[a] # None /\ attempts[a].token = t]
=============================================================================
