-------------------------- MODULE ConnectionOutcome --------------------------
(***************************************************************************)
(* What a start_* command amounts to for the rest of the program: it       *)
(* connects, for the window and of the kind it was called with, or it      *)
(* gives up.  ConnectionAttempt implements this with stages, selects and a *)
(* map of attempts; SessionLifecycle builds on it.                         *)
(***************************************************************************)
EXTENDS SshSessions

VARIABLES
  wanted,   \* invocation -> the owner and kind of the session it is to open
  outcome   \* invocation -> "idle", "connecting", "connected" or "ended"

outcomeVars == <<sessions, wanted, outcome>>

Outcome == {"idle", "connecting", "connected", "ended"}

OutcomeTypeOK ==
  /\ SessionsTypeOK
  /\ wanted \in [Invocations -> Session \cup {None}]
  /\ outcome \in [Invocations -> Outcome]

OutcomeInit ==
  /\ SessionsInit
  /\ wanted = [h \in Invocations |-> None]
  /\ outcome = [h \in Invocations |-> "idle"]

(* The command begins an attempt, or is refused one.                       *)
Begin(h, owner, kind) ==
  /\ outcome[h] = "idle"
  /\ wanted' = [wanted EXCEPT ![h] = [owner |-> owner, kind |-> kind]]
  /\ \E o \in {"connecting", "ended"} : outcome' = [outcome EXCEPT ![h] = o]
  /\ UNCHANGED sessions

Connect(h) ==
  /\ outcome[h] = "connecting"
  /\ outcome' = [outcome EXCEPT ![h] = "connected"]
  /\ EstablishSession(h, wanted[h].owner, wanted[h].kind)
  /\ UNCHANGED wanted

GiveUp(h) ==
  /\ outcome[h] = "connecting"
  /\ outcome' = [outcome EXCEPT ![h] = "ended"]
  /\ UNCHANGED <<sessions, wanted>>

(* The exit: no session stays, and no command under way still connects.    *)
ClearAll ==
  /\ outcome' = [h \in Invocations |->
                   IF outcome[h] = "connecting" THEN "ended" ELSE outcome[h]]
  /\ ClearSessions
  /\ UNCHANGED wanted

Remove(h) ==
  /\ outcome[h] = "connected"
  /\ RemoveSession(h, wanted[h].kind)
  /\ UNCHANGED <<wanted, outcome>>

OutcomeNext ==
  \/ \E h \in Invocations, w \in Windows, k \in SessionKind : Begin(h, w, k)
  \/ \E h \in Invocations : Connect(h) \/ GiveUp(h) \/ Remove(h)
  \/ ClearAll

OutcomeSpec == OutcomeInit /\ [][OutcomeNext]_outcomeVars
=============================================================================
