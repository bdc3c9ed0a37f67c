-------------------------- MODULE ConnectionAttempt --------------------------
(***************************************************************************)
(* The start_* commands (start_password_shell, start_private_key_shell,    *)
(* start_password_sftp and start_private_key_sftp) up to the point where   *)
(* their attempt has become a session, running concurrently with one       *)
(* another, with cancel_ssh_connection and with the clear() of an exit.    *)
(*                                                                         *)
(* An invocation alternates between two kinds of step.  It "enters" a      *)
(* stage: the on_stage callback moves the attempt's state machine and      *)
(* sends the event.  Then it "awaits" the stage's work in a select that    *)
(* polls the cancellation object first.  Anything may run between the two. *)
(***************************************************************************)
EXTENDS SshSessionManager

VARIABLES
  request,  \* invocation -> its owner, attempt id and kind, or None
  phase,    \* invocation -> where its command stands
  step,     \* invocation -> the stage it enters or awaits
  shown,    \* invocation -> the last stage sent on its on_state channel
  cleared   \* has the exit emptied the manager?

workerVars == <<request, phase, step, shown>>
attemptVars == <<managerVars, workerVars, cleared>>

Request == [owner : Windows, id : AttemptIds, kind : SessionKind]

(* The awaited work, in order.  ListingDirectory is the SFTP commands'     *)
(* first directory listing, made while the attempt is in OpeningChannel.   *)
ConnectStep == {"ResolvingDns", "ConnectingTcp", "Handshaking",
                "Authenticating"}
Step == ConnectStep \cup {"OpeningChannel", "ListingDirectory"}

NextStep(s) ==
  CASE s = "ResolvingDns"   -> "ConnectingTcp"
    [] s = "ConnectingTcp"  -> "Handshaking"
    [] s = "Handshaking"    -> "Authenticating"
    [] s = "Authenticating" -> "OpeningChannel"
    [] OTHER                -> "ListingDirectory"

(* The last select before complete_attempt.                                *)
LastStep(kind) ==
  IF kind = "Terminal" THEN "OpeningChannel" ELSE "ListingDirectory"

(* The steps whose work ends within a deadline of the code: connect_timeout*)
(* for the first three, operation_timeout for authentication and the SFTP  *)
(* request timeout for the listing.  Opening the channel has none.         *)
BoundedStep_NoConnectTimeout == {"Authenticating", "ListingDirectory"}

BoundedStep == ConnectStep \cup {"ListingDirectory"}

Phase == {"idle", "created", "enter", "await", "completing", "failing",
          "cancelling", "connected", "ended"}

(* The invocation has begun an attempt and has not given it up.            *)
Progressing(h) ==
  phase[h] \in {"created", "enter", "await", "completing", "failing",
                "cancelling"}

AttemptTypeOK ==
  /\ ManagerTypeOK
  /\ request \in [Invocations -> Request \cup {None}]
  /\ phase \in [Invocations -> Phase]
  /\ step \in [Invocations -> Step]
  /\ shown \in [Invocations -> Stage \cup {None}]
  /\ cleared \in BOOLEAN
  /\ \A h \in Invocations : phase[h] # "idle" => request[h] \in Request

AttemptInit ==
  /\ ManagerInit
  /\ request = [h \in Invocations |-> None]
  /\ phase = [h \in Invocations |-> "idle"]
  /\ step = [h \in Invocations |-> "ResolvingDns"]
  /\ shown = [h \in Invocations |-> None]
  /\ cleared = FALSE

-----------------------------------------------------------------------------
(* The frontend draws a new random id for every connection, so an id whose *)
(* attempt the exit took away does not come back while its command ends.   *)
Drawable(id) ==
  \A g \in Invocations :
    Progressing(g) /\ request[g].id = id => attempts[id] # None

(* begin_attempt, then the Created event.                                  *)
Start(h, owner, id, kind) ==
  /\ phase[h] = "idle"
  /\ Drawable(id)
  /\ BeginAttempt(owner, id, kind, h)
  /\ request' = [request EXCEPT ![h] =
                   [owner |-> owner, id |-> id, kind |-> kind]]
  /\ phase' = [phase EXCEPT ![h] = "created"]
  /\ shown' = [shown EXCEPT ![h] = "Created"]
  /\ UNCHANGED <<step, cleared>>

(* The id is active: ConnectionAttemptConflict, and the command returns    *)
(* before it sends anything.                                               *)
StartRefused(h, owner, id, kind) ==
  /\ phase[h] = "idle"
  /\ attempts[id] # None
  /\ request' = [request EXCEPT ![h] =
                   [owner |-> owner, id |-> id, kind |-> kind]]
  /\ phase' = [phase EXCEPT ![h] = "ended"]
  /\ UNCHANGED <<managerVars, step, shown, cleared>>

(* The private key is resolved and decoded, the user name and the          *)
(* fingerprint parse, and connect() reports its first stage.  Nothing here *)
(* looks at the cancellation object.                                       *)
Prepare(h) ==
  /\ phase[h] = "created"
  /\ phase' = [phase EXCEPT ![h] = "enter"]
  /\ step' = [step EXCEPT ![h] = "ResolvingDns"]
  /\ UNCHANGED <<managerVars, request, shown, cleared>>

PrepareFails(h) ==
  /\ phase[h] = "created"
  /\ phase' = [phase EXCEPT ![h] = "failing"]
  /\ UNCHANGED <<managerVars, request, step, shown, cleared>>

(* transition_attempt and its event.                                       *)
EnterStage(h) ==
  /\ phase[h] = "enter"
  /\ TransitionAttempt(request[h].owner, request[h].id, step[h])
  /\ phase' = [phase EXCEPT ![h] = "await"]
  /\ shown' = [shown EXCEPT ![h] = step[h]]
  /\ UNCHANGED <<request, step, cleared>>

(* The transition is refused.  The callback of the first four stages       *)
(* ignores that; at OpeningChannel the command returns the error.          *)
EnterRefused(h) ==
  /\ phase[h] = "enter"
  /\ ~CanTransition(request[h].owner, request[h].id, step[h])
  /\ phase' = [phase EXCEPT ![h] =
                 IF step[h] = "OpeningChannel" THEN "ended" ELSE "await"]
  /\ UNCHANGED <<managerVars, request, step, shown, cleared>>

(* The awaited work is done and the cancellation object, polled before it, *)
(* was not cancelled.                                                      *)
AwaitSucceeds_IgnoresCancel(h) ==
  /\ phase[h] = "await"
  /\ IF step[h] = LastStep(request[h].kind)
     THEN /\ phase' = [phase EXCEPT ![h] = "completing"]
          /\ UNCHANGED step
     ELSE /\ phase' = [phase EXCEPT ![h] =
                         IF step[h] = "OpeningChannel" THEN "await" ELSE "enter"]
          /\ step' = [step EXCEPT ![h] = NextStep(step[h])]
  /\ UNCHANGED <<managerVars, request, shown, cleared>>

AwaitSucceeds(h) ==
  /\ phase[h] = "await"
  /\ ~cancelled[h]
  /\ IF step[h] = LastStep(request[h].kind)
     THEN /\ phase' = [phase EXCEPT ![h] = "completing"]
          /\ UNCHANGED step
     ELSE /\ phase' = [phase EXCEPT ![h] =
                         IF step[h] = "OpeningChannel" THEN "await" ELSE "enter"]
          /\ step' = [step EXCEPT ![h] = NextStep(step[h])]
  /\ UNCHANGED <<managerVars, request, shown, cleared>>

(* The work fails, or its timeout expires: every SshError but              *)
(* ConnectionCancelled.                                                    *)
AwaitFails(h) ==
  /\ phase[h] = "await"
  /\ ~cancelled[h]
  /\ phase' = [phase EXCEPT ![h] = "failing"]
  /\ UNCHANGED <<managerVars, request, step, shown, cleared>>

AwaitCancelled_NotOpening(h) ==
  /\ phase[h] = "await"
  /\ cancelled[h]
  /\ step[h] # "OpeningChannel"
  /\ phase' = [phase EXCEPT ![h] = "cancelling"]
  /\ UNCHANGED <<managerVars, request, step, shown, cleared>>

AwaitCancelled(h) ==
  /\ phase[h] = "await"
  /\ cancelled[h]
  /\ phase' = [phase EXCEPT ![h] = "cancelling"]
  /\ UNCHANGED <<managerVars, request, step, shown, cleared>>

(* The stage finish_connection_attempt gives an error.                     *)
FinalStage_AlwaysCancelled(h) == "Cancelled"

FinalStage(h) == IF phase[h] = "cancelling" THEN "Cancelled" ELSE "Failed"

(* The connection is dropped, the attempt finished and the error returned. *)
Finish_ForgetsAttempt(h) ==
  /\ phase[h] \in {"failing", "cancelling"}
  /\ phase' = [phase EXCEPT ![h] = "ended"]
  /\ shown' = [shown EXCEPT ![h] = FinalStage(h)]
  /\ UNCHANGED <<managerVars, request, step, cleared>>

Finish(h) ==
  /\ phase[h] \in {"failing", "cancelling"}
  /\ phase' = [phase EXCEPT ![h] = "ended"]
  /\ IF OwnedAttempt(request[h].owner, request[h].id)
     THEN /\ FinishAttempt(request[h].owner, request[h].id)
          /\ shown' = IF CanTransition(request[h].owner, request[h].id,
                                       FinalStage(h))
                      THEN [shown EXCEPT ![h] = FinalStage(h)]
                      ELSE shown
     ELSE UNCHANGED <<managerVars, shown>>
  /\ UNCHANGED <<request, step, cleared>>

(* complete_attempt and the Connected event.                               *)
Complete(h) ==
  /\ phase[h] = "completing"
  /\ CompleteAttempt(request[h].owner, request[h].id, h)
  /\ phase' = [phase EXCEPT ![h] = "connected"]
  /\ shown' = [shown EXCEPT ![h] = "Connected"]
  /\ UNCHANGED <<request, step, cleared>>

(* complete_attempt fails: the channel and the connection are closed       *)
(* before the attempt is finished.                                         *)
CompleteRefused(h) ==
  /\ phase[h] = "completing"
  /\ ~CanTransition(request[h].owner, request[h].id, "Connected")
  /\ phase' = [phase EXCEPT ![h] = "failing"]
  /\ UNCHANGED <<managerVars, request, step, shown, cleared>>

-----------------------------------------------------------------------------
(* cancel_ssh_connection.                                                  *)
CancelSshConnection(owner, id) ==
  /\ CancelAttempt(owner, id)
  /\ UNCHANGED <<workerVars, cleared>>

(* confirm_app_exit empties the manager.                                   *)
ClearManager ==
  /\ Clear
  /\ cleared' = TRUE
  /\ UNCHANGED workerVars

(* The session of h is closed or has ended (module SessionLifecycle).      *)
SessionRemoved(h) ==
  /\ phase[h] = "connected"
  /\ RemoveSession(h, request[h].kind)
  /\ UNCHANGED <<attempts, cancelled, workerVars, cleared>>

Worker(h) ==
  \/ Prepare(h) \/ PrepareFails(h)
  \/ EnterStage(h) \/ EnterRefused(h)
  \/ AwaitSucceeds(h) \/ AwaitFails(h) \/ AwaitCancelled(h)
  \/ Finish(h) \/ Complete(h) \/ CompleteRefused(h)

AttemptNext ==
  \/ \E h \in Invocations, w \in Windows, a \in AttemptIds, k \in SessionKind :
        Start(h, w, a, k) \/ StartRefused(h, w, a, k)
  \/ \E h \in Invocations : Worker(h)
  \/ \E w \in Windows, a \in AttemptIds : CancelSshConnection(w, a)
  \/ ClearManager
  \/ \E h \in Invocations : SessionRemoved(h)

AttemptSpec == AttemptInit /\ [][AttemptNext]_attemptVars

(* An async command keeps running once started, so each of its own steps   *)
(* is weakly fair.  The awaited work is outside the program: it is only    *)
(* certain to end in the steps with a deadline, or when the select sees    *)
(* the cancellation.                                                       *)
AwaitEnds(h) ==
  \/ AwaitCancelled(h)
  \/ step[h] \in BoundedStep /\ (AwaitSucceeds(h) \/ AwaitFails(h))

OwnStep(h) ==
  \/ Prepare(h) \/ PrepareFails(h)
  \/ EnterStage(h) \/ EnterRefused(h)
  \/ Finish(h) \/ Complete(h) \/ CompleteRefused(h)

WorkerFairness ==
  \A h \in Invocations : WF_attemptVars(OwnStep(h)) /\ WF_attemptVars(AwaitEnds(h))

FairAttemptSpec == AttemptSpec /\ WorkerFairness
-----------------------------------------------------------------------------
(* What the rest of the program sees of a command.  One whose attempt the  *)
(* exit has taken away can only end.                                       *)
OutcomeOf(h) ==
  CASE phase[h] = "idle"      -> "idle"
    [] phase[h] = "connected" -> "connected"
    [] Progressing(h) /\ attempts[request[h].id] # None -> "connecting"
    [] OTHER                  -> "ended"

WantedOf(h) ==
  IF phase[h] = "idle" THEN None
  ELSE [owner |-> request[h].owner, kind |-> request[h].kind]

Abstract == INSTANCE ConnectionOutcome
              WITH wanted  <- [h \in Invocations |-> WantedOf(h)],
                   outcome <- [h \in Invocations |-> OutcomeOf(h)]

(* With all its stages, selects, cancellations and error paths, a command  *)
(* connects once, for the window and of the kind it was called with, or    *)
(* gives up, and no command connects after the exit has emptied the        *)
(* manager unless it began afterwards.                                     *)
ImplementsOutcome == Abstract!OutcomeSpec

(* The attempts in the map are exactly the commands that are connecting:   *)
(* every error path of start_* finishes its attempt (none is leaked, which *)
(* would refuse its id for good and leave a cancellation nobody listens    *)
(* to), no two commands ever share one, and only the exit takes an attempt *)
(* from a command that is connecting, which it has then cancelled.         *)
AttemptsAreProgressing ==
  /\ \A h \in Invocations : Progressing(h) =>
       \/ /\ attempts[request[h].id] # None
          /\ attempts[request[h].id].token = h
          /\ attempts[request[h].id].owner = request[h].owner
          /\ attempts[request[h].id].kind = request[h].kind
       \/ /\ attempts[request[h].id] = None
          /\ cleared
          /\ cancelled[h]
  /\ \A a \in AttemptIds : attempts[a] # None =>
       /\ Progressing(attempts[a].token)
       /\ request[attempts[a].token].id = a

(* Until the exit, a command that began an attempt never returns without   *)
(* the window having been shown how it ended: Connected exactly when it    *)
(* hands over a session, Cancelled only when the window cancelled it, and  *)
(* Failed otherwise.  (Only a refused start shows nothing.)                *)
OutcomeIsShown ==
  ~cleared => \A h \in Invocations :
    /\ phase[h] = "connected" <=> shown[h] = "Connected"
    /\ phase[h] = "ended" => shown[h] \in {"Failed", "Cancelled", None}
    /\ shown[h] = "Cancelled" => phase[h] = "ended" /\ cancelled[h]
    /\ shown[h] = None => phase[h] \in {"idle", "ended"}

(* A session is only ever created by the command that owns it, for its     *)
(* window and of its kind, whatever the other commands do with their ids.  *)
SessionsComeFromCommands ==
  \A h \in Invocations : sessions[h] # None =>
    /\ phase[h] = "connected"
    /\ sessions[h] = [owner |-> request[h].owner, kind |-> request[h].kind]

(* A command cancelled before its last select decided never connects: the  *)
(* cancellation is sticky and every later select polls it first.  (A       *)
(* cancellation that arrives after that select is not looked at again.)    *)
CancelStopsConnecting ==
  [][\A h \in Invocations :
       cancelled[h] /\ phase[h] # "completing" =>
         phase'[h] \notin {"completing", "connected"} \/ phase'[h] = phase[h]
    ]_attemptVars

(* The state machine never refuses a stage a connecting command reports,   *)
(* which the on_stage callback would silently ignore, nor its Connected:   *)
(* the order of the stages in ssh-core and in the state machine agree, and *)
(* only an attempt the exit has taken away is refused.                     *)
RefusedOnlyAfterClear ==
  [][\A h \in Invocations : EnterRefused(h) \/ CompleteRefused(h) => cleared
    ]_attemptVars

(* A window can cancel only its own connections: another window's command  *)
(* is never cancelled by it, nor is one cancelled that is not connecting.  *)
CancelledByOwner ==
  [][\A w \in Windows, a \in AttemptIds : CancelSshConnection(w, a) =>
       \A h \in Invocations : cancelled'[h] # cancelled[h] =>
         Progressing(h) /\ request[h].owner = w /\ request[h].id = a
    ]_attemptVars

(* A cancelled command ends, even when the server never answers, unless it *)
(* had already passed its last select.                                     *)
CancelledEnds ==
  \A h \in Invocations :
    cancelled[h] ~> phase[h] \in {"ended", "connected"}

(* A command ends by itself unless it is waiting for the server to open    *)
(* the channel, the one wait the code puts no deadline on.                 *)
EndsOrAwaitsChannel ==
  \A h \in Invocations :
    phase[h] = "created" ~>
      \/ phase[h] \in {"ended", "connected"}
      \/ phase[h] = "await" /\ step[h] = "OpeningChannel"
=============================================================================
