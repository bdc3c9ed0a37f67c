-------------------------- MODULE SessionLifecycle --------------------------
(***************************************************************************)
(* An established session, from complete_attempt to the release of its     *)
(* connection, and the exit of the application.                            *)
(*                                                                         *)
(*   TerminalSessionManager (terminal.rs)  a map from session id to the    *)
(*     sender of the session task's command queue; the task owns the       *)
(*     connection.                                                         *)
(*   SftpSessionManager (sftp.rs)  a map from session id to the connection *)
(*     behind a mutex, shared by reference count.                          *)
(*   AppActivity, ExitCoordinator and confirm_app_exit (lifecycle.rs).     *)
(*                                                                         *)
(* It builds on ConnectionOutcome, which creates the sessions and holds    *)
(* the authority over them that the commands check.  The main window is    *)
(* the only window that asks to exit.                                      *)
(***************************************************************************)
EXTENDS ConnectionOutcome, Sequences, Naturals

CONSTANTS
  QueueCapacity,  \* COMMAND_QUEUE_CAPACITY
  Confirmations   \* invocations of confirm_app_exit

ASSUME LifecycleAssumption ==
  /\ QueueCapacity \in Nat
  /\ None \notin Session

VARIABLES
  registered, \* the session ids in the two managers' maps
  life,       \* session -> how far the owner of its connection is
  inbox,      \* terminal session -> its command queue
  op,         \* session -> the write_terminal or SFTP command at work on it
  closer,     \* session -> the close_* command at work on it
  window,     \* is the main window open?
  dialog,     \* the exit dialog: "closed", "open" or "pending"
  exit,       \* "running", "leaving" or "exited"
  approved,   \* ExitCoordinator
  confirm     \* confirm_app_exit invocation -> its progress

sessionVars == <<registered, life, inbox, op, closer>>
exitVars == <<window, dialog, exit, approved, confirm>>
lifecycleVars == <<outcomeVars, sessionVars, exitVars>>

(* A terminal task goes through all of these but "shut"; the connection of *)
(* an SFTP session is "shut" when it has been closed and is still held.    *)
Life == {"none", "tracked", "open", "ending", "unregistered", "removed",
         "shut", "closed"}

Terminal(h) == wanted[h] # None /\ wanted[h].kind = "Terminal"
Sftp(h) == wanted[h] # None /\ wanted[h].kind = "Sftp"

(* The AppActivity session count: the sessions whose guard is alive.       *)
ActiveSessions == {h \in Invocations : life[h] \notin {"none", "closed"}}

ExitImpact_IgnoresApproval == ActiveSessions # {}

(* pending_exit_impact(...).is_some()                                      *)
ExitImpact == ~approved /\ ActiveSessions # {}

(* Somebody still has a sender of the terminal's queue.                    *)
Senders(h) == h \in registered \/ op[h] = "sending" \/ closer[h] = "sending"

(* Somebody still has a reference to the SFTP session.                     *)
Held(h) ==
  \/ h \in registered
  \/ op[h] \in {"waiting", "locked"}
  \/ closer[h] \in {"waiting", "locked"}
  \/ \E c \in Confirmations : h \in confirm[c].held

(* The window has the id: the start_* command has responded.               *)
Answered(h) == life[h] \notin {"none", "tracked"}

(* The command's window owns the session, and the command is of its kind.  *)
Authorized(h) ==
  AuthorizeSession(wanted[h].owner, h, wanted[h].kind)

NotConfirmed ==
  [pc |-> "idle", drained |-> {}, awaited |-> {}, held |-> {}]

LifecycleTypeOK ==
  /\ OutcomeTypeOK
  /\ registered \subseteq Invocations
  /\ life \in [Invocations -> Life]
  /\ \A h \in Invocations : inbox[h] \in Seq({"Write", "Close"})
                            /\ Len(inbox[h]) <= QueueCapacity
  /\ op \in [Invocations -> {"idle", "authorized", "sending", "waiting", "locked"}]
  /\ closer \in [Invocations -> {"idle", "authorized", "sending", "awaiting",
                                 "finished", "missing", "waiting", "locked",
                                 "closed", "refused"}]
  /\ window \in BOOLEAN /\ approved \in BOOLEAN
  /\ dialog \in {"closed", "open", "pending"}
  /\ exit \in {"running", "leaving", "exited"}
  /\ confirm \in [Confirmations ->
       [pc : {"idle", "closing", "clearing", "approving", "done"},
        drained : SUBSET SessionKind,
        awaited : SUBSET Invocations, held : SUBSET Invocations]]

LifecycleInit ==
  /\ OutcomeInit
  /\ registered = {}
  /\ life = [h \in Invocations |-> "none"]
  /\ inbox = [h \in Invocations |-> <<>>]
  /\ op = [h \in Invocations |-> "idle"]
  /\ closer = [h \in Invocations |-> "idle"]
  /\ window = TRUE
  /\ dialog = "closed"
  /\ exit = "running"
  /\ approved = FALSE
  /\ confirm = [c \in Confirmations |-> NotConfirmed]

-----------------------------------------------------------------------------
(* The rest of the start_* handlers.                                       *)

(* track_session, after complete_attempt has returned.                     *)
Track(h) ==
  /\ outcome[h] = "connected"
  /\ life[h] = "none"
  /\ life' = [life EXCEPT ![h] = "tracked"]
  /\ UNCHANGED <<outcomeVars, registered, inbox, op, closer, exitVars>>

(* The session enters its manager's map, a terminal's task is spawned, and *)
(* the response tells the window the session's id.                         *)
Insert(h) ==
  /\ life[h] = "tracked"
  /\ life' = [life EXCEPT ![h] = "open"]
  /\ registered' = registered \cup {h}
  /\ UNCHANGED <<outcomeVars, inbox, op, closer, exitVars>>

-----------------------------------------------------------------------------
(* The terminal task (run_session).                                        *)

(* A queued command is taken.  Close ends the loop; so does a failing      *)
(* write.                                                                  *)
TakeCommand(h) ==
  /\ Terminal(h) /\ life[h] = "open"
  /\ inbox[h] # <<>>
  /\ inbox' = [inbox EXCEPT ![h] = Tail(@)]
  /\ \/ life' = [life EXCEPT ![h] = "ending"]
     \/ Head(inbox[h]) = "Write" /\ UNCHANGED life
  /\ UNCHANGED <<outcomeVars, registered, op, closer, exitVars>>

(* recv() returns None.                                                    *)
SendersGone(h) ==
  /\ Terminal(h) /\ life[h] = "open"
  /\ inbox[h] = <<>>
  /\ ~Senders(h)
  /\ life' = [life EXCEPT ![h] = "ending"]
  /\ UNCHANGED <<outcomeVars, registered, inbox, op, closer, exitVars>>

(* The transport or the shell ends, or an output channel fails.            *)
LoopBreaks(h) ==
  /\ Terminal(h) /\ life[h] = "open"
  /\ life' = [life EXCEPT ![h] = "ending"]
  /\ UNCHANGED <<outcomeVars, registered, inbox, op, closer, exitVars>>

Unregister_ForgetsMap(h) ==
  /\ Terminal(h) /\ life[h] = "ending"
  /\ life' = [life EXCEPT ![h] = "unregistered"]
  /\ UNCHANGED <<outcomeVars, registered, inbox, op, closer, exitVars>>

Unregister(h) ==
  /\ Terminal(h) /\ life[h] = "ending"
  /\ life' = [life EXCEPT ![h] = "unregistered"]
  /\ registered' = registered \ {h}
  /\ UNCHANGED <<outcomeVars, inbox, op, closer, exitVars>>

Deauthorize_KeepsAuthority(h) ==
  /\ Terminal(h) /\ life[h] = "unregistered"
  /\ life' = [life EXCEPT ![h] = "removed"]
  /\ UNCHANGED <<outcomeVars, registered, inbox, op, closer, exitVars>>

Deauthorize(h) ==
  /\ Terminal(h) /\ life[h] = "unregistered"
  /\ life' = [life EXCEPT ![h] = "removed"]
  /\ Remove(h)
  /\ UNCHANGED <<registered, inbox, op, closer, exitVars>>

(* The connection is disconnected, a Close that was taken is completed and *)
(* the receiver is dropped, which fails what is still queued; last, the    *)
(* activity guard is dropped.                                              *)
Release(h) ==
  /\ Terminal(h) /\ life[h] = "removed"
  /\ life' = [life EXCEPT ![h] = "closed"]
  /\ inbox' = [inbox EXCEPT ![h] = <<>>]
  /\ UNCHANGED <<outcomeVars, registered, op, closer, exitVars>>

Task(h) == \/ TakeCommand(h) \/ SendersGone(h)
           \/ Unregister(h) \/ Deauthorize(h) \/ Release(h)

-----------------------------------------------------------------------------
(* Commands on a session: write_terminal and its like on a terminal; the   *)
(* listing, the transfers and the hash on an SFTP session.                 *)

Operate(h) ==
  /\ window /\ Answered(h)
  /\ op[h] = "idle"
  /\ Authorized(h)
  /\ op' = [op EXCEPT ![h] = "authorized"]
  /\ UNCHANGED <<outcomeVars, registered, life, inbox, closer, exitVars>>

(* The sender, or the reference, is cloned out of the map.                 *)
TakeSession(h) ==
  /\ op[h] = "authorized"
  /\ op' = [op EXCEPT ![h] =
              IF h \notin registered THEN "idle"
              ELSE IF Terminal(h) THEN "sending" ELSE "waiting"]
  /\ UNCHANGED <<outcomeVars, registered, life, inbox, closer, exitVars>>

SendWrite(h) ==
  /\ op[h] = "sending"
  /\ op' = [op EXCEPT ![h] = "idle"]
  /\ \/ /\ life[h] # "closed"
        /\ Len(inbox[h]) < QueueCapacity
        /\ inbox' = [inbox EXCEPT ![h] = Append(@, "Write")]
     \/ life[h] = "closed" /\ UNCHANGED inbox
  /\ UNCHANGED <<outcomeVars, registered, life, closer, exitVars>>

LockForOperation(h) ==
  /\ op[h] = "waiting"
  /\ closer[h] # "locked"
  /\ op' = [op EXCEPT ![h] = "locked"]
  /\ UNCHANGED <<outcomeVars, registered, life, inbox, closer, exitVars>>

OperationEnds_DropsSession(h) ==
  /\ op[h] = "locked"
  /\ op' = [op EXCEPT ![h] = "idle"]
  /\ life' = [life EXCEPT ![h] = "closed"]
  /\ UNCHANGED <<outcomeVars, registered, inbox, closer, exitVars>>

OperationEnds_KeepsSession(h) ==
  /\ op[h] = "locked"
  /\ op' = [op EXCEPT ![h] = "idle"]
  /\ UNCHANGED <<outcomeVars, registered, life, inbox, closer, exitVars>>

(* The operation returns and drops its reference; the session goes with    *)
(* the last one.                                                           *)
OperationEnds(h) ==
  /\ op[h] = "locked"
  /\ op' = [op EXCEPT ![h] = "idle"]
  /\ UNCHANGED <<outcomeVars, registered, inbox, closer, exitVars>>
  /\ life' = IF Held(h)' THEN life ELSE [life EXCEPT ![h] = "closed"]

Operation(h) == \/ TakeSession(h) \/ SendWrite(h)
                \/ LockForOperation(h) \/ OperationEnds(h)

-----------------------------------------------------------------------------
(* close_terminal_session and close_sftp_session.                          *)

CloseCommand(h) ==
  /\ window /\ Answered(h)
  /\ closer[h] \in {"idle", "closed", "refused"}
  /\ Authorized(h)
  /\ closer' = [closer EXCEPT ![h] = "authorized"]
  /\ UNCHANGED <<outcomeVars, registered, life, inbox, op, exitVars>>

(* The session leaves the map.  Without it, close_sftp_session returns and *)
(* close_terminal_session goes on to remove_session.                       *)
TakeForClose(h) ==
  /\ closer[h] = "authorized"
  /\ closer' = [closer EXCEPT ![h] =
       IF h \in registered
       THEN IF Terminal(h) THEN "sending" ELSE "waiting"
       ELSE IF Terminal(h) THEN "missing" ELSE "refused"]
  /\ registered' = registered \ {h}
  /\ UNCHANGED <<outcomeVars, life, inbox, op, exitVars>>

SendClose_NeverFails(h) ==
  /\ closer[h] = "sending"
  /\ life[h] # "closed"
  /\ Len(inbox[h]) < QueueCapacity
  /\ inbox' = [inbox EXCEPT ![h] = Append(@, "Close")]
  /\ closer' = [closer EXCEPT ![h] = "awaiting"]
  /\ UNCHANGED <<outcomeVars, registered, life, op, exitVars>>

SendClose(h) ==
  /\ closer[h] = "sending"
  /\ \/ /\ life[h] # "closed"
        /\ Len(inbox[h]) < QueueCapacity
        /\ inbox' = [inbox EXCEPT ![h] = Append(@, "Close")]
        /\ closer' = [closer EXCEPT ![h] = "awaiting"]
     \/ /\ life[h] = "closed"
        /\ closer' = [closer EXCEPT ![h] = "finished"]
        /\ UNCHANGED inbox
  /\ UNCHANGED <<outcomeVars, registered, life, op, exitVars>>

CloseCompletes_Early(h) ==
  /\ closer[h] = "awaiting"
  /\ closer' = [closer EXCEPT ![h] = "finished"]
  /\ UNCHANGED <<outcomeVars, registered, life, inbox, op, exitVars>>

(* The completion arrives, or its sender has been dropped.                 *)
CloseCompletes(h) ==
  /\ closer[h] = "awaiting"
  /\ life[h] = "closed"
  /\ closer' = [closer EXCEPT ![h] = "finished"]
  /\ UNCHANGED <<outcomeVars, registered, life, inbox, op, exitVars>>

TerminalCloseReturns(h) ==
  /\ closer[h] \in {"finished", "missing"}
  /\ Remove(h)
  /\ closer' = [closer EXCEPT ![h] =
                  IF @ = "finished" THEN "closed" ELSE "refused"]
  /\ UNCHANGED <<registered, life, inbox, op, exitVars>>

LockForClose_Unlocked(h) ==
  /\ closer[h] = "waiting"
  /\ closer' = [closer EXCEPT ![h] = "locked"]
  /\ UNCHANGED <<outcomeVars, registered, life, inbox, op, exitVars>>

LockForClose(h) ==
  /\ closer[h] = "waiting"
  /\ op[h] # "locked"
  /\ closer' = [closer EXCEPT ![h] = "locked"]
  /\ UNCHANGED <<outcomeVars, registered, life, inbox, op, exitVars>>

(* The client and the connection are closed and the session deauthorised;  *)
(* an operation that waits for the lock still holds it.                    *)
SftpCloseReturns(h) ==
  /\ closer[h] = "locked"
  /\ Remove(h)
  /\ closer' = [closer EXCEPT ![h] = "closed"]
  /\ UNCHANGED <<registered, inbox, op, exitVars>>
  /\ life' = [life EXCEPT ![h] = IF Held(h)' THEN "shut" ELSE "closed"]

Close(h) == \/ TakeForClose(h) \/ SendClose(h) \/ CloseCompletes(h)
            \/ TerminalCloseReturns(h) \/ LockForClose(h) \/ SftpCloseReturns(h)

-----------------------------------------------------------------------------
(* The exit.                                                               *)

(* EXIT_REQUESTED_EVENT: the window, if there is one, opens the dialog.    *)
Prompt == dialog' = IF window THEN "open" ELSE dialog

(* request_app_exit, from the tray or the menu.                            *)
RequestAppExit ==
  /\ exit = "running"
  /\ \/ ExitImpact /\ Prompt /\ UNCHANGED exit
     \/ ~ExitImpact /\ exit' = "leaving" /\ UNCHANGED dialog
  /\ UNCHANGED <<outcomeVars, sessionVars, window, approved, confirm>>

(* CloseRequested.  If it is not prevented the window is destroyed and, as *)
(* it was the last one, the event loop asks to exit.                       *)
CloseRequested ==
  /\ exit = "running" /\ window
  /\ \/ ExitImpact /\ Prompt /\ UNCHANGED <<exit, window>>
     \/ /\ ~ExitImpact
        /\ exit' = "leaving" /\ window' = FALSE /\ dialog' = "closed"
  /\ UNCHANGED <<outcomeVars, sessionVars, approved, confirm>>

(* RunEvent::ExitRequested looks at the activity again.                    *)
ExitRequested ==
  /\ exit = "leaving"
  /\ \/ ExitImpact /\ Prompt /\ exit' = "running"
     \/ ~ExitImpact /\ exit' = "exited" /\ UNCHANGED dialog
  /\ UNCHANGED <<outcomeVars, sessionVars, window, approved, confirm>>

CancelAppExit ==
  /\ window /\ dialog = "open"
  /\ dialog' = "closed"
  /\ UNCHANGED <<outcomeVars, sessionVars, window, exit, approved, confirm>>

ConfirmAppExit(c) ==
  /\ window /\ dialog = "open"
  /\ confirm[c].pc = "idle"
  /\ dialog' = "pending"
  /\ confirm' = [confirm EXCEPT ![c].pc = "closing"]
  /\ UNCHANGED <<outcomeVars, sessionVars, window, exit, approved>>

Registered(kind) == {h \in registered : wanted[h].kind = kind}

(* TerminalSessionManager::close_all drains the map and tries to queue a   *)
(* Close on every session; one whose queue is full is not waited for.      *)
DrainTerminals(c) ==
  /\ confirm[c].pc = "closing"
  /\ "Terminal" \notin confirm[c].drained
  /\ LET reached == {h \in Registered("Terminal") :
                       life[h] # "closed" /\ Len(inbox[h]) < QueueCapacity}
     IN  /\ inbox' = [h \in Invocations |->
                        IF h \in reached THEN Append(inbox[h], "Close")
                        ELSE inbox[h]]
         /\ confirm' = [confirm EXCEPT ![c].drained = @ \cup {"Terminal"},
                                       ![c].awaited = reached]
  /\ registered' = registered \ Registered("Terminal")
  /\ UNCHANGED <<outcomeVars, life, op, closer, window, dialog, exit,
                 approved>>

DrainSftp(c) ==
  /\ confirm[c].pc = "closing"
  /\ "Sftp" \notin confirm[c].drained
  /\ confirm' = [confirm EXCEPT ![c].drained = @ \cup {"Sftp"},
                                ![c].held = Registered("Sftp")]
  /\ registered' = registered \ Registered("Sftp")
  /\ UNCHANGED <<outcomeVars, life, inbox, op, closer, window, dialog,
                 exit, approved>>

(* Arc::try_unwrap: a session nobody else holds is closed, one that an     *)
(* operation still holds is skipped.                                       *)
CloseHeld(c, h) ==
  /\ h \in confirm[c].held
  /\ confirm' = [confirm EXCEPT ![c].held = @ \ {h}]
  /\ UNCHANGED <<outcomeVars, registered, inbox, op, closer, window,
                 dialog, exit, approved>>
  /\ life' = IF Held(h)' THEN life ELSE [life EXCEPT ![h] = "closed"]

CleanupEnds(c) ==
  /\ confirm[c].pc = "closing"
  /\ confirm[c].drained = SessionKind
  /\ confirm[c].held = {}
  /\ \A h \in confirm[c].awaited : life[h] = "closed"
  /\ confirm' = [confirm EXCEPT ![c].pc = "clearing"]
  /\ UNCHANGED <<outcomeVars, sessionVars, window, dialog, exit, approved>>

(* EXIT_CLEANUP_TIMEOUT: the cleanup is dropped with what it holds.        *)
CleanupTimesOut(c) ==
  /\ confirm[c].pc = "closing"
  /\ confirm' = [confirm EXCEPT ![c].pc = "clearing", ![c].held = {},
                                ![c].awaited = {}]
  /\ UNCHANGED <<outcomeVars, registered, inbox, op, closer, window,
                 dialog, exit, approved>>
  /\ life' = [h \in Invocations |->
                IF h \in confirm[c].held /\ ~Held(h)' THEN "closed" ELSE life[h]]

ClearManager(c) ==
  /\ confirm[c].pc = "clearing"
  /\ ClearAll
  /\ confirm' = [confirm EXCEPT ![c].pc = "approving"]
  /\ UNCHANGED <<sessionVars, window, dialog, exit, approved>>

(* approve() and app.exit(0).                                              *)
Approve(c) ==
  /\ confirm[c].pc = "approving"
  /\ confirm' = [confirm EXCEPT ![c].pc = "done"]
  /\ approved' = TRUE
  /\ exit' = "leaving"
  /\ UNCHANGED <<outcomeVars, sessionVars, window, dialog>>

Confirmation(c) == \/ DrainTerminals(c) \/ DrainSftp(c)
                   \/ \E h \in Invocations : CloseHeld(c, h)
                   \/ CleanupEnds(c) \/ CleanupTimesOut(c)
                   \/ ClearManager(c) \/ Approve(c)

-----------------------------------------------------------------------------
(* The start_* commands up to complete_attempt.  A destroyed window issues  *)
(* no commands; those under way go on.                                     *)
StartCommand(h) ==
  /\ UNCHANGED <<sessionVars, exitVars>>
  /\ \/ window /\ \E w \in Windows, k \in SessionKind : Begin(h, w, k)
     \/ Connect(h)
     \/ GiveUp(h)

SessionStep(h) ==
  \/ Track(h) \/ Insert(h)
  \/ LoopBreaks(h) \/ Task(h)
  \/ Operate(h) \/ Operation(h)
  \/ CloseCommand(h) \/ Close(h)

ExitStep ==
  \/ RequestAppExit \/ CloseRequested \/ ExitRequested \/ CancelAppExit
  \/ \E c \in Confirmations : ConfirmAppExit(c) \/ Confirmation(c)

(* Nothing runs once the process has exited.                               *)
Alive == exit # "exited"

LifecycleNext ==
  \/ \E h \in Invocations : Alive /\ (StartCommand(h) \/ SessionStep(h))
  \/ Alive /\ ExitStep

LifecycleSpec == LifecycleInit /\ [][LifecycleNext]_lifecycleVars

(* A task spawned on the runtime and an async command keep running, and    *)
(* the calls into the SSH library that they await return.  LoopBreaks,     *)
(* which waits for the server, is not fair, and neither is the user.       *)
Fairness ==
  /\ \A h \in Invocations :
       /\ WF_lifecycleVars(Alive /\ (Track(h) \/ Insert(h)))
       /\ WF_lifecycleVars(Alive /\ Task(h))
       /\ WF_lifecycleVars(Alive /\ Operation(h))
       /\ WF_lifecycleVars(Alive /\ Close(h))
  /\ WF_lifecycleVars(Alive /\ ExitRequested)
  /\ \A c \in Confirmations : WF_lifecycleVars(Alive /\ Confirmation(c))

FairLifecycleSpec == LifecycleSpec /\ Fairness
-----------------------------------------------------------------------------
Confirming == \E c \in Confirmations : confirm[c].pc # "idle"

Cleared == \E c \in Confirmations : confirm[c].pc \in {"approving", "done"}

(* A session its manager knows is one its window is authorised to use and  *)
(* close: every path takes a session out of the map before it takes the    *)
(* authority away, so none is left running that no command can reach.      *)
RegisteredIsAuthorized ==
  ~Cleared => \A h \in registered : sessions[h] = wanted[h]

(* A session whose connection has been released is forgotten everywhere,   *)
(* whoever ended it: the server, a close command or the last operation.    *)
(* (The exit leaves SFTP sessions their authority until it clears it.)     *)
ReleasedIsForgotten ==
  \A h \in Invocations : life[h] = "closed" =>
    /\ h \notin registered
    /\ sessions[h] = None \/ Confirming

(* When a close command has returned success, the connection is closed and *)
(* neither its id nor its authority is left.                               *)
ClosedIsClosed ==
  \A h \in Invocations : closer[h] = "closed" =>
    /\ life[h] \in {"shut", "closed"}
    /\ h \notin registered
    /\ sessions[h] = None

(* Whoever holds a reference to an SFTP session finds a connection behind  *)
(* it that has not been dropped, and no close, not even the exit's, shuts  *)
(* it down under the operation that has the lock.                          *)
HeldIsAlive ==
  \A h \in Invocations : Sftp(h) /\ Held(h) => life[h] \in {"open", "shut"}

NotShutUnderOperation ==
  [][\A h \in Invocations :
       op[h] = "locked" /\ op'[h] = "locked" => life'[h] = life[h]
    ]_lifecycleVars

(* What the abstract session and application look like from here.          *)
SessionOf(h) ==
  CASE life[h] = "none"   -> "absent"
    [] life[h] = "closed" -> "gone"
    [] OTHER              -> "live"

AppState ==
  CASE exit = "exited" -> "exited"
    [] exit # "exited" /\ Confirming -> "confirmed"
    [] exit # "exited" /\ ~Confirming /\ dialog = "open" -> "asking"
    [] OTHER -> "running"

Promise == INSTANCE SessionPromise
             WITH Sessions <- Invocations,
                  session  <- [h \in Invocations |-> SessionOf(h)],
                  app      <- AppState

(* A tracked session goes live once and ends once, and the application     *)
(* exits with a live session only after its user has confirmed, although   *)
(* the activity is read without a lock and a session may be tracked        *)
(* between the request to exit and the exit.  A confirmed exit happens     *)
(* whatever the sessions do, within the cleanup deadline.                  *)
KeepsExitPromise == Promise!FairPromiseSpec

(* A close command returns.                                                *)
CloseReturns ==
  \A h \in Invocations :
    closer[h] = "authorized" ~>
      closer[h] \in {"closed", "refused"} \/ exit = "exited"

(* A session taken out of its manager's map is released: by the command    *)
(* that closes it, by its task once nobody can send to it any more, or by  *)
(* the last operation that holds it.                                       *)
UnregisteredIsReleased ==
  \A h \in Invocations :
    life[h] \in {"open", "shut"} /\ h \notin registered ~>
      life[h] = "closed" \/ exit = "exited"

-----------------------------------------------------------------------------
(* A statement of the repository's tests that the program does not keep in *)
(* every interleaving.                                                     *)

(* terminal.rs, waits_for_session_cleanup_when_closing_all_sessions: when  *)
(* the cleanup ends within its deadline, no terminal that it has taken out *)
(* of the map is still running (no close command has, and its own task     *)
(* leaves the map later).                                                  *)
ExitWaitsForTerminals ==
  [][\A c \in Confirmations :
       CleanupEnds(c) => \A h \in Invocations :
         ~(Terminal(h) /\ life[h] = "open" /\ h \notin registered
           /\ closer[h] = "idle")
    ]_lifecycleVars
=============================================================================
