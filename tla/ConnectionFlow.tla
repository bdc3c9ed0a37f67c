---------------------------- MODULE ConnectionFlow ----------------------------
(***************************************************************************)
(* How the window connects (apps/desktop/src/App.tsx): the launch of a     *)
(* saved connection through probe, fingerprint dialog and password dialog, *)
(* the quick form beside it, cancelling and closing.  It composes with     *)
(* HostTrust: a call of the window that trusts a key is a call there.      *)
(*                                                                         *)
(* The functions of the window are asynchronous.  What one does between    *)
(* two awaits is one step, and while it awaits a command the user and the  *)
(* other functions go on; each has the host and key it was called with     *)
(* (the closure of its render), the window has one view.  A render is      *)
(* immediate.  The generation connectionAttemptRef is modelled by owner,   *)
(* the function that holds the current one.  Not told apart: terminal and  *)
(* SFTP, password and key; left out: the stage shown, texts, the catalogue.*)
(***************************************************************************)
EXTENDS HostTrust

VARIABLES view,       \* what the window shows, with connectionFlowPendingRef
          task,       \* the functions of the window that await something
          owner,      \* the function whose generation is the current one
          session,    \* whose session the window holds
          open,       \* the sessions behind the commands: with which host and key
          closer,     \* what confirmSessionClose closes, and restores if that fails
          confirmed,  \* history: what the user was shown and confirmed, host and key
          hasty       \* history: the user went on while an answer was awaited that nothing shows

flowVars == <<stored, serverKey, call, view, task, owner, session, open, closer,
              confirmed, hasty>>

ConnectionState == {"idle", "probing", "ready", "connecting", "connected", "closing",
                    "failed", "disconnected"}
View == [host : Hosts, hostKey : Keys \union {None}, known : BOOLEAN, trusted : BOOLEAN,
         trustPending : BOOLEAN, conn : ConnectionState,
         step : {None, "fingerprint", "password"}, tab : BOOLEAN, pending : BOOLEAN]
Task == [kind : {"flow", "probe", "confirm", "form", "dialog"}, host : Hosts,
         key : Keys \union {None}, known : BOOLEAN,
         at : {"probe", "lookup", "credential", "trust", "start", "opened", "ended",
               "saving"}]
Closer == [owner : Calls \union {None}, session : Calls]

ASSUME NoTaskAssumption ==
    /\ None \notin Task \union (Hosts \X Keys) \union Closer
    /\ None \notin {"fingerprint", "password"}

FlowInit ==
    /\ HostTrustInit
    /\ \E host \in Hosts :
          view = [host |-> host, hostKey |-> None, known |-> FALSE, trusted |-> FALSE,
                  trustPending |-> FALSE, conn |-> "idle", step |-> None, tab |-> FALSE,
                  pending |-> FALSE]
    /\ task = [t \in Calls |-> None]
    /\ owner = None /\ session = None /\ open = [t \in Calls |-> None] /\ closer = None
    /\ confirmed = {pair \in Hosts \X Keys : pair[2] \in stored[pair[1]]}
    /\ hasty = FALSE

-----------------------------------------------------------------------------
Dialog == view.tab /\ view.step # None
Busy == view.conn \in {"probing", "connecting", "closing"}

\* Nothing modal is in front of the form, and its controls are enabled.
FormIsUsable == ~Dialog /\ closer = None /\ ~Busy /\ view.conn # "connected"

Awaits(t, kinds, at) == task[t] # None /\ task[t].kind \in kinds /\ task[t].at = at

Unused(t) ==
    /\ task[t] = None /\ open[t] = None /\ session # t
    /\ closer # None => t \notin {closer.owner, closer.session}

Await(t, kind, host, key, at) ==
    task' = [task EXCEPT ![t] = [kind |-> kind, host |-> host, key |-> key,
                                 known |-> FALSE, at |-> at]]
Learn(t, key, known, at) ==
    task' = [task EXCEPT ![t] = [kind |-> task[t].kind, host |-> task[t].host, key |-> key,
                                 known |-> known, at |-> at]]
MoveOn(t, at) == Learn(t, task[t].key, task[t].known, at)
Ended(t) == [open EXCEPT ![t] = None]
Return(t) == task' = [task EXCEPT ![t] = None]

\* A variant of resetHostTrust that leaves the key it showed.
WithoutTrust_KeepsKey(v) ==
    [v EXCEPT !.trustPending = FALSE, !.conn = "idle"]

\* resetHostTrust
WithoutTrust(v) ==
    [v EXCEPT !.hostKey = None, !.known = FALSE, !.trusted = FALSE,
              !.trustPending = FALSE, !.conn = "idle"]

connectVars == <<owner, session, open, closer>>
histories == <<confirmed, hasty>>

\* The window awaits the storing of a key, or the vault; it disables nothing meanwhile.
Hidden == \E t \in Calls : task[t] # None /\ task[t].at \in {"trust", "credential", "saving"}

\* The user goes on nevertheless, or launches a connection behind the dialog of another.
GoesOn == hasty' = (hasty \/ Hidden)
Launches == hasty' = (hasty \/ Hidden \/ Dialog)

-----------------------------------------------------------------------------
(* Probing                                                                 *)

connectionLaunchBlocked ==
    \/ view.pending \/ session # None
    \/ view.conn \in {"probing", "connecting", "connected", "closing"}

\* A saved connection is launched; the step of an earlier dialog is not reset.
BeginConnectionFlow(t, host) ==
    /\ Unused(t) /\ ~connectionLaunchBlocked
    /\ owner' = t
    /\ view' = [WithoutTrust(view) EXCEPT !.host = host, !.tab = TRUE, !.pending = TRUE,
                                          !.conn = "probing"]
    /\ Await(t, "flow", host, None, "probe")
    /\ Launches
    /\ UNCHANGED <<hostTrustVars, session, open, closer, confirmed>>

\* A saved connection that cannot be launched: keyboard-interactive.
BeginUnsupported(host) ==
    /\ ~connectionLaunchBlocked
    /\ owner' = None
    /\ view' = [WithoutTrust(view) EXCEPT !.host = host, !.tab = TRUE, !.conn = "failed"]
    /\ Launches
    /\ UNCHANGED <<hostTrustVars, task, session, open, closer, confirmed>>

\* The button of the form.
ProbeForm(t) ==
    /\ Unused(t) /\ FormIsUsable
    /\ view' = [WithoutTrust(view) EXCEPT !.conn = "probing"]
    /\ Await(t, "probe", view.host, None, "probe")
    /\ GoesOn
    /\ UNCHANGED <<hostTrustVars, connectVars, confirmed>>

\* A variant that keeps the claim.
ProbeFails_KeepsPending(t) ==
    /\ Awaits(t, {"flow", "probe"}, "probe") \/ Awaits(t, {"flow", "probe"}, "lookup")
    /\ view' = [view EXCEPT !.conn = "failed"]
    /\ Return(t)
    /\ UNCHANGED <<hostTrustVars, connectVars, histories>>

\* A probe that failed: a flow gives up its claim, whoever holds it now.
ProbeFails(t) ==
    /\ Awaits(t, {"flow", "probe"}, "probe") \/ Awaits(t, {"flow", "probe"}, "lookup")
    /\ view' = [view EXCEPT !.conn = "failed",
                            !.pending = IF task[t].kind = "flow" THEN FALSE ELSE @]
    /\ Return(t)
    /\ UNCHANGED <<hostTrustVars, connectVars, histories>>

\* probe_ssh_host answers with the key the server presents, if no other is stored.
ProbeSucceeds(t) ==
    /\ Awaits(t, {"flow", "probe"}, "probe")
    /\ ~Mismatch(task[t].host, serverKey[task[t].host])
    /\ Learn(t, serverKey[task[t].host], FALSE, "lookup")
    /\ UNCHANGED <<hostTrustVars, view, connectVars, histories>>

\* get_known_host answers, and the view takes key and trust from a probe that may be
\* stale.  A flow that still holds the generation opens the dialog, or asks for the
\* stored password before.
LookupAnswers(t) ==
    /\ Awaits(t, {"flow", "probe"}, "lookup")
    /\ LET known == KnownHost(task[t].host, task[t].key)
           shown == [view EXCEPT !.hostKey = task[t].key, !.known = known,
                                 !.trusted = known, !.conn = "ready"]
           step == IF known THEN "password" ELSE "fingerprint"
       IN \/ /\ task[t].kind = "probe"
             /\ view' = shown
             /\ Return(t)
          \/ /\ task[t].kind = "flow" /\ owner # t
             /\ view' = [shown EXCEPT !.pending = FALSE]
             /\ Return(t)
          \/ /\ task[t].kind = "flow" /\ owner = t
             /\ \/ view' = [shown EXCEPT !.step = step] /\ Return(t)
                \/ /\ view' = shown
                   /\ Learn(t, task[t].key, known, "credential")
    /\ UNCHANGED <<hostTrustVars, connectVars, histories>>

\* get_password_credential answers or fails; the flow uses what the lookup said.
CredentialAnswers(t) ==
    /\ Awaits(t, {"flow"}, "credential")
    /\ view' = IF owner = t
               THEN [view EXCEPT !.step = IF task[t].known THEN "password"
                                                           ELSE "fingerprint"]
               ELSE [view EXCEPT !.pending = FALSE]
    /\ Return(t)
    /\ UNCHANGED <<hostTrustVars, connectVars, histories>>

-----------------------------------------------------------------------------
(* The form, and the trust it shows                                        *)

\* The form no longer shows the saved connection, and its tab is gone.
EditHost(host) ==
    /\ FormIsUsable
    /\ view' = [WithoutTrust(view) EXCEPT !.host = host, !.tab = FALSE]
    /\ GoesOn
    /\ UNCHANGED <<hostTrustVars, task, connectVars, confirmed>>

EditUser ==
    /\ FormIsUsable
    /\ view' = [view EXCEPT !.tab = FALSE]
    /\ GoesOn
    /\ UNCHANGED <<hostTrustVars, task, connectVars, confirmed>>

ChangeMode ==
    /\ FormIsUsable
    /\ view' = [view EXCEPT !.conn = IF view.hostKey # None THEN "ready" ELSE "idle"]
    /\ GoesOn
    /\ UNCHANGED <<hostTrustVars, task, connectVars, confirmed>>

\* The box beside the fingerprint.
ToggleTrust ==
    /\ FormIsUsable /\ view.hostKey # None
    /\ view' = [view EXCEPT !.trusted = ~@]
    /\ confirmed' = IF view.trusted THEN confirmed
                    ELSE confirmed \union {<<view.host, view.hostKey>>}
    /\ GoesOn
    /\ UNCHANGED <<hostTrustVars, task, connectVars>>

\* The button of the fingerprint dialog.
ConfirmConnectionFingerprint(t) ==
    /\ closer = None /\ Dialog /\ view.step = "fingerprint"
    /\ view.hostKey # None /\ ~view.trustPending /\ view.conn # "connecting"
    /\ confirmed' = confirmed \union {<<view.host, view.hostKey>>}
    /\ \/ /\ view.known
          /\ view' = [view EXCEPT !.step = "password"]
          /\ UNCHANGED <<hostTrustVars, task>>
       \/ /\ ~view.known /\ Unused(t)
          /\ TrustHostFingerprint(t, view.host, view.hostKey)
          /\ view' = [view EXCEPT !.trustPending = TRUE]
          /\ Await(t, "confirm", view.host, view.hostKey, "trust")
    /\ GoesOn
    /\ UNCHANGED connectVars

\* The answer for the dialog: whatever the window shows by now becomes trusted.
ConfirmAnswers(t) ==
    /\ Awaits(t, {"confirm"}, "trust") /\ CallReturns(t)
    /\ view' = IF call[t].at = "stored"
               THEN [view EXCEPT !.known = TRUE, !.trusted = TRUE, !.step = "password",
                                 !.trustPending = FALSE]
               ELSE [view EXCEPT !.conn = "failed", !.trustPending = FALSE]
    /\ Return(t)
    /\ UNCHANGED <<connectVars, histories>>

\* One of the steps HostTrust takes for a call.
TrustProceeds(t) ==
    /\ CheckStored(t) \/ SaveFingerprint(t) \/ QueryFails(t)
    /\ UNCHANGED <<view, task, connectVars, histories>>

-----------------------------------------------------------------------------
(* Connecting                                                              *)

\* connectTerminal and connectSftp after ensureHostFingerprintTrusted: a new generation,
\* and start_* is called with the host and key of the function.
Start(t, kind, host, key) ==
    /\ owner' = t
    /\ Await(t, kind, host, key, "start")

\* Either button, and Enter in the form.
Connect(t, kind, v) ==
    \/ /\ view.known
       /\ Start(t, kind, view.host, view.hostKey)
       /\ view' = [v EXCEPT !.conn = "connecting"]
       /\ UNCHANGED hostTrustVars
    \/ /\ ~view.known
       /\ TrustHostFingerprint(t, view.host, view.hostKey)
       /\ Await(t, kind, view.host, view.hostKey, "trust")
       /\ view' = v
       /\ UNCHANGED owner

ConnectCurrentMode(t) ==
    /\ Unused(t) /\ FormIsUsable /\ view.hostKey # None /\ view.trusted
    /\ Connect(t, "form", view)
    /\ GoesOn
    /\ UNCHANGED <<session, open, closer, confirmed>>

AuthenticatePendingConnection(t) ==
    /\ closer = None /\ Dialog /\ view.step = "password"
    /\ view.conn # "connecting" /\ ~view.trustPending
    /\ \/ /\ view.hostKey # None /\ view.trusted /\ Unused(t)
          /\ Connect(t, "dialog", [view EXCEPT !.pending = TRUE])
       \/ /\ view.hostKey = None \/ ~view.trusted
          /\ view' = [view EXCEPT !.pending = FALSE]
          /\ UNCHANGED <<hostTrustVars, task, owner>>
    /\ GoesOn
    /\ UNCHANGED <<session, open, closer, confirmed>>

\* A function that ends without a session; authenticatePendingConnection clears pending.
Unclaimed(t, v) == [v EXCEPT !.pending = IF task[t].kind = "dialog" THEN FALSE ELSE @]

\* The answer for a function that connects, if the key was not known yet.
TrustAnswers(t) ==
    /\ Awaits(t, {"form", "dialog"}, "trust") /\ CallReturns(t)
    /\ \/ /\ call[t].at = "stored"
          /\ Start(t, task[t].kind, task[t].host, task[t].key)
          /\ view' = [view EXCEPT !.known = TRUE, !.trusted = TRUE, !.conn = "connecting"]
       \/ /\ call[t].at = "refused"
          /\ view' = Unclaimed(t, [view EXCEPT !.conn = "failed"])
          /\ Return(t)
          /\ UNCHANGED owner
    /\ UNCHANGED <<session, open, closer, histories>>

\* start_* opens a session if the server presents the key the window expects.  A
\* cancellation may have come too late, or before the attempt began.
SessionOpens(t) ==
    /\ Awaits(t, {"form", "dialog"}, "start")
    /\ serverKey[task[t].host] = task[t].key
    /\ open' = [open EXCEPT ![t] = <<task[t].host, task[t].key>>]
    /\ MoveOn(t, "opened")
    /\ UNCHANGED <<hostTrustVars, view, owner, session, closer, histories>>

\* A variant of SessionArrives that forgets to close the session of a superseded attempt.
SessionArrives_KeepsStale(t) ==
    /\ Awaits(t, {"form", "dialog"}, "opened") \/ Awaits(t, {"form", "dialog"}, "ended")
    /\ \/ /\ owner # t \/ task[t].at = "ended"
          /\ view' = Unclaimed(t, view)
          /\ open' = IF owner # t THEN open ELSE Ended(t)
          /\ Return(t)
          /\ UNCHANGED session
       \/ /\ owner = t /\ task[t].at = "opened"
          /\ session' = t
          /\ view' = [view EXCEPT !.hostKey = task[t].key, !.conn = "connected"]
          /\ IF task[t].kind = "dialog" THEN MoveOn(t, "saving") ELSE Return(t)
          /\ UNCHANGED open
    /\ UNCHANGED <<hostTrustVars, owner, closer, histories>>

\* The response.  A session of an attempt that was superseded, or that ended, is closed.
SessionArrives(t) ==
    /\ Awaits(t, {"form", "dialog"}, "opened") \/ Awaits(t, {"form", "dialog"}, "ended")
    /\ \/ /\ owner # t \/ task[t].at = "ended"
          /\ view' = Unclaimed(t, view)
          /\ open' = Ended(t)
          /\ Return(t)
          /\ UNCHANGED session
       \/ /\ owner = t /\ task[t].at = "opened"
          /\ session' = t
          /\ view' = [view EXCEPT !.hostKey = task[t].key, !.conn = "connected"]
          /\ IF task[t].kind = "dialog" THEN MoveOn(t, "saving") ELSE Return(t)
          /\ UNCHANGED open
    /\ UNCHANGED <<hostTrustVars, owner, closer, histories>>

ConnectFails(t) ==
    /\ Awaits(t, {"form", "dialog"}, "start")
    /\ view' = Unclaimed(t, IF owner = t THEN [view EXCEPT !.conn = "failed"] ELSE view)
    /\ Return(t)
    /\ UNCHANGED <<hostTrustVars, connectVars, histories>>

\* saveAuthenticatedCredential has saved the password, failed, or had nothing to save;
\* the dialog stays open until then, with its buttons enabled.
CredentialSaved(t) ==
    /\ Awaits(t, {"dialog"}, "saving")
    /\ view' = [view EXCEPT !.pending = FALSE, !.step = None]
    /\ Return(t)
    /\ UNCHANGED <<hostTrustVars, connectVars, histories>>

\* A variant that does not remember that the event came before the response.
SessionEnds_Forgotten(t) ==
    /\ open[t] # None
    /\ open' = Ended(t)
    /\ \/ /\ owner = t
          /\ session' = None
          /\ \E conn \in {"failed", "disconnected"} : view' = [view EXCEPT !.conn = conn]
       \/ /\ owner # t
          /\ UNCHANGED <<session, view>>
    /\ UNCHANGED <<hostTrustVars, task, owner, closer, histories>>

\* A session ends by itself.  Its event may come before the response, and is ignored
\* once the generation is another one.
SessionEnds(t) ==
    /\ open[t] # None
    /\ open' = Ended(t)
    /\ IF Awaits(t, {"form", "dialog"}, "opened") THEN MoveOn(t, "ended")
       ELSE UNCHANGED task
    /\ \/ /\ owner = t
          /\ session' = None
          /\ \E conn \in {"failed", "disconnected"} : view' = [view EXCEPT !.conn = conn]
       \/ /\ owner # t
          /\ UNCHANGED <<session, view>>
    /\ UNCHANGED <<hostTrustVars, owner, closer, histories>>

-----------------------------------------------------------------------------
(* Cancelling and closing                                                  *)

\* The form's cancel button.
CancelDirectConnection ==
    /\ ~Dialog /\ closer = None /\ view.conn = "connecting" /\ session = None
    /\ owner' = None
    /\ view' = [view EXCEPT !.conn = IF view.hostKey # None THEN "ready" ELSE "idle"]
    /\ UNCHANGED <<hostTrustVars, task, session, open, closer, histories>>

\* The cancel button of either dialog, which is never disabled.
CancelConnectionFlow ==
    /\ Dialog /\ closer = None
    /\ owner' = None
    /\ view' = [WithoutTrust(view) EXCEPT !.pending = FALSE, !.step = None, !.tab = FALSE]
    /\ GoesOn
    /\ UNCHANGED <<hostTrustVars, task, session, open, closer, confirmed>>

\* resetSessionWorkspace; whether the key is known is left as it is.
Reset(v) ==
    [v EXCEPT !.pending = FALSE, !.step = None, !.conn = "idle", !.tab = FALSE,
              !.hostKey = None, !.trusted = FALSE]

\* The tab is closed while the window holds no session.
CloseTab ==
    /\ view.tab /\ view.step = None /\ closer = None /\ ~Busy /\ session = None
    /\ owner' = None
    /\ view' = Reset(view)
    /\ UNCHANGED <<hostTrustVars, task, session, open, closer, histories>>

\* The generation moves on while the session is being closed.
ConfirmSessionClose ==
    /\ ~Dialog /\ closer = None /\ session # None
    /\ closer' = [owner |-> owner, session |-> session]
    /\ owner' = None
    /\ view' = [view EXCEPT !.conn = "closing"]
    /\ UNCHANGED <<hostTrustVars, task, session, open, histories>>

CloseSucceeds ==
    /\ closer # None
    /\ closer' = None /\ owner' = None /\ session' = None
    /\ open' = Ended(closer.session)
    /\ view' = Reset(view)
    /\ UNCHANGED <<hostTrustVars, task, histories>>

\* The session may still be there: the old generation is valid again.
CloseFails ==
    /\ closer # None
    /\ closer' = None /\ owner' = closer.owner
    /\ view' = [view EXCEPT !.conn = IF session # None THEN "connected"
                                                       ELSE "disconnected"]
    /\ UNCHANGED <<hostTrustVars, task, session, open, histories>>

-----------------------------------------------------------------------------
HostKeyChanges ==
    /\ ServerKeyChanges
    /\ UNCHANGED <<view, task, connectVars, histories>>

FlowNext ==
    \/ \E host \in Hosts : BeginUnsupported(host) \/ EditHost(host)
    \/ EditUser \/ ChangeMode \/ ToggleTrust
    \/ CancelDirectConnection \/ CancelConnectionFlow
    \/ CloseTab \/ ConfirmSessionClose \/ CloseSucceeds \/ CloseFails
    \/ HostKeyChanges
    \/ \E t \in Calls :
          \/ \E host \in Hosts : BeginConnectionFlow(t, host)
          \/ ProbeForm(t) \/ ProbeFails(t) \/ ProbeSucceeds(t) \/ LookupAnswers(t)
          \/ CredentialAnswers(t)
          \/ ConfirmConnectionFingerprint(t) \/ ConfirmAnswers(t) \/ TrustProceeds(t)
          \/ ConnectCurrentMode(t) \/ AuthenticatePendingConnection(t) \/ TrustAnswers(t)
          \/ SessionOpens(t) \/ SessionArrives(t) \/ ConnectFails(t)
          \/ CredentialSaved(t) \/ SessionEnds(t)

FlowSpec == FlowInit /\ [][FlowNext]_flowVars
-----------------------------------------------------------------------------
FlowTypeOK ==
    /\ HostTrustTypeOK
    /\ view \in View
    /\ task \in [Calls -> Task \union {None}]
    /\ {owner, session} \subseteq Calls \union {None}
    /\ open \in [Calls -> (Hosts \X Keys) \union {None}]
    /\ closer \in Closer \union {None}
    /\ confirmed \subseteq Hosts \X Keys
    /\ hasty \in BOOLEAN
    /\ \A t \in Calls :
          LET at(s) == task[t] # None /\ task[t].at = s
          IN  /\ at("trust") <=> call[t] # None
              /\ at("opened") => open[t] # None

(***************************************************************************)
(* A connection is made with a key that the user has confirmed for its     *)
(* host, now or when it was stored.  The threat model says so; the window  *)
(* does not keep it: the answer to an earlier dialog, cancelled meanwhile, *)
(* makes the key on display known and trusted.                             *)
(***************************************************************************)
NewKeyIsConfirmed ==
    \A t \in Calls : open[t] # None => open[t] \in confirmed

(***************************************************************************)
(* A key is stored for a host only if the user confirmed that key for that *)
(* host, and a session the window holds was made with such a key.  Like    *)
(* the two properties below, this is kept as long as the user waits for    *)
(* the answers the window awaits without showing it (hasty).               *)
(***************************************************************************)
ConfirmedUnlessHasty ==
    ~hasty =>
        /\ \A host \in Hosts : \A key \in stored[host] : <<host, key>> \in confirmed
        /\ NewKeyIsConfirmed

(***************************************************************************)
(* No session is left open that the window forgot: it is the one the       *)
(* window holds, or its response is still to come and will be judged by    *)
(* its generation.  Cancelling, closing and starting again while a command *)
(* connects are among what may happen meanwhile.                           *)
(***************************************************************************)
NoOrphanSession ==
    ~hasty =>
        \A t \in Calls :
            open[t] # None => session = t \/ Awaits(t, {"form", "dialog"}, "opened")

(***************************************************************************)
(* When nothing is under way and no dialog is open, the window is not busy *)
(* and, without a session, a connection can be launched: no function keeps *)
(* connectionFlowPendingRef or a busy state for good.                      *)
(***************************************************************************)
LaunchesAgain ==
    (/\ \A t \in Calls : task[t] = None
     /\ ~Dialog /\ closer = None /\ ~hasty) =>
        /\ ~Busy
        /\ session = None => ~connectionLaunchBlocked
=============================================================================
