----------------------- MODULE SessionLifecycleProofs -----------------------
(***************************************************************************)
(* Safety of SessionLifecycle for every set of windows, commands and       *)
(* confirmations and every capacity of the queues.  None of the properties *)
(* is inductive alone: they rest on the order in which every path of a     *)
(* session's end takes it out of its map, takes the authority away and     *)
(* lets go of the connection.  Fits says, of one session, where that order *)
(* stands and who is at work on it; a step touches one session, or, at the *)
(* exit, all of one kind, and leaves the others fitting (UntouchedFits).   *)
(***************************************************************************)
EXTENDS SessionLifecycle, TLAPS

-----------------------------------------------------------------------------
(***************************************************************************)
(* The invariant: LifecycleTypeOK without the queues, the queues, and for  *)
(* each session how everything known of it fits together.                  *)
(***************************************************************************)
TypesOK ==
  /\ OutcomeTypeOK
  /\ registered \subseteq Invocations
  /\ life \in [Invocations -> Life]
  /\ op \in [Invocations -> {"idle", "authorized", "sending", "waiting", "locked"}]
  /\ closer \in [Invocations -> {"idle", "authorized", "sending", "awaiting",
                                 "finished", "missing", "waiting", "locked",
                                 "closed", "refused"}]
  /\ window \in BOOLEAN /\ approved \in BOOLEAN
  /\ dialog \in {"closed", "open", "pending"}
  /\ exit \in {"running", "leaving", "exited"}
  /\ confirm \in [Confirmations ->
       [pc : {"idle", "closing", "clearing", "approving", "done"},
        drained : SUBSET SessionKind,
        awaited : SUBSET Invocations, held : SUBSET Invocations]]

InboxOK ==
  /\ inbox \in [Invocations -> Seq({"Write", "Close"})]
  /\ \A h \in Invocations : Len(inbox[h]) <= QueueCapacity

(***************************************************************************)
(* A command connects with what it was called for, and has a session at    *)
(* most from then on.                                                      *)
(***************************************************************************)
Connected(h) ==
  /\ outcome[h] \in {"connecting", "connected"} => wanted[h] # None
  /\ outcome[h] # "connected" => sessions[h] = None /\ life[h] = "none"
  /\ sessions[h] \in {None, wanted[h]}

\* Who is at work on a session, and on which kind; the lock has one holder.
AtWork(h) ==
  /\ ~Answered(h) => op[h] = "idle" /\ closer[h] = "idle"
  /\ op[h] = "sending" => Terminal(h)
  /\ op[h] \in {"waiting", "locked"} => Sftp(h)
  /\ closer[h] \in {"sending", "awaiting", "finished", "missing"} => Terminal(h)
  /\ closer[h] \in {"waiting", "locked"} => Sftp(h)
  /\ ~(op[h] = "locked" /\ closer[h] = "locked")
  /\ \A c \in Confirmations : h \in confirm[c].held => Sftp(h)

\* How long a session of either kind lives, as its map and its holders see it.
Lives(h) ==
  /\ Sftp(h) => life[h] \in {"none", "tracked", "open", "shut", "closed"}
  /\ Terminal(h) => life[h] # "shut"
  /\ h \in registered => life[h] \in {"open", "ending"} /\ closer[h] \in {"idle", "authorized"}
  /\ Sftp(h) /\ Held(h) => life[h] \in {"open", "shut"}

\* The authority over it goes after its registration, and before its connection.
Authority(h) ==
  /\ ~Cleared /\ outcome[h] = "connected"
       /\ (life[h] \in {"none", "tracked"} \/ h \in registered) => sessions[h] = wanted[h]
  /\ Terminal(h) /\ life[h] \in {"removed", "closed"} => sessions[h] = None
  /\ Sftp(h) /\ life[h] \in {"open", "shut", "closed"} /\ h \notin registered =>
       closer[h] \in {"waiting", "locked"} \/ sessions[h] = None \/ Confirming

\* What the progress of a close command says.
Closing(h) ==
  /\ closer[h] = "finished" => life[h] = "closed"
  /\ closer[h] = "closed" =>
       life[h] \in {"shut", "closed"} /\ h \notin registered /\ sessions[h] = None

Fits(h) == Connected(h) /\ AtWork(h) /\ Lives(h) /\ Authority(h) /\ Closing(h)

LifecycleInv == TypesOK /\ InboxOK /\ \A h \in Invocations : Fits(h)

-----------------------------------------------------------------------------
(***************************************************************************)
(* What a step leaves alone.                                               *)
(***************************************************************************)
Untouched(h) ==
  /\ life'[h] = life[h] /\ op'[h] = op[h] /\ closer'[h] = closer[h]
  /\ h \in registered' <=> h \in registered
  /\ sessions'[h] = sessions[h] /\ wanted'[h] = wanted[h] /\ outcome'[h] = outcome[h]
  /\ \A c \in Confirmations : h \in confirm'[c].held <=> h \in confirm[c].held

Proceeds == (Confirming => Confirming') /\ (Cleared => Cleared')

\* A session that a step does not touch still fits.
LEMMA UntouchedFits ==
  ASSUME NEW h \in Invocations, Fits(h), Untouched(h), Proceeds
  PROVE  Fits(h)'
<1>1. /\ Terminal(h)' <=> Terminal(h)
      /\ Sftp(h)' <=> Sftp(h)
      /\ Held(h)' <=> Held(h)
      /\ Answered(h)' <=> Answered(h)
  BY DEF Untouched, Terminal, Sftp, Held, Answered
<1>2. Connected(h)' /\ AtWork(h)'
  BY <1>1 DEF Fits, Connected, AtWork, Untouched
<1>3. Lives(h)' /\ Closing(h)'
  BY <1>1 DEF Fits, Lives, Closing, Untouched
<1>4. Authority(h)'
  BY <1>1 DEF Fits, Authority, Untouched, Proceeds
<1> QED
  BY <1>2, <1>3, <1>4 DEF Fits

\* It is enough to look at the session that steps.
LEMMA OneSessionSteps ==
  ASSUME LifecycleInv, NEW h \in Invocations, Proceeds,
         \A g \in Invocations : g # h => Untouched(g), Fits(h)', TypesOK', InboxOK'
  PROVE  LifecycleInv'
  BY UntouchedFits DEF LifecycleInv

\* A step that leaves confirm_app_exit alone.
LEMMA ConfirmStays ==
  ASSUME UNCHANGED confirm
  PROVE  Proceeds
  BY DEF Proceeds, Confirming, Cleared

\* A session whose life is its own: what Fits says of its kind.
LEMMA LiveHasKind ==
  ASSUME LifecycleInv, NEW h \in Invocations, life[h] # "none"
  PROVE  /\ outcome[h] = "connected" /\ wanted[h] \in Session /\ wanted[h] # None
         /\ Terminal(h) <=> wanted[h].kind = "Terminal"
         /\ Sftp(h) <=> wanted[h].kind = "Sftp"
         /\ Terminal(h) <=> ~Sftp(h)
  BY DEF LifecycleInv, Fits, Connected, TypesOK, OutcomeTypeOK, Terminal, Sftp, Session,
         SessionKind

\* remove_session takes away the authority that a session has.
LEMMA RemoveForgets ==
  ASSUME LifecycleInv, NEW h \in Invocations, Remove(h)
  PROVE  /\ sessions' \in [Invocations -> Session \cup {None}]
         /\ sessions'[h] = None
         /\ \A g \in Invocations : g # h => sessions'[g] = sessions[g]
         /\ UNCHANGED <<wanted, outcome>>
<1>1. /\ sessions[h] \in {None, wanted[h]} /\ sessions \in [Invocations -> Session \cup {None}]
      /\ UNCHANGED <<wanted, outcome>> /\ RemoveSession(h, wanted[h].kind)
  BY DEF LifecycleInv, Fits, Connected, TypesOK, OutcomeTypeOK, SessionsTypeOK, Remove
<1>2. CASE sessions[h] = None
  BY <1>1, <1>2 DEF RemoveSession
<1>3. CASE sessions[h] # None
  <2>1. sessions' = [sessions EXCEPT ![h] = None]
    BY <1>1, <1>3 DEF RemoveSession
  <2> QED
    BY <1>1, <2>1
<1> QED
  BY <1>2, <1>3

-----------------------------------------------------------------------------
(***************************************************************************)
(* The start_* commands.                                                   *)
(***************************************************************************)
LEMMA BeginKeeps ==
  ASSUME LifecycleInv, NEW h \in Invocations, NEW w \in Windows, NEW k \in SessionKind,
         Begin(h, w, k), UNCHANGED <<sessionVars, exitVars>>
  PROVE  LifecycleInv'
<1> USE DEF LifecycleInv
<1>1. /\ UNCHANGED <<sessions, registered, life, inbox, op, closer,
                     window, dialog, exit, approved, confirm>>
      /\ outcome[h] = "idle" /\ outcome'[h] \in {"connecting", "ended"}
      /\ outcome' \in [Invocations -> Outcome]
      /\ \A g \in Invocations : g # h => outcome'[g] = outcome[g] /\ wanted'[g] = wanted[g]
      /\ wanted' \in [Invocations -> Session \cup {None}]
      /\ wanted'[h] \in Session /\ wanted'[h] # None
  <2>1. [owner |-> w, kind |-> k] \in Session /\ [owner |-> w, kind |-> k] # None
    BY LifecycleAssumption DEF Session
  <2> QED
    BY <2>1 DEF Begin, sessionVars, exitVars, TypesOK, OutcomeTypeOK, Outcome
<1>2. TypesOK' /\ InboxOK'
  BY <1>1 DEF TypesOK, InboxOK, OutcomeTypeOK, SessionsTypeOK
<1>3. Proceeds /\ \A g \in Invocations : g # h => Untouched(g)
  BY <1>1, ConfirmStays DEF Untouched
<1>4. /\ life[h] = "none" /\ sessions[h] = None /\ op[h] = "idle" /\ closer[h] = "idle"
      /\ h \notin registered /\ \A c \in Confirmations : h \notin confirm[c].held
  BY <1>1 DEF Fits, Connected, AtWork, Lives, Answered, Held
<1>5. Fits(h)'
  BY <1>1, <1>4 DEF Fits, Connected, AtWork, Lives, Authority, Closing, Held, Answered
<1> QED
  BY <1>2, <1>3, <1>5, OneSessionSteps

\* complete_attempt establishes the session, with what its command was called for.
LEMMA ConnectKeeps ==
  ASSUME LifecycleInv, NEW h \in Invocations, Connect(h), UNCHANGED <<sessionVars, exitVars>>
  PROVE  LifecycleInv'
<1> USE DEF LifecycleInv
<1>1. /\ UNCHANGED <<wanted, registered, life, inbox, op, closer,
                     window, dialog, exit, approved, confirm>>
      /\ outcome[h] = "connecting" /\ outcome'[h] = "connected"
      /\ outcome' \in [Invocations -> Outcome]
      /\ \A g \in Invocations : g # h => outcome'[g] = outcome[g]
  BY DEF Connect, sessionVars, exitVars, TypesOK, OutcomeTypeOK, Outcome
<1>2. /\ wanted[h] \in Session /\ wanted[h] # None
      /\ sessions' \in [Invocations -> Session \cup {None}]
      /\ sessions'[h] = wanted[h]
      /\ \A g \in Invocations : g # h => sessions'[g] = sessions[g]
  <2>1. wanted[h] \in Session /\ wanted[h] # None
    BY <1>1 DEF Fits, Connected, TypesOK, OutcomeTypeOK
  <2>2. [owner |-> wanted[h].owner, kind |-> wanted[h].kind] = wanted[h]
    BY <2>1 DEF Session
  <2>3. sessions' = [sessions EXCEPT ![h] = wanted[h]]
    BY <2>2 DEF Connect, EstablishSession
  <2> QED
    BY <2>1, <2>3 DEF TypesOK, OutcomeTypeOK, SessionsTypeOK
<1>3. TypesOK' /\ InboxOK'
  BY <1>1, <1>2 DEF TypesOK, InboxOK, OutcomeTypeOK, SessionsTypeOK
<1>4. Proceeds /\ \A g \in Invocations : g # h => Untouched(g)
  BY <1>1, <1>2, ConfirmStays DEF Untouched
<1>5. /\ life[h] = "none" /\ op[h] = "idle" /\ closer[h] = "idle"
      /\ h \notin registered /\ \A c \in Confirmations : h \notin confirm[c].held
  BY <1>1 DEF Fits, Connected, AtWork, Lives, Answered, Held
<1>6. Fits(h)'
  BY <1>1, <1>2, <1>5 DEF Fits, Connected, AtWork, Lives, Authority, Closing, Held, Answered
<1> QED
  BY <1>3, <1>4, <1>6, OneSessionSteps

\* A command that gives up has no session.
LEMMA GiveUpKeeps ==
  ASSUME LifecycleInv, NEW h \in Invocations, GiveUp(h), UNCHANGED <<sessionVars, exitVars>>
  PROVE  LifecycleInv'
<1> USE DEF LifecycleInv
<1>1. /\ UNCHANGED <<sessions, wanted, registered, life, inbox, op, closer,
                     window, dialog, exit, approved, confirm>>
      /\ outcome[h] = "connecting" /\ outcome'[h] = "ended"
      /\ outcome' \in [Invocations -> Outcome]
      /\ \A g \in Invocations : g # h => outcome'[g] = outcome[g]
  BY DEF GiveUp, sessionVars, exitVars, TypesOK, OutcomeTypeOK, Outcome
<1>2. TypesOK' /\ InboxOK'
  BY <1>1 DEF TypesOK, InboxOK, OutcomeTypeOK, SessionsTypeOK
<1>3. Proceeds /\ \A g \in Invocations : g # h => Untouched(g)
  BY <1>1, ConfirmStays DEF Untouched
<1>4. Fits(h)'
  BY <1>1, ConfirmStays
     DEF Fits, Connected, AtWork, Lives, Authority, Closing, Held, Answered, Terminal, Sftp,
         Proceeds
<1> QED
  BY <1>2, <1>3, <1>4, OneSessionSteps

-----------------------------------------------------------------------------
(***************************************************************************)
(* The life of a session, where nothing but its life and the maps changes. *)
(***************************************************************************)
LEMMA LifeKeeps ==
  ASSUME LifecycleInv, NEW h \in Invocations, NEW to \in Life,
         life' = [life EXCEPT ![h] = to], Fits(h)', InboxOK',
         registered' \in {registered, registered \cup {h}, registered \ {h}},
         UNCHANGED <<outcomeVars, op, closer, exitVars>>
  PROVE  LifecycleInv'
<1> USE DEF LifecycleInv
<1>1. /\ UNCHANGED <<sessions, wanted, outcome, op, closer,
                     window, dialog, exit, approved, confirm>>
      /\ life' \in [Invocations -> Life]
      /\ \A g \in Invocations : g # h =>
            life'[g] = life[g] /\ (g \in registered' <=> g \in registered)
      /\ registered' \subseteq Invocations
  BY DEF outcomeVars, exitVars, TypesOK
<1>2. TypesOK'
  BY <1>1 DEF TypesOK, OutcomeTypeOK, SessionsTypeOK
<1>3. Proceeds /\ \A g \in Invocations : g # h => Untouched(g)
  BY <1>1, ConfirmStays DEF Untouched
<1> QED
  BY <1>2, <1>3, OneSessionSteps

\* track_session begins the life of a session.
LEMMA TrackKeeps ==
  ASSUME LifecycleInv, NEW h \in Invocations, Track(h)
  PROVE  LifecycleInv'
<1> USE DEF LifecycleInv
<1>1. /\ UNCHANGED <<sessions, wanted, outcome, registered, inbox, op, closer, confirm>>
      /\ UNCHANGED <<outcomeVars, exitVars>>
      /\ outcome[h] = "connected" /\ life[h] = "none" /\ life'[h] = "tracked"
      /\ life' = [life EXCEPT ![h] = "tracked"]
  BY DEF Track, outcomeVars, exitVars, TypesOK
<1>2. Fits(h)'
  BY <1>1 DEF Fits, Connected, AtWork, Lives, Authority, Closing, Held, Answered, Terminal,
     Sftp, Cleared, Confirming
<1> QED
  BY <1>1, <1>2, LifeKeeps DEF Life, InboxOK

\* A session enters its map with its authority.
LEMMA InsertKeeps ==
  ASSUME LifecycleInv, NEW h \in Invocations, Insert(h)
  PROVE  LifecycleInv'
<1> USE DEF LifecycleInv
<1>1. /\ UNCHANGED <<sessions, wanted, outcome, inbox, op, closer, confirm>>
      /\ UNCHANGED <<outcomeVars, exitVars>>
      /\ life[h] = "tracked" /\ life'[h] = "open" /\ h \in registered'
      /\ life' = [life EXCEPT ![h] = "open"] /\ registered' = registered \cup {h}
  BY DEF Insert, outcomeVars, exitVars, TypesOK
<1>2. Fits(h)'
  BY <1>1 DEF Fits, Connected, AtWork, Lives, Authority, Closing, Held, Answered, Terminal,
     Sftp, Cleared, Confirming
<1> QED
  BY <1>1, <1>2, LifeKeeps DEF Life, InboxOK

\* Taking a command shortens the queue.
LEMMA TakenShortens ==
  ASSUME InboxOK, NEW h \in Invocations, inbox[h] # <<>>,
         inbox' = [inbox EXCEPT ![h] = Tail(@)]
  PROVE  InboxOK'
<1>1. inbox[h] \in Seq({"Write", "Close"}) /\ Len(inbox[h]) \in Nat
  BY DEF InboxOK
<1>2. Tail(inbox[h]) \in Seq({"Write", "Close"}) /\ Len(Tail(inbox[h])) = Len(inbox[h]) - 1
  BY <1>1
<1> QED
  BY <1>1, <1>2, LifecycleAssumption DEF InboxOK

\* A command is queued where there is room.
LEMMA QueuedFits ==
  ASSUME InboxOK, NEW h \in Invocations, Len(inbox[h]) < QueueCapacity,
         NEW command \in {"Write", "Close"},
         inbox' = [inbox EXCEPT ![h] = Append(@, command)]
  PROVE  InboxOK'
<1>1. inbox[h] \in Seq({"Write", "Close"}) /\ Len(inbox[h]) \in Nat
  BY DEF InboxOK
<1>2. /\ Append(inbox[h], command) \in Seq({"Write", "Close"})
      /\ Len(Append(inbox[h], command)) = Len(inbox[h]) + 1
  BY <1>1
<1> QED
  BY <1>1, <1>2, LifecycleAssumption DEF InboxOK

\* The task takes a command, which ends its loop or does not.
LEMMA TakeCommandKeeps ==
  ASSUME LifecycleInv, NEW h \in Invocations, TakeCommand(h)
  PROVE  LifecycleInv'
<1> USE DEF LifecycleInv
<1>1. /\ UNCHANGED <<sessions, wanted, outcome, registered, op, closer, confirm>>
      /\ UNCHANGED <<outcomeVars, exitVars>>
      /\ Terminal(h) /\ life[h] = "open"
  BY DEF TakeCommand, outcomeVars, exitVars, TypesOK
<1>2. PICK to \in {"open", "ending"} : life' = [life EXCEPT ![h] = to] /\ life'[h] = to
  <2>1. CASE UNCHANGED life
    BY <1>1, <2>1 DEF TypesOK
  <2>2. CASE life' = [life EXCEPT ![h] = "ending"]
    BY <2>2 DEF TypesOK
  <2> QED
    BY <2>1, <2>2 DEF TakeCommand
<1>3. InboxOK'
  BY TakenShortens DEF TakeCommand
<1>4. Fits(h)'
  BY <1>1, <1>2, LiveHasKind DEF Fits, Connected, AtWork, Lives, Authority, Closing, Held, Answered,
     Terminal, Sftp, Cleared, Confirming
<1> QED
  BY <1>1, <1>2, <1>3, <1>4, LifeKeeps DEF Life

\* The loop ends on its own.
LEMMA LoopEndsKeeps ==
  ASSUME LifecycleInv, NEW h \in Invocations, SendersGone(h) \/ LoopBreaks(h)
  PROVE  LifecycleInv'
<1> USE DEF LifecycleInv
<1>1. /\ UNCHANGED <<sessions, wanted, outcome, registered, inbox, op, closer, confirm>>
      /\ UNCHANGED <<outcomeVars, exitVars>>
      /\ Terminal(h) /\ life[h] = "open" /\ life'[h] = "ending"
      /\ life' = [life EXCEPT ![h] = "ending"]
  BY DEF SendersGone, LoopBreaks, outcomeVars, exitVars, TypesOK
<1>2. Fits(h)'
  BY <1>1, LiveHasKind DEF Fits, Connected, AtWork, Lives, Authority, Closing, Held, Answered,
     Terminal, Sftp, Cleared, Confirming
<1> QED
  BY <1>1, <1>2, LifeKeeps DEF Life, InboxOK

\* The task takes its session out of the map first, if it is still there.
LEMMA UnregisterKeeps ==
  ASSUME LifecycleInv, NEW h \in Invocations, Unregister(h)
  PROVE  LifecycleInv'
<1> USE DEF LifecycleInv
<1>1. /\ UNCHANGED <<sessions, wanted, outcome, inbox, op, closer, confirm>>
      /\ UNCHANGED <<outcomeVars, exitVars>>
      /\ Terminal(h) /\ life[h] = "ending" /\ life'[h] = "unregistered"
      /\ life' = [life EXCEPT ![h] = "unregistered"]
      /\ registered' = registered \ {h} /\ h \notin registered'
  BY DEF Unregister, outcomeVars, exitVars, TypesOK
<1>2. Fits(h)'
  BY <1>1, LiveHasKind DEF Fits, Connected, AtWork, Lives, Authority, Closing, Held, Answered,
     Terminal, Sftp, Cleared, Confirming
<1> QED
  BY <1>1, <1>2, LifeKeeps DEF Life, InboxOK

\* The task lets go of a connection that nobody is authorised to use any more.
LEMMA ReleaseKeeps ==
  ASSUME LifecycleInv, NEW h \in Invocations, Release(h)
  PROVE  LifecycleInv'
<1> USE DEF LifecycleInv
<1>1. /\ UNCHANGED <<sessions, wanted, outcome, registered, op, closer, confirm>>
      /\ UNCHANGED <<outcomeVars, exitVars>>
      /\ Terminal(h) /\ life[h] = "removed" /\ life'[h] = "closed"
      /\ life' = [life EXCEPT ![h] = "closed"]
  BY DEF Release, outcomeVars, exitVars, TypesOK
<1>2. InboxOK'
  <2>1. inbox' = [inbox EXCEPT ![h] = <<>>]
    BY DEF Release
  <2> QED
    BY <2>1, LifecycleAssumption DEF InboxOK
<1>3. Fits(h)'
  BY <1>1, LiveHasKind DEF Fits, Connected, AtWork, Lives, Authority, Closing, Held, Answered,
     Terminal, Sftp, Cleared, Confirming
<1> QED
  BY <1>1, <1>2, <1>3, LifeKeeps DEF Life

-----------------------------------------------------------------------------
(***************************************************************************)
(* The commands on a session.                                              *)
(***************************************************************************)
LEMMA OperationKeeps ==
  ASSUME LifecycleInv, NEW h \in Invocations,
         NEW to \in {"idle", "authorized", "sending", "waiting", "locked"},
         op' = [op EXCEPT ![h] = to], life' \in {life, [life EXCEPT ![h] = "closed"]},
         Fits(h)', InboxOK', UNCHANGED <<outcomeVars, registered, closer, exitVars>>
  PROVE  LifecycleInv'
<1> USE DEF LifecycleInv
<1>1. /\ UNCHANGED <<sessions, wanted, outcome, registered, closer,
                     window, dialog, exit, approved, confirm>>
      /\ life' \in [Invocations -> Life]
      /\ \A g \in Invocations : g # h => life'[g] = life[g] /\ op'[g] = op[g]
  BY DEF outcomeVars, exitVars, TypesOK, Life
<1>2. TypesOK'
  BY <1>1 DEF TypesOK, OutcomeTypeOK, SessionsTypeOK
<1>3. Proceeds /\ \A g \in Invocations : g # h => Untouched(g)
  BY <1>1, ConfirmStays DEF Untouched
<1> QED
  BY <1>2, <1>3, OneSessionSteps

\* A command on a session is authorised.
LEMMA OperateKeeps ==
  ASSUME LifecycleInv, NEW h \in Invocations, Operate(h)
  PROVE  LifecycleInv'
<1> USE DEF LifecycleInv
<1>1. /\ UNCHANGED <<sessions, wanted, outcome, registered, life, inbox, closer, confirm>>
      /\ UNCHANGED <<outcomeVars, exitVars>>
      /\ Answered(h) /\ op[h] = "idle" /\ op'[h] = "authorized"
      /\ op' = [op EXCEPT ![h] = "authorized"]
  BY DEF Operate, outcomeVars, exitVars, TypesOK
<1>2. Fits(h)'
  BY <1>1 DEF Fits, Connected, AtWork, Lives, Authority, Closing, Held, Answered,
     Terminal, Sftp, Cleared, Confirming
<1> QED
  BY <1>1, <1>2, OperationKeeps DEF InboxOK

\* It takes what its kind of session has in the map: a sender or a reference.
LEMMA TakeSessionKeeps ==
  ASSUME LifecycleInv, NEW h \in Invocations, TakeSession(h)
  PROVE  LifecycleInv'
<1> USE DEF LifecycleInv
<1>1. /\ UNCHANGED <<sessions, wanted, outcome, registered, life, inbox, closer, confirm>>
      /\ UNCHANGED <<outcomeVars, exitVars>> /\ op[h] = "authorized"
      /\ life[h] # "none" /\ Answered(h)
  BY DEF TakeSession, outcomeVars, exitVars, Fits, AtWork, Answered
<1>2. PICK to \in {"idle", "sending", "waiting"} :
         /\ op' = [op EXCEPT ![h] = to] /\ op'[h] = to
         /\ to = "sending" => Terminal(h)
         /\ to = "waiting" => Sftp(h) /\ h \in registered
  <2>1. CASE h \notin registered
    <3>1. op' = [op EXCEPT ![h] = "idle"]
      BY <2>1 DEF TakeSession
    <3> QED
      BY <3>1 DEF TypesOK
  <2>2. CASE h \in registered /\ Terminal(h)
    <3>1. op' = [op EXCEPT ![h] = "sending"]
      BY <2>2 DEF TakeSession
    <3> QED
      BY <2>2, <3>1 DEF TypesOK
  <2>3. CASE h \in registered /\ ~Terminal(h)
    <3>1. op' = [op EXCEPT ![h] = "waiting"]
      BY <2>3 DEF TakeSession
    <3> QED
      BY <1>1, <2>3, <3>1, LiveHasKind DEF TypesOK
  <2> QED
    BY <2>1, <2>2, <2>3
<1>3. Fits(h)'
  BY <1>1, <1>2 DEF Fits, Connected, AtWork, Lives, Authority, Closing, Held, Answered,
     Terminal, Sftp, Cleared, Confirming
<1> QED
  BY <1>1, <1>2, <1>3, OperationKeeps DEF InboxOK

\* It queues its write, or finds the task gone.
LEMMA SendWriteKeeps ==
  ASSUME LifecycleInv, NEW h \in Invocations, SendWrite(h)
  PROVE  LifecycleInv'
<1> USE DEF LifecycleInv
<1>1. /\ UNCHANGED <<sessions, wanted, outcome, registered, life, closer, confirm>>
      /\ UNCHANGED <<outcomeVars, exitVars>> /\ op[h] = "sending" /\ op'[h] = "idle"
      /\ op' = [op EXCEPT ![h] = "idle"]
  BY DEF SendWrite, outcomeVars, exitVars, TypesOK
<1>2. InboxOK'
  <2>1. CASE UNCHANGED inbox
    BY <2>1 DEF InboxOK
  <2>2. CASE /\ Len(inbox[h]) < QueueCapacity
             /\ inbox' = [inbox EXCEPT ![h] = Append(@, "Write")]
    BY <2>2, QueuedFits
  <2> QED
    BY <2>1, <2>2 DEF SendWrite
<1>3. Fits(h)'
  BY <1>1, LiveHasKind DEF Fits, Connected, AtWork, Lives, Authority, Closing, Held, Answered,
     Terminal, Sftp, Cleared, Confirming
<1> QED
  BY <1>1, <1>2, <1>3, OperationKeeps

\* It locks an SFTP session that no close has locked.
LEMMA LockForOperationKeeps ==
  ASSUME LifecycleInv, NEW h \in Invocations, LockForOperation(h)
  PROVE  LifecycleInv'
<1> USE DEF LifecycleInv
<1>1. /\ UNCHANGED <<sessions, wanted, outcome, registered, life, inbox, closer, confirm>>
      /\ UNCHANGED <<outcomeVars, exitVars>>
      /\ op[h] = "waiting" /\ op'[h] = "locked" /\ closer[h] # "locked"
      /\ op' = [op EXCEPT ![h] = "locked"]
  BY DEF LockForOperation, outcomeVars, exitVars, TypesOK
<1>2. Fits(h)'
  BY <1>1 DEF Fits, Connected, AtWork, Lives, Authority, Closing, Held, Answered,
     Terminal, Sftp, Cleared, Confirming
<1> QED
  BY <1>1, <1>2, OperationKeeps DEF InboxOK

\* It drops its reference, and the session with the last one.
LEMMA OperationEndsKeeps ==
  ASSUME LifecycleInv, NEW h \in Invocations, OperationEnds(h)
  PROVE  LifecycleInv'
<1> USE DEF LifecycleInv
<1>1. /\ UNCHANGED <<sessions, wanted, outcome, registered, inbox, closer, confirm>>
      /\ UNCHANGED <<outcomeVars, exitVars>>
      /\ op[h] = "locked" /\ op'[h] = "idle" /\ op' = [op EXCEPT ![h] = "idle"]
  BY DEF OperationEnds, outcomeVars, exitVars, TypesOK
<1>2. /\ Sftp(h) /\ life[h] \in {"open", "shut"} /\ ~Terminal(h)
      /\ life \in [Invocations -> Life]
  BY <1>1, LiveHasKind DEF Fits, AtWork, Lives, Held, TypesOK
<1>3. CASE Held(h)'
  <2>1. life' = life
    BY <1>3 DEF OperationEnds
  <2>2. Fits(h)'
    BY <1>1, <1>2, <2>1 DEF Fits, Connected, AtWork, Lives, Authority, Closing, Held, Answered,
       Terminal, Sftp, Cleared, Confirming
  <2> QED
    BY <1>1, <2>1, <2>2, OperationKeeps DEF InboxOK
<1>4. CASE ~Held(h)'
  <2>1. life' = [life EXCEPT ![h] = "closed"] /\ life'[h] = "closed"
    BY <1>2, <1>4 DEF OperationEnds
  <2>2. h \notin registered /\ closer[h] \notin {"waiting", "locked"}
    BY <1>1, <1>4 DEF Held
  <2>3. Fits(h)'
    BY <1>1, <1>2, <1>4, <2>1, <2>2 DEF Fits, Connected, AtWork, Lives, Authority, Closing,
       Answered, Terminal, Sftp, Cleared, Confirming
  <2> QED
    BY <1>1, <2>1, <2>3, OperationKeeps DEF InboxOK
<1> QED
  BY <1>3, <1>4

-----------------------------------------------------------------------------
(***************************************************************************)
(* The commands that close a session.                                      *)
(***************************************************************************)
LEMMA CloseKeeps ==
  ASSUME LifecycleInv, NEW h \in Invocations,
         closer' \in [Invocations -> {"idle", "authorized", "sending", "awaiting",
                                      "finished", "missing", "waiting", "locked",
                                      "closed", "refused"}],
         \A g \in Invocations : g # h =>
            closer'[g] = closer[g] /\ life'[g] = life[g] /\ sessions'[g] = sessions[g],
         life' \in [Invocations -> Life],
         sessions' \in [Invocations -> Session \cup {None}],
         registered' \in {registered, registered \ {h}},
         Fits(h)', InboxOK', UNCHANGED <<wanted, outcome, op, exitVars>>
  PROVE  LifecycleInv'
<1> USE DEF LifecycleInv
<1>1. UNCHANGED <<window, dialog, exit, approved, confirm>>
  BY DEF exitVars
<1>2. TypesOK'
  BY <1>1 DEF TypesOK, OutcomeTypeOK, SessionsTypeOK
<1>3. Proceeds /\ \A g \in Invocations : g # h => Untouched(g)
  BY <1>1, ConfirmStays DEF Untouched
<1> QED
  BY <1>2, <1>3, OneSessionSteps

\* A close command is authorised.
LEMMA CloseCommandKeeps ==
  ASSUME LifecycleInv, NEW h \in Invocations, CloseCommand(h)
  PROVE  LifecycleInv'
<1> USE DEF LifecycleInv
<1>1. /\ UNCHANGED <<sessions, wanted, outcome, registered, life, inbox, op, confirm, exitVars>>
      /\ closer[h] \in {"idle", "closed", "refused"} /\ closer'[h] = "authorized"
      /\ closer' = [closer EXCEPT ![h] = "authorized"]
      /\ sessions[h] # None /\ Answered(h)
  BY DEF CloseCommand, outcomeVars, exitVars, TypesOK, Authorized, AuthorizeSession
<1>2. Fits(h)'
  BY <1>1 DEF Fits, Connected, AtWork, Lives, Authority, Closing, Held, Answered,
     Terminal, Sftp, Cleared, Confirming
<1> QED
  BY <1>1, <1>2, CloseKeeps DEF InboxOK, TypesOK, OutcomeTypeOK, SessionsTypeOK

\* A close command takes the session out of the map.
LEMMA TakeForCloseKeeps ==
  ASSUME LifecycleInv, NEW h \in Invocations, TakeForClose(h)
  PROVE  LifecycleInv'
<1> USE DEF LifecycleInv
<1>1. /\ UNCHANGED <<sessions, wanted, outcome, life, inbox, op, confirm, exitVars>>
      /\ closer[h] = "authorized" /\ registered' = registered \ {h} /\ h \notin registered'
      /\ life[h] # "none" /\ Answered(h)
  BY DEF TakeForClose, outcomeVars, exitVars, Fits, AtWork, Answered
<1>2. PICK to \in {"sending", "waiting", "missing", "refused"} :
         /\ closer' = [closer EXCEPT ![h] = to] /\ closer'[h] = to
         /\ to \in {"sending", "missing"} => Terminal(h)
         /\ to = "waiting" => Sftp(h) /\ h \in registered
         /\ Sftp(h) /\ h \in registered => to = "waiting"
  <2>1. CASE h \in registered /\ Terminal(h)
    <3>1. closer' = [closer EXCEPT ![h] = "sending"]
      BY <2>1 DEF TakeForClose
    <3> QED
      BY <1>1, <2>1, <3>1, LiveHasKind DEF TypesOK
  <2>2. CASE h \in registered /\ ~Terminal(h)
    <3>1. closer' = [closer EXCEPT ![h] = "waiting"]
      BY <2>2 DEF TakeForClose
    <3> QED
      BY <1>1, <2>2, <3>1, LiveHasKind DEF TypesOK
  <2>3. CASE h \notin registered /\ Terminal(h)
    <3>1. closer' = [closer EXCEPT ![h] = "missing"]
      BY <2>3 DEF TakeForClose
    <3> QED
      BY <2>3, <3>1 DEF TypesOK
  <2>4. CASE h \notin registered /\ ~Terminal(h)
    <3>1. closer' = [closer EXCEPT ![h] = "refused"]
      BY <2>4 DEF TakeForClose
    <3> QED
      BY <2>4, <3>1 DEF TypesOK
  <2> QED
    BY <2>1, <2>2, <2>3, <2>4
<1>3. Fits(h)'
  BY <1>1, <1>2 DEF Fits, Connected, AtWork, Lives, Authority, Closing, Held, Answered,
     Terminal, Sftp, Cleared, Confirming
<1> QED
  BY <1>1, <1>2, <1>3, CloseKeeps DEF InboxOK, TypesOK, OutcomeTypeOK, SessionsTypeOK

\* It queues a Close, or finds the task gone.
LEMMA SendCloseKeeps ==
  ASSUME LifecycleInv, NEW h \in Invocations, SendClose(h)
  PROVE  LifecycleInv'
<1> USE DEF LifecycleInv
<1>1. /\ UNCHANGED <<sessions, wanted, outcome, registered, life, op, confirm, exitVars>>
      /\ closer[h] = "sending"
  BY DEF SendClose, outcomeVars, exitVars
<1>2. PICK to \in {"awaiting", "finished"} :
         /\ closer' = [closer EXCEPT ![h] = to] /\ closer'[h] = to
         /\ to = "finished" => life[h] = "closed"
  BY DEF SendClose, TypesOK
<1>3. InboxOK'
  <2>1. CASE UNCHANGED inbox
    BY <2>1 DEF InboxOK
  <2>2. CASE /\ Len(inbox[h]) < QueueCapacity
             /\ inbox' = [inbox EXCEPT ![h] = Append(@, "Close")]
    BY <2>2, QueuedFits
  <2> QED
    BY <2>1, <2>2 DEF SendClose
<1>4. Fits(h)'
  BY <1>1, <1>2 DEF Fits, Connected, AtWork, Lives, Authority, Closing, Held, Answered,
     Terminal, Sftp, Cleared, Confirming
<1> QED
  BY <1>1, <1>2, <1>3, <1>4, CloseKeeps DEF TypesOK, OutcomeTypeOK, SessionsTypeOK

\* Its Close is answered once the connection is released.
LEMMA CloseCompletesKeeps ==
  ASSUME LifecycleInv, NEW h \in Invocations, CloseCompletes(h)
  PROVE  LifecycleInv'
<1> USE DEF LifecycleInv
<1>1. /\ UNCHANGED <<sessions, wanted, outcome, registered, life, inbox, op, confirm, exitVars>>
      /\ closer[h] = "awaiting" /\ life[h] = "closed" /\ closer'[h] = "finished"
      /\ closer' = [closer EXCEPT ![h] = "finished"]
  BY DEF CloseCompletes, outcomeVars, exitVars, TypesOK
<1>2. Fits(h)'
  BY <1>1 DEF Fits, Connected, AtWork, Lives, Authority, Closing, Held, Answered,
     Terminal, Sftp, Cleared, Confirming
<1> QED
  BY <1>1, <1>2, CloseKeeps DEF InboxOK, TypesOK, OutcomeTypeOK, SessionsTypeOK

\* It locks an SFTP session that no operation has locked.
LEMMA LockForCloseKeeps ==
  ASSUME LifecycleInv, NEW h \in Invocations, LockForClose(h)
  PROVE  LifecycleInv'
<1> USE DEF LifecycleInv
<1>1. /\ UNCHANGED <<sessions, wanted, outcome, registered, life, inbox, op, confirm, exitVars>>
      /\ closer[h] = "waiting" /\ op[h] # "locked" /\ closer'[h] = "locked"
      /\ closer' = [closer EXCEPT ![h] = "locked"]
  BY DEF LockForClose, outcomeVars, exitVars, TypesOK
<1>2. Fits(h)'
  BY <1>1 DEF Fits, Connected, AtWork, Lives, Authority, Closing, Held, Answered,
     Terminal, Sftp, Cleared, Confirming
<1> QED
  BY <1>1, <1>2, CloseKeeps DEF InboxOK, TypesOK, OutcomeTypeOK, SessionsTypeOK

\* It takes the authority over a terminal away, last.
LEMMA TerminalCloseReturnsKeeps ==
  ASSUME LifecycleInv, NEW h \in Invocations, TerminalCloseReturns(h)
  PROVE  LifecycleInv'
<1> USE DEF LifecycleInv
<1>1. /\ UNCHANGED <<registered, life, inbox, op, confirm, exitVars>>
      /\ closer[h] \in {"finished", "missing"} /\ Remove(h)
  BY DEF TerminalCloseReturns, exitVars
<1>2. PICK to \in {"closed", "refused"} :
         /\ closer' = [closer EXCEPT ![h] = to] /\ closer'[h] = to
         /\ to = "closed" => closer[h] = "finished"
  BY <1>1 DEF TerminalCloseReturns, TypesOK
<1>3. /\ sessions' \in [Invocations -> Session \cup {None}]
      /\ sessions'[h] = None
      /\ \A g \in Invocations : g # h => sessions'[g] = sessions[g]
      /\ UNCHANGED <<wanted, outcome>>
  BY <1>1, RemoveForgets
<1>4. Fits(h)'
  BY <1>1, <1>2, <1>3 DEF Fits, Connected, AtWork, Lives, Authority, Closing, Held, Answered,
     Terminal, Sftp, Cleared, Confirming
<1> QED
  BY <1>1, <1>2, <1>3, <1>4, CloseKeeps DEF InboxOK, TypesOK

\* It takes the authority over an SFTP session away, with the connection.
LEMMA SftpCloseReturnsKeeps ==
  ASSUME LifecycleInv, NEW h \in Invocations, SftpCloseReturns(h)
  PROVE  LifecycleInv'
<1> USE DEF LifecycleInv
<1>1. /\ UNCHANGED <<registered, inbox, op, confirm, exitVars>>
      /\ closer[h] = "locked" /\ Remove(h) /\ closer'[h] = "closed"
      /\ closer' = [closer EXCEPT ![h] = "closed"]
  BY DEF SftpCloseReturns, exitVars, TypesOK
<1>2. /\ sessions' \in [Invocations -> Session \cup {None}]
      /\ sessions'[h] = None
      /\ \A g \in Invocations : g # h => sessions'[g] = sessions[g]
      /\ UNCHANGED <<wanted, outcome>>
  BY <1>1, RemoveForgets
<1>3. /\ Sftp(h) /\ ~Terminal(h) /\ life[h] \in {"open", "shut"} /\ h \notin registered
      /\ life \in [Invocations -> Life]
  BY <1>1, LiveHasKind DEF Fits, AtWork, Lives, Held, TypesOK
<1>4. PICK to \in {"shut", "closed"} :
         /\ life' = [life EXCEPT ![h] = to] /\ life'[h] = to
         /\ Held(h)' => to = "shut"
  <2>1. CASE Held(h)'
    <3>1. life' = [life EXCEPT ![h] = "shut"]
      BY <2>1 DEF SftpCloseReturns
    <3> QED
      BY <1>3, <3>1
  <2>2. CASE ~Held(h)'
    <3>1. life' = [life EXCEPT ![h] = "closed"]
      BY <2>2 DEF SftpCloseReturns
    <3> QED
      BY <1>3, <2>2, <3>1
  <2> QED
    BY <2>1, <2>2
<1>5. Fits(h)'
  BY <1>1, <1>2, <1>3, <1>4 DEF Fits, Connected, AtWork, Lives, Authority, Closing, Answered,
     Terminal, Sftp, Cleared, Confirming
<1>6. life' \in [Invocations -> Life] /\ \A g \in Invocations : g # h => life'[g] = life[g]
  BY <1>3, <1>4 DEF Life
<1> QED
  BY <1>1, <1>2, <1>5, <1>6, CloseKeeps DEF InboxOK, TypesOK

\* The task takes the authority away before it releases the connection.
LEMMA DeauthorizeKeeps ==
  ASSUME LifecycleInv, NEW h \in Invocations, Deauthorize(h)
  PROVE  LifecycleInv'
<1> USE DEF LifecycleInv
<1>1. /\ UNCHANGED <<registered, inbox, op, closer, confirm, exitVars>>
      /\ Terminal(h) /\ life[h] = "unregistered" /\ life'[h] = "removed" /\ Remove(h)
      /\ life' = [life EXCEPT ![h] = "removed"]
  BY DEF Deauthorize, exitVars, TypesOK
<1>2. /\ sessions' \in [Invocations -> Session \cup {None}]
      /\ sessions'[h] = None
      /\ \A g \in Invocations : g # h => sessions'[g] = sessions[g]
      /\ UNCHANGED <<wanted, outcome>>
  BY <1>1, RemoveForgets
<1>3. Fits(h)'
  BY <1>1, <1>2, LiveHasKind DEF Fits, Connected, AtWork, Lives, Authority, Closing, Held,
     Answered, Terminal, Sftp, Cleared, Confirming
<1>4. life' \in [Invocations -> Life] /\ \A g \in Invocations : g # h => life'[g] = life[g]
  BY <1>1 DEF TypesOK, Life
<1> QED
  BY <1>1, <1>2, <1>3, <1>4, CloseKeeps DEF InboxOK, TypesOK

-----------------------------------------------------------------------------
(***************************************************************************)
(* The exit.                                                               *)
(***************************************************************************)
LEMMA DialogKeeps ==
  ASSUME LifecycleInv, RequestAppExit \/ CloseRequested \/ ExitRequested \/ CancelAppExit
  PROVE  LifecycleInv'
<1> USE DEF LifecycleInv
<1>1. /\ UNCHANGED <<sessions, wanted, outcome, registered, life, inbox, op, closer,
                     approved, confirm>>
      /\ window' \in BOOLEAN /\ dialog' \in {"closed", "open", "pending"}
      /\ exit' \in {"running", "leaving", "exited"}
  BY DEF RequestAppExit, CloseRequested, ExitRequested, CancelAppExit, Prompt, outcomeVars,
         sessionVars, TypesOK
<1>2. TypesOK' /\ InboxOK'
  BY <1>1 DEF TypesOK, InboxOK, OutcomeTypeOK, SessionsTypeOK
<1>3. \A h \in Invocations : Untouched(h)
  BY <1>1 DEF Untouched
<1>4. Proceeds
  BY <1>1, ConfirmStays
<1> QED
  BY <1>2, <1>3, <1>4, UntouchedFits

Progress ==
  [pc : {"idle", "closing", "clearing", "approving", "done"},
   drained : SUBSET SessionKind,
   awaited : SUBSET Invocations, held : SUBSET Invocations]

(***************************************************************************)
(* Only a confirmation approves the exit, and only one that has begun      *)
(* holds sessions.                                                         *)
(***************************************************************************)
ExitSound ==
  /\ approved => Confirming
  /\ \A c \in Confirmations : confirm[c].pc = "idle" => confirm[c].held = {}

\* An invocation of confirm_app_exit moves on, past its first step or past the clearing.
LEMMA ConfirmMoves ==
  ASSUME LifecycleInv, NEW c \in Confirmations, NEW p \in Progress, p.pc # "idle",
         confirm' = [confirm EXCEPT ![c] = p],
         confirm[c].pc \in {"approving", "done"} => p.pc \in {"approving", "done"}
  PROVE  /\ confirm' \in [Confirmations -> Progress]
         /\ confirm'[c] = p
         /\ \A d \in Confirmations : d # c => confirm'[d] = confirm[d]
         /\ Proceeds /\ Confirming' /\ (ExitSound => ExitSound')
<1>1. confirm \in [Confirmations -> Progress]
  BY DEF LifecycleInv, TypesOK, Progress
<1>2. /\ confirm' \in [Confirmations -> Progress] /\ confirm'[c] = p
      /\ \A d \in Confirmations : d # c => confirm'[d] = confirm[d]
  BY <1>1
<1> QED
  BY <1>2 DEF Proceeds, Confirming, Cleared, ExitSound

\* The user confirms the exit.
LEMMA ConfirmAppExitKeeps ==
  ASSUME LifecycleInv, NEW c \in Confirmations, ConfirmAppExit(c)
  PROVE  LifecycleInv' /\ (ExitSound => ExitSound')
<1> USE DEF LifecycleInv
<1>1. /\ UNCHANGED <<sessions, wanted, outcome, registered, life, inbox, op, closer, window,
                     exit, approved>>
      /\ dialog' = "pending" /\ confirm[c].pc = "idle" /\ confirm[c] \in Progress
  BY DEF ConfirmAppExit, outcomeVars, sessionVars, TypesOK, Progress
<1>2. PICK p \in Progress : /\ confirm' = [confirm EXCEPT ![c] = p]
                            /\ p.pc = "closing" /\ p.held = confirm[c].held
  <2> DEFINE p == [confirm[c] EXCEPT !.pc = "closing"]
  <2>1. p \in Progress /\ p.pc = "closing" /\ p.held = confirm[c].held
    BY <1>1 DEF Progress
  <2>2. confirm' = [confirm EXCEPT ![c] = p]
    BY DEF ConfirmAppExit
  <2> QED
    BY <2>1, <2>2
<1>3. /\ confirm' \in [Confirmations -> Progress] /\ Proceeds /\ (ExitSound => ExitSound')
      /\ \A d \in Confirmations : confirm'[d].held = confirm[d].held
  BY <1>1, <1>2, ConfirmMoves
<1>4. TypesOK' /\ InboxOK'
  BY <1>1, <1>3 DEF TypesOK, InboxOK, OutcomeTypeOK, SessionsTypeOK, Progress
<1>5. \A h \in Invocations : Untouched(h)
  BY <1>1, <1>3 DEF Untouched
<1> QED
  BY <1>3, <1>4, <1>5, UntouchedFits

\* A terminal that close_all has taken out of the map.
LEMMA DrainedTerminalFits ==
  ASSUME LifecycleInv, NEW h \in registered, Terminal(h), h \notin registered', Proceeds,
         UNCHANGED <<sessions, wanted, outcome, life, op, closer>>,
         \A d \in Confirmations : h \in confirm'[d].held => h \in confirm[d].held
  PROVE  Fits(h)'
<1>1. h \in Invocations /\ Fits(h) /\ life[h] # "none"
  BY DEF LifecycleInv, TypesOK, Fits, Lives
<1>2. ~Sftp(h)
  BY <1>1, LiveHasKind
<1> QED
  BY <1>1, <1>2 DEF Fits, Connected, AtWork, Lives, Authority, Closing, Answered, Terminal, Sftp,
     Proceeds

\* close_all takes the terminals out of their map.
LEMMA DrainTerminalsKeeps ==
  ASSUME LifecycleInv, NEW c \in Confirmations, DrainTerminals(c)
  PROVE  LifecycleInv' /\ (ExitSound => ExitSound')
<1> USE DEF LifecycleInv
<1> DEFINE R == Registered("Terminal")
           reached == {h \in R : life[h] # "closed" /\ Len(inbox[h]) < QueueCapacity}
<1>1. /\ UNCHANGED <<sessions, wanted, outcome, life, op, closer, window, dialog, exit, approved>>
      /\ confirm[c].pc = "closing" /\ confirm[c] \in Progress
      /\ registered' = registered \ R
  BY DEF DrainTerminals, outcomeVars, TypesOK, Progress
<1>2. /\ reached \subseteq Invocations
      /\ inbox' = [h \in Invocations |-> IF h \in reached THEN Append(inbox[h], "Close") ELSE inbox[h]]
      /\ confirm' = [confirm EXCEPT ![c].drained = @ \cup {"Terminal"}, ![c].awaited = reached]
  BY DEF DrainTerminals, Registered, TypesOK
<1>3. InboxOK'
  <2>1. SUFFICES ASSUME NEW h \in Invocations
                 PROVE  inbox'[h] \in Seq({"Write", "Close"}) /\ Len(inbox'[h]) <= QueueCapacity
    BY <1>2, LifecycleAssumption DEF InboxOK
  <2>2. inbox[h] \in Seq({"Write", "Close"}) /\ Len(inbox[h]) \in Nat /\ Len(inbox[h]) <= QueueCapacity
    BY DEF InboxOK
  <2>3. /\ Append(inbox[h], "Close") \in Seq({"Write", "Close"})
        /\ Len(Append(inbox[h], "Close")) = Len(inbox[h]) + 1
    BY <2>2
  <2>4. CASE h \in reached
    <3>1. Len(inbox[h]) < QueueCapacity /\ inbox'[h] = Append(inbox[h], "Close")
      BY <1>2, <2>4
    <3> QED
      BY <2>2, <2>3, <3>1, LifecycleAssumption
  <2>5. CASE h \notin reached
    <3>1. inbox'[h] = inbox[h]
      BY <1>2, <2>5
    <3> QED
      BY <2>2, <3>1
  <2> QED
    BY <2>4, <2>5
<1> HIDE DEF reached
<1>4. PICK p \in Progress : /\ confirm' = [confirm EXCEPT ![c] = p]
                            /\ p.pc = "closing" /\ p.held = confirm[c].held
  <2> DEFINE p == [confirm[c] EXCEPT !.drained = @ \cup {"Terminal"}, !.awaited = reached]
  <2>1. p \in Progress /\ p.pc = "closing" /\ p.held = confirm[c].held
    BY <1>1, <1>2 DEF Progress, SessionKind
  <2>2. confirm' = [confirm EXCEPT ![c] = p]
    BY <1>2
  <2> QED
    BY <2>1, <2>2
<1>5. /\ confirm' \in [Confirmations -> Progress] /\ Proceeds /\ (ExitSound => ExitSound')
      /\ \A d \in Confirmations : confirm'[d].held = confirm[d].held
  BY <1>1, <1>4, ConfirmMoves
<1>6. TypesOK'
  BY <1>1, <1>5 DEF TypesOK, OutcomeTypeOK, SessionsTypeOK, Progress
<1>7. ASSUME NEW h \in Invocations
      PROVE  Fits(h)'
  <2>1. CASE h \in R
    <3>1. h \in registered /\ h \notin registered' /\ wanted[h].kind = "Terminal" /\ life[h] # "none"
      BY <1>1, <2>1 DEF Registered, Fits, Lives
    <3>2. Terminal(h)
      BY <3>1, LiveHasKind
    <3> QED
      BY <1>1, <1>5, <3>1, <3>2, DrainedTerminalFits
  <2>2. CASE h \notin R
    <3>1. Untouched(h)
      BY <1>1, <1>5, <2>2 DEF Untouched
    <3> QED
      BY <1>5, <3>1, UntouchedFits
  <2> QED
    BY <2>1, <2>2
<1> QED
  BY <1>5, <1>3, <1>6, <1>7

\* close_all takes the SFTP sessions out of theirs, and holds them.
LEMMA DrainSftpKeeps ==
  ASSUME LifecycleInv, NEW c \in Confirmations, DrainSftp(c)
  PROVE  LifecycleInv' /\ (ExitSound => ExitSound')
<1> USE DEF LifecycleInv
<1> DEFINE R == Registered("Sftp")
<1>1. /\ UNCHANGED <<sessions, wanted, outcome, life, inbox, op, closer, window, dialog, exit,
                     approved>>
      /\ confirm[c].pc = "closing" /\ confirm[c] \in Progress
      /\ registered' = registered \ R /\ R \subseteq Invocations
      /\ confirm' = [confirm EXCEPT ![c].drained = @ \cup {"Sftp"}, ![c].held = R]
  BY DEF DrainSftp, outcomeVars, TypesOK, Progress, Registered
<1>2. ASSUME NEW h \in R
      PROVE  h \in registered /\ Sftp(h) /\ ~Terminal(h) /\ h \in Invocations
  <2>1. h \in registered /\ wanted[h].kind = "Sftp" /\ life[h] # "none" /\ h \in Invocations
    BY <1>1 DEF Registered, Fits, Lives
  <2> QED
    BY <2>1, LiveHasKind
<1> HIDE DEF R
<1>3. PICK p \in Progress : /\ confirm' = [confirm EXCEPT ![c] = p]
                            /\ p.pc = "closing" /\ p.held = R
  <2> DEFINE p == [confirm[c] EXCEPT !.drained = @ \cup {"Sftp"}, !.held = R]
  <2>1. p \in Progress /\ p.pc = "closing" /\ p.held = R
    BY <1>1 DEF Progress, SessionKind
  <2>2. confirm' = [confirm EXCEPT ![c] = p]
    BY <1>1
  <2> QED
    BY <2>1, <2>2
<1>4. /\ confirm' \in [Confirmations -> Progress] /\ Proceeds /\ (ExitSound => ExitSound') /\ Confirming'
      /\ confirm'[c].held = R
      /\ \A d \in Confirmations : d # c => confirm'[d].held = confirm[d].held
  BY <1>1, <1>3, ConfirmMoves
<1>5. TypesOK' /\ InboxOK'
  BY <1>1, <1>4 DEF TypesOK, InboxOK, OutcomeTypeOK, SessionsTypeOK, Progress
<1>6. ASSUME NEW h \in Invocations
      PROVE  Fits(h)'
  <2>1. \A d \in Confirmations : h \in confirm'[d].held => h \in R \/ h \in confirm[d].held
    BY <1>4
  <2>2. (Held(h)' => Held(h)) /\ (h \in registered' => h \in registered /\ h \notin R)
    BY <1>1, <1>2, <2>1 DEF Held
  <2> QED
    BY <1>1, <1>2, <1>4, <2>1, <2>2 DEF Fits, Connected, AtWork, Lives, Authority, Closing,
       Answered, Terminal, Sftp, Proceeds
<1> QED
  BY <1>4, <1>5, <1>6

\* A session that the exit's cleanup lets go of.
LEMMA DroppedFits ==
  ASSUME LifecycleInv, NEW h \in Invocations, Proceeds, Confirming',
         UNCHANGED <<sessions, wanted, outcome, registered, op, closer>>,
         \A d \in Confirmations : h \in confirm'[d].held => h \in confirm[d].held,
         \/ life'[h] = life[h]
         \/ life'[h] = "closed" /\ ~Held(h)' /\ \E d \in Confirmations : h \in confirm[d].held
  PROVE  Fits(h)'
<1>1. Fits(h) /\ (Held(h)' => Held(h))
  BY DEF LifecycleInv, Held
<1>2. CASE life'[h] = life[h]
  BY <1>1, <1>2 DEF Fits, Connected, AtWork, Lives, Authority, Closing, Answered, Terminal, Sftp,
     Proceeds
<1>3. CASE life'[h] = "closed" /\ ~Held(h)' /\ \E d \in Confirmations : h \in confirm[d].held
  <2>1. Sftp(h) /\ Held(h) /\ life[h] \in {"open", "shut"} /\ h \notin registered'
    BY <1>1, <1>3 DEF Fits, AtWork, Lives, Held
  <2>2. ~Terminal(h)
    BY <2>1, LiveHasKind
  <2> QED
    BY <1>1, <1>3, <2>1, <2>2 DEF Fits, Connected, AtWork, Lives, Authority, Closing, Answered,
       Terminal, Sftp, Proceeds
<1> QED
  BY <1>2, <1>3

\* A session it holds is closed, or left to the operation that holds it too.
LEMMA CloseHeldKeeps ==
  ASSUME LifecycleInv, NEW c \in Confirmations, NEW h \in Invocations, CloseHeld(c, h),
         ExitSound
  PROVE  LifecycleInv' /\ (ExitSound => ExitSound')
<1> USE DEF LifecycleInv
<1>1. /\ UNCHANGED <<sessions, wanted, outcome, registered, inbox, op, closer, window, dialog,
                     exit, approved>>
      /\ h \in confirm[c].held /\ confirm[c] \in Progress /\ confirm[c].pc # "idle"
      /\ confirm' = [confirm EXCEPT ![c].held = @ \ {h}]
  BY DEF CloseHeld, outcomeVars, TypesOK, Progress, ExitSound
<1>2. PICK p \in Progress : /\ confirm' = [confirm EXCEPT ![c] = p]
                            /\ p.pc = confirm[c].pc /\ p.held \subseteq confirm[c].held
  <2> DEFINE p == [confirm[c] EXCEPT !.held = @ \ {h}]
  <2>1. p \in Progress /\ p.pc = confirm[c].pc /\ p.held \subseteq confirm[c].held
    BY <1>1 DEF Progress
  <2>2. confirm' = [confirm EXCEPT ![c] = p]
    BY <1>1
  <2> QED
    BY <2>1, <2>2
<1>3. /\ confirm' \in [Confirmations -> Progress] /\ Proceeds /\ (ExitSound => ExitSound') /\ Confirming'
      /\ \A d \in Confirmations : confirm'[d].held \subseteq confirm[d].held
  BY <1>1, <1>2, ConfirmMoves
<1>4. /\ life' \in [Invocations -> Life]
      /\ \A g \in Invocations : \/ life'[g] = life[g]
                                \/ g = h /\ life'[g] = "closed" /\ ~Held(g)'
  <2>1. CASE Held(h)'
    BY <2>1 DEF CloseHeld, TypesOK
  <2>2. CASE ~Held(h)'
    <3>1. life' = [life EXCEPT ![h] = "closed"]
      BY <2>2 DEF CloseHeld
    <3> QED
      BY <2>2, <3>1 DEF TypesOK, Life
  <2> QED
    BY <2>1, <2>2
<1>5. TypesOK' /\ InboxOK'
  BY <1>1, <1>3, <1>4 DEF TypesOK, InboxOK, OutcomeTypeOK, SessionsTypeOK, Progress
<1>6. \A g \in Invocations : Fits(g)'
  BY <1>1, <1>3, <1>4, DroppedFits
<1> QED
  BY <1>3, <1>5, <1>6

\* The deadline drops what the cleanup still holds.
LEMMA CleanupTimesOutKeeps ==
  ASSUME LifecycleInv, NEW c \in Confirmations, CleanupTimesOut(c)
  PROVE  LifecycleInv' /\ (ExitSound => ExitSound')
<1> USE DEF LifecycleInv
<1>1. /\ UNCHANGED <<sessions, wanted, outcome, registered, inbox, op, closer, window, dialog,
                     exit, approved>>
      /\ confirm[c].pc = "closing" /\ confirm[c] \in Progress
      /\ confirm' = [confirm EXCEPT ![c].pc = "clearing", ![c].held = {}, ![c].awaited = {}]
  BY DEF CleanupTimesOut, outcomeVars, TypesOK, Progress
<1>2. PICK p \in Progress : /\ confirm' = [confirm EXCEPT ![c] = p]
                            /\ p.pc = "clearing" /\ p.held = {}
  <2> DEFINE p == [confirm[c] EXCEPT !.pc = "clearing", !.held = {}, !.awaited = {}]
  <2>1. p \in Progress /\ p.pc = "clearing" /\ p.held = {}
    BY <1>1 DEF Progress
  <2>2. confirm' = [confirm EXCEPT ![c] = p]
    BY <1>1
  <2> QED
    BY <2>1, <2>2
<1>3. /\ confirm' \in [Confirmations -> Progress] /\ Proceeds /\ (ExitSound => ExitSound') /\ Confirming'
      /\ \A d \in Confirmations : confirm'[d].held \subseteq confirm[d].held
  BY <1>1, <1>2, ConfirmMoves
<1>4. /\ life' \in [Invocations -> Life]
      /\ \A g \in Invocations : \/ life'[g] = life[g]
                                \/ life'[g] = "closed" /\ ~Held(g)' /\ g \in confirm[c].held
  <2>1. life' = [g \in Invocations |->
                   IF g \in confirm[c].held /\ ~Held(g)' THEN "closed" ELSE life[g]]
    BY DEF CleanupTimesOut
  <2> QED
    BY <2>1 DEF TypesOK, Life
<1>5. TypesOK' /\ InboxOK'
  BY <1>1, <1>3, <1>4 DEF TypesOK, InboxOK, OutcomeTypeOK, SessionsTypeOK, Progress
<1>6. \A g \in Invocations : Fits(g)'
  BY <1>1, <1>3, <1>4, DroppedFits
<1> QED
  BY <1>3, <1>5, <1>6

\* confirm_app_exit steps that touch no session: the cleanup's end and the approval.
LEMMA ConfirmProceedsKeeps ==
  ASSUME LifecycleInv, NEW c \in Confirmations, CleanupEnds(c) \/ Approve(c)
  PROVE  LifecycleInv' /\ (ExitSound => ExitSound')
<1> USE DEF LifecycleInv
<1>1. /\ UNCHANGED <<sessions, wanted, outcome, registered, life, inbox, op, closer, window,
                     dialog>>
      /\ confirm[c] \in Progress /\ exit' \in {"running", "leaving", "exited"}
      /\ approved' \in BOOLEAN
  BY DEF CleanupEnds, Approve, outcomeVars, sessionVars, TypesOK, Progress
<1>2. PICK to \in {"clearing", "done"} :
         /\ confirm' = [confirm EXCEPT ![c].pc = to]
         /\ to = "clearing" => confirm[c].pc = "closing"
  BY DEF CleanupEnds, Approve
<1>3. PICK p \in Progress : /\ confirm' = [confirm EXCEPT ![c] = p]
                            /\ p.pc = to /\ p.held = confirm[c].held
  <2> DEFINE p == [confirm[c] EXCEPT !.pc = to]
  <2>1. p \in Progress /\ p.pc = to /\ p.held = confirm[c].held
    BY <1>1 DEF Progress
  <2>2. confirm' = [confirm EXCEPT ![c] = p]
    BY <1>2
  <2> QED
    BY <2>1, <2>2
<1>4. /\ confirm' \in [Confirmations -> Progress] /\ Proceeds /\ (ExitSound => ExitSound')
      /\ \A d \in Confirmations : confirm'[d].held = confirm[d].held
  BY <1>1, <1>2, <1>3, ConfirmMoves
<1>5. TypesOK' /\ InboxOK'
  BY <1>1, <1>4 DEF TypesOK, InboxOK, OutcomeTypeOK, SessionsTypeOK, Progress
<1>6. \A h \in Invocations : Untouched(h)
  BY <1>1, <1>4 DEF Untouched
<1> QED
  BY <1>4, <1>5, <1>6, UntouchedFits

\* The manager is cleared: nobody has any authority from here.
LEMMA ClearManagerKeeps ==
  ASSUME LifecycleInv, NEW c \in Confirmations, ClearManager(c)
  PROVE  LifecycleInv' /\ (ExitSound => ExitSound')
<1> USE DEF LifecycleInv
<1>1. /\ UNCHANGED <<wanted, registered, life, inbox, op, closer, window, dialog, exit, approved>>
      /\ confirm[c] \in Progress
      /\ confirm' = [confirm EXCEPT ![c].pc = "approving"]
  BY DEF ClearManager, ClearAll, sessionVars, TypesOK, Progress
<1>2. PICK p \in Progress : /\ confirm' = [confirm EXCEPT ![c] = p]
                            /\ p.pc = "approving" /\ p.held = confirm[c].held
  <2> DEFINE p == [confirm[c] EXCEPT !.pc = "approving"]
  <2>1. p \in Progress /\ p.pc = "approving" /\ p.held = confirm[c].held
    BY <1>1 DEF Progress
  <2>2. confirm' = [confirm EXCEPT ![c] = p]
    BY <1>1
  <2> QED
    BY <2>1, <2>2
<1>3. /\ confirm' \in [Confirmations -> Progress] /\ Proceeds /\ (ExitSound => ExitSound') /\ Confirming' /\ Cleared'
      /\ \A d \in Confirmations : confirm'[d].held = confirm[d].held
  BY <1>1, <1>2, ConfirmMoves DEF Cleared
<1>4. /\ outcome' \in [Invocations -> Outcome]
      /\ sessions' \in [Invocations -> Session \cup {None}]
      /\ \A h \in Invocations :
           /\ sessions'[h] = None
           /\ outcome'[h] = IF outcome[h] = "connecting" THEN "ended" ELSE outcome[h]
  BY DEF ClearManager, ClearAll, ClearSessions, TypesOK, OutcomeTypeOK, Outcome
<1>5. TypesOK' /\ InboxOK'
  BY <1>1, <1>3, <1>4 DEF TypesOK, InboxOK, OutcomeTypeOK, SessionsTypeOK, Progress
<1>6. ASSUME NEW h \in Invocations
      PROVE  Fits(h)'
  <2>1. Held(h)' <=> Held(h)
    BY <1>1, <1>3 DEF Held
  <2> QED
    BY <1>1, <1>3, <1>4, <2>1 DEF Fits, Connected, AtWork, Lives, Authority, Closing, Answered,
       Terminal, Sftp, Proceeds
<1> QED
  BY <1>3, <1>5, <1>6

-----------------------------------------------------------------------------
(***************************************************************************)
(* The invariant.                                                          *)
(***************************************************************************)
LEMMA LifecycleInitially == LifecycleInit => LifecycleInv /\ ExitSound
<1> SUFFICES ASSUME LifecycleInit PROVE LifecycleInv /\ ExitSound
  OBVIOUS
<1> USE DEF LifecycleInit, OutcomeInit, SessionsInit
<1>1. TypesOK
  BY DEF TypesOK, OutcomeTypeOK, SessionsTypeOK, Outcome, Life, NotConfirmed
<1>2. InboxOK
  <2>1. <<>> \in Seq({"Write", "Close"}) /\ Len(<<>>) = 0
    OBVIOUS
  <2> QED
    BY <2>1, LifecycleAssumption DEF InboxOK
<1>3. ASSUME NEW h \in Invocations
      PROVE  Fits(h)
  BY DEF Fits, Connected, AtWork, Lives, Authority, Closing, Answered, Held, Terminal, Sftp,
     NotConfirmed
<1>4. ExitSound
  BY DEF ExitSound, NotConfirmed
<1> QED
  BY <1>1, <1>2, <1>3, <1>4 DEF LifecycleInv

\* No step of a command, or of a session and its task, breaks the invariant.
LEMMA SessionsKeep ==
  ASSUME LifecycleInv, NEW h \in Invocations, StartCommand(h) \/ SessionStep(h)
  PROVE  LifecycleInv'
<1>1. CASE StartCommand(h)
  BY <1>1, BeginKeeps, ConnectKeeps, GiveUpKeeps DEF StartCommand
<1>2. CASE Track(h) \/ Insert(h)
  BY <1>2, TrackKeeps, InsertKeeps
<1>3. CASE LoopBreaks(h) \/ Task(h)
  BY <1>3, TakeCommandKeeps, LoopEndsKeeps, UnregisterKeeps, DeauthorizeKeeps, ReleaseKeeps DEF Task
<1>4. CASE Operate(h) \/ Operation(h)
  BY <1>4, OperateKeeps, TakeSessionKeeps, SendWriteKeeps, LockForOperationKeeps,
     OperationEndsKeeps DEF Operation
<1>5. CASE CloseCommand(h) \/ Close(h)
  BY <1>5, CloseCommandKeeps, TakeForCloseKeeps, SendCloseKeeps, CloseCompletesKeeps,
     TerminalCloseReturnsKeeps, LockForCloseKeeps, SftpCloseReturnsKeeps DEF Close
<1> QED
  BY <1>1, <1>2, <1>3, <1>4, <1>5 DEF SessionStep

\* Nor does one of them touch the dialog or the exit.
LEMMA SessionsLeaveExit ==
  ASSUME NEW h \in Invocations, StartCommand(h) \/ SessionStep(h)
  PROVE  UNCHANGED exitVars
  BY DEF StartCommand, SessionStep, Track, Insert, LoopBreaks, Task, TakeCommand, SendersGone,
     Unregister, Deauthorize, Release, Operate, Operation, TakeSession, SendWrite,
     LockForOperation, OperationEnds, CloseCommand, Close, TakeForClose, SendClose,
     CloseCompletes, TerminalCloseReturns, LockForClose, SftpCloseReturns

\* No step of confirm_app_exit breaks it.
LEMMA ConfirmationKeeps ==
  ASSUME LifecycleInv, ExitSound, NEW c \in Confirmations, ConfirmAppExit(c) \/ Confirmation(c)
  PROVE  LifecycleInv' /\ ExitSound'
  BY ConfirmAppExitKeeps, DrainTerminalsKeeps, DrainSftpKeeps, CloseHeldKeeps,
     CleanupTimesOutKeeps, ConfirmProceedsKeeps, ClearManagerKeeps DEF Confirmation

\* No step does.
LEMMA LifecycleStepKeeps ==
  LifecycleInv /\ ExitSound /\ [LifecycleNext]_lifecycleVars => LifecycleInv' /\ ExitSound'
<1> SUFFICES ASSUME LifecycleInv, ExitSound, [LifecycleNext]_lifecycleVars
             PROVE  LifecycleInv' /\ ExitSound'
  OBVIOUS
<1>1. ASSUME NEW h \in Invocations, StartCommand(h) \/ SessionStep(h)
      PROVE  LifecycleInv' /\ ExitSound'
  <2>1. UNCHANGED <<approved, confirm>>
    BY <1>1, SessionsLeaveExit DEF exitVars
  <2>2. ExitSound'
    BY <2>1 DEF ExitSound, Confirming
  <2> QED
    BY <1>1, <2>2, SessionsKeep
<1>2. CASE RequestAppExit \/ CloseRequested \/ ExitRequested \/ CancelAppExit
  <2>1. UNCHANGED <<approved, confirm>>
    BY <1>2 DEF RequestAppExit, CloseRequested, ExitRequested, CancelAppExit
  <2>2. ExitSound'
    BY <2>1 DEF ExitSound, Confirming
  <2> QED
    BY <1>2, <2>2, DialogKeeps
<1>3. ASSUME NEW c \in Confirmations, ConfirmAppExit(c) \/ Confirmation(c)
      PROVE  LifecycleInv' /\ ExitSound'
  BY <1>3, ConfirmationKeeps
<1>4. CASE UNCHANGED lifecycleVars
  <2> USE <1>4 DEF lifecycleVars, outcomeVars, sessionVars, exitVars
  <2>1. TypesOK' /\ InboxOK'
    BY DEF LifecycleInv, TypesOK, InboxOK, OutcomeTypeOK, SessionsTypeOK
  <2>2. \A h \in Invocations : Untouched(h)
    BY DEF Untouched
  <2>3. Proceeds
    BY ConfirmStays
  <2>4. ExitSound'
    BY DEF ExitSound, Confirming
  <2> QED
    BY <2>1, <2>2, <2>3, <2>4, UntouchedFits DEF LifecycleInv
<1> QED
  BY <1>1, <1>2, <1>3, <1>4 DEF LifecycleNext, ExitStep

\* The inductive invariant, which the theorems below follow from.
THEOREM LifecycleInvariant == LifecycleSpec => [](LifecycleInv /\ ExitSound)
<1>1. LifecycleInit => LifecycleInv /\ ExitSound
  BY LifecycleInitially
<1>2. LifecycleInv /\ ExitSound /\ [LifecycleNext]_lifecycleVars => (LifecycleInv /\ ExitSound)'
  BY LifecycleStepKeeps
<1> QED
  BY <1>1, <1>2, PTL DEF LifecycleSpec

\* Type correctness; no command queue outgrows its capacity.
THEOREM LifecycleTypeCorrect == LifecycleSpec => []LifecycleTypeOK
<1>1. LifecycleInv => LifecycleTypeOK
  BY DEF LifecycleInv, TypesOK, InboxOK, LifecycleTypeOK
<1> QED
  BY <1>1, LifecycleInvariant, PTL

\* A session in its manager's map is one its window is authorised for, until the exit
\* clears the manager.
THEOREM MapHasAuthority == LifecycleSpec => []RegisteredIsAuthorized
<1>1. LifecycleInv => RegisteredIsAuthorized
  <2> SUFFICES ASSUME LifecycleInv, ~Cleared, NEW h \in registered
               PROVE  sessions[h] = wanted[h]
    BY DEF RegisteredIsAuthorized
  <2>1. h \in Invocations /\ Fits(h) /\ life[h] # "none"
    BY DEF LifecycleInv, TypesOK, Fits, Lives
  <2> QED
    BY <2>1, LiveHasKind DEF Fits, Authority
<1> QED
  BY <1>1, LifecycleInvariant, PTL

\* A session whose connection is released is in no map, and nobody has authority over it
\* unless the exit is on its way.
THEOREM ReleaseForgets == LifecycleSpec => []ReleasedIsForgotten
<1>1. LifecycleInv => ReleasedIsForgotten
  <2> SUFFICES ASSUME LifecycleInv, NEW h \in Invocations, life[h] = "closed"
               PROVE  h \notin registered /\ (sessions[h] = None \/ Confirming)
    BY DEF ReleasedIsForgotten
  <2>1. Fits(h) /\ h \notin registered
    BY DEF LifecycleInv, Fits, Lives
  <2>2. CASE Terminal(h)
    BY <2>1, <2>2 DEF Fits, Authority
  <2>3. CASE Sftp(h)
    <3>1. closer[h] \notin {"waiting", "locked"}
      BY <2>1, <2>3 DEF Fits, Lives, Held
    <3> QED
      BY <2>1, <2>3, <3>1 DEF Fits, Authority
  <2> QED
    BY <2>1, <2>2, <2>3, LiveHasKind
<1> QED
  BY <1>1, LifecycleInvariant, PTL

\* A close command that has returned success leaves nothing of the session.
THEOREM CloseCloses == LifecycleSpec => []ClosedIsClosed
<1>1. LifecycleInv => ClosedIsClosed
  BY DEF LifecycleInv, Fits, Closing, ClosedIsClosed
<1> QED
  BY <1>1, LifecycleInvariant, PTL

\* Whoever holds a reference to an SFTP session finds its connection there.
THEOREM HoldersFindItAlive == LifecycleSpec => []HeldIsAlive
<1>1. LifecycleInv => HeldIsAlive
  BY DEF LifecycleInv, Fits, Lives, HeldIsAlive
<1> QED
  BY <1>1, LifecycleInvariant, PTL

-----------------------------------------------------------------------------
(***************************************************************************)
(* What a step does to an operation at work.                               *)
(***************************************************************************)
LEMMA StepSparesOperation ==
  ASSUME LifecycleInv, [LifecycleNext]_lifecycleVars, NEW h \in Invocations,
         op[h] = "locked", op'[h] = "locked"
  PROVE  life'[h] = life[h]
<1>1. /\ Sftp(h) /\ ~Terminal(h) /\ closer[h] # "locked" /\ life[h] \in {"open", "shut"}
      /\ life \in [Invocations -> Life] /\ op \in [Invocations -> {"idle", "authorized", "sending",
                                                                   "waiting", "locked"}]
  BY LiveHasKind DEF LifecycleInv, Fits, AtWork, Lives, Held, TypesOK
<1>2. Held(h)'
  BY DEF Held
<1>3. ASSUME NEW g \in Invocations, StartCommand(g)
      PROVE  life'[h] = life[h]
  BY <1>3 DEF StartCommand, sessionVars
<1>4. ASSUME NEW g \in Invocations, Track(g) \/ Insert(g) \/ LoopBreaks(g) \/ Task(g)
      PROVE  life'[h] = life[h]
  BY <1>1, <1>4 DEF Track, Insert, LoopBreaks, Task, TakeCommand, SendersGone, Unregister,
     Deauthorize, Release
<1>5. ASSUME NEW g \in Invocations, Operate(g) \/ Operation(g)
      PROVE  life'[h] = life[h]
  <2>1. CASE OperationEnds(g)
    <3>1. g # h
      BY <1>1, <2>1 DEF OperationEnds
    <3> QED
      BY <1>1, <2>1, <3>1 DEF OperationEnds
  <2> QED
    BY <1>5, <2>1 DEF Operate, Operation, TakeSession, SendWrite, LockForOperation
<1>6. ASSUME NEW g \in Invocations, CloseCommand(g) \/ Close(g)
      PROVE  life'[h] = life[h]
  BY <1>1, <1>6 DEF CloseCommand, Close, TakeForClose, SendClose, CloseCompletes,
     TerminalCloseReturns, LockForClose, SftpCloseReturns
<1>7. CASE RequestAppExit \/ CloseRequested \/ ExitRequested \/ CancelAppExit
  BY <1>7 DEF RequestAppExit, CloseRequested, ExitRequested, CancelAppExit, sessionVars
<1>8. ASSUME NEW c \in Confirmations, ConfirmAppExit(c) \/ Confirmation(c)
      PROVE  life'[h] = life[h]
  <2>1. ASSUME NEW g \in Invocations, CloseHeld(c, g)
        PROVE  life'[h] = life[h]
    <3>1. CASE g = h
      BY <1>2, <2>1, <3>1 DEF CloseHeld
    <3>2. CASE g # h
      BY <1>1, <2>1, <3>2 DEF CloseHeld
    <3> QED
      BY <3>1, <3>2
  <2>2. CASE CleanupTimesOut(c)
    BY <1>2, <2>2 DEF CleanupTimesOut
  <2> QED
    BY <1>8, <2>1, <2>2 DEF ConfirmAppExit, Confirmation, DrainTerminals, DrainSftp, CleanupEnds,
       ClearManager, Approve, sessionVars
<1>9. CASE UNCHANGED lifecycleVars
  BY <1>9 DEF lifecycleVars, sessionVars
<1> QED
  BY <1>3, <1>4, <1>5, <1>6, <1>7, <1>8, <1>9 DEF LifecycleNext, SessionStep, ExitStep

\* No close, and no deadline, ends a session under the operation that has locked it.
THEOREM OperationIsSpared == LifecycleSpec => NotShutUnderOperation
<1>1. LifecycleInv /\ [LifecycleNext]_lifecycleVars =>
        [\A h \in Invocations :
           op[h] = "locked" /\ op'[h] = "locked" => life'[h] = life[h]]_lifecycleVars
  BY StepSparesOperation
<1> QED
  BY <1>1, LifecycleInvariant, PTL DEF LifecycleSpec, NotShutUnderOperation

-----------------------------------------------------------------------------
(***************************************************************************)
(* The promise: every step is one of SessionPromise's, or a stutter.       *)
(***************************************************************************)
LEMMA SessionViews ==
  ASSUME NEW h \in Invocations
  PROVE  /\ SessionOf(h) = "absent" <=> life[h] = "none"
         /\ SessionOf(h) = "gone" <=> life[h] = "closed"
         /\ SessionOf(h) = "live" <=> life[h] \notin {"none", "closed"}
         /\ SessionOf(h)' = "absent" <=> life'[h] = "none"
         /\ SessionOf(h)' = "gone" <=> life'[h] = "closed"
         /\ SessionOf(h)' = "live" <=> life'[h] \notin {"none", "closed"}
         /\ life'[h] = life[h] => SessionOf(h)' = SessionOf(h)
  BY DEF SessionOf

\* How the dialog and the exit look to the user.
LEMMA AppViews ==
  /\ exit = "exited" <=> AppState = "exited"
  /\ exit # "exited" /\ Confirming => AppState = "confirmed"
  /\ exit # "exited" /\ ~Confirming /\ dialog = "open" => AppState = "asking"
  /\ exit # "exited" /\ ~Confirming /\ dialog # "open" => AppState = "running"
  /\ exit' = "exited" <=> AppState' = "exited"
  /\ exit' # "exited" /\ Confirming' => AppState' = "confirmed"
  /\ exit' # "exited" /\ ~Confirming' /\ dialog' = "open" => AppState' = "asking"
  /\ exit' # "exited" /\ ~Confirming' /\ dialog' # "open" => AppState' = "running"
  BY DEF AppState

\* Sessions end, the others and the application stay as they are.
LEMMA SessionsEnd ==
  ASSUME exit # "exited", AppState' = AppState,
         \A h \in Invocations :
            life'[h] = life[h] \/ (life[h] \notin {"none", "closed"} /\ life'[h] # "none")
  PROVE  [Promise!PromiseNext]_(Promise!promiseVars)
<1> DEFINE ended == {h \in Invocations : SessionOf(h)' # SessionOf(h)}
<1>1. \A h \in ended : SessionOf(h) = "live" /\ SessionOf(h)' = "gone"
  BY SessionViews
<1>2. AppState # "exited"
  BY AppViews
<1>3. CASE ended = {}
  BY <1>3 DEF Promise!promiseVars
<1>4. CASE ended # {}
  <2>1. [h \in Invocations |-> SessionOf(h)]' =
          [h \in Invocations |-> IF h \in ended THEN "gone"
                                 ELSE [g \in Invocations |-> SessionOf(g)][h]]
    BY <1>1
  <2>2. Promise!End(ended)
    BY <1>1, <1>2, <2>1 DEF Promise!End
  <2> QED
    BY <1>4, <2>2 DEF Promise!PromiseNext
<1> QED
  BY <1>3, <1>4

\* track_session is what makes a session live.
LEMMA TrackGoesLive ==
  ASSUME LifecycleInv, NEW h \in Invocations, Track(h), exit # "exited"
  PROVE  [Promise!PromiseNext]_(Promise!promiseVars)
<1>1. /\ life[h] = "none" /\ life' = [life EXCEPT ![h] = "tracked"]
      /\ life \in [Invocations -> Life] /\ UNCHANGED <<exit, dialog, confirm>>
  BY DEF Track, exitVars, LifecycleInv, TypesOK
<1>2. AppState' = AppState /\ AppState # "exited"
  BY <1>1, AppViews DEF AppState, Confirming
<1>3. SessionOf(h) = "absent" /\ SessionOf(h)' = "live"
  BY <1>1, SessionViews
<1>4. \A g \in Invocations : g # h => SessionOf(g)' = SessionOf(g)
  BY <1>1, SessionViews
<1>5. [g \in Invocations |-> SessionOf(g)]' =
        [[g \in Invocations |-> SessionOf(g)] EXCEPT ![h] = "live"]
  BY <1>3, <1>4
<1>6. Promise!GoLive(h)
  BY <1>2, <1>3, <1>5 DEF Promise!GoLive
<1> QED
  BY <1>6 DEF Promise!PromiseNext

\* The commands and tasks make a session live, end it, or change nothing the promise is about.
LEMMA SessionsKeepPromise ==
  ASSUME LifecycleInv, NEW h \in Invocations, StartCommand(h) \/ SessionStep(h), exit # "exited"
  PROVE  [Promise!PromiseNext]_(Promise!promiseVars)
<1>1. UNCHANGED <<exit, dialog, confirm>>
  BY SessionsLeaveExit DEF exitVars
<1>2. AppState' = AppState
  BY <1>1 DEF AppState, Confirming
<1>3. life \in [Invocations -> Life]
  BY DEF LifecycleInv, TypesOK
<1>4. CASE StartCommand(h)
  BY <1>2, <1>4, SessionsEnd DEF StartCommand, sessionVars
<1>5. CASE Insert(h) \/ LoopBreaks(h) \/ Task(h)
  BY <1>2, <1>3, <1>5, SessionsEnd DEF Insert, LoopBreaks, Task, TakeCommand, SendersGone,
     Unregister, Deauthorize, Release
<1>6. CASE OperationEnds(h)
  <2>1. life[h] \in {"open", "shut"}
    BY <1>6 DEF OperationEnds, LifecycleInv, Fits, AtWork, Lives, Held
  <2> QED
    BY <1>2, <1>3, <1>6, <2>1, SessionsEnd DEF OperationEnds
<1>7. CASE SftpCloseReturns(h)
  <2>1. life[h] \in {"open", "shut"}
    BY <1>7 DEF SftpCloseReturns, LifecycleInv, Fits, AtWork, Lives, Held
  <2>2. PICK to \in {"shut", "closed"} : life' = [life EXCEPT ![h] = to]
    BY <1>7 DEF SftpCloseReturns
  <2> QED
    BY <1>2, <1>3, <2>1, <2>2, SessionsEnd
<1>8. CASE Operate(h) \/ TakeSession(h) \/ SendWrite(h) \/ LockForOperation(h)
  BY <1>2, <1>8, SessionsEnd DEF Operate, TakeSession, SendWrite, LockForOperation
<1>9. CASE \/ CloseCommand(h) \/ TakeForClose(h) \/ SendClose(h) \/ CloseCompletes(h)
           \/ TerminalCloseReturns(h) \/ LockForClose(h)
  BY <1>2, <1>9, SessionsEnd DEF CloseCommand, TakeForClose, SendClose, CloseCompletes,
     TerminalCloseReturns, LockForClose
<1> QED
  BY <1>4, <1>5, <1>6, <1>7, <1>8, <1>9, TrackGoesLive DEF SessionStep, Operation, Close

\* The dialog opens, is cancelled, or the application exits.
LEMMA DialogKeepsPromise ==
  ASSUME LifecycleInv, ExitSound, exit # "exited",
         RequestAppExit \/ CloseRequested \/ ExitRequested \/ CancelAppExit
  PROVE  [Promise!PromiseNext]_(Promise!promiseVars)
<1>1. UNCHANGED <<life, approved, confirm>>
  BY DEF RequestAppExit, CloseRequested, ExitRequested, CancelAppExit, sessionVars
<1>2. [h \in Invocations |-> SessionOf(h)]' = [h \in Invocations |-> SessionOf(h)]
  BY <1>1, SessionViews
<1>3. Confirming' <=> Confirming
  BY <1>1 DEF Confirming
<1>4. ActiveSessions # {} <=>
        \E h \in Invocations : [g \in Invocations |-> SessionOf(g)][h] = "live"
  BY SessionViews DEF ActiveSessions
<1>5. CASE AppState' = AppState
  BY <1>2, <1>5 DEF Promise!promiseVars
<1>6. CASE exit' = "exited"
  <2>1. ~ExitImpact
    BY <1>6 DEF RequestAppExit, CloseRequested, ExitRequested, CancelAppExit
  <2>2. AppState' = "exited" /\ AppState \in {"running", "asking", "confirmed"}
    BY <1>6, AppViews
  <2>3. approved => AppState = "confirmed"
    BY AppViews DEF ExitSound
  <2>4. Promise!Exit
    BY <1>2, <1>4, <2>1, <2>2, <2>3 DEF Promise!Exit, ExitImpact
  <2> QED
    BY <2>4 DEF Promise!PromiseNext
<1>7. CASE exit' # "exited" /\ Confirming
  BY <1>2, <1>3, <1>7, AppViews DEF Promise!promiseVars
<1>8. CASE exit' # "exited" /\ ~Confirming /\ dialog' = "open" /\ dialog # "open"
  <2>1. ExitImpact
    BY <1>8 DEF RequestAppExit, CloseRequested, ExitRequested, CancelAppExit
  <2>2. AppState = "running" /\ AppState' = "asking"
    BY <1>3, <1>8, AppViews
  <2>3. Promise!Ask
    BY <1>2, <1>4, <2>1, <2>2 DEF Promise!Ask, ExitImpact
  <2> QED
    BY <2>3 DEF Promise!PromiseNext
<1>9. CASE exit' # "exited" /\ ~Confirming /\ dialog' # "open" /\ dialog = "open"
  <2>1. AppState = "asking" /\ AppState' = "running"
    BY <1>3, <1>9, AppViews
  <2>2. Promise!Decline
    BY <1>2, <2>1 DEF Promise!Decline
  <2> QED
    BY <2>2 DEF Promise!PromiseNext
<1> QED
  BY <1>3, <1>5, <1>6, <1>7, <1>8, <1>9, AppViews

\* A confirmation under way stays one.
LEMMA ConfirmationProceeds ==
  ASSUME LifecycleInv, NEW c \in Confirmations, Confirmation(c), Confirming
  PROVE  Confirming'
<1>1. confirm \in [Confirmations -> Progress]
  BY DEF LifecycleInv, TypesOK, Progress
<1>2. PICK d \in Confirmations : confirm[d].pc # "idle"
  BY DEF Confirming
<1>3. confirm'[d].pc # "idle"
  BY <1>1, <1>2 DEF Confirmation, DrainTerminals, DrainSftp, CloseHeld, CleanupEnds,
     CleanupTimesOut, ClearManager, Approve, Progress
<1> QED
  BY <1>3 DEF Confirming

\* The user agrees, and the cleanup ends sessions.
LEMMA ConfirmationKeepsPromise ==
  ASSUME LifecycleInv, ExitSound, exit # "exited", NEW c \in Confirmations,
         ConfirmAppExit(c) \/ Confirmation(c)
  PROVE  [Promise!PromiseNext]_(Promise!promiseVars)
<1>1. CASE ConfirmAppExit(c)
  <2>1. UNCHANGED <<life, exit>> /\ dialog = "open" /\ confirm'[c].pc = "closing"
    BY <1>1 DEF ConfirmAppExit, sessionVars, LifecycleInv, TypesOK
  <2>2. Confirming' /\ AppState' = "confirmed" /\ AppState \in {"asking", "confirmed"}
    BY <2>1, AppViews DEF Confirming
  <2>3. [h \in Invocations |-> SessionOf(h)]' = [h \in Invocations |-> SessionOf(h)]
    BY <2>1, SessionViews
  <2>4. CASE AppState = "asking"
    BY <2>2, <2>3, <2>4 DEF Promise!Confirm, Promise!PromiseNext
  <2> QED
    BY <2>2, <2>3, <2>4 DEF Promise!promiseVars
<1>2. CASE Confirmation(c)
  <2>1. Confirming /\ Confirming' /\ exit' # "exited"
    <3>1. Confirming
      BY <1>2 DEF Confirmation, DrainTerminals, DrainSftp, CloseHeld, CleanupEnds,
         CleanupTimesOut, ClearManager, Approve, Confirming, ExitSound
    <3>2. Confirming'
      BY <1>2, <3>1, ConfirmationProceeds
    <3> QED
      BY <1>2, <3>1, <3>2 DEF Confirmation, DrainTerminals, DrainSftp, CloseHeld, CleanupEnds,
         CleanupTimesOut, ClearManager, Approve
  <2>2. AppState' = AppState
    BY <2>1, AppViews
  <2>3. life \in [Invocations -> Life]
    BY DEF LifecycleInv, TypesOK
  <2>4. ASSUME NEW h \in Invocations, CloseHeld(c, h)
        PROVE  [Promise!PromiseNext]_(Promise!promiseVars)
    <3>1. life[h] \in {"open", "shut"}
      BY <2>4 DEF CloseHeld, LifecycleInv, Fits, AtWork, Lives, Held
    <3> QED
      BY <2>2, <2>3, <2>4, <3>1, SessionsEnd DEF CloseHeld
  <2>5. CASE CleanupTimesOut(c)
    <3>1. \A h \in confirm[c].held : h \in Invocations => life[h] \in {"open", "shut"}
      BY DEF LifecycleInv, Fits, AtWork, Lives, Held
    <3> QED
      BY <2>2, <2>3, <2>5, <3>1, SessionsEnd DEF CleanupTimesOut
  <2>6. CASE DrainTerminals(c) \/ DrainSftp(c) \/ CleanupEnds(c) \/ ClearManager(c) \/ Approve(c)
    BY <2>2, <2>6, SessionsEnd DEF DrainTerminals, DrainSftp, CleanupEnds, ClearManager, Approve,
       sessionVars
  <2> QED
    BY <1>2, <2>4, <2>5, <2>6 DEF Confirmation
<1> QED
  BY <1>1, <1>2

\* The session managers and the exit keep the safety part of SessionPromise: a session lives
\* once, and the application exits on a live one only after its user has agreed.
THEOREM PromiseKept == LifecycleSpec => Promise!PromiseSpec
<1>1. LifecycleInit => Promise!PromiseInit
  <2> SUFFICES ASSUME LifecycleInit PROVE Promise!PromiseInit
    OBVIOUS
  <2>1. \A h \in Invocations : SessionOf(h) = "absent"
    BY SessionViews DEF LifecycleInit
  <2>2. AppState = "running"
    BY AppViews DEF LifecycleInit, Confirming, NotConfirmed
  <2> QED
    BY <2>1, <2>2 DEF Promise!PromiseInit
<1>2. LifecycleInv /\ ExitSound /\ [LifecycleNext]_lifecycleVars =>
        [Promise!PromiseNext]_(Promise!promiseVars)
  <2> SUFFICES ASSUME LifecycleInv, ExitSound, [LifecycleNext]_lifecycleVars
               PROVE  [Promise!PromiseNext]_(Promise!promiseVars)
    OBVIOUS
  <2>1. CASE UNCHANGED lifecycleVars
    <3>1. UNCHANGED <<life, exit, dialog, confirm>>
      BY <2>1 DEF lifecycleVars, sessionVars, exitVars
    <3>2. AppState' = AppState
      BY <3>1 DEF AppState, Confirming
    <3>3. [h \in Invocations |-> SessionOf(h)]' = [h \in Invocations |-> SessionOf(h)]
      BY <3>1, SessionViews
    <3> QED
      BY <3>2, <3>3 DEF Promise!promiseVars
  <2> QED
    BY <2>1, SessionsKeepPromise, DialogKeepsPromise, ConfirmationKeepsPromise
       DEF LifecycleNext, ExitStep, Alive
<1> QED
  BY <1>1, <1>2, LifecycleInvariant, PTL DEF LifecycleSpec, Promise!PromiseSpec
=============================================================================
