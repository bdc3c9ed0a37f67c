------------------------- MODULE ConnectionFlowProofs -------------------------
(***************************************************************************)
(* The properties of HostTrust and of the connection flow that uses it,    *)
(* for any hosts, keys and functions under way.                            *)
(*                                                                         *)
(* The invariant of the flow has two parts.  Shape holds of the code as it *)
(* is: what kind of function awaits what, and that a trust call is the     *)
(* call of a function.  Calm is what holds until the user goes on while an *)
(* answer is awaited that nothing shows (hasty).  Its core is that one     *)
(* answer at most still matters (OneIsFresh): what the window shows then   *)
(* belongs to the function that awaits it (FreshFits), so the answer       *)
(* cannot make the key of another host trusted; every other answer belongs *)
(* to an attempt that was superseded, and is dropped by its generation.    *)
(*                                                                         *)
(* There is one lemma per action.  Each names the step's effect first, and *)
(* then shows Shape and Calm after it.                                     *)
(***************************************************************************)
EXTENDS ConnectionFlow, TLAPS

USE HostTrustAssumption, NoCallAssumption, NoTaskAssumption

-----------------------------------------------------------------------------
(***************************************************************************)
(* HostTrust on its own: a host has one trusted key at most, however many  *)
(* calls of trust_host_fingerprint interleave.  The type invariant and the *)
(* property itself are inductive together: every action but                *)
(* SaveFingerprint leaves the stored keys alone, and that one adds a key   *)
(* only to keys that equal it.                                             *)
(***************************************************************************)
USE DEF CallStage, Call, MovedOn

\* Type correctness: the calls and the tables are of their kinds.
THEOREM HostTrustTypeCorrect == HostTrustSpec => []HostTrustTypeOK
<1>1. HostTrustInit => HostTrustTypeOK
  BY DEF HostTrustInit, HostTrustTypeOK
<1>2. HostTrustTypeOK /\ [HostTrustNext]_hostTrustVars => HostTrustTypeOK'
  <2> SUFFICES ASSUME HostTrustTypeOK, [HostTrustNext]_hostTrustVars
               PROVE  HostTrustTypeOK'
    OBVIOUS
  <2> USE DEF HostTrustTypeOK
  <2>1. ASSUME NEW c \in Calls, NEW host \in Hosts, NEW key \in Keys,
               TrustHostFingerprint(c, host, key)
        PROVE  HostTrustTypeOK'
    BY <2>1 DEF TrustHostFingerprint
  <2>2. ASSUME NEW c \in Calls, CheckStored(c)
        PROVE  HostTrustTypeOK'
    BY <2>2 DEF CheckStored
  <2>3. ASSUME NEW c \in Calls, SaveFingerprint(c)
        PROVE  HostTrustTypeOK'
    <3>1. call[c] \in Call
      BY <2>3 DEF SaveFingerprint
    <3>2. call' \in [Calls -> Call \union {None}]
      BY <2>3, <3>1 DEF SaveFingerprint
    <3>3. stored' \in [Hosts -> SUBSET Keys]
      BY <2>3, <3>1 DEF SaveFingerprint
    <3>4. serverKey' \in [Hosts -> Keys]
      BY <2>3 DEF SaveFingerprint
    <3> QED
      BY <3>2, <3>3, <3>4
  <2>4. ASSUME NEW c \in Calls, QueryFails(c)
        PROVE  HostTrustTypeOK'
    BY <2>4 DEF QueryFails
  <2>5. ASSUME NEW c \in Calls, CallReturns(c)
        PROVE  HostTrustTypeOK'
    BY <2>5 DEF CallReturns
  <2>6. CASE ServerKeyChanges
    BY <2>6 DEF ServerKeyChanges
  <2>7. CASE UNCHANGED hostTrustVars
    BY <2>7 DEF hostTrustVars
  <2> QED
    BY <2>1, <2>2, <2>3, <2>4, <2>5, <2>6, <2>7 DEF HostTrustNext
<1> QED
  BY <1>1, <1>2, PTL DEF HostTrustSpec

\* The only step that writes adds a key to keys that equal it.
LEMMA SavingKeepsOneKey ==
  ASSUME HostTrustTypeOK, NEW c \in Calls, SaveFingerprint(c), OneKeyPerHost
  PROVE  OneKeyPerHost' /\ \A host \in Hosts : stored[host] \subseteq stored'[host]
<1> USE DEF HostTrustTypeOK, OneKeyPerHost, SaveFingerprint
<1>1. call[c] \in Call
  OBVIOUS
<1>2. CASE \E key \in stored[call[c].host] : key # call[c].key
  BY <1>2
<1>3. CASE ~ \E key \in stored[call[c].host] : key # call[c].key
  <2>1. \A key \in stored[call[c].host] : key = call[c].key
    BY <1>3
  <2>2. stored' = [stored EXCEPT ![call[c].host] = @ \union {call[c].key}]
    BY <1>3
  <2>3. \A host \in Hosts :
          stored'[host] = IF host = call[c].host THEN stored[host] \union {call[c].key}
                                                 ELSE stored[host]
    BY <2>2, <1>1
  <2> QED
    BY <2>1, <2>3
<1> QED
  BY <1>2, <1>3

\* No other step writes.
LEMMA OthersDoNotWrite ==
  ASSUME [HostTrustNext]_hostTrustVars, \A c \in Calls : ~SaveFingerprint(c)
  PROVE  UNCHANGED stored
BY DEF HostTrustNext, hostTrustVars, TrustHostFingerprint, CheckStored, QueryFails,
       CallReturns, ServerKeyChanges

\* A host has one trusted key at most.
THEOREM OneKeyAlways == HostTrustSpec => []OneKeyPerHost
<1>1. HostTrustInit => OneKeyPerHost
  <2> SUFFICES ASSUME HostTrustInit, NEW host \in Hosts
               PROVE  \A key, other \in stored[host] : key = other
    BY DEF OneKeyPerHost
  <2>1. stored[host] \in {{}} \union {{key} : key \in Keys}
    BY DEF HostTrustInit
  <2> QED
    BY <2>1
<1>2. OneKeyPerHost /\ HostTrustTypeOK /\ [HostTrustNext]_hostTrustVars => OneKeyPerHost'
  <2> SUFFICES ASSUME OneKeyPerHost, HostTrustTypeOK, [HostTrustNext]_hostTrustVars
               PROVE  OneKeyPerHost'
    OBVIOUS
  <2>1. CASE \E c \in Calls : SaveFingerprint(c)
    BY <2>1, SavingKeepsOneKey
  <2>2. CASE \A c \in Calls : ~SaveFingerprint(c)
    BY <2>2, OthersDoNotWrite DEF OneKeyPerHost
  <2> QED
    BY <2>1, <2>2
<1> QED
  BY <1>1, <1>2, HostTrustTypeCorrect, PTL DEF HostTrustSpec

\* A key that is stored for a host stays stored.
THEOREM StoredAlwaysKept == HostTrustSpec => StoredIsKept
<1>1. OneKeyPerHost /\ HostTrustTypeOK /\ [HostTrustNext]_hostTrustVars
        => [\A host \in Hosts : stored[host] \subseteq stored'[host]]_hostTrustVars
  <2> SUFFICES ASSUME OneKeyPerHost, HostTrustTypeOK, [HostTrustNext]_hostTrustVars
               PROVE  \A host \in Hosts : stored[host] \subseteq stored'[host]
    OBVIOUS
  <2>1. CASE \E c \in Calls : SaveFingerprint(c)
    BY <2>1, SavingKeepsOneKey
  <2>2. CASE \A c \in Calls : ~SaveFingerprint(c)
    BY <2>2, OthersDoNotWrite
  <2> QED
    BY <2>1, <2>2
<1> QED
  BY <1>1, HostTrustTypeCorrect, OneKeyAlways, PTL DEF HostTrustSpec, StoredIsKept

HIDE DEF CallStage, Call, MovedOn

-----------------------------------------------------------------------------
(***************************************************************************)
(* The flow.                                                               *)
(***************************************************************************)
TypesOK ==
    /\ HostTrustTypeOK
    /\ view \in View
    /\ task \in [Calls -> Task \union {None}]
    /\ {owner, session} \subseteq Calls \union {None}
    /\ open \in [Calls -> (Hosts \X Keys) \union {None}]
    /\ closer \in Closer \union {None}
    /\ confirmed \subseteq Hosts \X Keys

Awaited ==
    \A t \in Calls :
        /\ (task[t] # None /\ task[t].at = "trust") <=> call[t] # None
        /\ task[t] # None /\ task[t].at = "opened" => open[t] # None

(***************************************************************************)
(* What kind of function awaits what; a session that the window holds, or  *)
(* closes, has answered; and a trust call is the call of its function.     *)
(***************************************************************************)
KindFits ==
    \A t \in Calls : task[t] # None =>
        /\ task[t].at \in {"probe", "lookup"} => task[t].kind \in {"flow", "probe"}
        /\ task[t].at = "credential" => task[t].kind = "flow"
        /\ task[t].at = "trust" => task[t].kind \in {"confirm", "form", "dialog"}
        /\ task[t].at \in {"start", "opened", "ended"} => task[t].kind \in {"form", "dialog"}
        /\ task[t].at = "saving" => task[t].kind = "dialog"

HeldHasAnswered ==
    \A t \in Calls :
        session = t \/ (closer # None /\ closer.session = t) =>
            task[t] = None \/ task[t].at = "saving"

CallFits ==
    \A t \in Calls : call[t] # None =>
        /\ task[t] # None /\ task[t].at = "trust"
        /\ task[t].host = call[t].host /\ task[t].key = call[t].key

Shape == TypesOK /\ Awaited /\ KindFits /\ HeldHasAnswered /\ CallFits

-----------------------------------------------------------------------------
(***************************************************************************)
(* A function whose answer still matters: its session has not ended before *)
(* the response, nor was its attempt superseded.                           *)
(***************************************************************************)
Fresh(t) ==
    /\ task[t] # None
    /\ task[t].at # "ended"
    /\ task[t].at \in {"start", "opened"} => owner = t

OneIsFresh == \A t, u \in Calls : Fresh(t) /\ Fresh(u) => t = u

DialogHasTab == view.step # None => view.tab

FreshFits ==
    \A t \in Calls : Fresh(t) =>
        /\ closer = None
        /\ task[t].at # "saving" => session = None
        /\ task[t].at \in {"probe", "lookup"} =>
              view.conn = "probing" /\ view.step = None /\ view.host = task[t].host
        /\ task[t].at \in {"start", "opened"} =>
              view.conn = "connecting" /\ view.host = task[t].host
        /\ task[t].at = "trust" =>
              view.host = task[t].host /\ view.hostKey \in {task[t].key, None}
        /\ task[t].at = "saving" => owner = t /\ view.step # None /\ session \in {t, None}
        /\ task[t].kind = "flow" => (view.tab \/ (task[t].at = "credential" /\ owner # t))
        /\ task[t].kind = "confirm" => view.tab /\ view.step # None
        /\ task[t].kind = "form" => view.step = None
        /\ task[t].kind = "dialog" => view.step # None

HeldFits ==
    /\ session # None =>
          /\ closer = None => view.conn = "connected" /\ owner = session
          /\ view.step # None => task[session] # None
    /\ closer # None =>
          /\ session # None /\ closer.session = session /\ closer.owner = session
          /\ view.conn = "closing" /\ owner = None

BusyIsExplained ==
    /\ view.conn = "probing" =>
          \E t \in Calls : task[t] # None /\ task[t].at \in {"probe", "lookup"}
    /\ view.conn = "connecting" =>
          \E t \in Calls : task[t] # None /\ task[t].at \in {"start", "opened"} /\ owner = t
    /\ view.conn = "closing" => closer # None
    /\ view.conn = "connected" => session # None
    /\ view.pending =>
          Dialog \/ \E t \in Calls : task[t] # None /\ task[t].kind \in {"flow", "dialog"}

OpenIsKnown ==
    \A t \in Calls :
        open[t] # None => session = t \/ (task[t] # None /\ task[t].at = "opened")

AllConfirmed ==
    /\ \A host \in Hosts : \A key \in stored[host] : <<host, key>> \in confirmed
    /\ view.hostKey # None /\ (view.known \/ view.trusted) =>
          <<view.host, view.hostKey>> \in confirmed
    /\ \A t \in Calls : open[t] # None => open[t] \in confirmed
    /\ \A t \in Calls :
          task[t] # None /\ task[t].at \in {"trust", "start", "opened"} =>
              <<task[t].host, task[t].key>> \in confirmed

CalmNow ==
    /\ OneIsFresh /\ DialogHasTab /\ FreshFits /\ HeldFits
    /\ BusyIsExplained /\ OpenIsKnown /\ AllConfirmed

Calm == ~hasty => CalmNow

FlowInv == Shape /\ Calm

-----------------------------------------------------------------------------
(***************************************************************************)
(* What a step does to the view and to the functions of the window.        *)
(***************************************************************************)
ViewIs(host, hostKey, known, trusted, conn, step, tab, pending) ==
    /\ view' \in View
    /\ view'.host = host /\ view'.hostKey = hostKey
    /\ view'.known = known /\ view'.trusted = trusted
    /\ view'.conn = conn /\ view'.step = step
    /\ view'.tab = tab /\ view'.pending = pending

TaskIs(t, kind, host, key, at) ==
    /\ task' \in [Calls -> Task \union {None}]
    /\ task'[t] \in Task /\ task'[t] # None
    /\ task'[t].kind = kind /\ task'[t].host = host
    /\ task'[t].key = key /\ task'[t].at = at
    /\ \A u \in Calls : u # t => task'[u] = task[u]

TaskGone(t) ==
    /\ task' \in [Calls -> Task \union {None}]
    /\ task'[t] = None
    /\ \A u \in Calls : u # t => task'[u] = task[u]

LEMMA AwaitIs ==
  ASSUME TypesOK, NEW t \in Calls,
         NEW kind \in {"flow", "probe", "confirm", "form", "dialog"},
         NEW host \in Hosts, NEW key \in Keys \union {None},
         NEW at \in {"probe", "lookup", "credential", "trust", "start", "opened", "ended",
                     "saving"},
         Await(t, kind, host, key, at)
  PROVE  TaskIs(t, kind, host, key, at)
<1>1. [kind |-> kind, host |-> host, key |-> key, known |-> FALSE, at |-> at] \in Task
  BY DEF Task
<1> QED
  BY <1>1 DEF Await, TaskIs, TypesOK

LEMMA LearnIs ==
  ASSUME TypesOK, NEW t \in Calls, task[t] # None,
         NEW key \in Keys \union {None}, NEW known \in BOOLEAN,
         NEW at \in {"probe", "lookup", "credential", "trust", "start", "opened", "ended",
                     "saving"},
         Learn(t, key, known, at)
  PROVE  TaskIs(t, task[t].kind, task[t].host, key, at)
<1>1. task[t] \in Task
  BY DEF TypesOK
<1>2. [kind |-> task[t].kind, host |-> task[t].host, key |-> key, known |-> known,
       at |-> at] \in Task
  BY <1>1 DEF Task
<1> QED
  BY <1>2 DEF Learn, TaskIs, TypesOK

LEMMA MoveOnIs ==
  ASSUME TypesOK, NEW t \in Calls, task[t] # None,
         NEW at \in {"probe", "lookup", "credential", "trust", "start", "opened", "ended",
                     "saving"},
         MoveOn(t, at)
  PROVE  TaskIs(t, task[t].kind, task[t].host, task[t].key, at)
<1>1. task[t] \in Task
  BY DEF TypesOK
<1>2. task[t].key \in Keys \union {None} /\ task[t].known \in BOOLEAN
  BY <1>1 DEF Task
<1> QED
  BY <1>2, LearnIs DEF MoveOn

LEMMA ReturnIs ==
  ASSUME TypesOK, NEW t \in Calls, Return(t)
  PROVE  TaskGone(t)
  BY DEF Return, TaskGone, TypesOK

LEMMA WithoutTrustIs ==
  ASSUME NEW v \in View
  PROVE  /\ WithoutTrust(v) \in View
         /\ WithoutTrust(v).host = v.host /\ WithoutTrust(v).hostKey = None
         /\ WithoutTrust(v).known = FALSE /\ WithoutTrust(v).trusted = FALSE
         /\ WithoutTrust(v).conn = "idle" /\ WithoutTrust(v).step = v.step
         /\ WithoutTrust(v).tab = v.tab /\ WithoutTrust(v).pending = v.pending
  BY DEF WithoutTrust, View, ConnectionState

LEMMA ResetIs ==
  ASSUME NEW v \in View
  PROVE  /\ Reset(v) \in View
         /\ Reset(v).host = v.host /\ Reset(v).hostKey = None
         /\ Reset(v).known = v.known /\ Reset(v).trusted = FALSE
         /\ Reset(v).conn = "idle" /\ Reset(v).step = None
         /\ Reset(v).tab = FALSE /\ Reset(v).pending = FALSE
  BY DEF Reset, View, ConnectionState

-----------------------------------------------------------------------------
\* While nothing is hidden and the window is not busy, nobody's answer matters.
LEMMA NobodyIsFresh ==
  ASSUME FreshFits, ~Hidden, view.conn \notin {"probing", "connecting"}, TypesOK
  PROVE  \A u \in Calls : ~Fresh(u)
<1> SUFFICES ASSUME NEW u \in Calls, Fresh(u)
             PROVE  FALSE
  OBVIOUS
<1>1. task[u] \in Task
  BY DEF Fresh, TypesOK
<1> QED
  BY <1>1 DEF Fresh, FreshFits, Hidden, Task

\* A step of a function, or one that starts it, makes nobody else's answer matter again.
LEMMA OthersStayStale ==
  ASSUME NEW t \in Calls, \A u \in Calls : u # t => ~Fresh(u) /\ task'[u] = task[u],
         owner' \in {owner, t, None}, None \notin Calls
  PROVE  \A u \in Calls : Fresh(u)' => u = t
  BY DEF Fresh

\* The parts of Calm, for a step after which at most t is fresh.
LEMMA OnlyOneIsFresh ==
  ASSUME NEW t \in Calls, \A u \in Calls : Fresh(u)' => u = t
  PROVE  OneIsFresh'
  BY DEF OneIsFresh

\* Where nobody's answer matters, two parts of Calm hold.
LEMMA NobodyLeft ==
  ASSUME \A u \in Calls : ~Fresh(u)'
  PROVE  OneIsFresh' /\ FreshFits'
  BY DEF OneIsFresh, FreshFits

\* Giving up a generation makes no answer matter that did not.
LEMMA FreshWas ==
  ASSUME UNCHANGED task, owner' \in {owner, None}, None \notin Calls
  PROVE  \A u \in Calls : Fresh(u)' => Fresh(u)
  BY DEF Fresh

\* Who can use the form holds no session, and nothing is under way that matters.
LEMMA UsableForm ==
  ASSUME CalmNow, TypesOK, FormIsUsable
  PROVE  /\ view.step = None /\ closer = None /\ session = None /\ ~Dialog
         /\ view.conn \notin {"probing", "connecting", "connected", "closing"}
         /\ ~Hidden => \A u \in Calls : ~Fresh(u)
<1>1. /\ closer = None /\ ~Dialog
      /\ view.conn \notin {"probing", "connecting", "connected", "closing"}
  BY DEF FormIsUsable, Busy
<1>2. view.step = None
  BY <1>1 DEF CalmNow, DialogHasTab, Dialog
<1>3. session = None
  BY <1>1 DEF CalmNow, HeldFits
<1> QED
  BY <1>1, <1>2, <1>3, NobodyIsFresh DEF CalmNow

\* Behind a dialog, too, nobody's answer matters, and no session is held.
LEMMA BehindDialog ==
  ASSUME CalmNow, TypesOK, HeldHasAnswered, Dialog, ~Hidden, view.conn # "connecting"
  PROVE  session = None /\ \A u \in Calls : ~Fresh(u)
<1>1. ASSUME NEW u \in Calls, Fresh(u)
      PROVE  FALSE
  <2>1. task[u] \in Task
    BY <1>1 DEF Fresh, TypesOK
  <2> QED
    BY <1>1, <2>1 DEF CalmNow, Fresh, FreshFits, Hidden, Task, Dialog
<1>2. ASSUME session # None
      PROVE  FALSE
  <2>1. session \in Calls
    BY <1>2 DEF TypesOK
  <2>2. task[session] # None /\ task[session].at = "saving"
    BY <1>2, <2>1 DEF CalmNow, HeldFits, Dialog, HeldHasAnswered
  <2> QED
    BY <2>1, <2>2 DEF Hidden
<1> QED
  BY <1>1, <1>2

\* The one whose answer matters returns: nobody's does any more.
LEMMA FreshReturns ==
  ASSUME CalmNow, NEW t \in Calls, Fresh(t), TaskGone(t), owner' = owner
  PROVE  \A u \in Calls : ~Fresh(u)'
  BY DEF CalmNow, OneIsFresh, Fresh, TaskGone

-----------------------------------------------------------------------------
(***************************************************************************)
(* Launching and editing.                                                  *)
(***************************************************************************)
LEMMA BeginConnectionFlowKeeps ==
  ASSUME FlowInv, NEW t \in Calls, NEW host \in Hosts, BeginConnectionFlow(t, host)
  PROVE  FlowInv'
<1> USE DEF FlowInv, Shape
<1>1. ViewIs(host, None, FALSE, FALSE, "probing", view.step, TRUE, TRUE)
  <2> DEFINE v == WithoutTrust(view)
  <2>1. v \in View /\ v.hostKey = None /\ v.known = FALSE /\ v.trusted = FALSE
        /\ v.step = view.step
    BY WithoutTrustIs DEF TypesOK
  <2>2. view' = [v EXCEPT !.host = host, !.tab = TRUE, !.pending = TRUE,
                          !.conn = "probing"]
    BY DEF BeginConnectionFlow
  <2> HIDE DEF v
  <2> QED
    BY <2>1, <2>2 DEF ViewIs, View, ConnectionState
<1>2. TaskIs(t, "flow", host, None, "probe")
  BY AwaitIs DEF BeginConnectionFlow
<1>3. /\ owner' = t
      /\ UNCHANGED <<stored, serverKey, call, session, open, closer, confirmed>>
      /\ task[t] = None /\ open[t] = None /\ session = None
      /\ view.conn \notin {"probing", "connecting", "connected", "closing"}
      /\ hasty' = (hasty \/ Hidden \/ Dialog)
  BY DEF BeginConnectionFlow, hostTrustVars, connectionLaunchBlocked, Launches, Unused
<1>4. Shape'
  <2>1. TypesOK'
    BY <1>1, <1>2, <1>3 DEF TypesOK, HostTrustTypeOK, ViewIs, TaskIs
  <2>2. Awaited' /\ KindFits' /\ CallFits'
    BY <1>2, <1>3 DEF Awaited, KindFits, CallFits, TaskIs
  <2>3. HeldHasAnswered'
    BY <1>2, <1>3 DEF HeldHasAnswered, TaskIs, BeginConnectionFlow, Unused
  <2> QED
    BY <2>1, <2>2, <2>3
<1>5. ASSUME ~hasty'
      PROVE  CalmNow'
  <2>1. CalmNow /\ ~Hidden /\ ~Dialog /\ closer = None
    BY <1>3, <1>5 DEF Calm, CalmNow, HeldFits
  <2>2. \A u \in Calls : Fresh(u)' => u = t
    BY <1>2, <1>3, <2>1, NobodyIsFresh, OthersStayStale DEF CalmNow, TaskIs
  <2>3. DialogHasTab' /\ OneIsFresh'
    BY <1>1, <2>2, OnlyOneIsFresh DEF DialogHasTab, ViewIs
  <2>4. FreshFits'
    BY <1>1, <1>2, <1>3, <2>1, <2>2
       DEF CalmNow, FreshFits, ViewIs, TaskIs, Dialog, DialogHasTab
  <2>5. HeldFits'
    BY <1>3, <2>1 DEF HeldFits
  <2>6. BusyIsExplained'
    BY <1>1, <1>2, <1>3 DEF BusyIsExplained, ViewIs, TaskIs
  <2>7. OpenIsKnown'
    BY <1>2, <1>3, <2>1 DEF CalmNow, OpenIsKnown, TaskIs
  <2>8. AllConfirmed'
    BY <1>1, <1>2, <1>3, <2>1 DEF CalmNow, AllConfirmed, ViewIs, TaskIs
  <2> QED
    BY <2>3, <2>4, <2>5, <2>6, <2>7, <2>8 DEF CalmNow
<1> QED
  BY <1>4, <1>5 DEF Calm

LEMMA BeginUnsupportedKeeps ==
  ASSUME FlowInv, NEW host \in Hosts, BeginUnsupported(host)
  PROVE  FlowInv'
<1> USE DEF FlowInv, Shape
<1>1. ViewIs(host, None, FALSE, FALSE, "failed", view.step, TRUE, view.pending)
  <2> DEFINE v == WithoutTrust(view)
  <2>1. v \in View /\ v.hostKey = None /\ v.known = FALSE /\ v.trusted = FALSE
        /\ v.step = view.step /\ v.pending = view.pending
    BY WithoutTrustIs DEF TypesOK
  <2>2. view' = [v EXCEPT !.host = host, !.tab = TRUE, !.conn = "failed"]
    BY DEF BeginUnsupported
  <2> HIDE DEF v
  <2> QED
    BY <2>1, <2>2 DEF ViewIs, View, ConnectionState
<1>2. /\ owner' = None
      /\ UNCHANGED <<stored, serverKey, call, task, session, open, closer, confirmed>>
      /\ ~view.pending /\ session = None
      /\ view.conn \notin {"probing", "connecting", "connected", "closing"}
      /\ hasty' = (hasty \/ Hidden \/ Dialog)
  BY DEF BeginUnsupported, hostTrustVars, connectionLaunchBlocked, Launches
<1>3. Shape'
  <2>1. TypesOK'
    BY <1>1, <1>2 DEF TypesOK, HostTrustTypeOK, ViewIs
  <2> QED
    BY <1>2, <2>1 DEF Awaited, KindFits, CallFits, HeldHasAnswered
<1>4. ASSUME ~hasty'
      PROVE  CalmNow'
  <2>1. CalmNow /\ ~Hidden /\ closer = None
    BY <1>2, <1>4 DEF Calm, CalmNow, HeldFits
  <2>2. \A u \in Calls : ~Fresh(u)'
    BY <1>2, <2>1, NobodyIsFresh, FreshWas DEF CalmNow
  <2>3. HeldFits' /\ BusyIsExplained'
    BY <1>1, <1>2, <2>1 DEF HeldFits, BusyIsExplained, ViewIs
  <2>4. OpenIsKnown' /\ AllConfirmed' /\ DialogHasTab'
    BY <1>1, <1>2, <2>1 DEF CalmNow, OpenIsKnown, AllConfirmed, DialogHasTab, ViewIs
  <2> QED
    BY <2>2, <2>3, <2>4, NobodyLeft DEF CalmNow
<1> QED
  BY <1>3, <1>4 DEF Calm

LEMMA ProbeFormKeeps ==
  ASSUME FlowInv, NEW t \in Calls, ProbeForm(t)
  PROVE  FlowInv'
<1> USE DEF FlowInv, Shape
<1>1. ViewIs(view.host, None, FALSE, FALSE, "probing", view.step, view.tab, view.pending)
  <2> DEFINE v == WithoutTrust(view)
  <2>1. v \in View /\ v.hostKey = None /\ v.known = FALSE /\ v.trusted = FALSE
        /\ v.host = view.host /\ v.step = view.step /\ v.tab = view.tab
        /\ v.pending = view.pending
    BY WithoutTrustIs DEF TypesOK
  <2>2. view' = [v EXCEPT !.conn = "probing"]
    BY DEF ProbeForm
  <2> HIDE DEF v
  <2> QED
    BY <2>1, <2>2 DEF ViewIs, View, ConnectionState
<1>2. view.host \in Hosts
  BY DEF TypesOK, View
<1>3. TaskIs(t, "probe", view.host, None, "probe")
  BY <1>2, AwaitIs DEF ProbeForm
<1>4. /\ UNCHANGED <<stored, serverKey, call, owner, session, open, closer, confirmed>>
      /\ task[t] = None /\ open[t] = None /\ FormIsUsable
      /\ hasty' = (hasty \/ Hidden)
  BY DEF ProbeForm, hostTrustVars, connectVars, GoesOn, Unused
<1>5. Shape'
  <2>1. TypesOK'
    BY <1>1, <1>3, <1>4 DEF TypesOK, HostTrustTypeOK, ViewIs, TaskIs
  <2>2. Awaited' /\ KindFits' /\ CallFits'
    BY <1>3, <1>4 DEF Awaited, KindFits, CallFits, TaskIs
  <2>3. HeldHasAnswered'
    BY <1>3, <1>4 DEF HeldHasAnswered, TaskIs, ProbeForm, Unused
  <2> QED
    BY <2>1, <2>2, <2>3
<1>6. ASSUME ~hasty'
      PROVE  CalmNow'
  <2>1. CalmNow /\ ~Hidden
    BY <1>4, <1>6 DEF Calm
  <2>2. /\ view.step = None /\ closer = None /\ session = None /\ ~Dialog
        /\ \A u \in Calls : ~Fresh(u)
    BY <1>4, <2>1, UsableForm
  <2>3. \A u \in Calls : Fresh(u)' => u = t
    BY <1>3, <1>4, <2>2, OthersStayStale DEF TaskIs
  <2>4. FreshFits' /\ DialogHasTab'
    BY <1>1, <1>3, <1>4, <2>2, <2>3 DEF FreshFits, DialogHasTab, ViewIs, TaskIs
  <2>5. HeldFits'
    BY <1>4, <2>2 DEF HeldFits
  <2>6. BusyIsExplained'
    BY <1>1, <1>3, <1>4, <2>1, <2>2 DEF CalmNow, BusyIsExplained, ViewIs, TaskIs
  <2>7. OpenIsKnown'
    BY <1>3, <1>4, <2>1 DEF CalmNow, OpenIsKnown, TaskIs
  <2>8. AllConfirmed'
    BY <1>1, <1>3, <1>4, <2>1 DEF CalmNow, AllConfirmed, ViewIs, TaskIs
  <2> QED
    BY <2>3, <2>4, <2>5, <2>6, <2>7, <2>8, OnlyOneIsFresh DEF CalmNow
<1> QED
  BY <1>5, <1>6 DEF Calm

LEMMA EditHostKeeps ==
  ASSUME FlowInv, NEW host \in Hosts, EditHost(host)
  PROVE  FlowInv'
<1> USE DEF FlowInv, Shape
<1>1. ViewIs(host, None, FALSE, FALSE, "idle", view.step, FALSE, view.pending)
  <2> DEFINE v == WithoutTrust(view)
  <2>1. v \in View /\ v.hostKey = None /\ v.known = FALSE /\ v.trusted = FALSE
        /\ v.conn = "idle" /\ v.step = view.step /\ v.pending = view.pending
    BY WithoutTrustIs DEF TypesOK
  <2>2. view' = [v EXCEPT !.host = host, !.tab = FALSE]
    BY DEF EditHost
  <2> HIDE DEF v
  <2> QED
    BY <2>1, <2>2 DEF ViewIs, View
<1>2. /\ UNCHANGED <<stored, serverKey, call, task, owner, session, open, closer, confirmed>>
      /\ FormIsUsable /\ hasty' = (hasty \/ Hidden)
  BY DEF EditHost, hostTrustVars, connectVars, GoesOn
<1>3. Shape'
  <2>1. TypesOK'
    BY <1>1, <1>2 DEF TypesOK, HostTrustTypeOK, ViewIs
  <2> QED
    BY <1>2, <2>1 DEF Awaited, KindFits, CallFits, HeldHasAnswered
<1>4. ASSUME ~hasty'
      PROVE  CalmNow'
  <2>1. CalmNow /\ ~Hidden
    BY <1>2, <1>4 DEF Calm
  <2>2. /\ view.step = None /\ closer = None /\ session = None /\ ~Dialog
        /\ \A u \in Calls : ~Fresh(u)
    BY <1>2, <2>1, UsableForm
  <2>3. \A u \in Calls : ~Fresh(u)'
    BY <1>2, <2>2, FreshWas
  <2>4. HeldFits' /\ DialogHasTab'
    BY <1>1, <1>2, <2>2 DEF HeldFits, DialogHasTab, ViewIs
  <2>5. BusyIsExplained'
    BY <1>1, <1>2, <2>1, <2>2 DEF CalmNow, BusyIsExplained, ViewIs
  <2>6. OpenIsKnown' /\ AllConfirmed'
    BY <1>1, <1>2, <2>1 DEF CalmNow, OpenIsKnown, AllConfirmed, ViewIs
  <2> QED
    BY <2>3, <2>4, <2>5, <2>6, NobodyLeft DEF CalmNow
<1> QED
  BY <1>3, <1>4 DEF Calm

\* The other fields of the form, and its mode.
LEMMA EditKeeps ==
  ASSUME FlowInv, EditUser \/ ChangeMode
  PROVE  FlowInv'
<1> USE DEF FlowInv, Shape
<1>1. PICK conn \in ConnectionState, tab \in BOOLEAN :
         /\ conn = view.conn \/ conn \in {"ready", "idle"}
         /\ ViewIs(view.host, view.hostKey, view.known, view.trusted, conn, view.step, tab,
                   view.pending)
  <2>1. CASE EditUser
    BY <2>1 DEF EditUser, ViewIs, View, TypesOK
  <2>2. CASE ChangeMode
    BY <2>2 DEF ChangeMode, ViewIs, View, TypesOK, ConnectionState
  <2> QED
    BY <2>1, <2>2
<1>2. /\ UNCHANGED <<stored, serverKey, call, task, owner, session, open, closer, confirmed>>
      /\ FormIsUsable /\ hasty' = (hasty \/ Hidden)
  BY DEF EditUser, ChangeMode, hostTrustVars, connectVars, GoesOn
<1>3. Shape'
  <2>1. TypesOK'
    BY <1>1, <1>2 DEF TypesOK, HostTrustTypeOK, ViewIs
  <2> QED
    BY <1>2, <2>1 DEF Awaited, KindFits, CallFits, HeldHasAnswered
<1>4. ASSUME ~hasty'
      PROVE  CalmNow'
  <2>1. CalmNow /\ ~Hidden
    BY <1>2, <1>4 DEF Calm
  <2>2. /\ view.step = None /\ closer = None /\ session = None /\ ~Dialog
        /\ view.conn \notin {"probing", "connecting", "connected", "closing"}
        /\ \A u \in Calls : ~Fresh(u)
    BY <1>2, <2>1, UsableForm
  <2>3. \A u \in Calls : ~Fresh(u)'
    BY <1>2, <2>2, FreshWas
  <2>4. HeldFits' /\ DialogHasTab'
    BY <1>1, <1>2, <2>2 DEF HeldFits, DialogHasTab, ViewIs
  <2>5. BusyIsExplained'
    BY <1>1, <1>2, <2>1, <2>2 DEF CalmNow, BusyIsExplained, ViewIs
  <2>6. OpenIsKnown' /\ AllConfirmed'
    BY <1>1, <1>2, <2>1 DEF CalmNow, OpenIsKnown, AllConfirmed, ViewIs
  <2> QED
    BY <2>3, <2>4, <2>5, <2>6, NobodyLeft DEF CalmNow
<1> QED
  BY <1>3, <1>4 DEF Calm

LEMMA ToggleTrustKeeps ==
  ASSUME FlowInv, ToggleTrust
  PROVE  FlowInv'
<1> USE DEF FlowInv, Shape
<1>1. ViewIs(view.host, view.hostKey, view.known, ~view.trusted, view.conn, view.step,
             view.tab, view.pending)
  <2>1. view' = [view EXCEPT !.trusted = ~view.trusted] /\ view \in View
    BY DEF ToggleTrust, TypesOK
  <2>2. (~view.trusted) \in BOOLEAN
    OBVIOUS
  <2> QED
    BY <2>1, <2>2 DEF ViewIs, View
<1>2. /\ UNCHANGED <<stored, serverKey, call, task, owner, session, open, closer>>
      /\ FormIsUsable /\ hasty' = (hasty \/ Hidden)
      /\ confirmed \subseteq confirmed'
      /\ view.hostKey # None
      /\ ~view.trusted => <<view.host, view.hostKey>> \in confirmed'
  BY DEF ToggleTrust, hostTrustVars, connectVars, GoesOn
<1>3. Shape'
  <2>1. <<view.host, view.hostKey>> \in Hosts \X Keys
    BY <1>2 DEF TypesOK, View
  <2>2. confirmed' \subseteq Hosts \X Keys
    BY <2>1 DEF ToggleTrust, TypesOK
  <2>3. TypesOK'
    BY <1>1, <1>2, <2>2 DEF TypesOK, HostTrustTypeOK, ViewIs
  <2> QED
    BY <1>2, <2>3 DEF Awaited, KindFits, CallFits, HeldHasAnswered
<1>4. ASSUME ~hasty'
      PROVE  CalmNow'
  <2>1. CalmNow /\ ~Hidden
    BY <1>2, <1>4 DEF Calm
  <2>2. /\ view.step = None /\ closer = None /\ session = None /\ ~Dialog
        /\ \A u \in Calls : ~Fresh(u)
    BY <1>2, <2>1, UsableForm
  <2>3. \A u \in Calls : ~Fresh(u)'
    BY <1>2, <2>2, FreshWas
  <2>4. HeldFits' /\ DialogHasTab'
    BY <1>1, <1>2, <2>2 DEF HeldFits, DialogHasTab, ViewIs
  <2>5. BusyIsExplained'
    BY <1>1, <1>2, <2>1 DEF CalmNow, BusyIsExplained, ViewIs, Dialog
  <2>6. OpenIsKnown'
    BY <1>2, <2>1 DEF CalmNow, OpenIsKnown
  <2>7. AllConfirmed'
    BY <1>1, <1>2, <2>1 DEF CalmNow, AllConfirmed, ViewIs
  <2> QED
    BY <2>3, <2>4, <2>5, <2>6, <2>7, NobodyLeft DEF CalmNow
<1> QED
  BY <1>3, <1>4 DEF Calm

-----------------------------------------------------------------------------
(***************************************************************************)
(* Cancelling and closing.                                                 *)
(***************************************************************************)
LEMMA CancelDirectKeeps ==
  ASSUME FlowInv, CancelDirectConnection
  PROVE  FlowInv'
<1> USE DEF FlowInv, Shape
<1>1. PICK conn \in {"ready", "idle"} :
         ViewIs(view.host, view.hostKey, view.known, view.trusted, conn, view.step,
                view.tab, view.pending)
  BY DEF CancelDirectConnection, ViewIs, View, TypesOK, ConnectionState
<1>2. /\ UNCHANGED <<stored, serverKey, call, task, session, open, closer, confirmed, hasty>>
      /\ owner' = None /\ ~Dialog /\ closer = None /\ session = None
      /\ view.conn = "connecting"
  BY DEF CancelDirectConnection, hostTrustVars, histories
<1>3. Shape'
  <2>1. TypesOK'
    BY <1>1, <1>2 DEF TypesOK, HostTrustTypeOK, ViewIs
  <2> QED
    BY <1>2, <2>1 DEF Awaited, KindFits, CallFits, HeldHasAnswered
<1>4. ASSUME ~hasty'
      PROVE  CalmNow'
  <2>1. CalmNow
    BY <1>2, <1>4 DEF Calm
  <2>2. \A u \in Calls : Fresh(u)' => Fresh(u)
    BY <1>2, FreshWas
  <2>3. OneIsFresh' /\ DialogHasTab'
    BY <1>1, <2>1, <2>2 DEF CalmNow, OneIsFresh, DialogHasTab, ViewIs
  <2>4. FreshFits'
    <3> SUFFICES ASSUME NEW u \in Calls, Fresh(u)'
                 PROVE  FreshFits!(u)'
      BY DEF FreshFits
    <3>1. Fresh(u) /\ task[u].at \notin {"start", "opened", "saving", "probe", "lookup"}
      BY <1>2, <2>1, <2>2 DEF CalmNow, FreshFits, DialogHasTab, Dialog, Fresh
    <3> QED
      BY <1>1, <1>2, <2>1, <3>1 DEF CalmNow, FreshFits, ViewIs
  <2>5. HeldFits' /\ BusyIsExplained'
    BY <1>1, <1>2, <2>1 DEF CalmNow, HeldFits, BusyIsExplained, ViewIs, Dialog
  <2>6. OpenIsKnown' /\ AllConfirmed'
    BY <1>1, <1>2, <2>1 DEF CalmNow, OpenIsKnown, AllConfirmed, ViewIs
  <2> QED
    BY <2>3, <2>4, <2>5, <2>6 DEF CalmNow
<1> QED
  BY <1>3, <1>4 DEF Calm

LEMMA CancelFlowKeeps ==
  ASSUME FlowInv, CancelConnectionFlow
  PROVE  FlowInv'
<1> USE DEF FlowInv, Shape
<1>1. ViewIs(view.host, None, FALSE, FALSE, "idle", None, FALSE, FALSE)
  <2> DEFINE v == WithoutTrust(view)
  <2>1. v \in View /\ v.hostKey = None /\ v.known = FALSE /\ v.trusted = FALSE
        /\ v.conn = "idle" /\ v.host = view.host
    BY WithoutTrustIs DEF TypesOK
  <2>2. view' = [v EXCEPT !.pending = FALSE, !.step = None, !.tab = FALSE]
    BY DEF CancelConnectionFlow
  <2> HIDE DEF v
  <2> QED
    BY <2>1, <2>2 DEF ViewIs, View
<1>2. /\ UNCHANGED <<stored, serverKey, call, task, session, open, closer, confirmed>>
      /\ owner' = None /\ Dialog /\ closer = None
      /\ hasty' = (hasty \/ Hidden)
  BY DEF CancelConnectionFlow, hostTrustVars, GoesOn
<1>3. Shape'
  <2>1. TypesOK'
    BY <1>1, <1>2 DEF TypesOK, HostTrustTypeOK, ViewIs
  <2> QED
    BY <1>2, <2>1 DEF Awaited, KindFits, CallFits, HeldHasAnswered
<1>4. ASSUME ~hasty'
      PROVE  CalmNow'
  <2>1. CalmNow /\ ~Hidden
    BY <1>2, <1>4 DEF Calm
  <2>2. \A u \in Calls : ~Fresh(u)'
    <3> SUFFICES ASSUME NEW u \in Calls, Fresh(u)'
                 PROVE  FALSE
      OBVIOUS
    <3>1. Fresh(u) /\ task[u] \in Task /\ task[u].at \notin {"start", "opened"}
      BY <1>2, FreshWas DEF Fresh, TypesOK
    <3> QED
      BY <1>2, <2>1, <3>1 DEF CalmNow, FreshFits, Dialog, Hidden, Fresh, Task
  <2>3. session = None
    <3> SUFFICES ASSUME session # None
                 PROVE  FALSE
      OBVIOUS
    <3>1. session \in Calls
      BY DEF TypesOK
    <3>2. task[session] # None /\ task[session].at = "saving"
      BY <1>2, <2>1, <3>1 DEF CalmNow, HeldFits, Dialog, HeldHasAnswered
    <3> QED
      BY <2>1, <3>1, <3>2 DEF Hidden
  <2>4. HeldFits' /\ BusyIsExplained' /\ DialogHasTab'
    BY <1>1, <1>2, <2>3 DEF HeldFits, BusyIsExplained, DialogHasTab, ViewIs
  <2>5. OpenIsKnown' /\ AllConfirmed'
    BY <1>1, <1>2, <2>1 DEF CalmNow, OpenIsKnown, AllConfirmed, ViewIs
  <2> QED
    BY <2>2, <2>4, <2>5, NobodyLeft DEF CalmNow
<1> QED
  BY <1>3, <1>4 DEF Calm

LEMMA CloseTabKeeps ==
  ASSUME FlowInv, CloseTab
  PROVE  FlowInv'
<1> USE DEF FlowInv, Shape
<1>1. ViewIs(view.host, None, view.known, FALSE, "idle", None, FALSE, FALSE)
  BY ResetIs DEF CloseTab, ViewIs, TypesOK
<1>2. /\ UNCHANGED <<stored, serverKey, call, task, session, open, closer, confirmed, hasty>>
      /\ owner' = None /\ closer = None /\ session = None /\ view.step = None
      /\ view.conn \notin {"probing", "connecting"}
  BY DEF CloseTab, hostTrustVars, histories, Busy
<1>3. Shape'
  <2>1. TypesOK'
    BY <1>1, <1>2 DEF TypesOK, HostTrustTypeOK, ViewIs
  <2> QED
    BY <1>2, <2>1 DEF Awaited, KindFits, CallFits, HeldHasAnswered
<1>4. ASSUME ~hasty'
      PROVE  CalmNow'
  <2>1. CalmNow
    BY <1>2, <1>4 DEF Calm
  <2>2. \A u \in Calls : Fresh(u)' => Fresh(u)
    BY <1>2, FreshWas
  <2>3. OneIsFresh' /\ DialogHasTab'
    BY <1>1, <2>1, <2>2 DEF CalmNow, OneIsFresh, DialogHasTab, ViewIs
  <2>4. FreshFits'
    <3> SUFFICES ASSUME NEW u \in Calls, Fresh(u)'
                 PROVE  FreshFits!(u)'
      BY DEF FreshFits
    <3>1. /\ Fresh(u) /\ task[u] \in Task
          /\ task[u].at \in {"credential", "trust"} /\ task[u].kind # "confirm"
      BY <1>2, <2>1, <2>2 DEF CalmNow, FreshFits, Fresh, TypesOK, Task
    <3>2. task[u].kind = "flow" => task[u].at = "credential"
      BY <3>1 DEF KindFits, Fresh
    <3> QED
      BY <1>1, <1>2, <2>1, <3>1, <3>2 DEF CalmNow, FreshFits, ViewIs
  <2>5. HeldFits' /\ BusyIsExplained'
    BY <1>1, <1>2 DEF HeldFits, BusyIsExplained, ViewIs
  <2>6. OpenIsKnown' /\ AllConfirmed'
    BY <1>1, <1>2, <2>1 DEF CalmNow, OpenIsKnown, AllConfirmed, ViewIs
  <2> QED
    BY <2>3, <2>4, <2>5, <2>6 DEF CalmNow
<1> QED
  BY <1>3, <1>4 DEF Calm

LEMMA ConfirmCloseKeeps ==
  ASSUME FlowInv, ConfirmSessionClose
  PROVE  FlowInv'
<1> USE DEF FlowInv, Shape
<1>1. ViewIs(view.host, view.hostKey, view.known, view.trusted, "closing", view.step,
             view.tab, view.pending)
  BY DEF ConfirmSessionClose, ViewIs, View, TypesOK, ConnectionState
<1>2. /\ UNCHANGED <<stored, serverKey, call, task, session, open, confirmed, hasty>>
      /\ owner' = None /\ ~Dialog /\ closer = None /\ session # None /\ session \in Calls
  BY DEF ConfirmSessionClose, hostTrustVars, histories, TypesOK
<1>3. closer' \in Closer /\ closer' # None /\ closer'.owner = owner /\ closer'.session = session
  <2>1. closer' = [owner |-> owner, session |-> session] /\ owner \in Calls \union {None}
    BY DEF ConfirmSessionClose, TypesOK
  <2> QED
    BY <1>2, <2>1 DEF Closer
<1>4. Shape'
  <2>1. TypesOK'
    BY <1>1, <1>2, <1>3 DEF TypesOK, HostTrustTypeOK, ViewIs
  <2>2. HeldHasAnswered'
    BY <1>2, <1>3 DEF HeldHasAnswered
  <2> QED
    BY <1>2, <2>1, <2>2 DEF Awaited, KindFits, CallFits
<1>5. ASSUME ~hasty'
      PROVE  CalmNow'
  <2>1. CalmNow
    BY <1>2, <1>5 DEF Calm
  <2>2. view.conn = "connected" /\ owner = session
    BY <1>2, <2>1 DEF CalmNow, HeldFits
  <2>3. \A u \in Calls : ~Fresh(u)
    BY <1>2, <2>1 DEF CalmNow, FreshFits, DialogHasTab, Dialog
  <2>4. \A u \in Calls : ~Fresh(u)'
    BY <1>2, <2>3, FreshWas
  <2>5. HeldFits' /\ DialogHasTab'
    BY <1>1, <1>2, <1>3, <2>1, <2>2 DEF CalmNow, HeldFits, DialogHasTab, ViewIs
  <2>6. BusyIsExplained'
    BY <1>1, <1>2, <1>3, <2>1 DEF CalmNow, BusyIsExplained, ViewIs, Dialog
  <2>7. OpenIsKnown' /\ AllConfirmed'
    BY <1>1, <1>2, <2>1 DEF CalmNow, OpenIsKnown, AllConfirmed, ViewIs
  <2> QED
    BY <2>4, <2>5, <2>6, <2>7, NobodyLeft DEF CalmNow
<1> QED
  BY <1>4, <1>5 DEF Calm

LEMMA CloseSucceedsKeeps ==
  ASSUME FlowInv, CloseSucceeds
  PROVE  FlowInv'
<1> USE DEF FlowInv, Shape
<1>1. ViewIs(view.host, None, view.known, FALSE, "idle", None, FALSE, FALSE)
  BY ResetIs DEF CloseSucceeds, ViewIs, TypesOK
<1>2. /\ UNCHANGED <<stored, serverKey, call, task, confirmed, hasty>>
      /\ owner' = None /\ session' = None /\ closer' = None
      /\ closer # None /\ closer.session \in Calls
  BY DEF CloseSucceeds, hostTrustVars, histories, TypesOK, Closer
<1>3. /\ open' \in [Calls -> (Hosts \X Keys) \union {None}]
      /\ open'[closer.session] = None
      /\ \A u \in Calls : u # closer.session => open'[u] = open[u]
  BY <1>2 DEF CloseSucceeds, Ended, TypesOK
<1>4. Shape'
  <2>1. TypesOK'
    BY <1>1, <1>2, <1>3 DEF TypesOK, HostTrustTypeOK, ViewIs
  <2>2. Awaited'
    BY <1>2, <1>3 DEF Awaited, HeldHasAnswered
  <2> QED
    BY <1>2, <2>1, <2>2 DEF KindFits, CallFits, HeldHasAnswered
<1>5. ASSUME ~hasty'
      PROVE  CalmNow'
  <2>1. CalmNow /\ closer.session = session
    BY <1>2, <1>5 DEF Calm, CalmNow, HeldFits
  <2>2. \A u \in Calls : ~Fresh(u)'
    BY <1>2, <2>1, FreshWas DEF CalmNow, FreshFits
  <2>3. HeldFits' /\ BusyIsExplained' /\ DialogHasTab'
    BY <1>1, <1>2 DEF HeldFits, BusyIsExplained, DialogHasTab, ViewIs
  <2>4. OpenIsKnown' /\ AllConfirmed'
    BY <1>1, <1>2, <1>3, <2>1 DEF CalmNow, OpenIsKnown, AllConfirmed, ViewIs
  <2> QED
    BY <2>2, <2>3, <2>4, NobodyLeft DEF CalmNow
<1> QED
  BY <1>4, <1>5 DEF Calm

LEMMA CloseFailsKeeps ==
  ASSUME FlowInv, CloseFails
  PROVE  FlowInv'
<1> USE DEF FlowInv, Shape
<1>1. PICK conn \in {"connected", "disconnected"} :
         /\ conn = "connected" <=> session # None
         /\ ViewIs(view.host, view.hostKey, view.known, view.trusted, conn, view.step,
                   view.tab, view.pending)
  BY DEF CloseFails, ViewIs, View, TypesOK, ConnectionState
<1>2. /\ UNCHANGED <<stored, serverKey, call, task, session, open, confirmed, hasty>>
      /\ owner' = closer.owner /\ closer' = None /\ closer # None
      /\ closer.owner \in Calls \union {None}
  BY DEF CloseFails, hostTrustVars, histories, TypesOK, Closer
<1>3. Shape'
  <2>1. TypesOK'
    BY <1>1, <1>2 DEF TypesOK, HostTrustTypeOK, ViewIs
  <2> QED
    BY <1>2, <2>1 DEF Awaited, KindFits, CallFits, HeldHasAnswered
<1>4. ASSUME ~hasty'
      PROVE  CalmNow'
  <2>1. CalmNow
    BY <1>2, <1>4 DEF Calm
  <2>2. session # None /\ session \in Calls /\ closer.owner = session
    BY <1>2, <2>1 DEF CalmNow, HeldFits, TypesOK
  <2>3. \A u \in Calls : ~Fresh(u)
    BY <1>2, <2>1 DEF CalmNow, FreshFits
  <2>4. \A u \in Calls : ~Fresh(u)'
    BY <1>2, <2>2, <2>3 DEF Fresh, HeldHasAnswered
  <2>5. HeldFits' /\ DialogHasTab'
    BY <1>1, <1>2, <2>1, <2>2 DEF CalmNow, HeldFits, DialogHasTab, ViewIs
  <2>6. BusyIsExplained'
    BY <1>1, <1>2, <2>1, <2>2 DEF CalmNow, BusyIsExplained, ViewIs, Dialog
  <2>7. OpenIsKnown' /\ AllConfirmed'
    BY <1>1, <1>2, <2>1 DEF CalmNow, OpenIsKnown, AllConfirmed, ViewIs
  <2> QED
    BY <2>4, <2>5, <2>6, <2>7, NobodyLeft DEF CalmNow
<1> QED
  BY <1>3, <1>4 DEF Calm

\* Only what the servers present changes.
LEMMA HostKeyChangesKeeps ==
  ASSUME FlowInv, HostKeyChanges
  PROVE  FlowInv'
<1> USE DEF FlowInv, Shape
<1>1. /\ UNCHANGED <<stored, call, view, task, owner, session, open, closer, confirmed, hasty>>
      /\ serverKey' \in [Hosts -> Keys]
  BY DEF HostKeyChanges, ServerKeyChanges, connectVars, histories, TypesOK, HostTrustTypeOK
<1>2. TypesOK'
  BY <1>1 DEF TypesOK, HostTrustTypeOK
<1>3. \A u \in Calls : Fresh(u)' <=> Fresh(u)
  BY <1>1 DEF Fresh
<1>4. CalmNow' <=> CalmNow
  BY <1>1, <1>3 DEF CalmNow, OneIsFresh, DialogHasTab, FreshFits, HeldFits,
                    BusyIsExplained, Dialog, OpenIsKnown, AllConfirmed
<1> QED
  BY <1>1, <1>2, <1>4 DEF Calm, Awaited, KindFits, CallFits, HeldHasAnswered

-----------------------------------------------------------------------------
(***************************************************************************)
(* The answers of probe, lookup and vault.                                 *)
(***************************************************************************)
LEMMA ProbeFailsKeeps ==
  ASSUME FlowInv, NEW t \in Calls, ProbeFails(t)
  PROVE  FlowInv'
<1> USE DEF FlowInv, Shape
<1>1. PICK pending \in BOOLEAN :
         /\ pending => view.pending /\ task[t].kind # "flow"
         /\ ViewIs(view.host, view.hostKey, view.known, view.trusted, "failed", view.step,
                   view.tab, pending)
  <2>1. CASE task[t].kind = "flow"
    BY <2>1 DEF ProbeFails, ViewIs, View, TypesOK, ConnectionState
  <2>2. CASE task[t].kind # "flow"
    BY <2>2 DEF ProbeFails, ViewIs, View, TypesOK, ConnectionState
  <2> QED
    BY <2>1, <2>2
<1>2. TaskGone(t)
  BY ReturnIs DEF ProbeFails
<1>3. /\ UNCHANGED <<stored, serverKey, call, owner, session, open, closer, confirmed, hasty>>
      /\ task[t] # None /\ task[t].at \in {"probe", "lookup"}
  BY DEF ProbeFails, hostTrustVars, connectVars, histories, Awaits
<1>4. Shape'
  <2>1. TypesOK'
    BY <1>1, <1>2, <1>3 DEF TypesOK, HostTrustTypeOK, ViewIs, TaskGone
  <2> QED
    BY <1>2, <1>3, <2>1 DEF Awaited, KindFits, CallFits, HeldHasAnswered, TaskGone
<1>5. ASSUME ~hasty'
      PROVE  CalmNow'
  <2>1. CalmNow /\ Fresh(t)
    BY <1>3, <1>5 DEF Calm, Fresh
  <2>2. session = None /\ closer = None
    BY <1>3, <2>1 DEF CalmNow, FreshFits
  <2>3. \A u \in Calls : ~Fresh(u)'
    BY <1>2, <1>3, <2>1, FreshReturns
  <2>4. HeldFits' /\ DialogHasTab'
    BY <1>1, <1>3, <2>1, <2>2 DEF CalmNow, HeldFits, DialogHasTab, ViewIs
  <2>5. BusyIsExplained'
    BY <1>1, <1>2, <1>3, <2>1 DEF CalmNow, BusyIsExplained, ViewIs, TaskGone, Dialog, KindFits
  <2>6. OpenIsKnown' /\ AllConfirmed'
    BY <1>1, <1>2, <1>3, <2>1 DEF CalmNow, OpenIsKnown, AllConfirmed, ViewIs, TaskGone
  <2> QED
    BY <2>3, <2>4, <2>5, <2>6, NobodyLeft DEF CalmNow
<1> QED
  BY <1>4, <1>5 DEF Calm

LEMMA ProbeSucceedsKeeps ==
  ASSUME FlowInv, NEW t \in Calls, ProbeSucceeds(t)
  PROVE  FlowInv'
<1> USE DEF FlowInv, Shape
<1>1. /\ UNCHANGED <<stored, serverKey, call, view, owner, session, open, closer, confirmed, hasty>>
      /\ task[t] # None /\ task[t] \in Task
      /\ task[t].at = "probe" /\ task[t].kind \in {"flow", "probe"}
  BY DEF ProbeSucceeds, hostTrustVars, connectVars, histories, Awaits, TypesOK
<1>2. TaskIs(t, task[t].kind, task[t].host, serverKey[task[t].host], "lookup")
  <2>1. serverKey[task[t].host] \in Keys
    BY <1>1 DEF TypesOK, HostTrustTypeOK, Task
  <2> QED
    BY <1>1, <2>1, LearnIs DEF ProbeSucceeds
<1>3. Shape'
  <2>1. TypesOK'
    BY <1>1, <1>2 DEF TypesOK, HostTrustTypeOK, TaskIs
  <2> QED
    BY <1>1, <1>2, <2>1 DEF Awaited, KindFits, CallFits, HeldHasAnswered, TaskIs
<1>4. ASSUME ~hasty'
      PROVE  CalmNow'
  <2>1. CalmNow /\ Fresh(t)
    BY <1>1, <1>4 DEF Calm, Fresh
  <2>2. \A u \in Calls : Fresh(u)' => u = t
    BY <1>1, <1>2, <2>1 DEF CalmNow, OneIsFresh, Fresh, TaskIs
  <2>3. OneIsFresh' /\ DialogHasTab'
    BY <1>1, <2>1, <2>2, OnlyOneIsFresh DEF CalmNow, DialogHasTab
  <2>4. FreshFits'
    BY <1>1, <1>2, <2>1, <2>2 DEF CalmNow, FreshFits, TaskIs
  <2>5. HeldFits'
    BY <1>1, <2>1 DEF CalmNow, FreshFits, HeldFits
  <2>6. OpenIsKnown' /\ AllConfirmed'
    BY <1>1, <1>2, <2>1 DEF CalmNow, OpenIsKnown, AllConfirmed, TaskIs
  <2>7. BusyIsExplained'
    BY <1>1, <1>2, <2>1 DEF CalmNow, BusyIsExplained, TaskIs, Dialog
  <2> QED
    BY <2>3, <2>4, <2>5, <2>6, <2>7 DEF CalmNow
<1> QED
  BY <1>3, <1>4 DEF Calm

LEMMA LookupAnswersKeeps ==
  ASSUME FlowInv, NEW t \in Calls, LookupAnswers(t)
  PROVE  FlowInv'
<1> USE DEF FlowInv, Shape
<1> DEFINE known == KnownHost(task[t].host, task[t].key)
<1>1. /\ UNCHANGED <<stored, serverKey, call, owner, session, open, closer, confirmed, hasty>>
      /\ task[t] # None /\ task[t] \in Task
      /\ task[t].at = "lookup" /\ task[t].kind \in {"flow", "probe"}
      /\ known \in BOOLEAN
  BY DEF LookupAnswers, hostTrustVars, connectVars, histories, Awaits, TypesOK, KnownHost
<1>2. known => task[t].key \in stored[task[t].host]
  BY DEF KnownHost
<1> HIDE DEF known
<1>3. PICK step \in {None, "fingerprint", "password"}, pending \in BOOLEAN :
         /\ ViewIs(view.host, task[t].key, known, known, "ready", step, view.tab, pending)
         /\ \/ TaskGone(t) /\ step = view.step /\ pending = view.pending /\ task[t].kind = "probe"
            \/ TaskGone(t) /\ step = view.step /\ ~pending
            \/ TaskGone(t) /\ step # None /\ task[t].kind = "flow" /\ owner = t
            \/ /\ TaskIs(t, "flow", task[t].host, task[t].key, "credential")
               /\ step = view.step /\ pending = view.pending
  <2> DEFINE shown == [view EXCEPT !.hostKey = task[t].key, !.known = known,
                                   !.trusted = known, !.conn = "ready"]
             step == IF known THEN "password" ELSE "fingerprint"
  <2>1. shown \in View
    BY <1>1 DEF TypesOK, View, ConnectionState, Task
  <2>2. /\ shown.host = view.host /\ shown.hostKey = task[t].key
        /\ shown.known = known /\ shown.trusted = known /\ shown.conn = "ready"
        /\ shown.step = view.step /\ shown.tab = view.tab /\ shown.pending = view.pending
    BY DEF TypesOK, View
  <2>3. \/ task[t].kind = "probe" /\ view' = shown /\ Return(t)
        \/ task[t].kind = "flow" /\ view' = [shown EXCEPT !.pending = FALSE] /\ Return(t)
        \/ /\ task[t].kind = "flow" /\ owner = t
           /\ view' = [shown EXCEPT !.step = step] /\ Return(t)
        \/ /\ task[t].kind = "flow" /\ view' = shown
           /\ Learn(t, task[t].key, known, "credential")
    BY DEF LookupAnswers, known
  <2>4. step \in {"fingerprint", "password"} /\ step # None
    OBVIOUS
  <2> HIDE DEF shown, step
  <2>5. CASE task[t].kind = "probe" /\ view' = shown /\ Return(t)
    BY <2>1, <2>2, <2>5, ReturnIs DEF ViewIs, View
  <2>6. CASE task[t].kind = "flow" /\ view' = [shown EXCEPT !.pending = FALSE] /\ Return(t)
    BY <2>1, <2>2, <2>6, ReturnIs DEF ViewIs, View
  <2>7. CASE /\ task[t].kind = "flow" /\ owner = t
             /\ view' = [shown EXCEPT !.step = step] /\ Return(t)
    BY <2>1, <2>2, <2>4, <2>7, ReturnIs DEF ViewIs, View
  <2>8. CASE /\ task[t].kind = "flow" /\ view' = shown
             /\ Learn(t, task[t].key, known, "credential")
    <3>1. TaskIs(t, "flow", task[t].host, task[t].key, "credential")
      BY <1>1, <2>8, LearnIs DEF Task
    <3> QED
      BY <2>1, <2>2, <2>8, <3>1 DEF ViewIs, View
  <2> QED
    BY <2>3, <2>5, <2>6, <2>7, <2>8
<1>4. /\ task' \in [Calls -> Task \union {None}]
      /\ \A u \in Calls : u # t => task'[u] = task[u]
      /\ \/ task'[t] = None
         \/ /\ task'[t] # None /\ task'[t].at = "credential" /\ task'[t].kind = "flow"
            /\ task[t].kind = "flow"
  <2>1. TaskIs(t, "flow", task[t].host, task[t].key, "credential") => task[t].kind = "flow"
    BY <1>1 DEF TaskIs, LookupAnswers, Learn, Return, TypesOK
  <2> QED
    BY <1>3, <2>1 DEF TaskGone, TaskIs
<1>5. Shape'
  <2>1. TypesOK'
    BY <1>1, <1>3, <1>4 DEF TypesOK, HostTrustTypeOK, ViewIs
  <2>2. HeldHasAnswered'
    BY <1>1, <1>4 DEF HeldHasAnswered
  <2> QED
    BY <1>1, <1>4, <2>1, <2>2 DEF Awaited, KindFits, CallFits
<1>6. ASSUME ~hasty'
      PROVE  CalmNow'
  <2>1. CalmNow /\ Fresh(t)
    BY <1>1, <1>6 DEF Calm, Fresh
  <2>2. /\ session = None /\ closer = None /\ view.step = None /\ view.host = task[t].host
        /\ task[t].kind = "flow" => view.tab
    BY <1>1, <2>1 DEF CalmNow, FreshFits
  <2>3. \A u \in Calls : Fresh(u)' => u = t
    BY <1>1, <1>4, <2>1 DEF CalmNow, OneIsFresh, Fresh
  <2>4. FreshFits'
    BY <1>1, <1>3, <1>4, <2>2, <2>3 DEF FreshFits, ViewIs, Fresh
  <2>5. HeldFits' /\ DialogHasTab'
    BY <1>1, <1>3, <2>2 DEF HeldFits, DialogHasTab, ViewIs
  <2>6. BusyIsExplained'
    <3>1. view'.conn = "ready"
      BY <1>3 DEF ViewIs
    <3>2. view'.pending => Dialog' \/ \E u \in Calls : task'[u] # None /\ task'[u].kind \in {"flow", "dialog"}
      BY <1>1, <1>3, <1>4, <2>1, <2>2 DEF CalmNow, BusyIsExplained, ViewIs, TaskIs, Dialog
    <3> QED
      BY <3>1, <3>2 DEF BusyIsExplained
  <2>7. OpenIsKnown'
    BY <1>1, <1>4, <2>1 DEF CalmNow, OpenIsKnown
  <2>8. AllConfirmed'
    <3>1. known => <<task[t].host, task[t].key>> \in confirmed
      BY <1>1, <1>2, <2>1 DEF CalmNow, AllConfirmed, Task
    <3> QED
      BY <1>1, <1>3, <1>4, <2>1, <2>2, <3>1 DEF CalmNow, AllConfirmed, ViewIs
  <2> QED
    BY <2>3, <2>4, <2>5, <2>6, <2>7, <2>8, OnlyOneIsFresh DEF CalmNow
<1> QED
  BY <1>5, <1>6 DEF Calm

LEMMA CredentialAnswersKeeps ==
  ASSUME FlowInv, NEW t \in Calls, CredentialAnswers(t)
  PROVE  FlowInv'
<1> USE DEF FlowInv, Shape
<1>1. /\ UNCHANGED <<stored, serverKey, call, owner, session, open, closer, confirmed, hasty>>
      /\ task[t] # None /\ task[t].at = "credential" /\ task[t].kind = "flow"
      /\ TaskGone(t)
  BY ReturnIs DEF CredentialAnswers, hostTrustVars, connectVars, histories, Awaits
<1>2. PICK step \in {None, "fingerprint", "password"}, pending \in BOOLEAN :
         /\ ViewIs(view.host, view.hostKey, view.known, view.trusted, view.conn, step,
                   view.tab, pending)
         /\ \/ owner = t /\ step # None /\ pending = view.pending
            \/ step = view.step /\ ~pending
  <2> DEFINE step == IF task[t].known THEN "password" ELSE "fingerprint"
  <2>1. step \in {"fingerprint", "password"} /\ step # None
    OBVIOUS
  <2>2. CASE owner = t
    <3>1. view' = [view EXCEPT !.step = step] /\ view \in View
      BY <2>2 DEF CredentialAnswers, TypesOK
    <3> HIDE DEF step
    <3> QED
      BY <2>1, <2>2, <3>1 DEF ViewIs, View
  <2>3. CASE owner # t
    BY <2>3 DEF CredentialAnswers, ViewIs, View, TypesOK
  <2> QED
    BY <2>2, <2>3
<1>3. Shape'
  <2>1. TypesOK'
    BY <1>1, <1>2 DEF TypesOK, HostTrustTypeOK, ViewIs, TaskGone
  <2> QED
    BY <1>1, <2>1 DEF Awaited, KindFits, CallFits, HeldHasAnswered, TaskGone
<1>4. ASSUME ~hasty'
      PROVE  CalmNow'
  <2>1. CalmNow /\ Fresh(t)
    BY <1>1, <1>4 DEF Calm, Fresh
  <2>2. session = None /\ closer = None /\ (owner = t => view.tab)
    BY <1>1, <2>1 DEF CalmNow, FreshFits
  <2>3. \A u \in Calls : ~Fresh(u)'
    BY <1>1, <2>1, FreshReturns
  <2>4. HeldFits' /\ DialogHasTab'
    BY <1>1, <1>2, <2>1, <2>2 DEF CalmNow, HeldFits, DialogHasTab, ViewIs
  <2>5. BusyIsExplained'
    BY <1>1, <1>2, <2>1, <2>2 DEF CalmNow, BusyIsExplained, ViewIs, TaskGone, Dialog
  <2>6. OpenIsKnown' /\ AllConfirmed'
    BY <1>1, <1>2, <2>1 DEF CalmNow, OpenIsKnown, AllConfirmed, ViewIs, TaskGone
  <2> QED
    BY <2>3, <2>4, <2>5, <2>6, NobodyLeft DEF CalmNow
<1> QED
  BY <1>3, <1>4 DEF Calm

-----------------------------------------------------------------------------
(***************************************************************************)
(* Confirming a fingerprint.                                               *)
(***************************************************************************)
LEMMA ConfirmKnownKeeps ==
  ASSUME FlowInv, NEW t \in Calls, ConfirmConnectionFingerprint(t), view.known
  PROVE  FlowInv'
<1> USE DEF FlowInv, Shape
<1>1. ViewIs(view.host, view.hostKey, view.known, view.trusted, view.conn, "password",
             view.tab, view.pending)
  BY ZenonT(40) DEF ConfirmConnectionFingerprint, ViewIs, View, TypesOK
<1>2. /\ UNCHANGED <<stored, serverKey, call, task, owner, session, open, closer>>
      /\ Dialog /\ closer = None /\ view.conn # "connecting" /\ view.hostKey # None
      /\ confirmed' = confirmed \union {<<view.host, view.hostKey>>}
      /\ hasty' = (hasty \/ Hidden)
  BY DEF ConfirmConnectionFingerprint, hostTrustVars, connectVars, GoesOn
<1>3. Shape'
  <2>1. <<view.host, view.hostKey>> \in Hosts \X Keys
    BY <1>2 DEF TypesOK, View
  <2>2. TypesOK'
    BY <1>1, <1>2, <2>1 DEF TypesOK, HostTrustTypeOK, ViewIs
  <2> QED
    BY <1>2, <2>2 DEF Awaited, KindFits, CallFits, HeldHasAnswered
<1>4. ASSUME ~hasty'
      PROVE  CalmNow'
  <2>1. CalmNow /\ ~Hidden
    BY <1>2, <1>4 DEF Calm
  <2>2. session = None /\ \A u \in Calls : ~Fresh(u)
    BY <1>2, <2>1, BehindDialog
  <2>3. \A u \in Calls : ~Fresh(u)'
    BY <1>2, <2>2, FreshWas
  <2>4. HeldFits' /\ DialogHasTab'
    BY <1>1, <1>2, <2>1, <2>2 DEF CalmNow, HeldFits, DialogHasTab, ViewIs, Dialog
  <2>5. BusyIsExplained'
    BY <1>1, <1>2, <2>1 DEF CalmNow, BusyIsExplained, ViewIs, Dialog
  <2>6. OpenIsKnown' /\ AllConfirmed'
    BY <1>1, <1>2, <2>1 DEF CalmNow, OpenIsKnown, AllConfirmed, ViewIs
  <2> QED
    BY <2>3, <2>4, <2>5, <2>6, NobodyLeft DEF CalmNow
<1> QED
  BY <1>3, <1>4 DEF Calm

\* A call of trust_host_fingerprint begins.
LEMMA CallBegins ==
  ASSUME TypesOK, NEW t \in Calls, NEW host \in Hosts, NEW key \in Keys,
         TrustHostFingerprint(t, host, key)
  PROVE  /\ UNCHANGED <<stored, serverKey>>
         /\ call' \in [Calls -> Call \union {None}]
         /\ call'[t] # None /\ call'[t].host = host /\ call'[t].key = key
         /\ \A u \in Calls : u # t => call'[u] = call[u]
<1>1. [host |-> host, key |-> key, at |-> "check"] \in Call
  BY DEF Call, CallStage
<1> QED
  BY <1>1 DEF TrustHostFingerprint, TypesOK, HostTrustTypeOK

LEMMA ConfirmNewKeeps ==
  ASSUME FlowInv, NEW t \in Calls, ConfirmConnectionFingerprint(t), ~view.known
  PROVE  FlowInv'
<1> USE DEF FlowInv, Shape
<1>1. ViewIs(view.host, view.hostKey, view.known, view.trusted, view.conn, view.step,
             view.tab, view.pending)
  BY ZenonT(40) DEF ConfirmConnectionFingerprint, ViewIs, View, TypesOK
<1>2. /\ UNCHANGED <<owner, session, open, closer>>
      /\ Dialog /\ closer = None /\ view.conn # "connecting"
      /\ view.host \in Hosts /\ view.hostKey \in Keys
      /\ confirmed' = confirmed \union {<<view.host, view.hostKey>>}
      /\ Unused(t) /\ TrustHostFingerprint(t, view.host, view.hostKey)
      /\ hasty' = (hasty \/ Hidden)
  BY DEF ConfirmConnectionFingerprint, connectVars, GoesOn, TypesOK, View
<1>3. /\ UNCHANGED <<stored, serverKey>>
      /\ call' \in [Calls -> Call \union {None}]
      /\ call'[t] # None /\ call'[t].host = view.host /\ call'[t].key = view.hostKey
      /\ \A u \in Calls : u # t => call'[u] = call[u]
  BY <1>2, CallBegins
<1>4. TaskIs(t, "confirm", view.host, view.hostKey, "trust")
  BY <1>2, AwaitIs DEF ConfirmConnectionFingerprint
<1>5. Shape'
  <2>1. <<view.host, view.hostKey>> \in Hosts \X Keys
    BY <1>2
  <2>2. TypesOK'
    BY <1>1, <1>2, <1>3, <1>4, <2>1 DEF TypesOK, HostTrustTypeOK, ViewIs, TaskIs
  <2>3. Awaited' /\ KindFits' /\ CallFits'
    BY <1>2, <1>3, <1>4 DEF Awaited, KindFits, CallFits, TaskIs
  <2>4. HeldHasAnswered'
    BY <1>2, <1>4 DEF HeldHasAnswered, TaskIs, Unused
  <2> QED
    BY <2>2, <2>3, <2>4
<1>6. ASSUME ~hasty'
      PROVE  CalmNow'
  <2>1. CalmNow /\ ~Hidden
    BY <1>2, <1>6 DEF Calm
  <2>2. session = None /\ \A u \in Calls : ~Fresh(u)
    BY <1>2, <2>1, BehindDialog
  <2>3. \A u \in Calls : Fresh(u)' => u = t
    BY <1>2, <1>4, <2>2, OthersStayStale DEF TaskIs
  <2>4. FreshFits' /\ DialogHasTab'
    BY <1>1, <1>2, <1>4, <2>2, <2>3 DEF FreshFits, DialogHasTab, ViewIs, TaskIs, Dialog
  <2>5. HeldFits'
    BY <1>2, <2>2 DEF HeldFits
  <2>6. BusyIsExplained'
    BY <1>1, <1>2, <1>4, <2>1 DEF CalmNow, BusyIsExplained, ViewIs, TaskIs, Unused, Dialog
  <2>7. OpenIsKnown'
    BY <1>2, <1>4, <2>1 DEF CalmNow, OpenIsKnown, TaskIs, Unused
  <2>8. AllConfirmed'
    BY <1>1, <1>2, <1>3, <1>4, <2>1 DEF CalmNow, AllConfirmed, ViewIs, TaskIs
  <2> QED
    BY <2>3, <2>4, <2>5, <2>6, <2>7, <2>8, OnlyOneIsFresh DEF CalmNow
<1> QED
  BY <1>5, <1>6 DEF Calm

\* The answer of a trust call.
LEMMA CallEnds ==
  ASSUME TypesOK, NEW t \in Calls, CallReturns(t)
  PROVE  /\ UNCHANGED <<stored, serverKey>>
         /\ call' \in [Calls -> Call \union {None}]
         /\ call'[t] = None
         /\ \A u \in Calls : u # t => call'[u] = call[u]
  BY DEF CallReturns, TypesOK, HostTrustTypeOK

LEMMA ConfirmAnswersKeeps ==
  ASSUME FlowInv, NEW t \in Calls, ConfirmAnswers(t)
  PROVE  FlowInv'
<1> USE DEF FlowInv, Shape
<1>1. /\ UNCHANGED <<owner, session, open, closer, confirmed, hasty>>
      /\ task[t] # None /\ task[t].at = "trust" /\ task[t].kind = "confirm"
      /\ TaskGone(t) /\ CallReturns(t)
  BY ReturnIs DEF ConfirmAnswers, connectVars, histories, Awaits
<1>2. /\ UNCHANGED <<stored, serverKey>>
      /\ call' \in [Calls -> Call \union {None}]
      /\ call'[t] = None
      /\ \A u \in Calls : u # t => call'[u] = call[u]
  BY <1>1, CallEnds
<1>3. \/ ViewIs(view.host, view.hostKey, TRUE, TRUE, view.conn, "password", view.tab,
                view.pending)
      \/ ViewIs(view.host, view.hostKey, view.known, view.trusted, "failed", view.step,
                view.tab, view.pending)
  <2>1. CASE call[t].at = "stored"
    BY <2>1 DEF ConfirmAnswers, ViewIs, View, TypesOK
  <2>2. CASE call[t].at # "stored"
    BY <2>2 DEF ConfirmAnswers, ViewIs, View, TypesOK, ConnectionState
  <2> QED
    BY <2>1, <2>2
<1>4. Shape'
  <2>1. TypesOK'
    BY <1>1, <1>2, <1>3 DEF TypesOK, HostTrustTypeOK, ViewIs, TaskGone
  <2> QED
    BY <1>1, <1>2, <2>1 DEF Awaited, KindFits, CallFits, HeldHasAnswered, TaskGone
<1>5. ASSUME ~hasty'
      PROVE  CalmNow'
  <2>1. CalmNow /\ Fresh(t)
    BY <1>1, <1>5 DEF Calm, Fresh
  <2>2. /\ session = None /\ closer = None /\ view.tab /\ view.step # None
        /\ view.host = task[t].host /\ view.hostKey \in {task[t].key, None}
        /\ <<task[t].host, task[t].key>> \in confirmed
    BY <1>1, <2>1 DEF CalmNow, FreshFits, AllConfirmed
  <2>3. \A u \in Calls : ~Fresh(u)'
    BY <1>1, <2>1, FreshReturns
  <2>4. HeldFits' /\ DialogHasTab'
    BY <1>1, <1>3, <2>2 DEF HeldFits, DialogHasTab, ViewIs
  <2>5. BusyIsExplained'
    BY <1>1, <1>3, <2>1, <2>2, ZenonT(40) DEF CalmNow, BusyIsExplained, ViewIs, TaskGone, Dialog
  <2>6. OpenIsKnown'
    BY <1>1, <2>1 DEF CalmNow, OpenIsKnown, TaskGone
  <2>7. AllConfirmed'
    <3>1. view'.hostKey # None /\ (view'.known \/ view'.trusted) =>
              <<view'.host, view'.hostKey>> \in confirmed
      BY <1>3, <2>1, <2>2 DEF CalmNow, AllConfirmed, ViewIs
    <3> QED
      BY <1>1, <1>2, <2>1, <3>1 DEF CalmNow, AllConfirmed, TaskGone
  <2> QED
    BY <2>3, <2>4, <2>5, <2>6, <2>7, NobodyLeft DEF CalmNow
<1> QED
  BY <1>4, <1>5 DEF Calm

\* A step of HostTrust stores a key only for the function that awaits it.
LEMMA TrustProceedsKeeps ==
  ASSUME FlowInv, NEW t \in Calls, TrustProceeds(t)
  PROVE  FlowInv'
<1> USE DEF FlowInv, Shape
<1>1. /\ UNCHANGED <<serverKey, view, task, owner, session, open, closer, confirmed, hasty>>
      /\ call[t] # None /\ call[t] \in Call
  BY DEF TrustProceeds, CheckStored, SaveFingerprint, QueryFails, connectVars, histories,
         TypesOK, HostTrustTypeOK
<1>2. /\ call' \in [Calls -> Call \union {None}]
      /\ call'[t] # None /\ call'[t].host = call[t].host /\ call'[t].key = call[t].key
      /\ \A u \in Calls : u # t => call'[u] = call[u]
  <2>1. \A at \in CallStage : MovedOn(t, at) \in Call
    BY <1>1 DEF MovedOn, Call
  <2>2. PICK at \in CallStage : call' = [call EXCEPT ![t] = MovedOn(t, at)]
    BY DEF TrustProceeds, CheckStored, SaveFingerprint, QueryFails, CallStage
  <2> QED
    BY <2>1, <2>2 DEF MovedOn, TypesOK, HostTrustTypeOK
<1>3. /\ stored' \in [Hosts -> SUBSET Keys]
      /\ \A host \in Hosts : \A key \in stored'[host] :
            key \in stored[host] \/ (host = call[t].host /\ key = call[t].key)
  <2>1. \/ stored' = stored
        \/ stored' = [stored EXCEPT ![call[t].host] = @ \union {call[t].key}]
    BY DEF TrustProceeds, CheckStored, SaveFingerprint, QueryFails
  <2> QED
    BY <1>1, <2>1 DEF Call, TypesOK, HostTrustTypeOK
<1>4. Shape'
  <2>1. TypesOK'
    BY <1>1, <1>2, <1>3 DEF TypesOK, HostTrustTypeOK
  <2> QED
    BY <1>1, <1>2, <2>1 DEF Awaited, KindFits, CallFits, HeldHasAnswered
<1>5. ASSUME ~hasty'
      PROVE  CalmNow'
  <2>1. CalmNow
    BY <1>1, <1>5 DEF Calm
  <2>2. \A u \in Calls : Fresh(u)' <=> Fresh(u)
    BY <1>1 DEF Fresh
  <2>3. OneIsFresh' /\ DialogHasTab' /\ FreshFits' /\ HeldFits' /\ OpenIsKnown'
    BY <1>1, <2>1, <2>2
       DEF CalmNow, OneIsFresh, DialogHasTab, FreshFits, HeldFits, OpenIsKnown
  <2>4. BusyIsExplained'
    BY <1>1, <2>1 DEF CalmNow, BusyIsExplained, Dialog
  <2>5. AllConfirmed'
    <3>1. <<call[t].host, call[t].key>> \in confirmed
      BY <1>1, <2>1 DEF CallFits, CalmNow, AllConfirmed
    <3> QED
      BY <1>1, <1>3, <2>1, <3>1 DEF CalmNow, AllConfirmed
  <2> QED
    BY <2>3, <2>4, <2>5 DEF CalmNow
<1> QED
  BY <1>4, <1>5 DEF Calm

-----------------------------------------------------------------------------
(***************************************************************************)
(* Connecting.  Either button and the password dialog start a function     *)
(* that connects at once, or first has the key stored (Connect).           *)
(***************************************************************************)
LEMMA ConnectKeeps ==
  ASSUME FlowInv, NEW t \in Calls, NEW kind \in {"form", "dialog"}, NEW pending \in BOOLEAN,
         NEW v \in View, v = view \/ v = [view EXCEPT !.pending = pending],
         kind = "dialog" \/ v = view,
         Connect(t, kind, v), Unused(t), closer = None, view.hostKey # None, view.trusted,
         view.conn # "connecting",
         (kind = "dialog" /\ Dialog) \/ (kind = "form" /\ FormIsUsable),
         hasty' = (hasty \/ Hidden), UNCHANGED <<session, open, closer, confirmed>>
  PROVE  FlowInv'
<1> USE DEF FlowInv, Shape
<1>1. /\ view.host \in Hosts /\ view.hostKey \in Keys
      /\ v.host = view.host /\ v.hostKey = view.hostKey /\ v.known = view.known
      /\ v.trusted = view.trusted /\ v.conn = view.conn /\ v.step = view.step
      /\ v.tab = view.tab /\ (v.pending = view.pending \/ kind = "dialog")
  BY ZenonT(40) DEF TypesOK, View
<1>2. /\ serverKey' = serverKey /\ stored' = stored
      /\ \/ /\ owner' = t /\ call' = call
            /\ TaskIs(t, kind, view.host, view.hostKey, "start")
            /\ ViewIs(v.host, v.hostKey, v.known, v.trusted, "connecting", v.step, v.tab,
                      v.pending)
         \/ /\ owner' = owner /\ TrustHostFingerprint(t, view.host, view.hostKey)
            /\ TaskIs(t, kind, view.host, view.hostKey, "trust")
            /\ view' = v
  <2>1. CASE view.known
    <3>1. Await(t, kind, view.host, view.hostKey, "start")
      BY <2>1 DEF Connect, Start
    <3>2. TaskIs(t, kind, view.host, view.hostKey, "start")
      BY <1>1, <3>1, AwaitIs
    <3> QED
      BY <2>1, <3>2 DEF Connect, Start, hostTrustVars, ViewIs, View, ConnectionState
  <2>2. CASE ~view.known
    <3>1. Await(t, kind, view.host, view.hostKey, "trust")
      BY <2>2 DEF Connect
    <3>2. TaskIs(t, kind, view.host, view.hostKey, "trust")
      BY <1>1, <3>1, AwaitIs
    <3> QED
      BY <2>2, <3>2 DEF Connect, TrustHostFingerprint
  <2> QED
    BY <2>1, <2>2
<1>3. /\ task' \in [Calls -> Task \union {None}]
      /\ task'[t] # None /\ task'[t].kind = kind
      /\ task'[t].host = view.host /\ task'[t].key = view.hostKey
      /\ \A u \in Calls : u # t => task'[u] = task[u]
      /\ task'[t].at = "start" \/ task'[t].at = "trust"
      /\ task'[t].at = "start" => owner' = t /\ call' = call /\ view'.conn = "connecting"
      /\ task'[t].at = "trust" =>
            owner' = owner /\ TrustHostFingerprint(t, view.host, view.hostKey)
            /\ view'.conn = view.conn
  BY <1>1, <1>2 DEF TaskIs, ViewIs
<1>4. /\ view' \in View
      /\ view'.host = view.host /\ view'.hostKey = view.hostKey
      /\ view'.known = view.known /\ view'.trusted = view.trusted
      /\ view'.step = view.step /\ view'.tab = view.tab
      /\ view'.pending = view.pending \/ kind = "dialog"
  BY <1>1, <1>2 DEF ViewIs
<1>5. /\ call' \in [Calls -> Call \union {None}]
      /\ task'[t].at = "start" => call'[t] = call[t]
      /\ task'[t].at = "trust" =>
            call'[t] # None /\ call'[t].host = view.host /\ call'[t].key = view.hostKey
      /\ \A u \in Calls : u # t => call'[u] = call[u]
  BY <1>1, <1>3, CallBegins DEF TypesOK, HostTrustTypeOK
<1>6. /\ task[t] = None /\ open[t] = None /\ session # t
      /\ owner' \in {owner, t}
  BY <1>3 DEF Unused
<1>7. Shape'
  <2>1. TypesOK'
    BY <1>2, <1>3, <1>4, <1>5, <1>6 DEF TypesOK, HostTrustTypeOK
  <2>2. Awaited' /\ KindFits' /\ CallFits'
    BY <1>3, <1>5, <1>6 DEF Awaited, KindFits, CallFits
  <2>3. HeldHasAnswered'
    BY <1>3, <1>6 DEF HeldHasAnswered
  <2> QED
    BY <2>1, <2>2, <2>3
<1>8. ASSUME ~hasty'
      PROVE  CalmNow'
  <2>1. CalmNow /\ ~Hidden
    BY <1>8 DEF Calm
  <2>2. /\ session = None /\ \A u \in Calls : ~Fresh(u)
        /\ kind = "form" <=> view.step = None
    BY <2>1, BehindDialog, UsableForm DEF Dialog
  <2>3. \A u \in Calls : Fresh(u)' => u = t
    BY <1>3, <1>6, <2>2, OthersStayStale
  <2>4. FreshFits' /\ DialogHasTab'
    <3>1. FreshFits'
      BY <1>3, <1>4, <2>2, <2>3 DEF FreshFits
    <3> QED
      BY <1>4, <2>1, <3>1 DEF CalmNow, DialogHasTab
  <2>5. HeldFits'
    BY <2>2 DEF HeldFits
  <2>6. BusyIsExplained'
    BY <1>3, <1>4, <1>6, <2>1, <2>2 DEF CalmNow, BusyIsExplained, Dialog
  <2>7. OpenIsKnown'
    BY <1>3, <1>6, <2>1 DEF CalmNow, OpenIsKnown
  <2>8. AllConfirmed'
    BY <1>2, <1>3, <1>4, <2>1 DEF CalmNow, AllConfirmed
  <2> QED
    BY <2>3, <2>4, <2>5, <2>6, <2>7, <2>8, OnlyOneIsFresh DEF CalmNow
<1> QED
  BY <1>7, <1>8 DEF Calm

LEMMA ConnectCurrentModeKeeps ==
  ASSUME FlowInv, NEW t \in Calls, ConnectCurrentMode(t)
  PROVE  FlowInv'
<1>1. view \in View /\ closer = None /\ view.conn # "connecting"
  BY DEF ConnectCurrentMode, FormIsUsable, Busy, FlowInv, Shape, TypesOK
<1>2. /\ Connect(t, "form", view) /\ Unused(t) /\ FormIsUsable
      /\ view.hostKey # None /\ view.trusted
      /\ hasty' = (hasty \/ Hidden) /\ UNCHANGED <<session, open, closer, confirmed>>
  BY DEF ConnectCurrentMode, GoesOn
<1> QED
  BY <1>1, <1>2, ConnectKeeps

LEMMA AuthenticateKeeps ==
  ASSUME FlowInv, NEW t \in Calls, AuthenticatePendingConnection(t)
  PROVE  FlowInv'
<1>1. /\ view \in View /\ closer = None /\ Dialog /\ view.conn # "connecting"
      /\ view.step = "password"
      /\ hasty' = (hasty \/ Hidden) /\ UNCHANGED <<session, open, closer, confirmed>>
  BY DEF AuthenticatePendingConnection, FlowInv, Shape, TypesOK, GoesOn
<1>2. CASE view.hostKey # None /\ view.trusted
  <2> DEFINE v == [view EXCEPT !.pending = TRUE]
  <2>1. v \in View
    BY <1>1 DEF View
  <2>2. Connect(t, "dialog", v) /\ Unused(t)
    BY <1>2 DEF AuthenticatePendingConnection
  <2>3. v = [view EXCEPT !.pending = TRUE]
    OBVIOUS
  <2> HIDE DEF v
  <2> QED
    BY <1>1, <1>2, <2>1, <2>2, <2>3, ConnectKeeps
<1>3. CASE ~(view.hostKey # None /\ view.trusted)
  <2> USE DEF FlowInv, Shape
  <2>1. ViewIs(view.host, view.hostKey, view.known, view.trusted, view.conn, view.step,
               view.tab, FALSE)
    BY <1>1, <1>3 DEF AuthenticatePendingConnection, ViewIs, View
  <2>2. UNCHANGED <<stored, serverKey, call, task, owner>>
    BY <1>3 DEF AuthenticatePendingConnection, hostTrustVars
  <2>3. Shape'
    <3>1. TypesOK'
      BY <1>1, <2>1, <2>2 DEF TypesOK, HostTrustTypeOK, ViewIs
    <3> QED
      BY <1>1, <2>2, <3>1 DEF Awaited, KindFits, CallFits, HeldHasAnswered
  <2>4. ASSUME ~hasty'
        PROVE  CalmNow'
    <3>1. CalmNow /\ ~Hidden
      BY <1>1, <2>4 DEF Calm
    <3>2. session = None /\ \A u \in Calls : ~Fresh(u)
      BY <1>1, <3>1, BehindDialog
    <3>3. \A u \in Calls : ~Fresh(u)'
      BY <2>2, <3>2, FreshWas
    <3>4. HeldFits' /\ DialogHasTab'
      BY <1>1, <2>1, <3>1, <3>2 DEF CalmNow, HeldFits, DialogHasTab, ViewIs
    <3>5. BusyIsExplained'
      BY <1>1, <2>1, <2>2, <3>1 DEF CalmNow, BusyIsExplained, ViewIs
    <3>6. OpenIsKnown' /\ AllConfirmed'
      BY <1>1, <2>1, <2>2, <3>1 DEF CalmNow, OpenIsKnown, AllConfirmed, ViewIs
    <3> QED
      BY <3>3, <3>4, <3>5, <3>6, NobodyLeft DEF CalmNow
  <2> QED
    BY <2>3, <2>4 DEF Calm
<1> QED
  BY <1>2, <1>3

\* What is left of the claim when a function that connects ends without a session.
LEMMA UnclaimedIs ==
  ASSUME NEW t \in Calls, NEW v \in View
  PROVE  /\ Unclaimed(t, v) \in View
         /\ Unclaimed(t, v).host = v.host /\ Unclaimed(t, v).hostKey = v.hostKey
         /\ Unclaimed(t, v).known = v.known /\ Unclaimed(t, v).trusted = v.trusted
         /\ Unclaimed(t, v).conn = v.conn /\ Unclaimed(t, v).step = v.step
         /\ Unclaimed(t, v).tab = v.tab
         /\ task[t].kind = "dialog" => Unclaimed(t, v).pending = FALSE
         /\ task[t].kind # "dialog" => Unclaimed(t, v).pending = v.pending
<1>1. CASE task[t].kind = "dialog"
  BY <1>1 DEF Unclaimed, View
<1>2. CASE task[t].kind # "dialog"
  BY <1>2 DEF Unclaimed, View
<1> QED
  BY <1>1, <1>2

LEMMA TrustStoredKeeps ==
  ASSUME FlowInv, NEW t \in Calls, TrustAnswers(t), call[t].at = "stored"
  PROVE  FlowInv'
<1> USE DEF FlowInv, Shape
<1>1. /\ UNCHANGED <<session, open, closer, confirmed, hasty>>
      /\ task[t] # None /\ task[t].at = "trust" /\ task[t].kind \in {"form", "dialog"}
      /\ task[t] \in Task /\ owner' = t /\ CallReturns(t)
  BY DEF TrustAnswers, histories, Awaits, Start, TypesOK
<1>2. /\ UNCHANGED <<stored, serverKey>>
      /\ call' \in [Calls -> Call \union {None}]
      /\ call'[t] = None
      /\ \A u \in Calls : u # t => call'[u] = call[u]
  BY <1>1, CallEnds
<1>3. TaskIs(t, task[t].kind, task[t].host, task[t].key, "start")
  <2>1. Await(t, task[t].kind, task[t].host, task[t].key, "start")
    BY DEF TrustAnswers, Start
  <2> QED
    BY <1>1, <2>1, AwaitIs DEF Task
<1>4. ViewIs(view.host, view.hostKey, TRUE, TRUE, "connecting", view.step, view.tab,
             view.pending)
  BY ZenonT(40) DEF TrustAnswers, ViewIs, View, TypesOK, ConnectionState
<1>5. Shape'
  <2>1. TypesOK'
    BY <1>1, <1>2, <1>3, <1>4 DEF TypesOK, HostTrustTypeOK, ViewIs, TaskIs
  <2>2. Awaited' /\ KindFits' /\ CallFits'
    BY <1>1, <1>2, <1>3 DEF Awaited, KindFits, CallFits, TaskIs
  <2>3. HeldHasAnswered'
    BY <1>1, <1>3 DEF HeldHasAnswered, TaskIs
  <2> QED
    BY <2>1, <2>2, <2>3
<1>6. ASSUME ~hasty'
      PROVE  CalmNow'
  <2>1. CalmNow /\ Fresh(t)
    BY <1>1, <1>6 DEF Calm, Fresh
  <2>2. /\ session = None /\ closer = None
        /\ view.host = task[t].host /\ view.hostKey \in {task[t].key, None}
        /\ <<task[t].host, task[t].key>> \in confirmed
    BY <1>1, <2>1 DEF CalmNow, FreshFits, AllConfirmed
  <2>3. \A u \in Calls : Fresh(u)' => u = t
    BY <1>1, <1>3, <2>1, OthersStayStale DEF CalmNow, OneIsFresh, TaskIs
  <2>4. FreshFits' /\ DialogHasTab'
    BY <1>1, <1>3, <1>4, <2>1, <2>2, <2>3 DEF CalmNow, FreshFits, DialogHasTab, ViewIs, TaskIs
  <2>5. HeldFits'
    BY <1>1, <2>2 DEF HeldFits
  <2>6. BusyIsExplained'
    BY <1>1, <1>3, <1>4, <2>1, <2>2 DEF CalmNow, BusyIsExplained, ViewIs, TaskIs, Dialog
  <2>7. OpenIsKnown'
    BY <1>1, <1>3, <2>1 DEF CalmNow, OpenIsKnown, TaskIs
  <2>8. AllConfirmed'
    BY <1>1, <1>2, <1>3, <1>4, <2>1, <2>2 DEF CalmNow, AllConfirmed, ViewIs, TaskIs
  <2> QED
    BY <2>3, <2>4, <2>5, <2>6, <2>7, <2>8, OnlyOneIsFresh DEF CalmNow
<1> QED
  BY <1>5, <1>6 DEF Calm

LEMMA TrustRefusedKeeps ==
  ASSUME FlowInv, NEW t \in Calls, TrustAnswers(t), call[t].at # "stored"
  PROVE  FlowInv'
<1> USE DEF FlowInv, Shape
<1>1. /\ UNCHANGED <<owner, session, open, closer, confirmed, hasty>>
      /\ task[t] # None /\ task[t].at = "trust" /\ task[t].kind \in {"form", "dialog"}
      /\ TaskGone(t) /\ CallReturns(t)
  BY ReturnIs DEF TrustAnswers, histories, Awaits
<1>2. /\ UNCHANGED <<stored, serverKey>>
      /\ call' \in [Calls -> Call \union {None}]
      /\ call'[t] = None
      /\ \A u \in Calls : u # t => call'[u] = call[u]
  BY <1>1, CallEnds
<1>3. PICK pending \in BOOLEAN :
         /\ pending => view.pending /\ task[t].kind # "dialog"
         /\ ViewIs(view.host, view.hostKey, view.known, view.trusted, "failed", view.step,
                   view.tab, pending)
  <2> DEFINE v == [view EXCEPT !.conn = "failed"]
  <2>1. /\ v \in View /\ v.host = view.host /\ v.hostKey = view.hostKey
        /\ v.known = view.known /\ v.trusted = view.trusted /\ v.conn = "failed"
        /\ v.step = view.step /\ v.tab = view.tab /\ v.pending = view.pending
    BY DEF TypesOK, View, ConnectionState
  <2>2. view' = Unclaimed(t, v)
    BY DEF TrustAnswers
  <2>3. v.pending \in BOOLEAN
    BY <2>1 DEF View
  <2> HIDE DEF v
  <2>4. CASE task[t].kind = "dialog"
    BY <2>1, <2>2, <2>4, UnclaimedIs DEF ViewIs
  <2>5. CASE task[t].kind # "dialog"
    BY <2>1, <2>2, <2>3, <2>5, UnclaimedIs DEF ViewIs
  <2> QED
    BY <2>4, <2>5
<1>4. Shape'
  <2>1. TypesOK'
    BY <1>1, <1>2, <1>3 DEF TypesOK, HostTrustTypeOK, ViewIs, TaskGone
  <2> QED
    BY <1>1, <1>2, <2>1 DEF Awaited, KindFits, CallFits, HeldHasAnswered, TaskGone
<1>5. ASSUME ~hasty'
      PROVE  CalmNow'
  <2>1. CalmNow /\ Fresh(t)
    BY <1>1, <1>5 DEF Calm, Fresh
  <2>2. session = None /\ closer = None
    BY <1>1, <2>1 DEF CalmNow, FreshFits
  <2>3. \A u \in Calls : ~Fresh(u)'
    BY <1>1, <2>1, FreshReturns
  <2>4. HeldFits' /\ DialogHasTab'
    BY <1>1, <1>3, <2>1, <2>2 DEF CalmNow, HeldFits, DialogHasTab, ViewIs
  <2>5. BusyIsExplained'
    BY <1>1, <1>3, <2>1, <2>2 DEF CalmNow, BusyIsExplained, ViewIs, TaskGone, Dialog
  <2>6. OpenIsKnown' /\ AllConfirmed'
    BY <1>1, <1>2, <1>3, <2>1 DEF CalmNow, OpenIsKnown, AllConfirmed, ViewIs, TaskGone
  <2> QED
    BY <2>3, <2>4, <2>5, <2>6, NobodyLeft DEF CalmNow
<1> QED
  BY <1>4, <1>5 DEF Calm

-----------------------------------------------------------------------------
(***************************************************************************)
(* The answer of start_*, and the end of a session.                        *)
(***************************************************************************)
LEMMA SessionOpensKeeps ==
  ASSUME FlowInv, NEW t \in Calls, SessionOpens(t)
  PROVE  FlowInv'
<1> USE DEF FlowInv, Shape
<1>1. /\ UNCHANGED <<stored, serverKey, call, view, owner, session, closer, confirmed, hasty>>
      /\ task[t] # None /\ task[t] \in Task /\ task[t].at = "start"
      /\ task[t].kind \in {"form", "dialog"}
  BY DEF SessionOpens, hostTrustVars, histories, Awaits, TypesOK
<1>2. TaskIs(t, task[t].kind, task[t].host, task[t].key, "opened")
  BY <1>1, MoveOnIs DEF SessionOpens
<1>3. /\ <<task[t].host, task[t].key>> \in Hosts \X Keys
      /\ open' = [open EXCEPT ![t] = <<task[t].host, task[t].key>>]
  <2>1. task[t].host \in Hosts /\ serverKey[task[t].host] = task[t].key
    BY <1>1 DEF SessionOpens, Task
  <2> QED
    BY <2>1 DEF SessionOpens, TypesOK, HostTrustTypeOK
<1>4. /\ open' \in [Calls -> (Hosts \X Keys) \union {None}]
      /\ open'[t] = <<task[t].host, task[t].key>> /\ open'[t] # None
      /\ \A u \in Calls : u # t => open'[u] = open[u]
  <2>1. <<task[t].host, task[t].key>> # None
    BY <1>3
  <2> QED
    BY <1>3, <2>1 DEF TypesOK
<1>5. Shape'
  <2>1. TypesOK'
    BY <1>1, <1>2, <1>4 DEF TypesOK, HostTrustTypeOK, TaskIs
  <2>2. Awaited'
    <3>1. ASSUME NEW u \in Calls, u # t
          PROVE  /\ (task'[u] # None /\ task'[u].at = "trust") <=> call'[u] # None
                 /\ task'[u] # None /\ task'[u].at = "opened" => open'[u] # None
      BY <1>1, <1>2, <1>4, <3>1 DEF Awaited, TaskIs
    <3>2. /\ task'[t].at = "opened" /\ call'[t] = None /\ open'[t] # None
      BY <1>1, <1>2, <1>4 DEF Awaited, TaskIs
    <3> QED
      BY <3>1, <3>2 DEF Awaited
  <2>3. KindFits' /\ CallFits'
    BY <1>1, <1>2 DEF KindFits, CallFits, TaskIs
  <2>4. HeldHasAnswered'
    BY <1>1, <1>2 DEF HeldHasAnswered, TaskIs
  <2> QED
    BY <2>1, <2>2, <2>3, <2>4
<1>6. ASSUME ~hasty'
      PROVE  CalmNow'
  <2>1. CalmNow
    BY <1>1, <1>6 DEF Calm
  <2>2. \A u \in Calls : Fresh(u)' <=> Fresh(u)
    BY <1>1, <1>2 DEF Fresh, TaskIs
  <2>3. OneIsFresh' /\ DialogHasTab' /\ FreshFits'
    <3>1. FreshFits'
      BY <1>1, <1>2, <2>1, <2>2 DEF CalmNow, FreshFits, TaskIs
    <3> QED
      BY <1>1, <2>1, <2>2, <3>1 DEF CalmNow, OneIsFresh, DialogHasTab
  <2>4. HeldFits' /\ BusyIsExplained'
    BY <1>1, <1>2, <2>1 DEF CalmNow, HeldFits, BusyIsExplained, TaskIs, Dialog, TypesOK
  <2>5. OpenIsKnown'
    BY <1>1, <1>2, <1>4, <2>1 DEF CalmNow, OpenIsKnown, TaskIs
  <2>6. AllConfirmed'
    BY <1>1, <1>2, <1>4, <2>1 DEF CalmNow, AllConfirmed, TaskIs
  <2> QED
    BY <2>3, <2>4, <2>5, <2>6 DEF CalmNow
<1> QED
  BY <1>5, <1>6 DEF Calm

\* A function whose answer does not matter any more returns, and nothing is lost.
LEMMA StaleReturns ==
  ASSUME Shape, CalmNow, NEW t \in Calls, task[t] # None,
         task[t].at \in {"start", "opened", "ended"}, ~Fresh(t), TaskGone(t),
         NEW pending \in BOOLEAN, pending => view.pending /\ task[t].kind # "dialog",
         ViewIs(view.host, view.hostKey, view.known, view.trusted, view.conn, view.step,
                view.tab, pending),
         UNCHANGED <<stored, owner, session, closer, confirmed>>,
         open'[t] = None \/ (open'[t] = open[t] /\ task[t].at = "start"), \A u \in Calls : u # t => open'[u] = open[u]
  PROVE  CalmNow'
<1> USE DEF Shape, CalmNow
<1>1. \A u \in Calls : Fresh(u)' <=> Fresh(u)
  BY DEF Fresh, TaskGone
<1>2. \A u \in Calls : Fresh(u) => task'[u] = task[u]
  BY DEF TaskGone
<1>3. OneIsFresh' /\ DialogHasTab' /\ FreshFits'
  <2>1. FreshFits'
    BY <1>1, <1>2 DEF FreshFits, ViewIs
  <2> QED
    BY <1>1, <2>1 DEF OneIsFresh, DialogHasTab, ViewIs
<1>4. session # t
  BY DEF HeldHasAnswered
<1>5. HeldFits'
  BY <1>4 DEF HeldFits, TypesOK, TaskGone, ViewIs
<1>6. BusyIsExplained'
  <2>1. task[t].kind \in {"form", "dialog"}
    BY DEF KindFits
  <2>2. task[t].at \in {"start", "opened"} => owner # t
    BY DEF Fresh
  <2> QED
    BY <2>1, <2>2 DEF BusyIsExplained, TaskGone, ViewIs, Dialog
<1>7. OpenIsKnown' /\ AllConfirmed'
  <2>1. open[t] # None => task[t].at = "opened"
    BY <1>4 DEF OpenIsKnown
  <2>2. open'[t] = None
    BY <2>1
  <2> QED
    BY <1>4, <2>1, <2>2 DEF OpenIsKnown, AllConfirmed, TaskGone, ViewIs
<1> QED
  BY <1>3, <1>5, <1>6, <1>7

\* A stale response: its session is closed.
LEMMA StaleSessionKeeps ==
  ASSUME FlowInv, NEW t \in Calls, SessionArrives(t), owner # t \/ task[t].at = "ended"
  PROVE  FlowInv'
<1> USE DEF FlowInv, Shape
<1>1. /\ UNCHANGED <<stored, serverKey, call, owner, session, closer, confirmed, hasty>>
      /\ task[t] # None /\ task[t].at \in {"opened", "ended"}
      /\ TaskGone(t) /\ ~Fresh(t)
  BY ReturnIs DEF SessionArrives, hostTrustVars, histories, Awaits, Fresh
<1>2. /\ open' \in [Calls -> (Hosts \X Keys) \union {None}]
      /\ open'[t] = None /\ \A u \in Calls : u # t => open'[u] = open[u]
  <2>1. open' = Ended(t)
    BY DEF SessionArrives
  <2> QED
    BY <2>1 DEF Ended, TypesOK
<1>3. PICK pending \in BOOLEAN :
         /\ pending => view.pending /\ task[t].kind # "dialog"
         /\ ViewIs(view.host, view.hostKey, view.known, view.trusted, view.conn, view.step,
                   view.tab, pending)
  <2>1. view' = Unclaimed(t, view) /\ view \in View
    BY DEF SessionArrives, TypesOK
  <2>2. view.pending \in BOOLEAN
    BY <2>1 DEF View
  <2>3. CASE task[t].kind = "dialog"
    BY <2>1, <2>3, UnclaimedIs DEF ViewIs
  <2>4. CASE task[t].kind # "dialog"
    BY <2>1, <2>2, <2>4, UnclaimedIs DEF ViewIs
  <2> QED
    BY <2>3, <2>4
<1>4. Shape'
  <2>1. TypesOK'
    BY <1>1, <1>2, <1>3 DEF TypesOK, HostTrustTypeOK, ViewIs, TaskGone
  <2> QED
    BY <1>1, <1>2, <2>1 DEF Awaited, KindFits, CallFits, HeldHasAnswered, TaskGone
<1>5. ASSUME ~hasty'
      PROVE  CalmNow'
  BY <1>1, <1>2, <1>3, <1>5, StaleReturns DEF Calm
<1> QED
  BY <1>4, <1>5 DEF Calm

\* The response of the attempt that is still current.
LEMMA CurrentSessionKeeps ==
  ASSUME FlowInv, NEW t \in Calls, SessionArrives(t), owner = t, task[t].at # "ended"
  PROVE  FlowInv'
<1> USE DEF FlowInv, Shape
<1>1. /\ UNCHANGED <<stored, serverKey, call, owner, open, closer, confirmed, hasty>>
      /\ task[t] # None /\ task[t] \in Task /\ task[t].at = "opened"
      /\ session' = t /\ task[t].key \in Keys \union {None}
  BY DEF SessionArrives, hostTrustVars, histories, Awaits, TypesOK, Task
<1>2. /\ task' \in [Calls -> Task \union {None}]
      /\ \A u \in Calls : u # t => task'[u] = task[u]
      /\ \/ task[t].kind # "dialog" /\ task'[t] = None
         \/ /\ task[t].kind = "dialog" /\ task'[t] # None
            /\ task'[t].at = "saving" /\ task'[t].kind = "dialog"
  <2>1. CASE task[t].kind = "dialog"
    <3>1. TaskIs(t, task[t].kind, task[t].host, task[t].key, "saving")
      BY <1>1, <2>1, MoveOnIs DEF SessionArrives
    <3> QED
      BY <2>1, <3>1 DEF TaskIs
  <2>2. CASE task[t].kind # "dialog"
    <3>1. TaskGone(t)
      BY <1>1, <2>2, ReturnIs DEF SessionArrives
    <3> QED
      BY <2>2, <3>1 DEF TaskGone
  <2> QED
    BY <2>1, <2>2
<1>3. ViewIs(view.host, task[t].key, view.known, view.trusted, "connected", view.step,
             view.tab, view.pending)
  <2>1. view' = [view EXCEPT !.hostKey = task[t].key, !.conn = "connected"] /\ view \in View
    BY <1>1 DEF SessionArrives, TypesOK
  <2> QED
    BY <1>1, <2>1 DEF ViewIs, View, ConnectionState
<1>4. Shape'
  <2>1. TypesOK'
    BY <1>1, <1>2, <1>3 DEF TypesOK, HostTrustTypeOK, ViewIs
  <2>2. Awaited' /\ KindFits' /\ CallFits'
    BY <1>1, <1>2 DEF Awaited, KindFits, CallFits
  <2>3. HeldHasAnswered'
    BY <1>1, <1>2 DEF HeldHasAnswered
  <2> QED
    BY <2>1, <2>2, <2>3
<1>5. ASSUME ~hasty'
      PROVE  CalmNow'
  <2>1. CalmNow /\ Fresh(t)
    BY <1>1, <1>5 DEF Calm, Fresh
  <2>2. /\ session = None /\ closer = None /\ view.conn = "connecting"
        /\ view.host = task[t].host /\ <<task[t].host, task[t].key>> \in confirmed
    BY <1>1, <2>1 DEF CalmNow, FreshFits, AllConfirmed
  <2>3. \A u \in Calls : Fresh(u)' => u = t
    BY <1>1, <1>2, <2>1, OthersStayStale DEF CalmNow, OneIsFresh
  <2>4. Dialog' <=> Dialog
    BY <1>3 DEF Dialog, ViewIs
  <2>5. FreshFits' /\ HeldFits'
    <3>1. view.step # None <=> task[t].kind = "dialog"
      BY <1>1, <2>1 DEF CalmNow, FreshFits, KindFits
    <3>2. FreshFits'
      BY <1>1, <1>2, <1>3, <2>2, <2>3, <3>1 DEF FreshFits, Fresh, ViewIs
    <3>3. HeldFits'
      BY <1>1, <1>2, <1>3, <2>2, <3>1 DEF HeldFits, ViewIs
    <3> QED
      BY <3>2, <3>3
  <2>6. DialogHasTab'
    BY <1>3, <2>1 DEF CalmNow, DialogHasTab, ViewIs
  <2>7. BusyIsExplained'
    <3>1. ASSUME view.pending
          PROVE  Dialog \/ \E u \in Calls : task'[u] # None /\ task'[u].kind \in {"flow", "dialog"}
      <4>1. CASE ~Dialog
        <5>1. PICK u \in Calls : task[u] # None /\ task[u].kind \in {"flow", "dialog"}
          BY <2>1, <3>1, <4>1 DEF CalmNow, BusyIsExplained
        <5>2. task'[u] # None /\ task'[u].kind \in {"flow", "dialog"}
          BY <1>1, <1>2, <5>1 DEF KindFits
        <5> QED
          BY <5>2
      <4> QED
        BY <4>1
    <3> QED
      BY <1>1, <1>3, <2>4, <3>1 DEF BusyIsExplained, ViewIs
  <2>8. OpenIsKnown'
    BY <1>1, <1>2, <2>1, <2>2 DEF CalmNow, OpenIsKnown
  <2>9. AllConfirmed'
    BY <1>1, <1>2, <1>3, <2>1, <2>2 DEF CalmNow, AllConfirmed, ViewIs
  <2> QED
    BY <2>3, <2>5, <2>6, <2>7, <2>8, <2>9, OnlyOneIsFresh DEF CalmNow
<1> QED
  BY <1>4, <1>5 DEF Calm

LEMMA ConnectFailsKeeps ==
  ASSUME FlowInv, NEW t \in Calls, ConnectFails(t)
  PROVE  FlowInv'
<1> USE DEF FlowInv, Shape
<1>1. /\ UNCHANGED <<stored, serverKey, call, owner, session, open, closer, confirmed, hasty>>
      /\ task[t] # None /\ task[t].at = "start" /\ TaskGone(t) /\ view \in View
      /\ task[t].kind \in {"form", "dialog"}
  BY ReturnIs DEF ConnectFails, hostTrustVars, connectVars, histories, Awaits, TypesOK
<1>2. PICK pending \in BOOLEAN :
         /\ pending => view.pending /\ task[t].kind # "dialog"
         /\ pending = view.pending \/ task[t].kind = "dialog"
         /\ ViewIs(view.host, view.hostKey, view.known, view.trusted,
                   IF owner = t THEN "failed" ELSE view.conn, view.step, view.tab, pending)
  <2> DEFINE v == IF owner = t THEN [view EXCEPT !.conn = "failed"] ELSE view
  <2>1. /\ v \in View /\ v.host = view.host /\ v.hostKey = view.hostKey
        /\ v.known = view.known /\ v.trusted = view.trusted
        /\ v.conn = IF owner = t THEN "failed" ELSE view.conn
        /\ v.step = view.step /\ v.tab = view.tab /\ v.pending = view.pending
    BY <1>1 DEF View, ConnectionState
  <2>2. view' = Unclaimed(t, v)
    BY DEF ConnectFails
  <2>3. v.pending \in BOOLEAN
    BY <2>1 DEF View
  <2> HIDE DEF v
  <2>4. CASE task[t].kind = "dialog"
    BY <2>1, <2>2, <2>4, UnclaimedIs DEF ViewIs
  <2>5. CASE task[t].kind # "dialog"
    BY <2>1, <2>2, <2>3, <2>5, UnclaimedIs DEF ViewIs
  <2> QED
    BY <2>4, <2>5
<1>3. Shape'
  <2>1. TypesOK'
    BY <1>1, <1>2 DEF TypesOK, HostTrustTypeOK, ViewIs, TaskGone
  <2> QED
    BY <1>1, <2>1 DEF Awaited, KindFits, CallFits, HeldHasAnswered, TaskGone
<1>4. ASSUME ~hasty', owner # t
      PROVE  CalmNow'
  <2>1. CalmNow /\ ~Fresh(t)
    BY <1>1, <1>4 DEF Calm, Fresh
  <2> QED
    BY <1>1, <1>2, <1>4, <2>1, StaleReturns
<1>5. ASSUME ~hasty', owner = t
      PROVE  CalmNow'
  <2>1. CalmNow /\ Fresh(t)
    BY <1>1, <1>5 DEF Calm, Fresh
  <2>2. session = None /\ closer = None
    BY <1>1, <2>1 DEF CalmNow, FreshFits
  <2>3. \A u \in Calls : ~Fresh(u)'
    BY <1>1, <2>1, FreshReturns
  <2>4. HeldFits' /\ DialogHasTab'
    BY <1>1, <1>2, <1>5, <2>1, <2>2 DEF CalmNow, HeldFits, DialogHasTab, ViewIs
  <2>5. BusyIsExplained'
    BY <1>1, <1>2, <1>5, <2>1, <2>2 DEF CalmNow, BusyIsExplained, ViewIs, TaskGone, Dialog
  <2>6. OpenIsKnown' /\ AllConfirmed'
    BY <1>1, <1>2, <2>1 DEF CalmNow, OpenIsKnown, AllConfirmed, ViewIs, TaskGone
  <2> QED
    BY <2>3, <2>4, <2>5, <2>6, NobodyLeft DEF CalmNow
<1> QED
  BY <1>3, <1>4, <1>5 DEF Calm

LEMMA CredentialSavedKeeps ==
  ASSUME FlowInv, NEW t \in Calls, CredentialSaved(t)
  PROVE  FlowInv'
<1> USE DEF FlowInv, Shape
<1>1. ViewIs(view.host, view.hostKey, view.known, view.trusted, view.conn, None, view.tab,
             FALSE)
  BY DEF CredentialSaved, ViewIs, View, TypesOK
<1>2. /\ UNCHANGED <<stored, serverKey, call, owner, session, open, closer, confirmed, hasty>>
      /\ task[t] # None /\ task[t].at = "saving" /\ TaskGone(t)
  BY ReturnIs DEF CredentialSaved, hostTrustVars, connectVars, histories, Awaits
<1>3. Shape'
  <2>1. TypesOK'
    BY <1>1, <1>2 DEF TypesOK, HostTrustTypeOK, ViewIs, TaskGone
  <2> QED
    BY <1>2, <2>1 DEF Awaited, KindFits, CallFits, HeldHasAnswered, TaskGone
<1>4. ASSUME ~hasty'
      PROVE  CalmNow'
  <2>1. CalmNow /\ Fresh(t)
    BY <1>2, <1>4 DEF Calm, Fresh
  <2>2. \A u \in Calls : ~Fresh(u)'
    BY <1>2, <2>1, FreshReturns
  <2>3. HeldFits' /\ DialogHasTab'
    BY <1>1, <1>2, <2>1 DEF CalmNow, HeldFits, DialogHasTab, ViewIs
  <2>4. BusyIsExplained'
    BY <1>1, <1>2, <2>1 DEF CalmNow, BusyIsExplained, ViewIs, TaskGone
  <2>5. OpenIsKnown' /\ AllConfirmed'
    BY <1>1, <1>2, <2>1 DEF CalmNow, OpenIsKnown, AllConfirmed, ViewIs, TaskGone
  <2> QED
    BY <2>2, <2>3, <2>4, <2>5, NobodyLeft DEF CalmNow
<1> QED
  BY <1>3, <1>4 DEF Calm

\* A session ends by itself: before its response, while it is held, or afterwards.
LEMMA SessionEndsKeeps ==
  ASSUME FlowInv, NEW t \in Calls, SessionEnds(t)
  PROVE  FlowInv'
<1> USE DEF FlowInv, Shape
<1> DEFINE early == task[t] # None /\ task[t].at = "opened"
<1>1. /\ UNCHANGED <<stored, serverKey, call, owner, closer, confirmed, hasty>>
      /\ open[t] # None /\ view \in View
  BY DEF SessionEnds, hostTrustVars, histories, TypesOK
<1>2. /\ open' \in [Calls -> (Hosts \X Keys) \union {None}]
      /\ open'[t] = None /\ \A u \in Calls : u # t => open'[u] = open[u]
  BY DEF SessionEnds, Ended, TypesOK
<1>3. /\ early => TaskIs(t, task[t].kind, task[t].host, task[t].key, "ended")
      /\ ~early => UNCHANGED task
  <2>1. early <=> Awaits(t, {"form", "dialog"}, "opened")
    BY DEF Awaits, KindFits
  <2> QED
    BY <2>1, MoveOnIs DEF SessionEnds
<1>4. /\ task' \in [Calls -> Task \union {None}]
      /\ \A u \in Calls : u # t => task'[u] = task[u]
      /\ task'[t] = None <=> task[t] = None
      /\ task[t] # None => task'[t].kind = task[t].kind
      /\ early => task'[t].at = "ended"
  BY <1>3 DEF TaskIs, TypesOK
<1>5. /\ owner = t => session' = None
      /\ owner # t => session' = session
  BY DEF SessionEnds
<1>6. PICK conn \in ConnectionState :
         /\ owner = t => conn \in {"failed", "disconnected"}
         /\ owner # t => conn = view.conn
         /\ ViewIs(view.host, view.hostKey, view.known, view.trusted, conn, view.step,
                   view.tab, view.pending)
  BY <1>1 DEF SessionEnds, ViewIs, View, ConnectionState
<1>7. Shape'
  <2>1. TypesOK'
    BY <1>1, <1>2, <1>4, <1>5, <1>6 DEF TypesOK, HostTrustTypeOK, ViewIs
  <2>2. Awaited'
    <3>1. ASSUME NEW u \in Calls, u # t
          PROVE  /\ (task'[u] # None /\ task'[u].at = "trust") <=> call'[u] # None
                 /\ task'[u] # None /\ task'[u].at = "opened" => open'[u] # None
      BY <1>1, <1>2, <1>4, <3>1 DEF Awaited
    <3>2. CASE early
      BY <1>1, <1>4, <3>1, <3>2 DEF Awaited
    <3>3. CASE ~early
      BY <1>1, <1>3, <3>1, <3>3 DEF Awaited
    <3> QED
      BY <3>2, <3>3
  <2>3. KindFits' /\ CallFits' /\ HeldHasAnswered'
    <3>1. CASE early
      BY <1>1, <1>3, <1>5, <2>1, <3>1 DEF KindFits, CallFits, HeldHasAnswered, TaskIs, Awaited
    <3>2. CASE ~early
      BY <1>1, <1>3, <1>5, <3>2 DEF KindFits, CallFits, HeldHasAnswered
    <3> QED
      BY <3>1, <3>2
  <2> QED
    BY <2>1, <2>2, <2>3
<1>8. ASSUME ~hasty'
      PROVE  CalmNow'
  <2>1. CalmNow
    BY <1>1, <1>8 DEF Calm
  <2>2. \A u \in Calls : Fresh(u)' => Fresh(u) /\ task'[u] = task[u]
    <3>1. CASE early
      BY <1>1, <1>3, <3>1 DEF Fresh, TaskIs
    <3>2. CASE ~early
      BY <1>1, <1>3, <3>2 DEF Fresh
    <3> QED
      BY <3>1, <3>2
  <2>3. OneIsFresh' /\ DialogHasTab'
    BY <1>6, <2>1, <2>2 DEF CalmNow, OneIsFresh, DialogHasTab, ViewIs
  <2>4. owner = t => closer = None
    BY <2>1 DEF CalmNow, HeldFits
  <2>5. owner = t => session = t \/ (early /\ Fresh(t) /\ session = None)
    <3>1. ASSUME session # t
          PROVE  early
      BY <1>1, <2>1, <3>1 DEF CalmNow, OpenIsKnown
    <3>2. ASSUME owner = t, session # t
          PROVE  Fresh(t) /\ session = None
      BY <2>1, <3>1, <3>2 DEF CalmNow, Fresh, FreshFits
    <3> QED
      BY <3>1, <3>2
  <2>6. FreshFits'
    <3> SUFFICES ASSUME NEW u \in Calls, Fresh(u)'
                 PROVE  FreshFits!(u)'
      BY DEF FreshFits
    <3>1. Fresh(u) /\ task'[u] = task[u]
      BY <2>2
    <3>2. CASE owner # t
      BY <1>1, <1>5, <1>6, <2>1, <3>1, <3>2 DEF CalmNow, FreshFits, ViewIs
    <3>3. CASE owner = t
      <4>1. task[u].at = "saving"
        <5>1. CASE session = t
          BY <2>1, <3>1, <5>1 DEF CalmNow, FreshFits
        <5>2. CASE early /\ Fresh(t)
          BY <1>4, <2>1, <3>1, <5>2 DEF CalmNow, OneIsFresh
        <5> QED
          BY <2>5, <3>3, <5>1, <5>2
      <4> QED
        BY <1>1, <1>5, <1>6, <2>1, <3>1, <3>3, <4>1 DEF CalmNow, FreshFits, ViewIs
    <3> QED
      BY <3>2, <3>3
  <2>7. HeldFits'
    <3>1. CASE owner = t
      BY <1>1, <1>5, <2>4, <3>1 DEF HeldFits
    <3>2. CASE owner # t
      BY <1>1, <1>4, <1>5, <1>6, <2>1, <3>2 DEF CalmNow, HeldFits, ViewIs, TypesOK
    <3> QED
      BY <3>1, <3>2
  <2>8. BusyIsExplained'
    <3>1. Dialog' <=> Dialog
      BY <1>6 DEF Dialog, ViewIs
    <3>2. ASSUME view.pending
          PROVE  Dialog \/ \E u \in Calls : task'[u] # None /\ task'[u].kind \in {"flow", "dialog"}
      BY <1>4, <2>1, <3>2 DEF CalmNow, BusyIsExplained
    <3>3. CASE owner = t
      BY <1>6, <3>1, <3>2, <3>3 DEF BusyIsExplained, ViewIs
    <3>4. CASE owner # t
      <4>1. view.conn = "probing" =>
               \E u \in Calls : task'[u] # None /\ task'[u].at \in {"probe", "lookup"}
        BY <1>3, <1>4, <2>1 DEF CalmNow, BusyIsExplained
      <4>2. view.conn = "connecting" =>
               \E u \in Calls : task'[u] # None /\ task'[u].at \in {"start", "opened"}
                               /\ owner = u
        BY <1>4, <2>1, <3>4 DEF CalmNow, BusyIsExplained
      <4> QED
        BY <1>1, <1>5, <1>6, <2>1, <3>1, <3>2, <3>4, <4>1, <4>2
           DEF CalmNow, BusyIsExplained, ViewIs
    <3> QED
      BY <3>3, <3>4
  <2>9. OpenIsKnown'
    <3> SUFFICES ASSUME NEW u \in Calls, open'[u] # None
                 PROVE  session' = u \/ (task'[u] # None /\ task'[u].at = "opened")
      BY DEF OpenIsKnown
    <3>1. u # t /\ open[u] # None /\ task'[u] = task[u]
      BY <1>2, <1>4
    <3>2. session = u \/ (task[u] # None /\ task[u].at = "opened")
      BY <2>1, <3>1 DEF CalmNow, OpenIsKnown
    <3> QED
      BY <1>5, <2>5, <3>1, <3>2
  <2>10. AllConfirmed'
    <3>1. \A u \in Calls : task'[u] # None /\ task'[u].at \in {"trust", "start", "opened"} =>
                             task'[u] = task[u]
      BY <1>3, <1>4
    <3> QED
      BY <1>1, <1>2, <1>6, <2>1, <3>1 DEF CalmNow, AllConfirmed, ViewIs
  <2> QED
    BY <2>3, <2>6, <2>7, <2>8, <2>9, <2>10 DEF CalmNow
<1> QED
  BY <1>7, <1>8 DEF Calm

-----------------------------------------------------------------------------
(***************************************************************************)
(* The invariant, and what follows from it.                                *)
(***************************************************************************)
LEMMA FlowStarts == FlowInit => FlowInv
<1> SUFFICES ASSUME FlowInit
             PROVE  FlowInv
  OBVIOUS
<1>1. PICK first \in Hosts :
         view = [host |-> first, hostKey |-> None, known |-> FALSE, trusted |-> FALSE,
                 trustPending |-> FALSE, conn |-> "idle", step |-> None, tab |-> FALSE,
                 pending |-> FALSE]
  BY DEF FlowInit
<1>2. /\ stored \in [Hosts -> SUBSET Keys] /\ serverKey \in [Hosts -> Keys]
      /\ call = [t \in Calls |-> None]
  BY DEF FlowInit, HostTrustInit
<1>3. /\ view \in View /\ view.hostKey = None /\ view.conn = "idle" /\ view.step = None
      /\ view.pending = FALSE
  BY <1>1 DEF View, ConnectionState
<1>4. /\ task = [t \in Calls |-> None] /\ open = [t \in Calls |-> None]
      /\ owner = None /\ session = None /\ closer = None
      /\ confirmed = {pair \in Hosts \X Keys : pair[2] \in stored[pair[1]]}
  BY DEF FlowInit
<1>5. TypesOK
  BY <1>2, <1>3, <1>4 DEF TypesOK, HostTrustTypeOK
<1>6. Shape
  BY <1>2, <1>4, <1>5 DEF Shape, Awaited, KindFits, HeldHasAnswered, CallFits
<1>7. ASSUME NEW host \in Hosts, NEW key \in stored[host]
      PROVE  <<host, key>> \in confirmed
  <2>1. <<host, key>> \in Hosts \X Keys
    BY <1>2
  <2> QED
    BY <1>4, <2>1
<1>8. CalmNow
  BY <1>3, <1>4, <1>7 DEF CalmNow, OneIsFresh, DialogHasTab, FreshFits, HeldFits, Fresh,
                          BusyIsExplained, OpenIsKnown, AllConfirmed
<1> QED
  BY <1>6, <1>8 DEF FlowInv, Calm

LEMMA FlowStutters ==
  ASSUME FlowInv, UNCHANGED flowVars
  PROVE  FlowInv'
<1>1. UNCHANGED <<stored, serverKey, call, view, task, owner, session, open, closer,
                  confirmed, hasty>>
  BY DEF flowVars
<1>2. Shape'
  BY <1>1 DEF FlowInv, Shape, TypesOK, HostTrustTypeOK, Awaited, KindFits, HeldHasAnswered,
              CallFits
<1>3. \A u \in Calls : Fresh(u)' <=> Fresh(u)
  BY <1>1 DEF Fresh
<1>4. CalmNow' <=> CalmNow
  BY <1>1, <1>3 DEF CalmNow, OneIsFresh, DialogHasTab, FreshFits, HeldFits,
                    BusyIsExplained, Dialog, OpenIsKnown, AllConfirmed
<1> QED
  BY <1>1, <1>2, <1>4 DEF FlowInv, Calm

LEMMA FlowSteps ==
  ASSUME FlowInv, [FlowNext]_flowVars
  PROVE  FlowInv'
<1>1. ASSUME NEW t \in Calls, ConfirmConnectionFingerprint(t)
      PROVE  FlowInv'
  BY <1>1, ConfirmKnownKeeps, ConfirmNewKeeps
<1>2. ASSUME NEW t \in Calls, TrustAnswers(t)
      PROVE  FlowInv'
  BY <1>2, TrustStoredKeeps, TrustRefusedKeeps
<1>3. ASSUME NEW t \in Calls, SessionArrives(t)
      PROVE  FlowInv'
  BY <1>3, StaleSessionKeeps, CurrentSessionKeeps
<1>4. ASSUME NEW t \in Calls,
             \/ \E host \in Hosts : BeginConnectionFlow(t, host)
             \/ ProbeForm(t) \/ ProbeFails(t) \/ ProbeSucceeds(t) \/ LookupAnswers(t)
             \/ CredentialAnswers(t)
      PROVE  FlowInv'
  BY <1>4, BeginConnectionFlowKeeps, ProbeFormKeeps, ProbeFailsKeeps, ProbeSucceedsKeeps,
     LookupAnswersKeeps, CredentialAnswersKeeps
<1>5. ASSUME NEW t \in Calls,
             \/ ConfirmAnswers(t) \/ TrustProceeds(t)
             \/ ConnectCurrentMode(t) \/ AuthenticatePendingConnection(t)
             \/ SessionOpens(t) \/ ConnectFails(t) \/ CredentialSaved(t) \/ SessionEnds(t)
      PROVE  FlowInv'
  BY <1>5, ConfirmAnswersKeeps, TrustProceedsKeeps, ConnectCurrentModeKeeps,
     AuthenticateKeeps, SessionOpensKeeps, ConnectFailsKeeps, CredentialSavedKeeps,
     SessionEndsKeeps
<1>6. ASSUME NEW host \in Hosts, BeginUnsupported(host) \/ EditHost(host)
      PROVE  FlowInv'
  BY <1>6, BeginUnsupportedKeeps, EditHostKeeps
<1>7. ASSUME \/ EditUser \/ ChangeMode \/ ToggleTrust
             \/ CancelDirectConnection \/ CancelConnectionFlow
             \/ CloseTab \/ ConfirmSessionClose \/ CloseSucceeds \/ CloseFails
             \/ HostKeyChanges
      PROVE  FlowInv'
  BY <1>7, EditKeeps, ToggleTrustKeeps, CancelDirectKeeps, CancelFlowKeeps, CloseTabKeeps,
     ConfirmCloseKeeps, CloseSucceedsKeeps, CloseFailsKeeps, HostKeyChangesKeeps
<1> QED
  BY <1>1, <1>2, <1>3, <1>4, <1>5, <1>6, <1>7, FlowStutters DEF FlowNext

\* The invariant holds in every state of the window, whatever the user does.
THEOREM FlowInvariant == FlowSpec => []FlowInv
<1>1. FlowInv /\ [FlowNext]_flowVars => FlowInv'
  BY FlowSteps
<1> QED
  BY <1>1, FlowStarts, PTL DEF FlowSpec

\* The history variable of going on is a truth value.
LEMMA HastyIsBoolean ==
  hasty \in BOOLEAN /\ [FlowNext]_flowVars => (hasty \in BOOLEAN)'
<1> SUFFICES ASSUME hasty \in BOOLEAN, [FlowNext]_flowVars
             PROVE  hasty' \in BOOLEAN
  OBVIOUS
<1>1. (hasty \/ Hidden) \in BOOLEAN /\ (hasty \/ Hidden \/ Dialog) \in BOOLEAN
  BY DEF Hidden, Dialog
<1> QED
  BY <1>1, ZenonT(40) DEF FlowNext, flowVars, histories, GoesOn, Launches,
     BeginUnsupported, EditHost, EditUser, ChangeMode, ToggleTrust, CancelDirectConnection,
     CancelConnectionFlow, CloseTab, ConfirmSessionClose, CloseSucceeds, CloseFails,
     HostKeyChanges, BeginConnectionFlow, ProbeForm, ProbeFails, ProbeSucceeds,
     LookupAnswers, CredentialAnswers, ConfirmConnectionFingerprint, ConfirmAnswers,
     TrustProceeds, ConnectCurrentMode, AuthenticatePendingConnection, TrustAnswers,
     SessionOpens, SessionArrives, ConnectFails, CredentialSaved, SessionEnds

\* Type correctness: the view, the functions and the sessions are of their kinds, and who
\* awaits the storing of a key has a call of trust_host_fingerprint under way.
THEOREM FlowTypeCorrect == FlowSpec => []FlowTypeOK
<1>1. FlowInit => hasty \in BOOLEAN
  BY DEF FlowInit
<1>2. FlowInv /\ hasty \in BOOLEAN => FlowTypeOK
  BY DEF FlowInv, Shape, TypesOK, Awaited, FlowTypeOK
<1> QED
  BY <1>1, <1>2, HastyIsBoolean, FlowInvariant, PTL DEF FlowSpec

\* As long as the user waits for the answers that the window awaits without showing it,
\* a key is stored, and a session opened, only for a host and a key that the user confirmed.
THEOREM ConfirmedBeforeUse == FlowSpec => []ConfirmedUnlessHasty
<1>1. FlowInv => ConfirmedUnlessHasty
  BY DEF FlowInv, Calm, CalmNow, AllConfirmed, ConfirmedUnlessHasty, NewKeyIsConfirmed
<1> QED
  BY <1>1, FlowInvariant, PTL

\* As long as the user waits, no session is left open that the window forgot.
THEOREM NobodyIsOrphaned == FlowSpec => []NoOrphanSession
<1>1. FlowInv => NoOrphanSession
  BY DEF FlowInv, Shape, KindFits, Calm, CalmNow, OpenIsKnown, NoOrphanSession, Awaits
<1> QED
  BY <1>1, FlowInvariant, PTL

\* As long as the user waits, the window can launch a connection again once nothing is
\* under way: the busy states and connectionFlowPendingRef are given back on every path.
THEOREM WindowIsFreed == FlowSpec => []LaunchesAgain
<1>1. FlowInv => LaunchesAgain
  <2> SUFFICES ASSUME FlowInv, \A t \in Calls : task[t] = None, ~Dialog, closer = None, ~hasty
               PROVE  ~Busy /\ (session = None => ~connectionLaunchBlocked)
    BY DEF LaunchesAgain
  <2>1. BusyIsExplained
    BY DEF FlowInv, Calm, CalmNow
  <2> QED
    BY <2>1 DEF BusyIsExplained, Busy, connectionLaunchBlocked
<1> QED
  BY <1>1, FlowInvariant, PTL

\* The window calls trust_host_fingerprint with a host and a key, and changes the stored
\* keys in no other way: what holds of the commands alone holds in the window's use.
THEOREM FlowUsesHostTrust == FlowSpec => HostTrustSpec
<1>1. FlowInit => HostTrustInit
  BY DEF FlowInit
<1>2. FlowInv /\ [FlowNext]_flowVars => [HostTrustNext]_hostTrustVars
  <2> SUFFICES ASSUME FlowInv, [FlowNext]_flowVars
               PROVE  [HostTrustNext]_hostTrustVars
    OBVIOUS
  <2>1. view.host \in Hosts /\ (view.hostKey # None => view.hostKey \in Keys)
    BY DEF FlowInv, Shape, TypesOK, View
  <2>2. ASSUME NEW t \in Calls, ConfirmConnectionFingerprint(t)
        PROVE  [HostTrustNext]_hostTrustVars
    BY <2>1, <2>2 DEF ConfirmConnectionFingerprint, HostTrustNext
  <2>3. ASSUME NEW t \in Calls, ConnectCurrentMode(t) \/ AuthenticatePendingConnection(t)
        PROVE  [HostTrustNext]_hostTrustVars
    BY <2>1, <2>3 DEF ConnectCurrentMode, AuthenticatePendingConnection, Connect,
                      HostTrustNext
  <2>4. ASSUME NEW t \in Calls, ConfirmAnswers(t) \/ TrustAnswers(t) \/ TrustProceeds(t)
        PROVE  [HostTrustNext]_hostTrustVars
    BY <2>4 DEF ConfirmAnswers, TrustAnswers, TrustProceeds, HostTrustNext
  <2>5. ASSUME NEW t \in Calls,
               \/ \E host \in Hosts : BeginConnectionFlow(t, host)
               \/ ProbeForm(t) \/ ProbeFails(t) \/ ProbeSucceeds(t) \/ LookupAnswers(t)
               \/ CredentialAnswers(t) \/ SessionOpens(t) \/ SessionArrives(t)
               \/ ConnectFails(t) \/ CredentialSaved(t) \/ SessionEnds(t)
        PROVE  [HostTrustNext]_hostTrustVars
    BY <2>5 DEF BeginConnectionFlow, ProbeForm, ProbeFails, ProbeSucceeds, LookupAnswers,
       CredentialAnswers, SessionOpens, SessionArrives, ConnectFails, CredentialSaved,
       SessionEnds
  <2>6. CASE \/ \E host \in Hosts : BeginUnsupported(host) \/ EditHost(host)
             \/ EditUser \/ ChangeMode \/ ToggleTrust
             \/ CancelDirectConnection \/ CancelConnectionFlow
             \/ CloseTab \/ ConfirmSessionClose \/ CloseSucceeds \/ CloseFails
    BY <2>6 DEF BeginUnsupported, EditHost, EditUser, ChangeMode, ToggleTrust,
       CancelDirectConnection, CancelConnectionFlow, CloseTab, ConfirmSessionClose,
       CloseSucceeds, CloseFails
  <2>7. CASE HostKeyChanges \/ UNCHANGED flowVars
    BY <2>7 DEF HostKeyChanges, HostTrustNext, flowVars, hostTrustVars
  <2> QED
    BY <2>2, <2>3, <2>4, <2>5, <2>6, <2>7 DEF FlowNext
<1> QED
  BY <1>1, <1>2, FlowInvariant, PTL DEF FlowSpec, HostTrustSpec

\* Whatever the functions of the window interleave, a host has one trusted key at most.
THEOREM FlowKeepsOneKey == FlowSpec => []OneKeyPerHost
  BY FlowUsesHostTrust, OneKeyAlways, PTL
=============================================================================
