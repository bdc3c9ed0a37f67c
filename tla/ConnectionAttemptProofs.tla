----------------------- MODULE ConnectionAttemptProofs -----------------------
(***************************************************************************)
(* Safety of ConnectionAttempt for every set of windows, attempt ids and   *)
(* invocations.  AttemptsAreProgressing is not inductive alone: an attempt *)
(* that could not take its final transition would leave the map without an *)
(* event, and a command whose stage the state machine refuses would return *)
(* with its attempt still in the map, so ConnectionInv adds what rules     *)
(* those out.                                                              *)
(***************************************************************************)
EXTENDS ConnectionAttempt, TLAPS

(* Every attempt in the map can still be cancelled or fail.                *)
AttemptsAreConnecting ==
  \A a \in AttemptIds : attempts[a] # None => attempts[a].stage \in Connecting

(* The state machine of a command's attempt agrees with the step the       *)
(* command is at, so that its next transition is valid.                    *)
StageFollowsStep ==
  \A h \in Invocations : Progressing(h) /\ attempts[request[h].id] # None =>
    LET stage == attempts[request[h].id].stage IN
      /\ phase[h] = "created" => stage = "Created"
      /\ phase[h] = "enter" => <<stage, step[h]>> \in ForwardTransition
      /\ phase[h] = "await" =>
           IF step[h] = "ListingDirectory"
           THEN stage = "OpeningChannel" /\ request[h].kind = "Sftp"
           ELSE stage = step[h]
      /\ phase[h] = "completing" => stage = "OpeningChannel"

(* What the window has been shown, at each point of a command.             *)
ShownFollowsPhase ==
  \A h \in Invocations :
    /\ phase[h] = "idle" => shown[h] = None
    /\ Progressing(h) => shown[h] \notin {None, "Connected", "Cancelled", "Failed"}
    /\ phase[h] = "connected" => shown[h] = "Connected"
    /\ phase[h] = "cancelling" => cancelled[h]

ConnectionInv ==
  /\ AttemptTypeOK
  /\ AttemptsAreProgressing
  /\ AttemptsAreConnecting
  /\ StageFollowsStep
  /\ ShownFollowsPhase
  /\ SessionsComeFromCommands
  /\ OutcomeIsShown

LEMMA TypeInit == AttemptInit => AttemptTypeOK
  BY ZenonT(40) DEF AttemptInit, ManagerInit, SessionsInit, AttemptTypeOK, ManagerTypeOK, SessionsTypeOK, Phase, Step,
         ConnectStep

LEMMA NoneIsNoRecord == None \notin Attempt /\ None \notin Session
  BY NoneAssumption

LEMMA NoneIsNoStage == None \notin Stage
  BY NoneAssumption

(* What a transition, a completion and a finished attempt leave in the     *)
(* map of attempts.                                                        *)
LEMMA TransitionKeepsTypes ==
  ASSUME ManagerTypeOK, NEW w \in Windows, NEW a \in AttemptIds,
         NEW s \in Step, TransitionAttempt(w, a, s)
  PROVE  /\ ManagerTypeOK'
         /\ s \in Connecting
         /\ attempts[a] \in Attempt
         /\ attempts' = [attempts EXCEPT ![a] =
                [owner |-> attempts[a].owner, kind |-> attempts[a].kind,
                 stage |-> s, token |-> attempts[a].token]]
<1>1. s \in Stage \cap Connecting
  BY DEF TransitionAttempt, CanTransition, ValidTransition, ForwardTransition,
         Stage, Connecting, Step, ConnectStep
<1>2. attempts[a] \in Attempt
  BY DEF TransitionAttempt, CanTransition, OwnedAttempt, ManagerTypeOK, SessionsTypeOK
<1>3. attempts' = [attempts EXCEPT ![a] = [attempts[a] EXCEPT !.stage = s]]
  BY DEF TransitionAttempt
<1>4. [attempts[a] EXCEPT !.stage = s] =
        [owner |-> attempts[a].owner, kind |-> attempts[a].kind,
         stage |-> s, token |-> attempts[a].token]
  BY <1>2 DEF Attempt
<1>5. ManagerTypeOK'
  BY <1>1, <1>2, <1>3, <1>4 DEF ManagerTypeOK, SessionsTypeOK, TransitionAttempt, Attempt
<1>6. QED
  BY <1>1, <1>2, <1>3, <1>4, <1>5

LEMMA CompleteKeepsTypes ==
  ASSUME ManagerTypeOK, NEW w \in Windows, NEW a \in AttemptIds,
         NEW h \in Invocations, CompleteAttempt(w, a, h)
  PROVE  /\ ManagerTypeOK'
         /\ attempts[a] \in Attempt
<1>1. attempts[a] \in Attempt
  BY DEF CompleteAttempt, EstablishSession, CanTransition, OwnedAttempt, ManagerTypeOK, SessionsTypeOK
<1>2. QED
  BY <1>1 DEF CompleteAttempt, EstablishSession, ManagerTypeOK, SessionsTypeOK, Attempt, Session

LEMMA ManagerCallsKeepTypes ==
  ASSUME ManagerTypeOK, NEW w \in Windows, NEW a \in AttemptIds,
         NEW h \in Invocations, NEW k \in SessionKind
  PROVE  /\ BeginAttempt(w, a, k, h) => ManagerTypeOK'
         /\ FinishAttempt(w, a) => ManagerTypeOK'
         /\ CancelAttempt(w, a) => ManagerTypeOK'
         /\ Clear => ManagerTypeOK'
<1>1. BeginAttempt(w, a, k, h) => ManagerTypeOK'
  BY DEF BeginAttempt, ManagerTypeOK, SessionsTypeOK, Attempt, FirstStage, Stage
<1>2. FinishAttempt(w, a) => ManagerTypeOK'
  BY DEF FinishAttempt, ManagerTypeOK, SessionsTypeOK
<1>3. CancelAttempt(w, a) => ManagerTypeOK'
  BY DEF CancelAttempt, ManagerTypeOK, SessionsTypeOK
<1>4. Clear => ManagerTypeOK'
  BY DEF Clear, ClearSessions, ManagerTypeOK, SessionsTypeOK
<1>5. QED
  BY <1>1, <1>2, <1>3, <1>4

LEMMA TypeStep == AttemptTypeOK /\ [AttemptNext]_attemptVars => AttemptTypeOK'
<1> SUFFICES ASSUME AttemptTypeOK, [AttemptNext]_attemptVars
             PROVE  AttemptTypeOK'
  OBVIOUS
<1> USE DEF AttemptTypeOK
<1>0. Request \subseteq Request \cup {None}
  OBVIOUS
<1>1. ASSUME NEW h \in Invocations, NEW w \in Windows, NEW a \in AttemptIds,
             NEW k \in SessionKind, Start(h, w, a, k)
      PROVE  AttemptTypeOK'
  BY <1>1, ManagerCallsKeepTypes DEF Start, Request, Phase, Stage
<1>2. ASSUME NEW h \in Invocations, NEW w \in Windows, NEW a \in AttemptIds,
             NEW k \in SessionKind, StartRefused(h, w, a, k)
      PROVE  AttemptTypeOK'
  BY <1>2 DEF StartRefused, Request, Phase, managerVars, ManagerTypeOK, SessionsTypeOK
<1>3. ASSUME NEW h \in Invocations, Prepare(h)
      PROVE  AttemptTypeOK'
  BY <1>3 DEF Prepare, Phase, Step, ConnectStep, managerVars, ManagerTypeOK, SessionsTypeOK
<1>4. ASSUME NEW h \in Invocations, PrepareFails(h)
      PROVE  AttemptTypeOK'
  BY <1>4 DEF PrepareFails, Phase, managerVars, ManagerTypeOK, SessionsTypeOK
<1>5. ASSUME NEW h \in Invocations, EnterStage(h)
      PROVE  AttemptTypeOK'
  <2>1. request[h] \in Request /\ step[h] \in Step
    BY <1>5 DEF EnterStage
  <2>2. ManagerTypeOK' /\ step[h] \in Stage
    BY <1>5, <2>1, TransitionKeepsTypes DEF EnterStage, Request, Connecting
  <2>3. QED
    BY <1>5, <2>1, <2>2 DEF EnterStage, Phase
<1>6. ASSUME NEW h \in Invocations, EnterRefused(h)
      PROVE  AttemptTypeOK'
  BY <1>6 DEF EnterRefused, Phase, managerVars, ManagerTypeOK, SessionsTypeOK
<1>7. ASSUME NEW h \in Invocations, AwaitSucceeds(h)
      PROVE  AttemptTypeOK'
  <2>1. NextStep(step[h]) \in Step
    BY DEF NextStep, Step, ConnectStep
  <2>2. QED
    BY <1>7, <2>1 DEF AwaitSucceeds, Phase, managerVars, ManagerTypeOK, SessionsTypeOK
<1>8. ASSUME NEW h \in Invocations, AwaitFails(h) \/ AwaitCancelled(h)
      PROVE  AttemptTypeOK'
  BY <1>8 DEF AwaitFails, AwaitCancelled, Phase, managerVars, ManagerTypeOK, SessionsTypeOK
<1>9. ASSUME NEW h \in Invocations, Finish(h)
      PROVE  AttemptTypeOK'
  <2>1. request[h] \in Request
    BY <1>9 DEF Finish
  <2>2. ManagerTypeOK'
    BY <1>9, <2>1, ManagerCallsKeepTypes
       DEF Finish, Request, managerVars, ManagerTypeOK, SessionsTypeOK
  <2>3. FinalStage(h) \in Stage
    BY DEF FinalStage, Stage
  <2>4. QED
    BY <1>9, <2>2, <2>3 DEF Finish, Phase
<1>10. ASSUME NEW h \in Invocations, Complete(h)
       PROVE  AttemptTypeOK'
  <2>1. request[h] \in Request
    BY <1>10 DEF Complete
  <2>2. ManagerTypeOK'
    BY <1>10, <2>1, CompleteKeepsTypes DEF Complete, Request
  <2>3. QED
    BY <1>10, <2>2 DEF Complete, Phase, Stage
<1>11. ASSUME NEW h \in Invocations, CompleteRefused(h)
       PROVE  AttemptTypeOK'
  BY <1>11 DEF CompleteRefused, Phase, managerVars, ManagerTypeOK, SessionsTypeOK
<1>12. ASSUME NEW w \in Windows, NEW a \in AttemptIds, CancelSshConnection(w, a)
       PROVE  AttemptTypeOK'
  BY <1>12 DEF CancelSshConnection, CancelAttempt, ManagerTypeOK, SessionsTypeOK, workerVars
<1>13. CASE ClearManager
  BY <1>13 DEF ClearManager, Clear, ClearSessions, ManagerTypeOK, SessionsTypeOK, workerVars
<1>14. ASSUME NEW h \in Invocations, SessionRemoved(h)
       PROVE  AttemptTypeOK'
  BY <1>14 DEF SessionRemoved, RemoveSession, ManagerTypeOK, SessionsTypeOK, workerVars
<1>15. CASE UNCHANGED attemptVars
  BY <1>15 DEF attemptVars, managerVars, workerVars, ManagerTypeOK, SessionsTypeOK
<1>16. QED
  BY <1>1, <1>2, <1>3, <1>4, <1>5, <1>6, <1>7, <1>8, <1>9, <1>10, <1>11,
     <1>12, <1>13, <1>14, <1>15 DEF AttemptNext, Worker

(* The variables of the model keep their types.                            *)
THEOREM AttemptTypeCorrect == AttemptSpec => []AttemptTypeOK
  BY TypeInit, TypeStep, PTL DEF AttemptSpec

-----------------------------------------------------------------------------
LEMMA ConnectionInvInit == AttemptInit => ConnectionInv
<1> SUFFICES ASSUME AttemptInit PROVE ConnectionInv
  OBVIOUS
<1>1. AttemptTypeOK
  BY TypeInit
<1>2. QED
  BY <1>1, NoneIsNoStage DEF ConnectionInv, AttemptInit, ManagerInit, SessionsInit,
     AttemptsAreProgressing, AttemptsAreConnecting, StageFollowsStep,
     ShownFollowsPhase, SessionsComeFromCommands, OutcomeIsShown, Progressing, Stage

(* A step of one command that leaves the manager alone and keeps the       *)
(* command progressing, or ends it without an attempt of its own, keeps    *)
(* the map and the progressing commands in step.                           *)
LEMMA WorkerKeepsAttempts ==
  ASSUME ConnectionInv, NEW h \in Invocations, Progressing(h),
         UNCHANGED <<managerVars, request, cleared>>,
         NEW p \in Phase, phase' = [phase EXCEPT ![h] = p],
         \/ p \in {"enter", "await", "completing", "failing", "cancelling"}
         \/ attempts[request[h].id] = None
  PROVE  AttemptsAreProgressing'
<1> USE DEF ConnectionInv
<1>1. phase \in [Invocations -> Phase]
  BY DEF AttemptTypeOK
<1>2. \A g \in Invocations \ {h} : phase'[g] = phase[g]
  BY <1>1
<1>3. phase'[h] = p
  BY <1>1
<1>4. ASSUME NEW g \in Invocations, Progressing(g)'
      PROVE  Progressing(g)
  BY <1>2, <1>4 DEF Progressing
<1>5. ASSUME NEW a \in AttemptIds, attempts[a] # None
      PROVE  Progressing(attempts[a].token)'
  <2>1. attempts[a].token \in Invocations
    BY <1>5 DEF AttemptTypeOK, ManagerTypeOK, SessionsTypeOK, Attempt
  <2>2. Progressing(attempts[a].token) /\ request[attempts[a].token].id = a
    BY <1>5 DEF AttemptsAreProgressing
  <2>3. CASE attempts[a].token = h
    BY <1>3, <1>5, <2>2, <2>3 DEF Progressing, managerVars
  <2>4. CASE attempts[a].token # h
    BY <1>2, <2>1, <2>2, <2>4 DEF Progressing, managerVars
  <2>5. QED
    BY <2>3, <2>4
<1>6. QED
  BY <1>4, <1>5 DEF AttemptsAreProgressing, managerVars

(* The state machine accepts whatever the command does next, as long as    *)
(* the attempt is there.                                                   *)
LEMMA AttemptIsAccepted ==
  ASSUME ConnectionInv, NEW h \in Invocations, Progressing(h)
  PROVE  /\ attempts[request[h].id] # None =>
              OwnedAttempt(request[h].owner, request[h].id)
         /\ attempts[request[h].id] = None => cleared /\ cancelled[h]
         /\ phase[h] = "enter" /\ attempts[request[h].id] # None =>
              CanTransition(request[h].owner, request[h].id, step[h])
         /\ phase[h] = "completing" /\ attempts[request[h].id] # None =>
              CanTransition(request[h].owner, request[h].id, "Connected")
         /\ phase[h] \in {"failing", "cancelling"} /\ attempts[request[h].id] # None =>
              CanTransition(request[h].owner, request[h].id, FinalStage(h))
<1> USE DEF ConnectionInv
<1>1. request[h] \in Request
  BY DEF AttemptTypeOK, Progressing
<1>2. /\ attempts[request[h].id] # None =>
           OwnedAttempt(request[h].owner, request[h].id)
      /\ attempts[request[h].id] = None => cleared /\ cancelled[h]
  BY DEF AttemptsAreProgressing, OwnedAttempt
<1>3. phase[h] = "enter" /\ attempts[request[h].id] # None =>
        CanTransition(request[h].owner, request[h].id, step[h])
  BY <1>2 DEF StageFollowsStep, CanTransition, ValidTransition
<1>4. phase[h] = "completing" /\ attempts[request[h].id] # None =>
        CanTransition(request[h].owner, request[h].id, "Connected")
  BY <1>2 DEF StageFollowsStep, CanTransition, ValidTransition, ForwardTransition
<1>5. phase[h] \in {"failing", "cancelling"} /\ attempts[request[h].id] # None =>
        CanTransition(request[h].owner, request[h].id, FinalStage(h))
  BY <1>1, <1>2 DEF AttemptsAreConnecting, CanTransition, ValidTransition,
     FinalStage, Request
<1>6. QED
  BY <1>2, <1>3, <1>4, <1>5

LEMMA ConnectionInvStep ==
  ConnectionInv /\ [AttemptNext]_attemptVars => ConnectionInv'
<1> SUFFICES ASSUME ConnectionInv, [AttemptNext]_attemptVars
             PROVE  ConnectionInv'
  OBVIOUS
<1> USE DEF ConnectionInv
<1>T. AttemptTypeOK'
  BY TypeStep
<1>K. /\ phase \in [Invocations -> Phase]
      /\ shown \in [Invocations -> Stage \cup {None}]
      /\ request \in [Invocations -> Request \cup {None}]
      /\ attempts \in [AttemptIds -> Attempt \cup {None}]
      /\ sessions \in [Invocations -> Session \cup {None}]
      /\ cancelled \in [Invocations -> BOOLEAN]
      /\ step \in [Invocations -> Step]
      /\ \A h \in Invocations : phase[h] # "idle" => request[h] \in Request
  BY DEF AttemptTypeOK, ManagerTypeOK, SessionsTypeOK
<1>1. ASSUME NEW h \in Invocations, NEW w \in Windows, NEW a \in AttemptIds,
             NEW k \in SessionKind, Start(h, w, a, k)
      PROVE  ConnectionInv'
  <2> DEFINE rec == [owner |-> w, kind |-> k, stage |-> "Created", token |-> h]
  <2>1. /\ attempts' = [attempts EXCEPT ![a] = rec]
        /\ attempts[a] = None
        /\ UNCHANGED <<sessions, cancelled, cleared, step>>
        /\ phase[h] = "idle"
        /\ Drawable(a)
    BY <1>1 DEF Start, BeginAttempt, FirstStage
  <2>2. /\ request' = [request EXCEPT ![h] = [owner |-> w, id |-> a, kind |-> k]]
        /\ phase' = [phase EXCEPT ![h] = "created"]
        /\ shown' = [shown EXCEPT ![h] = "Created"]
    BY <1>1 DEF Start
  <2>3. rec \in Attempt /\ rec # None
    BY NoneIsNoRecord DEF Attempt, Stage
  <2>4. AttemptsAreProgressing'
    <3>1. ASSUME NEW g \in Invocations, Progressing(g)', g # h
          PROVE  request[g].id # a /\ Progressing(g) /\ request[g].id \in AttemptIds
      <4>1. Progressing(g) /\ request[g] \in Request
        BY <1>K, <2>2, <3>1 DEF Progressing
      <4>2. QED
        BY <2>1, <4>1 DEF Drawable, Request
    <3>2. ASSUME NEW b \in AttemptIds, b # a, attempts[b] # None
          PROVE  attempts[b].token # h /\ attempts[b].token \in Invocations
      <4>1. Progressing(attempts[b].token) /\ attempts[b].token \in Invocations
        BY <1>K, <3>2 DEF AttemptsAreProgressing, Attempt
      <4>2. QED
        BY <2>1, <4>1 DEF Progressing
    <3>3. ASSUME NEW g \in Invocations, Progressing(g)'
          PROVE  \/ /\ attempts'[request'[g].id] # None
                    /\ attempts'[request'[g].id].token = g
                    /\ attempts'[request'[g].id].owner = request'[g].owner
                    /\ attempts'[request'[g].id].kind = request'[g].kind
                 \/ /\ attempts'[request'[g].id] = None
                    /\ cleared'
                    /\ cancelled'[g]
      <4>1. CASE g = h
        BY <1>K, <2>1, <2>2, <2>3, <4>1
      <4>2. CASE g # h
        BY <1>K, <2>1, <2>2, <3>1, <3>3, <4>2 DEF AttemptsAreProgressing
      <4>3. QED
        BY <4>1, <4>2
    <3>4. ASSUME NEW b \in AttemptIds, attempts'[b] # None
          PROVE  (Progressing(attempts[b].token) /\ request[attempts[b].token].id = b)'
      <4>1. CASE b = a
        BY <1>K, <2>1, <2>2, <4>1 DEF Progressing
      <4>2. CASE b # a
        BY <1>K, <2>1, <2>2, <3>2, <3>4, <4>2
           DEF AttemptsAreProgressing, Progressing
      <4>3. QED
        BY <4>1, <4>2
    <3>5. QED
      BY <3>3, <3>4 DEF AttemptsAreProgressing
  <2>5. AttemptsAreConnecting'
    BY <1>K, <2>1, <2>3 DEF AttemptsAreConnecting, Connecting, Stage
  <2>6. ShownFollowsPhase' /\ OutcomeIsShown'
    BY <1>K, <2>1, <2>2, NoneIsNoStage
       DEF ShownFollowsPhase, OutcomeIsShown, Progressing, Stage
  <2>7. SessionsComeFromCommands'
    BY <1>K, <2>1, <2>2 DEF SessionsComeFromCommands
  <2>8. StageFollowsStep'
    <3>1. ASSUME NEW g \in Invocations \ {h}, Progressing(g)'
          PROVE  /\ Progressing(g)
                 /\ request'[g] = request[g]
                 /\ attempts'[request[g].id] = attempts[request[g].id]
      <4>1. Progressing(g) /\ request[g] \in Request
        BY <1>K, <2>2, <3>1 DEF Progressing
      <4>2. request[g].id # a
        BY <2>1, <4>1 DEF Drawable
      <4>3. QED
        BY <1>K, <2>1, <2>2, <4>1, <4>2 DEF Request
    <3>2. QED
      BY <1>K, <2>1, <2>2, <2>3, <3>1 DEF StageFollowsStep
  <2>9. QED
    BY <1>T, <2>4, <2>5, <2>6, <2>7, <2>8
<1>2. ASSUME NEW h \in Invocations, NEW w \in Windows, NEW a \in AttemptIds,
             NEW k \in SessionKind, StartRefused(h, w, a, k)
      PROVE  ConnectionInv'
  <2>1. /\ UNCHANGED <<attempts, sessions, cancelled, cleared, step, shown>>
        /\ request' = [request EXCEPT ![h] = [owner |-> w, id |-> a, kind |-> k]]
        /\ phase' = [phase EXCEPT ![h] = "ended"]
        /\ phase[h] = "idle"
    BY <1>2 DEF StartRefused, managerVars
  <2>2. \A b \in AttemptIds : attempts[b] # None =>
          attempts[b].token \in Invocations \ {h}
    BY <1>K, <2>1 DEF AttemptsAreProgressing, Attempt, Progressing
  <2>3. AttemptsAreProgressing'
    BY <1>K, <2>1, <2>2 DEF AttemptsAreProgressing, Progressing
  <2>4. AttemptsAreConnecting' /\ SessionsComeFromCommands'
    BY <1>K, <2>1 DEF AttemptsAreConnecting, SessionsComeFromCommands
  <2>5. ShownFollowsPhase' /\ OutcomeIsShown'
    BY <1>K, <2>1 DEF ShownFollowsPhase, OutcomeIsShown, Progressing
  <2>6. StageFollowsStep'
    BY <1>K, <2>1 DEF StageFollowsStep, Progressing
  <2>7. QED
    BY <1>T, <2>3, <2>4, <2>5, <2>6
<1>3. ASSUME NEW h \in Invocations,
             Prepare(h) \/ PrepareFails(h) \/ AwaitSucceeds(h)
               \/ AwaitFails(h) \/ AwaitCancelled(h) \/ CompleteRefused(h)
      PROVE  ConnectionInv'
  <2>1. PICK p \in {"enter", "await", "completing", "failing", "cancelling"} :
          /\ UNCHANGED <<managerVars, request, shown, cleared>>
          /\ phase' = [phase EXCEPT ![h] = p]
          /\ Progressing(h)
          /\ p = "cancelling" => cancelled[h]
    BY <1>3 DEF Prepare, PrepareFails, AwaitSucceeds, AwaitFails,
       AwaitCancelled, CompleteRefused, Progressing
  <2>2. p \in Phase
    BY <2>1 DEF Phase
  <2>3. AttemptsAreProgressing'
    BY <2>1, <2>2, WorkerKeepsAttempts
  <2>4. AttemptsAreConnecting' /\ SessionsComeFromCommands'
    BY <1>K, <2>1
       DEF AttemptsAreConnecting, SessionsComeFromCommands, managerVars, Progressing
  <2>5. ShownFollowsPhase' /\ OutcomeIsShown'
    BY <1>K, <2>1
       DEF ShownFollowsPhase, OutcomeIsShown, Progressing, managerVars
  <2>6. StageFollowsStep'
    <3>1. CASE Prepare(h)
      BY <1>K, <3>1 DEF StageFollowsStep, Progressing, Prepare, managerVars,
         ForwardTransition
    <3>2. CASE AwaitSucceeds(h)
      <4>1. request[h] \in Request /\ phase[h] = "await" /\ step[h] \in Step
        BY <1>K, <3>2 DEF AwaitSucceeds
      <4>2. request[h].kind \in {"Terminal", "Sftp"}
        BY <4>1 DEF Request, SessionKind
      <4>3. CASE step[h] = LastStep(request[h].kind)
        BY <1>K, <3>2, <4>1, <4>2, <4>3
           DEF StageFollowsStep, Progressing, AwaitSucceeds, managerVars, LastStep
      <4>4. CASE step[h] # LastStep(request[h].kind) /\ step[h] = "OpeningChannel"
        <5>1. request[h].kind = "Sftp"
          BY <4>2, <4>4 DEF LastStep
        <5>2. /\ step' = [step EXCEPT ![h] = "ListingDirectory"]
              /\ phase' = [phase EXCEPT ![h] = "await"]
              /\ UNCHANGED <<attempts, request>>
          BY <3>2, <4>4 DEF AwaitSucceeds, NextStep, managerVars
        <5>3. QED
          BY <1>K, <4>1, <4>4, <5>1, <5>2 DEF StageFollowsStep, Progressing
      <4>5. CASE step[h] # LastStep(request[h].kind) /\ step[h] \in ConnectStep
        BY <1>K, <3>2, <4>1, <4>5
           DEF StageFollowsStep, Progressing, AwaitSucceeds, managerVars,
               NextStep, ConnectStep, ForwardTransition
      <4>6. CASE step[h] # LastStep(request[h].kind) /\ step[h] = "ListingDirectory"
        BY <1>K, <3>2, <4>1, <4>2, <4>6, ZenonT(40)
           DEF StageFollowsStep, Progressing, AwaitSucceeds, managerVars, LastStep
      <4>7. QED
        BY <4>1, <4>3, <4>4, <4>5, <4>6 DEF Step
    <3>3. CASE PrepareFails(h) \/ AwaitFails(h) \/ AwaitCancelled(h)
                 \/ CompleteRefused(h)
      BY <1>K, <3>3 DEF StageFollowsStep, Progressing, managerVars,
         PrepareFails, AwaitFails, AwaitCancelled, CompleteRefused
    <3>4. QED
      BY <1>3, <3>1, <3>2, <3>3
  <2>7. QED
    BY <1>T, <2>3, <2>4, <2>5, <2>6
<1>4. ASSUME NEW h \in Invocations, EnterStage(h)
      PROVE  ConnectionInv'
  <2> DEFINE id == request[h].id
             rec == [owner |-> attempts[id].owner, kind |-> attempts[id].kind,
                     stage |-> step[h], token |-> attempts[id].token]
  <2>1. /\ phase[h] = "enter"
        /\ request[h] \in Request
        /\ TransitionAttempt(request[h].owner, id, step[h])
        /\ phase' = [phase EXCEPT ![h] = "await"]
        /\ shown' = [shown EXCEPT ![h] = step[h]]
        /\ UNCHANGED <<request, step, cleared, sessions, cancelled>>
    BY <1>4, <1>K DEF EnterStage, TransitionAttempt
  <2>2. id \in AttemptIds /\ request[h].owner \in Windows
    BY <2>1 DEF Request
  <2>3. /\ attempts' = [attempts EXCEPT ![id] = rec]
        /\ step[h] \in Connecting
        /\ attempts[id] \in Attempt
    BY <1>K, <2>1, <2>2, TransitionKeepsTypes DEF AttemptTypeOK
  <2>4. rec \in Attempt /\ rec # None /\ attempts[id] # None
    BY <2>3, NoneIsNoRecord DEF Attempt, Connecting
  <2>5. AttemptsAreProgressing'
    <3>1. \A b \in AttemptIds :
            /\ attempts'[b] # None <=> attempts[b] # None
            /\ attempts[b] # None => /\ attempts'[b].token = attempts[b].token
                                     /\ attempts'[b].owner = attempts[b].owner
                                     /\ attempts'[b].kind = attempts[b].kind
      BY <1>K, <2>2, <2>3, <2>4
    <3>2. \A g \in Invocations : Progressing(g)' <=> Progressing(g)
      BY <1>K, <2>1 DEF Progressing
    <3>3. \A g \in Invocations : Progressing(g) => request[g].id \in AttemptIds
      BY <1>K DEF Progressing, Request
    <3>4. \A b \in AttemptIds : attempts[b] # None =>
            attempts[b].token \in Invocations
      BY <1>K DEF Attempt
    <3>5. QED
      BY <2>1, <3>1, <3>2, <3>3, <3>4 DEF AttemptsAreProgressing
  <2>6. AttemptsAreConnecting'
    BY <1>K, <2>2, <2>3, <2>4 DEF AttemptsAreConnecting
  <2>7. SessionsComeFromCommands'
    BY <1>K, <2>1 DEF SessionsComeFromCommands
  <2>8. step[h] \notin {None, "Connected", "Cancelled", "Failed"}
    BY <2>3, NoneIsNoStage DEF Connecting, Stage
  <2>9. ShownFollowsPhase' /\ OutcomeIsShown'
    BY <1>K, <2>1, <2>8 DEF ShownFollowsPhase, OutcomeIsShown, Progressing
  <2>10. StageFollowsStep'
    <3>1. ASSUME NEW g \in Invocations \ {h}, Progressing(g)',
                 attempts'[request[g].id] # None
          PROVE  /\ Progressing(g)
                 /\ attempts'[request[g].id] = attempts[request[g].id]
      <4>1. Progressing(g) /\ request[g].id \in AttemptIds
        BY <1>K, <2>1, <3>1 DEF Progressing, Request
      <4>2. CASE request[g].id = id
        BY <2>1, <2>4, <4>1, <4>2 DEF AttemptsAreProgressing, Progressing
      <4>3. CASE request[g].id # id
        BY <1>K, <2>2, <2>3, <4>1, <4>3
      <4>4. QED
        BY <4>1, <4>2, <4>3
    <3>2. step[h] # "ListingDirectory"
      BY <2>3 DEF Connecting, Stage
    <3>3. attempts'[request[h].id].stage = step[h] /\ phase'[h] = "await"
      BY <1>K, <2>1, <2>2, <2>3
    <3>4. SUFFICES ASSUME NEW g \in Invocations, Progressing(g)',
                          attempts'[request[g].id] # None
                   PROVE  StageFollowsStep!(g)'
      BY <2>1, Zenon DEF StageFollowsStep
    <3>5. CASE g = h
      BY <2>1, <3>2, <3>3, <3>5
    <3>6. CASE g # h
      BY <1>K, <2>1, <3>1, <3>4, <3>6 DEF StageFollowsStep
    <3>7. QED
      BY <3>5, <3>6
  <2>11. QED
    BY <1>T, <2>5, <2>6, <2>7, <2>9, <2>10
<1>5. ASSUME NEW h \in Invocations, EnterRefused(h)
      PROVE  ConnectionInv'
  <2>1. /\ phase[h] = "enter"
        /\ UNCHANGED <<managerVars, request, step, shown, cleared>>
        /\ phase' = [phase EXCEPT ![h] =
             IF step[h] = "OpeningChannel" THEN "ended" ELSE "await"]
    BY <1>5 DEF EnterRefused
  <2>2. attempts[request[h].id] = None /\ cleared
    BY <1>5, <1>K, AttemptIsAccepted DEF EnterRefused, Progressing
  <2>3. AttemptsAreProgressing'
    BY <2>1, <2>2, WorkerKeepsAttempts DEF Progressing, Phase
  <2>4. AttemptsAreConnecting' /\ SessionsComeFromCommands'
    BY <1>K, <2>1
       DEF AttemptsAreConnecting, SessionsComeFromCommands, managerVars
  <2>5. ShownFollowsPhase' /\ OutcomeIsShown'
    BY <1>K, <2>1, <2>2
       DEF ShownFollowsPhase, OutcomeIsShown, Progressing, managerVars
  <2>6. StageFollowsStep'
    BY <1>K, <2>1, <2>2 DEF StageFollowsStep, Progressing, managerVars
  <2>7. QED
    BY <1>T, <2>3, <2>4, <2>5, <2>6
<1>6. ASSUME NEW h \in Invocations, Finish(h)
      PROVE  ConnectionInv'
  <2> DEFINE id == request[h].id
  <2>1. /\ phase[h] \in {"failing", "cancelling"}
        /\ phase' = [phase EXCEPT ![h] = "ended"]
        /\ UNCHANGED <<request, step, cleared>>
        /\ Progressing(h)
    BY <1>6 DEF Finish, Progressing
  <2>2. CASE attempts[id] = None
    <3>1. cleared /\ UNCHANGED <<attempts, sessions, cancelled, shown>>
      BY <1>6, <2>1, <2>2, AttemptIsAccepted DEF Finish, OwnedAttempt, managerVars
    <3>2. UNCHANGED <<managerVars, request, cleared>> /\ "ended" \in Phase
      BY <2>1, <3>1 DEF managerVars, Phase
    <3>3. AttemptsAreProgressing'
      BY <2>1, <2>2, <3>2, WorkerKeepsAttempts
    <3>4. AttemptsAreConnecting' /\ SessionsComeFromCommands'
      BY <1>K, <2>1, <3>1 DEF AttemptsAreConnecting, SessionsComeFromCommands
    <3>5. ShownFollowsPhase' /\ OutcomeIsShown'
      BY <1>K, <2>1, <3>1 DEF ShownFollowsPhase, OutcomeIsShown, Progressing
    <3>6. StageFollowsStep'
      BY <1>K, <2>1, <3>1 DEF StageFollowsStep, Progressing
    <3>7. QED
      BY <1>T, <3>3, <3>4, <3>5, <3>6
  <2>3. CASE attempts[id] # None
    <3>1. /\ OwnedAttempt(request[h].owner, id)
          /\ CanTransition(request[h].owner, id, FinalStage(h))
      BY <2>1, <2>3, AttemptIsAccepted
    <3>2. /\ attempts' = [attempts EXCEPT ![id] = None]
          /\ UNCHANGED <<sessions, cancelled>>
          /\ shown' = [shown EXCEPT ![h] = FinalStage(h)]
      BY <1>6, <3>1 DEF Finish, FinishAttempt
    <3>3. /\ FinalStage(h) = "Cancelled" => cancelled[h]
          /\ FinalStage(h) \in {"Cancelled", "Failed"}
      BY <2>1 DEF FinalStage, ShownFollowsPhase
    <3>4. \A g \in Invocations \ {h} : Progressing(g)' =>
            /\ Progressing(g)
            /\ request[g].id \in AttemptIds
            /\ request[g].id # id \/ attempts[request[g].id] = None
      BY <1>K, <2>1, <2>3 DEF Progressing, Request, AttemptsAreProgressing
    <3>5. \A b \in AttemptIds \ {id} : attempts[b] # None =>
            attempts[b].token \in Invocations \ {h}
      BY <1>K DEF AttemptsAreProgressing, Attempt
    <3>6. AttemptsAreProgressing'
      BY <1>K, <2>1, <2>3, <3>2, <3>4, <3>5
         DEF AttemptsAreProgressing, Progressing
    <3>7. AttemptsAreConnecting' /\ SessionsComeFromCommands'
      BY <1>K, <2>1, <3>2
         DEF AttemptsAreConnecting, SessionsComeFromCommands, Progressing
    <3>8. ShownFollowsPhase' /\ OutcomeIsShown'
      BY <1>K, <2>1, <3>2, <3>3, NoneIsNoStage
         DEF ShownFollowsPhase, OutcomeIsShown, Progressing, Stage
    <3>9. StageFollowsStep'
      BY <1>K, <2>1, <3>2, <3>4 DEF StageFollowsStep, Progressing
    <3>10. QED
      BY <1>T, <3>6, <3>7, <3>8, <3>9
  <2>4. QED
    BY <2>2, <2>3
<1>7. ASSUME NEW h \in Invocations, Complete(h)
      PROVE  ConnectionInv'
  <2> DEFINE id == request[h].id
             session == [owner |-> attempts[id].owner, kind |-> attempts[id].kind]
  <2>1. /\ phase[h] = "completing"
        /\ Progressing(h)
        /\ attempts[id] # None
        /\ attempts' = [attempts EXCEPT ![id] = None]
        /\ sessions' = [sessions EXCEPT ![h] = session]
        /\ phase' = [phase EXCEPT ![h] = "connected"]
        /\ shown' = [shown EXCEPT ![h] = "Connected"]
        /\ UNCHANGED <<request, step, cleared, cancelled>>
    BY <1>7 DEF Complete, CompleteAttempt, EstablishSession, CanTransition, OwnedAttempt, Progressing
  <2>2. session = [owner |-> request[h].owner, kind |-> request[h].kind]
    BY <2>1 DEF AttemptsAreProgressing
  <2>3. \A g \in Invocations \ {h} : Progressing(g)' =>
          /\ Progressing(g)
          /\ request[g].id \in AttemptIds
          /\ request[g].id # id \/ attempts[request[g].id] = None
    BY <1>K, <2>1 DEF Progressing, Request, AttemptsAreProgressing
  <2>4. \A b \in AttemptIds \ {id} : attempts[b] # None =>
          attempts[b].token \in Invocations \ {h}
    BY <1>K DEF AttemptsAreProgressing, Attempt
  <2>5. AttemptsAreProgressing'
    BY <1>K, <2>1, <2>3, <2>4 DEF AttemptsAreProgressing, Progressing
  <2>6. AttemptsAreConnecting'
    BY <1>K, <2>1 DEF AttemptsAreConnecting
  <2>7. SessionsComeFromCommands'
    BY <1>K, <2>1, <2>2 DEF SessionsComeFromCommands
  <2>8. ShownFollowsPhase' /\ OutcomeIsShown'
    BY <1>K, <2>1, NoneIsNoStage
       DEF ShownFollowsPhase, OutcomeIsShown, Progressing, Stage
  <2>9. StageFollowsStep'
    BY <1>K, <2>1, <2>3 DEF StageFollowsStep, Progressing
  <2>10. QED
    BY <1>T, <2>5, <2>6, <2>7, <2>8, <2>9
<1>8. ASSUME NEW w \in Windows, NEW a \in AttemptIds, CancelSshConnection(w, a)
      PROVE  ConnectionInv'
  <2>1. /\ UNCHANGED <<attempts, sessions, request, phase, step, shown, cleared>>
        /\ \A g \in Invocations : cancelled[g] => cancelled'[g]
    BY <1>8, <1>K DEF CancelSshConnection, CancelAttempt, workerVars
  <2>2. AttemptsAreProgressing'
    BY <2>1 DEF AttemptsAreProgressing, Progressing
  <2>3. /\ AttemptsAreConnecting' /\ SessionsComeFromCommands' /\ StageFollowsStep'
        /\ ShownFollowsPhase' /\ OutcomeIsShown'
    BY <2>1 DEF AttemptsAreConnecting, SessionsComeFromCommands, StageFollowsStep,
       ShownFollowsPhase, OutcomeIsShown, Progressing
  <2>4. QED
    BY <1>T, <2>2, <2>3
<1>9. CASE ClearManager
  <2>1. /\ UNCHANGED <<request, phase, step, shown>>
        /\ cleared'
        /\ attempts' = [a \in AttemptIds |-> None]
        /\ sessions' = [s \in Invocations |-> None]
    BY <1>9 DEF ClearManager, Clear, ClearSessions, workerVars
  <2>2. \A g \in Invocations : cancelled'[g] =
          (\/ cancelled[g]
           \/ \E a \in AttemptIds : attempts[a] # None /\ attempts[a].token = g)
    BY <1>9 DEF ClearManager, Clear, ClearSessions
  <2>3. \A g \in Invocations : Progressing(g) =>
          request[g].id \in AttemptIds /\ cancelled'[g]
    <3> SUFFICES ASSUME NEW g \in Invocations, Progressing(g)
                 PROVE  request[g].id \in AttemptIds /\ cancelled'[g]
      OBVIOUS
    <3>1. request[g].id \in AttemptIds
      BY <1>K DEF Progressing, Request
    <3>2. \/ attempts[request[g].id] # None /\ attempts[request[g].id].token = g
          \/ cancelled[g]
      BY DEF AttemptsAreProgressing
    <3>3. QED
      BY <2>2, <3>1, <3>2
  <2>4. AttemptsAreProgressing'
    BY <2>1, <2>3 DEF AttemptsAreProgressing, Progressing
  <2>5. /\ AttemptsAreConnecting' /\ SessionsComeFromCommands' /\ StageFollowsStep'
        /\ ShownFollowsPhase' /\ OutcomeIsShown'
    BY <1>K, <2>1, <2>2, <2>3 DEF AttemptsAreConnecting, SessionsComeFromCommands,
       StageFollowsStep, ShownFollowsPhase, OutcomeIsShown, Progressing
  <2>6. QED
    BY <1>T, <2>4, <2>5
<1>10. ASSUME NEW h \in Invocations, SessionRemoved(h)
       PROVE  ConnectionInv'
  <2>1. /\ UNCHANGED <<attempts, cancelled, request, phase, step, shown, cleared>>
        /\ \A g \in Invocations : sessions'[g] \in {sessions[g], None}
    BY <1>10, <1>K DEF SessionRemoved, RemoveSession, workerVars
  <2>2. AttemptsAreProgressing'
    BY <2>1 DEF AttemptsAreProgressing, Progressing
  <2>3. SessionsComeFromCommands'
    BY <2>1 DEF SessionsComeFromCommands
  <2>4. /\ AttemptsAreConnecting' /\ StageFollowsStep'
        /\ ShownFollowsPhase' /\ OutcomeIsShown'
    BY <2>1 DEF AttemptsAreConnecting, StageFollowsStep,
       ShownFollowsPhase, OutcomeIsShown, Progressing
  <2>5. QED
    BY <1>T, <2>2, <2>3, <2>4
<1>11. CASE UNCHANGED attemptVars
  <2>1. UNCHANGED <<attempts, sessions, cancelled, request, phase, step, shown,
                    cleared>>
    BY <1>11 DEF attemptVars, managerVars, workerVars
  <2>2. AttemptsAreProgressing'
    BY <2>1 DEF AttemptsAreProgressing, Progressing
  <2>3. /\ AttemptsAreConnecting' /\ SessionsComeFromCommands' /\ StageFollowsStep'
        /\ ShownFollowsPhase' /\ OutcomeIsShown'
    BY <2>1 DEF AttemptsAreConnecting, SessionsComeFromCommands, StageFollowsStep,
       ShownFollowsPhase, OutcomeIsShown, Progressing
  <2>4. QED
    BY <1>T, <2>2, <2>3
<1>12. QED
  BY <1>1, <1>2, <1>3, <1>4, <1>5, <1>6, <1>7, <1>8, <1>9, <1>10, <1>11
     DEF AttemptNext, Worker

LEMMA ConnectionInvInvariant == AttemptSpec => []ConnectionInv
  BY ConnectionInvInit, ConnectionInvStep, PTL DEF AttemptSpec

-----------------------------------------------------------------------------
(* Every connecting command's attempt is in the map under its own identity *)
(* until the command or the exit takes it out: no error path leaks one.    *)
THEOREM AttemptsAlwaysProgressing == AttemptSpec => []AttemptsAreProgressing
<1>1. ConnectionInv => AttemptsAreProgressing
  BY DEF ConnectionInv
<1>2. QED
  BY <1>1, ConnectionInvInvariant, PTL

(* Every command that began an attempt shows the window how it ended.      *)
THEOREM OutcomeAlwaysShown == AttemptSpec => []OutcomeIsShown
<1>1. ConnectionInv => OutcomeIsShown
  BY DEF ConnectionInv
<1>2. QED
  BY <1>1, ConnectionInvInvariant, PTL

(* Sessions carry the owner and the kind of the command they come from.    *)
THEOREM SessionsAlwaysComeFromCommands == AttemptSpec => []SessionsComeFromCommands
<1>1. ConnectionInv => SessionsComeFromCommands
  BY DEF ConnectionInv
<1>2. QED
  BY <1>1, ConnectionInvInvariant, PTL

(* The state machine refuses nothing the commands report before the exit.  *)
THEOREM OnlyClearRefuses == AttemptSpec => RefusedOnlyAfterClear
<1>1. ConnectionInv => \A h \in Invocations :
        EnterRefused(h) \/ CompleteRefused(h) => cleared
  <2> SUFFICES ASSUME ConnectionInv, NEW h \in Invocations,
                      EnterRefused(h) \/ CompleteRefused(h)
               PROVE  cleared
    OBVIOUS
  <2>1. Progressing(h)
    BY DEF EnterRefused, CompleteRefused, Progressing
  <2>2. QED
    BY <2>1, AttemptIsAccepted DEF EnterRefused, CompleteRefused
<1>2. QED
  BY <1>1, ConnectionInvInvariant, PTL DEF RefusedOnlyAfterClear

(* No step takes a cancelled command past a select.                        *)
THEOREM CancelAlwaysStops == AttemptSpec => CancelStopsConnecting
<1> DEFINE Stops ==
      \A h \in Invocations : cancelled[h] /\ phase[h] # "completing" =>
        phase'[h] \notin {"completing", "connected"} \/ phase'[h] = phase[h]
<1>1. ASSUME AttemptTypeOK, [AttemptNext]_attemptVars
      PROVE  Stops
  <2>1. phase \in [Invocations -> Phase]
    BY <1>1 DEF AttemptTypeOK
  <2>2. ASSUME NEW h \in Invocations, Worker(h)
        PROVE  Stops
    BY <2>1, <2>2 DEF Worker, Prepare, PrepareFails, EnterStage, EnterRefused,
       AwaitSucceeds, AwaitFails, AwaitCancelled, Finish, Complete, CompleteRefused
  <2>3. ASSUME NEW h \in Invocations, NEW w \in Windows, NEW a \in AttemptIds,
               NEW k \in SessionKind, Start(h, w, a, k) \/ StartRefused(h, w, a, k)
        PROVE  Stops
    BY <2>1, <2>3 DEF Start, StartRefused
  <2>4. CASE UNCHANGED phase
    BY <2>4
  <2>5. QED
    BY <1>1, <2>2, <2>3, <2>4 DEF AttemptNext, CancelSshConnection, ClearManager,
       SessionRemoved, workerVars, attemptVars
<1>2. QED
  BY <1>1, AttemptTypeCorrect, PTL DEF AttemptSpec, CancelStopsConnecting

(* A cancellation reaches only a connecting command of the same window.    *)
THEOREM OnlyOwnerCancels == AttemptSpec => CancelledByOwner
<1>1. ConnectionInv =>
        \A w \in Windows, a \in AttemptIds : CancelSshConnection(w, a) =>
          \A h \in Invocations : cancelled'[h] # cancelled[h] =>
            Progressing(h) /\ request[h].owner = w /\ request[h].id = a
  <2> SUFFICES ASSUME ConnectionInv, NEW w \in Windows, NEW a \in AttemptIds,
                      CancelSshConnection(w, a), NEW h \in Invocations,
                      cancelled'[h] # cancelled[h]
               PROVE  Progressing(h) /\ request[h].owner = w /\ request[h].id = a
    OBVIOUS
  <2>1. /\ attempts[a] # None
        /\ attempts[a].owner = w
        /\ cancelled' = [cancelled EXCEPT ![attempts[a].token] = TRUE]
    BY DEF CancelSshConnection, CancelAttempt, OwnedAttempt
  <2>2. attempts[a].token = h
    BY <2>1 DEF ConnectionInv, AttemptTypeOK, ManagerTypeOK, SessionsTypeOK
  <2>3. Progressing(h) /\ request[h].id = a
    BY <2>1, <2>2 DEF ConnectionInv, AttemptsAreProgressing
  <2>4. request[h].owner = w
    BY <2>1, <2>3 DEF ConnectionInv, AttemptsAreProgressing
  <2>5. QED
    BY <2>3, <2>4
<1>2. QED
  BY <1>1, ConnectionInvInvariant, PTL DEF CancelledByOwner

-----------------------------------------------------------------------------
(* The refinement: a step of command h that leaves the other commands and  *)
(* their attempts alone changes no other outcome.                          *)
LEMMA OthersKeepOutcome ==
  ASSUME ConnectionInv, NEW h \in Invocations,
         \A g \in Invocations \ {h} :
           /\ phase'[g] = phase[g] /\ request'[g] = request[g]
           /\ Progressing(g) =>
                (attempts'[request[g].id] = None <=> attempts[request[g].id] = None),
         NEW o, NEW w, OutcomeOf(h)' = o, WantedOf(h)' = w
  PROVE  /\ [g \in Invocations |-> OutcomeOf(g)]'
              = [[g \in Invocations |-> OutcomeOf(g)] EXCEPT ![h] = o]
         /\ [g \in Invocations |-> WantedOf(g)]'
              = [[g \in Invocations |-> WantedOf(g)] EXCEPT ![h] = w]
<1>1. \A g \in Invocations \ {h} :
        OutcomeOf(g)' = OutcomeOf(g) /\ WantedOf(g)' = WantedOf(g)
  BY DEF OutcomeOf, WantedOf, Progressing
<1>2. QED
  BY <1>1

LEMMA OutcomeStep ==
  ConnectionInv /\ [AttemptNext]_attemptVars
    => [Abstract!OutcomeNext]_(Abstract!outcomeVars)
<1> SUFFICES ASSUME ConnectionInv, [AttemptNext]_attemptVars
             PROVE  [Abstract!OutcomeNext]_(Abstract!outcomeVars)
  OBVIOUS
<1> DEFINE O == [g \in Invocations |-> OutcomeOf(g)]
           W == [g \in Invocations |-> WantedOf(g)]
<1>K. /\ phase \in [Invocations -> Phase]
      /\ request \in [Invocations -> Request \cup {None}]
      /\ attempts \in [AttemptIds -> Attempt \cup {None}]
      /\ \A h \in Invocations : phase[h] # "idle" => request[h] \in Request
  BY DEF ConnectionInv, AttemptTypeOK, ManagerTypeOK
<1>S. UNCHANGED <<sessions, W, O>> => UNCHANGED Abstract!outcomeVars
  BY DEF Abstract!outcomeVars
<1>1. ASSUME NEW h \in Invocations, NEW w \in Windows, NEW a \in AttemptIds,
             NEW k \in SessionKind, Start(h, w, a, k)
      PROVE  Abstract!Begin(h, w, k)
  <2>1. /\ attempts[a] = None
        /\ attempts' = [attempts EXCEPT ![a] =
             [owner |-> w, kind |-> k, stage |-> FirstStage, token |-> h]]
        /\ request' = [request EXCEPT ![h] = [owner |-> w, id |-> a, kind |-> k]]
        /\ phase' = [phase EXCEPT ![h] = "created"]
        /\ phase[h] = "idle" /\ Drawable(a) /\ UNCHANGED sessions
    BY <1>1 DEF Start, BeginAttempt
  <2>2. attempts'[a] # None
    BY <1>K, <2>1, NoneIsNoRecord DEF Attempt, FirstStage, Stage
  <2>3. \A g \in Invocations \ {h} :
          /\ phase'[g] = phase[g] /\ request'[g] = request[g]
          /\ Progressing(g) =>
               (attempts'[request[g].id] = None <=> attempts[request[g].id] = None)
    BY <1>K, <2>1 DEF Drawable, Request, Progressing
  <2>4. /\ OutcomeOf(h)' = "connecting"
        /\ WantedOf(h)' = [owner |-> w, kind |-> k]
    BY <1>K, <2>1, <2>2 DEF OutcomeOf, WantedOf, Progressing
  <2>5. /\ O' = [O EXCEPT ![h] = "connecting"]
        /\ W' = [W EXCEPT ![h] = [owner |-> w, kind |-> k]]
    BY <2>3, <2>4, OthersKeepOutcome
  <2>6. O[h] = "idle"
    BY <2>1 DEF OutcomeOf, Progressing
  <2>7. QED
    BY <2>1, <2>5, <2>6 DEF Abstract!Begin
<1>2. ASSUME NEW h \in Invocations, NEW w \in Windows, NEW a \in AttemptIds,
             NEW k \in SessionKind, StartRefused(h, w, a, k)
      PROVE  Abstract!Begin(h, w, k)
  <2>1. /\ UNCHANGED <<attempts, sessions>>
        /\ request' = [request EXCEPT ![h] = [owner |-> w, id |-> a, kind |-> k]]
        /\ phase' = [phase EXCEPT ![h] = "ended"]
        /\ phase[h] = "idle"
    BY <1>2 DEF StartRefused, managerVars
  <2>2. \A g \in Invocations \ {h} :
          phase'[g] = phase[g] /\ request'[g] = request[g]
    BY <1>K, <2>1
  <2>3. /\ OutcomeOf(h)' = "ended"
        /\ WantedOf(h)' = [owner |-> w, kind |-> k]
    BY <1>K, <2>1 DEF OutcomeOf, WantedOf, Progressing
  <2>4. /\ O' = [O EXCEPT ![h] = "ended"]
        /\ W' = [W EXCEPT ![h] = [owner |-> w, kind |-> k]]
    BY <2>1, <2>2, <2>3, OthersKeepOutcome
  <2>5. O[h] = "idle"
    BY <2>1 DEF OutcomeOf, Progressing
  <2>6. QED
    BY <2>1, <2>4, <2>5 DEF Abstract!Begin
(* Steps on the way change no outcome.                                     *)
<1>3. ASSUME NEW h \in Invocations,
             Prepare(h) \/ PrepareFails(h) \/ EnterRefused(h) \/ AwaitSucceeds(h)
               \/ AwaitFails(h) \/ AwaitCancelled(h) \/ CompleteRefused(h)
      PROVE  UNCHANGED Abstract!outcomeVars
  <2>1. /\ UNCHANGED <<attempts, sessions, request>>
        /\ \A g \in Invocations \ {h} : phase'[g] = phase[g]
        /\ Progressing(h)
        /\ \/ Progressing(h)'
           \/ phase'[h] = "ended" /\ attempts[request[h].id] = None
    BY <1>3, <1>K, AttemptIsAccepted DEF Prepare, PrepareFails, EnterRefused,
       AwaitSucceeds, AwaitFails, AwaitCancelled, CompleteRefused, Progressing,
       managerVars
  <2>2. \A g \in Invocations :
          OutcomeOf(g)' = OutcomeOf(g) /\ WantedOf(g)' = WantedOf(g)
    BY <2>1 DEF OutcomeOf, WantedOf, Progressing
  <2>3. QED
    BY <1>S, <2>1, <2>2
<1>4. ASSUME NEW h \in Invocations, EnterStage(h)
      PROVE  UNCHANGED Abstract!outcomeVars
  <2>1. /\ phase[h] = "enter" /\ phase' = [phase EXCEPT ![h] = "await"]
        /\ request[h] \in Request /\ step[h] \in Step
        /\ TransitionAttempt(request[h].owner, request[h].id, step[h])
        /\ UNCHANGED <<request, sessions>>
        /\ ManagerTypeOK
    BY <1>4, <1>K DEF EnterStage, TransitionAttempt, ConnectionInv, AttemptTypeOK
  <2>2. /\ attempts[request[h].id] \in Attempt
        /\ attempts' = [attempts EXCEPT ![request[h].id] =
             [owner |-> attempts[request[h].id].owner,
              kind |-> attempts[request[h].id].kind, stage |-> step[h],
              token |-> attempts[request[h].id].token]]
        /\ step[h] \in Stage
    BY <2>1, TransitionKeepsTypes DEF Request, Connecting
  <2>3. \A b \in AttemptIds : attempts'[b] = None <=> attempts[b] = None
    BY <1>K, <2>2, NoneIsNoRecord DEF Attempt
  <2>4. \A g \in Invocations : Progressing(g) => request[g].id \in AttemptIds
    BY <1>K DEF Progressing, Request
  <2>5. \A g \in Invocations :
          OutcomeOf(g)' = OutcomeOf(g) /\ WantedOf(g)' = WantedOf(g)
    BY <1>K, <2>1, <2>3, <2>4 DEF OutcomeOf, WantedOf, Progressing
  <2>6. QED
    BY <1>S, <2>1, <2>5
<1>5. ASSUME NEW h \in Invocations, Finish(h)
      PROVE  Abstract!GiveUp(h) \/ UNCHANGED Abstract!outcomeVars
  <2>1. /\ phase[h] \in {"failing", "cancelling"} /\ Progressing(h)
        /\ phase' = [phase EXCEPT ![h] = "ended"]
        /\ UNCHANGED request
    BY <1>5 DEF Finish, Progressing
  <2>2. CASE attempts[request[h].id] = None
    <3>1. UNCHANGED <<attempts, sessions>>
      BY <1>5, <2>2 DEF Finish, OwnedAttempt, managerVars
    <3>2. \A g \in Invocations :
            OutcomeOf(g)' = OutcomeOf(g) /\ WantedOf(g)' = WantedOf(g)
      BY <1>K, <2>1, <2>2, <3>1 DEF OutcomeOf, WantedOf, Progressing
    <3>3. QED
      BY <1>S, <3>1, <3>2
  <2>3. CASE attempts[request[h].id] # None
    <3>1. OwnedAttempt(request[h].owner, request[h].id)
      BY <2>1, <2>3, AttemptIsAccepted
    <3>2. /\ attempts' = [attempts EXCEPT ![request[h].id] = None]
          /\ UNCHANGED sessions
      BY <1>5, <3>1 DEF Finish, FinishAttempt
    <3>3. \A g \in Invocations \ {h} :
            /\ phase'[g] = phase[g] /\ request'[g] = request[g]
            /\ Progressing(g) =>
                 (attempts'[request[g].id] = None <=> attempts[request[g].id] = None)
      BY <1>K, <2>1, <2>3, <3>2
         DEF ConnectionInv, AttemptsAreProgressing, Request, Progressing
    <3>4. OutcomeOf(h)' = "ended" /\ WantedOf(h)' = WantedOf(h)
      BY <1>K, <2>1 DEF OutcomeOf, WantedOf, Progressing
    <3>5. O' = [O EXCEPT ![h] = "ended"] /\ W' = [W EXCEPT ![h] = WantedOf(h)]
      BY <3>3, <3>4, OthersKeepOutcome
    <3>6. O[h] = "connecting"
      BY <2>1, <2>3 DEF OutcomeOf
    <3>7. QED
      BY <3>2, <3>5, <3>6 DEF Abstract!GiveUp
  <2>4. QED
    BY <2>2, <2>3
<1>6. ASSUME NEW h \in Invocations, Complete(h)
      PROVE  Abstract!Connect(h)
  <2> DEFINE id == request[h].id
  <2>1. /\ phase[h] = "completing" /\ Progressing(h)
        /\ phase' = [phase EXCEPT ![h] = "connected"]
        /\ attempts[id] # None
        /\ attempts' = [attempts EXCEPT ![id] = None]
        /\ EstablishSession(h, request[h].owner, attempts[id].kind)
        /\ UNCHANGED request
    BY <1>6 DEF Complete, CompleteAttempt, CanTransition, OwnedAttempt, Progressing
  <2>2. attempts[id].kind = request[h].kind
    BY <2>1 DEF ConnectionInv, AttemptsAreProgressing
  <2>3. \A g \in Invocations \ {h} :
          /\ phase'[g] = phase[g] /\ request'[g] = request[g]
          /\ Progressing(g) =>
               (attempts'[request[g].id] = None <=> attempts[request[g].id] = None)
    BY <1>K, <2>1 DEF ConnectionInv, AttemptsAreProgressing, Request, Progressing
  <2>4. OutcomeOf(h)' = "connected" /\ WantedOf(h)' = WantedOf(h)
    BY <1>K, <2>1 DEF OutcomeOf, WantedOf, Progressing
  <2>5. O' = [O EXCEPT ![h] = "connected"] /\ W' = [W EXCEPT ![h] = WantedOf(h)]
    BY <2>3, <2>4, OthersKeepOutcome
  <2>6. /\ O[h] = "connecting"
        /\ W[h] = [owner |-> request[h].owner, kind |-> request[h].kind]
    BY <2>1 DEF OutcomeOf, WantedOf
  <2>7. QED
    BY <2>1, <2>2, <2>5, <2>6
       DEF Abstract!Connect, Abstract!EstablishSession, EstablishSession
<1>7. ASSUME NEW w \in Windows, NEW a \in AttemptIds, CancelSshConnection(w, a)
      PROVE  UNCHANGED Abstract!outcomeVars
  <2>1. UNCHANGED <<attempts, sessions, request, phase>>
    BY <1>7 DEF CancelSshConnection, CancelAttempt, workerVars
  <2>2. \A g \in Invocations :
          OutcomeOf(g)' = OutcomeOf(g) /\ WantedOf(g)' = WantedOf(g)
    BY <2>1 DEF OutcomeOf, WantedOf, Progressing
  <2>3. QED
    BY <1>S, <2>1, <2>2
<1>8. CASE ClearManager
  <2>1. /\ UNCHANGED <<request, phase>>
        /\ attempts' = [a \in AttemptIds |-> None]
        /\ ClearSessions
    BY <1>8 DEF ClearManager, Clear, workerVars
  <2>2. \A g \in Invocations : Progressing(g) => request[g].id \in AttemptIds
    BY <1>K DEF Progressing, Request
  <2>3. \A g \in Invocations :
          /\ OutcomeOf(g)' = IF OutcomeOf(g) = "connecting" THEN "ended"
                             ELSE OutcomeOf(g)
          /\ WantedOf(g)' = WantedOf(g)
    BY <2>1, <2>2 DEF OutcomeOf, WantedOf, Progressing
  <2>4. Abstract!ClearAll
    BY <2>1, <2>3 DEF Abstract!ClearAll, Abstract!ClearSessions, ClearSessions
  <2>5. QED
    BY <2>4 DEF Abstract!OutcomeNext
<1>9. ASSUME NEW h \in Invocations, SessionRemoved(h)
      PROVE  Abstract!Remove(h)
  <2>1. /\ phase[h] = "connected"
        /\ RemoveSession(h, request[h].kind)
        /\ UNCHANGED <<attempts, request, phase>>
    BY <1>9 DEF SessionRemoved, workerVars
  <2>2. \A g \in Invocations :
          OutcomeOf(g)' = OutcomeOf(g) /\ WantedOf(g)' = WantedOf(g)
    BY <2>1 DEF OutcomeOf, WantedOf, Progressing
  <2>3. O[h] = "connected" /\ W[h].kind = request[h].kind
    BY <2>1 DEF OutcomeOf, WantedOf, Progressing
  <2>4. QED
    BY <2>1, <2>2, <2>3 DEF Abstract!Remove, Abstract!RemoveSession, RemoveSession
<1>10. CASE UNCHANGED attemptVars
  <2>1. UNCHANGED <<attempts, sessions, request, phase>>
    BY <1>10 DEF attemptVars, managerVars, workerVars
  <2>2. \A g \in Invocations :
          OutcomeOf(g)' = OutcomeOf(g) /\ WantedOf(g)' = WantedOf(g)
    BY <2>1 DEF OutcomeOf, WantedOf, Progressing
  <2>3. QED
    BY <1>S, <2>1, <2>2
<1>11. QED
  BY <1>1, <1>2, <1>3, <1>4, <1>5, <1>6, <1>7, <1>8, <1>9, <1>10
     DEF AttemptNext, Worker, Abstract!OutcomeNext, SessionKind, Abstract!SessionKind

LEMMA OutcomeStart == AttemptInit => Abstract!OutcomeInit
  BY DEF AttemptInit, ManagerInit, SessionsInit, Abstract!OutcomeInit,
     Abstract!SessionsInit, OutcomeOf, WantedOf, Progressing

(* The commands implement ConnectionOutcome, for every set of windows,     *)
(* attempt ids and invocations.                                            *)
THEOREM OutcomeImplemented == AttemptSpec => ImplementsOutcome
  BY OutcomeStart, OutcomeStep, ConnectionInvInvariant, PTL
     DEF AttemptSpec, ImplementsOutcome, Abstract!OutcomeSpec
=============================================================================
