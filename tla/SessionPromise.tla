--------------------------- MODULE SessionPromise ---------------------------
(***************************************************************************)
(* What the session managers and the exit promise their user, without the  *)
(* tasks, queues and locks that SessionLifecycle implements it with: a     *)
(* session goes live once and ends once, and the application does not end  *)
(* live sessions by exiting until its user has been asked and has agreed.  *)
(***************************************************************************)
CONSTANT Sessions

VARIABLES
  session,  \* session -> "absent", "live" or "gone"
  app       \* "running", "asking", "confirmed" or "exited"

promiseVars == <<session, app>>

PromiseInit ==
  /\ session = [s \in Sessions |-> "absent"]
  /\ app = "running"

GoLive(s) ==
  /\ app # "exited"
  /\ session[s] = "absent"
  /\ session' = [session EXCEPT ![s] = "live"]
  /\ UNCHANGED app

(* Sessions end one by one, or together when the exit's deadline drops     *)
(* those that are left.                                                    *)
End(ended) ==
  /\ app # "exited"
  /\ \A s \in ended : session[s] = "live"
  /\ session' = [s \in Sessions |-> IF s \in ended THEN "gone" ELSE session[s]]
  /\ UNCHANGED app

Ask ==
  /\ app = "running"
  /\ \E s \in Sessions : session[s] = "live"
  /\ app' = "asking"
  /\ UNCHANGED session

Decline ==
  /\ app = "asking"
  /\ app' = "running"
  /\ UNCHANGED session

Confirm ==
  /\ app = "asking"
  /\ app' = "confirmed"
  /\ UNCHANGED session

Exit ==
  /\ \/ app = "confirmed"
     \/ /\ app \in {"running", "asking"}
        /\ \A s \in Sessions : session[s] # "live"
  /\ app' = "exited"
  /\ UNCHANGED session

PromiseNext ==
  \/ \E s \in Sessions : GoLive(s)
  \/ \E ended \in (SUBSET Sessions) \ {{}} : End(ended)
  \/ Ask \/ Decline \/ Confirm \/ Exit

PromiseSpec == PromiseInit /\ [][PromiseNext]_promiseVars

(* A confirmed exit happens.                                               *)
ExitFairness == WF_promiseVars(app = "confirmed" /\ Exit)

FairPromiseSpec == PromiseSpec /\ ExitFairness
=============================================================================
