------------------------ MODULE MC_ConnectionAttempt ------------------------
(* A small instance of ConnectionAttempt for TLC.                          *)
EXTENDS ConnectionAttempt

CONSTANTS FirstInvocation, FirstWindow, FirstId \* one of each

(***************************************************************************)
(* Invocations, windows and ids can be exchanged for each other: whatever  *)
(* happens happens also with other names such that the first command to    *)
(* be called is FirstInvocation, by FirstWindow with FirstId.  Unlike      *)
(* SYMMETRY this is sound for liveness: it exchanges whole behaviours, and *)
(* restricts only calls of commands, for which no fairness is assumed.     *)
(***************************************************************************)
FirstIsNamed ==
  LET called == {h \in Invocations : request[h] # None}
  IN  called # {} =>
        /\ FirstInvocation \in called
        /\ request[FirstInvocation].owner = FirstWindow
        /\ request[FirstInvocation].id = FirstId
=============================================================================
