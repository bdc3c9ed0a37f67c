------------------------- MODULE MC_SessionLifecycle -------------------------
(* A small instance of SessionLifecycle for TLC.                           *)
EXTENDS SessionLifecycle

CONSTANT FirstConfirmation \* one of Confirmations

(***************************************************************************)
(* The invocations of confirm_app_exit can be exchanged for each other, so *)
(* the first one is FirstConfirmation.  Unlike SYMMETRY this is sound for  *)
(* liveness: it exchanges whole behaviours, and it restricts only which    *)
(* invocation the user makes first, for which no fairness is assumed.      *)
(***************************************************************************)
FirstIsConfirmed == Confirming => confirm[FirstConfirmation].pc # "idle"
=============================================================================
