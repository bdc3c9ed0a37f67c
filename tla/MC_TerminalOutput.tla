-------------------------- MODULE MC_TerminalOutput --------------------------
(* Small instances of TerminalOutput for TLC.                              *)
EXTENDS TerminalOutput, TLC
=============================================================================
