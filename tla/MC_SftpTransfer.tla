-------------------------- MODULE MC_SftpTransfer --------------------------
(* Small instances of SftpTransfer for TLC.                                *)
EXTENDS SftpTransfer, TLC
=============================================================================
