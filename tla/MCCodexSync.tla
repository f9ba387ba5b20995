---------------------------- MODULE MCCodexSync ----------------------------
(***************************************************************************)
(* One or two files and the process that syncs them, for TLC.              *)
(***************************************************************************)
EXTENDS CodexSync

CONSTANTS path1, path2, sync1
=============================================================================
