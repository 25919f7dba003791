------------------------------- MODULE MCConsole -------------------------------
(* One printing context beside the keyboard: each may begin inside the other. *)
EXTENDS Console
=============================================================================
