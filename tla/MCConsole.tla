----------------------------- MODULE MCConsole ------------------------------
(* The consoles for TLC.                                                     *)
EXTENDS Console
=============================================================================
