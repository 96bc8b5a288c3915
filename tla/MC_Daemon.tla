------------------------------- MODULE MC_Daemon -------------------------------
(***************************************************************************)
(* Instances of Daemon; all its constants are given in the .cfg files.     *)
(***************************************************************************)
EXTENDS Daemon
===============================================================================
