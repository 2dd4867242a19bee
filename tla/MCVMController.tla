---------------------------- MODULE MCVMController ----------------------------
(* Instances of VMController for TLC: its constants are numbers, given in the .cfg files. *)
EXTENDS VMController
===============================================================================
