---------------------------- MODULE MCBuildSession ----------------------------
(* Instances of BuildSession for TLC: its constants are numbers, given in the .cfg files. *)
EXTENDS BuildSession
===============================================================================
