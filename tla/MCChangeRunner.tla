--------------------------- MODULE MCChangeRunner ---------------------------
(***************************************************************************)
(* Instances of ChangeRunner for TLC.  Two turns make two candidates, the  *)
(* second on top of the first; one move of main makes a base to reconcile  *)
(* onto.  Commands and crashes are not bounded.                            *)
(***************************************************************************)
EXTENDS ChangeRunner
=============================================================================
