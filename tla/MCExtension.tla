----------------------------- MODULE MCExtension -----------------------------
(***************************************************************************)
(* Instances of Extension for TLC: a command at each of two backends, or   *)
(* two at one.                                                             *)
(***************************************************************************)
EXTENDS Extension
CONSTANTS c1, c2, o1, o2
MCHome(c) == IF c = c1 THEN o1 ELSE o2
=============================================================================
