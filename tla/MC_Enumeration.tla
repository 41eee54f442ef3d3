---------------------------- MODULE MC_Enumeration ----------------------------
(***************************************************************************)
(* Enumeration with three interfaces and a short window.                   *)
(***************************************************************************)
EXTENDS Enumeration
=============================================================================
