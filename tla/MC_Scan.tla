-------------------------------- MODULE MC_Scan --------------------------------
(***************************************************************************)
(* Scan with the macro key and phrases of MC_Macro and a switch for each   *)
(* of the two strokes.                                                     *)
(***************************************************************************)
EXTENDS MC_Macro, Scan
=============================================================================
