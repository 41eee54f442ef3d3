------------------------------- MODULE MC_Macro -------------------------------
(***************************************************************************)
(* Macro with one macro key, two strokes and room for two characters.  One *)
(* phrase repeats a character, one is too long by one.                     *)
(***************************************************************************)
EXTENDS Macro

CONSTANTS a, b

MCPhrase == {<<a, a>>, <<b>>, <<a, b, a>>}
MCSaved  == {[k \in Key |-> <<a, b>>]}
=============================================================================
