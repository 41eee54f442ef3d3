---------------------------------- MODULE MC_Log ----------------------------------
(***************************************************************************)
(* A ring for three bytes, chunks of two: messages that fit, messages that *)
(* do not, and one that is longer than the ring.                           *)
(***************************************************************************)
EXTENDS Log

CONSTANTS a, b

MCByte == {a, b}
MCMainByte == {a}
MCMessage == {<<b>>, <<b, a, b, b>>}
=============================================================================
