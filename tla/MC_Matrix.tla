------------------------------ MODULE MC_Matrix ------------------------------
(***************************************************************************)
(* Matrix with two rows of one column and a debounce time of 1 ms, each    *)
(* pass taking up to 1 ms.  The clock runs once through MaxMs ms, or wraps.*)
(***************************************************************************)
EXTENDS Matrix
=============================================================================
