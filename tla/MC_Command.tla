------------------------------ MODULE MC_Command ------------------------------
(***************************************************************************)
(* Command with a byte of each kind and packets of one to three of them.   *)
(* 7 is a digit, and no command.                                           *)
(***************************************************************************)
EXTENDS Command

MCChar     == {"eol", "n", "K", "M", "7"}
MCHexValue == [c \in MCChar |-> IF c = "7" THEN 7 ELSE 0]
MCPacket   == UNION {[1..n -> MCChar] : n \in 1..2}
                \cup {<<"eol", c, "eol">> : c \in MCChar}
=============================================================================
