------------------------------- MODULE MC_Flash -------------------------------
(***************************************************************************)
(* Flash with three pages of two words, three words of data: the data ends *)
(* in the second page and the CRC is in the third.  A word of data may be  *)
(* indistinguishable from an erased one.                                   *)
(***************************************************************************)
EXTENDS Flash

CONSTANTS a, b

MCFactory == <<a, a, a>>
MCConfig  == {MCFactory, <<b, a, b>>, <<Erased, Erased, b>>}
MCCrc(i)  == <<i>>
=============================================================================
