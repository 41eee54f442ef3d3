-------------------------------- MODULE MC_Usb --------------------------------
(***************************************************************************)
(* Usb with two endpoints, up to two bus resets and two retries.           *)
(***************************************************************************)
EXTENDS Usb
=============================================================================
