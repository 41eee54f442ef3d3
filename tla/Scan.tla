--------------------------------- MODULE Scan ---------------------------------
(***************************************************************************)
(* Macro with the switches as matrix_process lets them through.            *)
(*                                                                         *)
(* Switches that change in one scan send one report each, back to back.    *)
(* The same switch changes again only when its value was stable for more   *)
(* than MS_DEBOUNCE, 10 ms (NoChatter of Matrix); a host fetches a report  *)
(* at least every 10 ms (bInterval of the endpoints), and the interrupt    *)
(* that follows is served at once.  So in between, what was under way has  *)
(* come through.                                                           *)
(***************************************************************************)
EXTENDS Macro

VARIABLE rested  \* switches that may change: no debounce time is running

AllThrough == pc = "rest" /\ \A e \in Endpoint : Through(e)

\* The switches of which a step is the event.
Changed == (down \ down') \cup (down' \ down)

ScanInit == MInit /\ rested = SwitchStroke

ScanNext ==
  /\ MNext
  /\ Changed \subseteq rested
  /\ rested' = IF AllThrough' THEN SwitchStroke ELSE rested \ Changed

ScanSpec == ScanInit /\ [][ScanNext]_<<mvars, rested>>

-----------------------------------------------------------------------------
\* "224 usb keyboard scancodes to be pressed simultaneously", and
\* usb_write_packet tries SEND_RETRIES times: once nothing is under way any
\* more, and no reset came in between, the host has the reports as they are.
HostInStep == AllThrough /\ resets = 0 => host = report
=============================================================================
