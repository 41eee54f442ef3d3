------------------------------- MODULE MC_Mouse -------------------------------
(***************************************************************************)
(* Mouse with one key of each kind.  The mouse key has the button that the *)
(* automouse clicks, the wheel key has none and turns the wheel both ways. *)
(***************************************************************************)
EXTENDS Mouse, TLC

CONSTANTS click, wheel, auto, play, sleep, button1

MCSwitch == {click, wheel, auto, play, sleep}
MCEvent ==
  click :> [type |-> "KMT_MOUSE", button |-> {button1}, x |-> 0] @@
  wheel :> [type |-> "KMT_WHEEL", button |-> {}, h |-> 1, v |-> 2] @@
  auto  :> [type |-> "KMT_AUTOMOUSE", button |-> {button1}, wiggle |-> 1] @@
  play  :> [type |-> "KMT_CONSUMER", code |-> 205] @@
  sleep :> [type |-> "KMT_SYSTEM", code |-> 130]
\* An automouse that is turned on three times, keys of the other report with
\* three in the middle of its clicks, both extra keys, and LEDs.
Up(a, m, e, l) ==
  [k \in Kind |-> CASE k = "automouse" -> a [] k = "mouse" -> m
                    [] k = "extra" -> e [] OTHER -> l]
MCBudgets == {Up(5, 2, 0, 0), Up(2, 4, 0, 0), Up(1, 0, 4, 0), Up(3, 0, 0, 2)}
MCHostLeds == {{2}}
=============================================================================
