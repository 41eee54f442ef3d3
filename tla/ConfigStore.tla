------------------------------ MODULE ConfigStore ------------------------------
(***************************************************************************)
(* What the user flash promises: a configuration that survives power off.  *)
(*                                                                         *)
(* While a save or a clear is under way, and when it ends, fails or is cut *)
(* short, the saved configuration is the one before or none, or that of a  *)
(* save is the one in RAM: always a whole configuration.  Nothing else     *)
(* changes it, and what is loaded was saved.                               *)
(***************************************************************************)
CONSTANTS
  Config,    \* configurations of the keyboard
  NoConfig,  \* nothing saved
  Factory    \* the configuration compiled into the firmware

VARIABLES
  ram,       \* the configuration in use
  saved,
  doing      \* "nothing", "save", "clear" or "off"

vars == <<ram, saved, doing>>

Init == ram = Factory /\ saved = NoConfig /\ doing = "nothing"

Change ==
  /\ doing = "nothing" /\ ram' \in Config
  /\ UNCHANGED <<saved, doing>>

Load ==
  /\ doing = "nothing" /\ saved # NoConfig /\ ram' = saved
  /\ UNCHANGED <<saved, doing>>

Begin ==
  /\ doing = "nothing" /\ doing' \in {"save", "clear"}
  /\ UNCHANGED <<ram, saved>>

\* What a save or a clear may make of the saved configuration.
Outcomes == {saved} \cup IF doing = "save"  THEN {NoConfig, ram}
                         ELSE IF doing = "clear" THEN {NoConfig}
                         ELSE {}

Proceed ==
  /\ doing \in {"save", "clear"} /\ doing' \in {doing, "nothing"}
  /\ saved' \in Outcomes
  /\ UNCHANGED ram

PowerLoss ==
  /\ doing # "off" /\ doing' = "off"
  /\ saved' \in Outcomes
  /\ UNCHANGED ram

PowerUp ==
  /\ doing = "off" /\ doing' = "nothing"
  /\ ram' = IF saved = NoConfig THEN Factory ELSE saved
  /\ UNCHANGED saved

Next == Change \/ Load \/ Begin \/ Proceed \/ PowerLoss \/ PowerUp

Spec == Init /\ [][Next]_vars
=============================================================================
