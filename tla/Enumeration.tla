------------------------------ MODULE Enumeration ------------------------------
(***************************************************************************)
(* main of 5x5.c, and what of usb.c tells it of the host: after power on   *)
(* and after every bus reset the main loop stops scanning and waits, for   *)
(* MS_ENUMERATE ms at most, until the host has asked for every interface.  *)
(* If it has asked for none the microcontroller is reset.                  *)
(*                                                                         *)
(*   boot -> attach -> flag -> test -> clear -> timer -> window -> decide  *)
(*     ^                        | ^                                  | |   *)
(*     `----- nothing seen -----|-|----------------------------------' |   *)
(*                            work <------ activate <------ off <------'   *)
(*                                                                         *)
(* enumeration_active and usb_ifs_enumerated are written by both the main  *)
(* loop and the interrupt, which comes between any two of the steps above. *)
(***************************************************************************)
EXTENDS Integers

CONSTANTS
  Interface,     \* IF_KEYBOARD, IF_MOUSE, IF_EXTRAKEY, IF_NKRO, IF_SERIALCOMM
  MS_ENUMERATE,
  Stall,         \* a pass of the main loop takes no longer, the window aside
  Recovery,      \* from a bus reset to the first request for an interface
  Patience,      \* a host that is there resets or asks within this time
  MaxResets      \* bound on the bus resets of a run

VARIABLES
  pc,
  enumeration_active,
  usb_ifs_enumerated,
  keyboard_active,   \* and serial_active, which is set with it
  left,              \* ticks until timer_passed(enumeration_timer)
  stall,             \* ticks of this pass, the window aside
  host,              \* a host is at the other end of the cable
  port,              \* the host sees no device, a new one, or one it reset
  asked,             \* interfaces the host asked for since it reset the bus
  since,             \* ticks since the host reset or saw the device appear
  resets,
  deaf               \* ghost: ticks since the last scan, or since power on

mainVars == <<pc, keyboard_active>>
hostVars == <<host, port, asked, since, resets>>
clocks   == <<left, stall, deaf>>
vars == <<mainVars, enumeration_active, usb_ifs_enumerated, hostVars, clocks>>

ASSUME EnumerationAssumption ==
  /\ Interface # {}
  /\ MS_ENUMERATE \in Nat /\ Stall \in Nat
  /\ Recovery \in Nat /\ Patience \in Nat /\ MaxResets \in Nat
  /\ 2 * Stall < Recovery

TypeOK ==
  /\ pc \in {"boot", "attach", "flag", "test", "clear", "timer", "window",
             "decide", "off", "activate", "work"}
  /\ enumeration_active \in BOOLEAN /\ keyboard_active \in BOOLEAN
  /\ usb_ifs_enumerated \subseteq Interface
  /\ left \in 0..(MS_ENUMERATE + 1) /\ stall \in 0..Stall
  /\ host \in BOOLEAN /\ port \in {"down", "new", "reset"}
  /\ asked \subseteq Interface
  /\ since \in 0..(Recovery + Patience) /\ resets \in 0..MaxResets
  /\ deaf \in Nat

Init ==
  /\ pc = "boot"
  /\ enumeration_active = FALSE /\ usb_ifs_enumerated = {}
  /\ keyboard_active = FALSE
  /\ left = 0 /\ stall = 0
  /\ host \in BOOLEAN /\ port = "down"
  /\ asked = {} /\ since = 0 /\ resets = 0
  /\ deaf = 0

-----------------------------------------------------------------------------
(* The main loop.                                                           *)

\* A step that reads and writes nothing but what its definition says.
Goes(from, to) == pc = from /\ pc' = to

\* usb_prevent_enumeration and the rest of the initialisation.
Boot ==
  /\ Goes("boot", "attach")
  /\ UNCHANGED <<keyboard_active, enumeration_active, usb_ifs_enumerated,
                 hostVars, clocks>>

\* usb_init: from now on there are interrupts.
usb_init ==
  /\ Goes("attach", "flag")
  /\ usb_ifs_enumerated' = {}
  /\ port' = "new" /\ asked' = {} /\ since' = 0
  /\ UNCHANGED <<keyboard_active, enumeration_active, host, resets, clocks>>

\* flash_read_config, and then the first enumeration.
Flag ==
  /\ Goes("flag", "test")
  /\ enumeration_active' = TRUE
  /\ UNCHANGED <<keyboard_active, usb_ifs_enumerated, hostVars, clocks>>

Test ==
  /\ pc = "test"
  /\ pc' = IF enumeration_active THEN "clear" ELSE "work"
  /\ UNCHANGED <<keyboard_active, enumeration_active, usb_ifs_enumerated,
                 hostVars, clocks>>

Clear ==
  /\ Goes("clear", "timer")
  /\ usb_ifs_enumerated' = {}
  /\ UNCHANGED <<keyboard_active, enumeration_active, hostVars, clocks>>

\* Mutant: what was left of the last window is added.
SetTimerMore ==
  /\ Goes("timer", "window")
  /\ left' = left + MS_ENUMERATE + 1
  /\ UNCHANGED <<keyboard_active, enumeration_active, usb_ifs_enumerated,
                 hostVars, stall, deaf>>

\* Mutant: the timer is not set.
SetTimerNot ==
  /\ Goes("timer", "window")
  /\ UNCHANGED <<keyboard_active, enumeration_active, usb_ifs_enumerated,
                 hostVars, clocks>>

SetTimer ==
  /\ Goes("timer", "window")
  /\ left' = MS_ENUMERATE + 1
  /\ UNCHANGED <<keyboard_active, enumeration_active, usb_ifs_enumerated,
                 hostVars, stall, deaf>>

\* Mutant: the timer is not looked at once an interface was seen.
WindowOpenFirst ==
  usb_ifs_enumerated # Interface /\ (left > 0 \/ usb_ifs_enumerated # {})

\* The condition of the inner loop.
WindowOpen == usb_ifs_enumerated # Interface /\ left > 0

Window ==
  /\ Goes("window", "decide") /\ ~WindowOpen
  /\ UNCHANGED <<keyboard_active, enumeration_active, usb_ifs_enumerated,
                 hostVars, clocks>>

\* Mutant: an enumeration that is not complete has failed.
FailedIncomplete == usb_ifs_enumerated # Interface

Failed == usb_ifs_enumerated = {}

Succeed ==
  /\ Goes("decide", "off") /\ ~Failed
  /\ UNCHANGED <<keyboard_active, enumeration_active, usb_ifs_enumerated,
                 hostVars, clocks>>

\* scb_reset_system: everything starts anew, and the data line goes low.
ResetSystem ==
  /\ Goes("decide", "boot") /\ Failed
  /\ enumeration_active' = FALSE /\ usb_ifs_enumerated' = {}
  /\ keyboard_active' = FALSE
  /\ left' = 0 /\ stall' = 0 /\ deaf' = 0
  /\ port' = "down" /\ asked' = {} /\ since' = 0
  /\ UNCHANGED <<host, resets>>

Off ==
  /\ Goes("off", "activate")
  /\ enumeration_active' = FALSE
  /\ UNCHANGED <<keyboard_active, usb_ifs_enumerated, hostVars, clocks>>

Activate ==
  /\ Goes("activate", "work")
  /\ keyboard_active' = TRUE
  /\ UNCHANGED <<enumeration_active, usb_ifs_enumerated, hostVars, clocks>>

\* serial_out, matrix_process, automouse_repeat, macro_run.
Work ==
  /\ Goes("work", "test")
  /\ stall' = 0
  /\ deaf' = IF keyboard_active THEN 0 ELSE deaf
  /\ UNCHANGED <<keyboard_active, enumeration_active, usb_ifs_enumerated,
                 hostVars, left>>

MainStep ==
  \/ Boot \/ usb_init \/ Flag \/ Test \/ Clear \/ SetTimer \/ Window
  \/ Succeed \/ ResetSystem \/ Off \/ Activate \/ Work

-----------------------------------------------------------------------------
(* The host and the interrupt.                                              *)

\* The host is there, and has neither asked nor reset for too long.
Due == host /\ port # "down" /\ asked = {} /\ since = Recovery + Patience

\* A bus reset, and usb_reset.  A host resets a new device once, and any
\* device again when it likes.
BusReset ==
  /\ host
  /\ \/ port = "new" /\ UNCHANGED resets
     \/ port = "reset" /\ resets < MaxResets /\ resets' = resets + 1
  /\ enumeration_active' = TRUE
  /\ port' = "reset" /\ asked' = {} /\ since' = 0
  /\ UNCHANGED <<mainVars, usb_ifs_enumerated, host, clocks>>

\* A request for a report descriptor, or SET_LINE_CODING.
usb_control_request(i) ==
  /\ host /\ port = "reset" /\ since >= Recovery
  /\ asked' = asked \cup {i}
  /\ usb_ifs_enumerated' = usb_ifs_enumerated \cup {i}
  /\ UNCHANGED <<mainVars, enumeration_active, host, port, since, resets,
                 clocks>>

\* The cable is plugged into a host that is on.
HostAppears ==
  /\ ~host /\ host' = TRUE /\ since' = 0
  /\ UNCHANGED <<mainVars, enumeration_active, usb_ifs_enumerated, port,
                 asked, resets, clocks>>

\* sys_tick_handler.  The main loop does not let more than Stall ticks go by
\* in a pass, and never one in which the window closes.
Tick ==
  /\ ~Due
  /\ \/ pc = "window" /\ WindowOpen /\ UNCHANGED stall
     \/ pc # "window" /\ stall < Stall /\ stall' = stall + 1
  /\ left' = IF left > 0 THEN left - 1 ELSE 0
  /\ since' = IF since < Recovery + Patience THEN since + 1 ELSE since
  /\ deaf' = deaf + 1
  /\ UNCHANGED <<mainVars, enumeration_active, usb_ifs_enumerated, host,
                 port, asked, resets>>

HostAsks == \E i \in Interface : usb_control_request(i)

\* What a host that is due does at the latest.
HostActs == Due /\ (BusReset \/ HostAsks)

Next == MainStep \/ BusReset \/ HostAsks \/ HostAppears \/ Tick

\* The main loop runs, time passes, and a host that is there resets a new
\* device and asks it for an interface.
Fairness == WF_vars(MainStep) /\ WF_vars(Tick) /\ WF_vars(HostActs)

Spec == Init /\ [][Next]_vars /\ Fairness

-----------------------------------------------------------------------------
(* Properties.                                                              *)

\* main resets the system only if the host has asked for nothing since it
\* reset the bus or saw the device appear: what it asked for is never
\* forgotten, whatever the main loop was doing when the bus was reset.
NoSpuriousReset == [][ResetSystem => asked = {}]_vars

\* Scanning stops for no longer than a window and a pass, on a bus reset at
\* any moment or several of them, or the system was reset.
DeafInTime == deaf <= MS_ENUMERATE + 1 + Stall

\* A host that is there, however many interfaces it has drivers for, does not
\* keep the device waiting: it scans again and again.
Scans == []<>(pc = "work" /\ keyboard_active) \/ []<>~host

-----------------------------------------------------------------------------
(* The invariant behind them.                                               *)

\* usb_ifs_enumerated is going to be cleared, and nothing sets a flag first.
ClearComes ==
  \/ pc \in {"boot", "attach", "flag", "clear"}
  \/ enumeration_active /\ pc \in {"test", "activate", "work"}

\* The host is still recovering then, so there is nothing to be forgotten.
NothingToForget ==
  ClearComes =>
    /\ asked = {}
    /\ since <= stall + (IF pc \in {"activate", "work"} THEN 0 ELSE Stall)

\* Since then what it asked for is known.
Remembered ==
  pc \in {"timer", "window", "decide"} => asked \subseteq usb_ifs_enumerated

\* A pass that does not enumerate scans.
PassScans ==
  /\ pc = "work" => keyboard_active
  /\ pc = "test" => enumeration_active \/ keyboard_active

\* Where the ticks without a scan went.
DeafSoFar ==
  /\ pc \in {"boot", "attach", "flag", "test", "clear", "timer"} => deaf <= stall
  /\ pc = "window" => deaf + left <= stall + MS_ENUMERATE + 1
  /\ deaf <= stall + MS_ENUMERATE + 1

EnumerationInv ==
  TypeOK /\ NothingToForget /\ Remembered /\ PassScans /\ DeafSoFar
=============================================================================
