---------------------------------- MODULE Usb ----------------------------------
(***************************************************************************)
(* usb.c: handing a report to an IN endpoint of the USB peripheral, and    *)
(* the idle flags by which macros and the automouse pace themselves.       *)
(*                                                                         *)
(* The main loop sends in steps, with the interrupt between any two:       *)
(*                                                                         *)
(*   rest --(usb_update_*: idle = 0)--> write --(accepted)--> rest         *)
(*                                      write --(busy)--> spin --> rest    *)
(*                                                                         *)
(* Switch events send whether or not the endpoint is idle; macro_run and   *)
(* automouse_repeat test the flag first.  The peripheral holds one packet  *)
(* per endpoint until the host fetches it, then interrupts.  A bus reset   *)
(* and SET_CONFIGURATION drop what it holds.  The contents of a report do  *)
(* not matter here.                                                        *)
(***************************************************************************)
EXTENDS Integers

CONSTANTS
  Endpoint,      \* EP_KEYBOARD, EP_MOUSE, EP_EXTRAKEY, EP_NKRO
  SEND_RETRIES,
  MaxResets      \* bound on the bus resets of a run

VARIABLES
  idle,        \* usb_ep_*_idle
  full,        \* endpoints whose packet buffer is valid: a report waits
  ctr,         \* endpoints with a transfer done and the interrupt pending
  configured,  \* the host has set the configuration and polls
  pc, ep,      \* where usb_update_* is, for which endpoint
  tries,
  resets,      \* resets so far
  crowded,     \* ghost: endpoints sent to before they were through
  dropped      \* ghost: endpoints that lost a report to a reset, not yet reused

main == <<pc, ep, tries>>
vars == <<idle, full, ctr, configured, main, resets, crowded, dropped>>

ASSUME UsbAssumption == SEND_RETRIES \in Nat /\ MaxResets \in Nat

TypeOK ==
  /\ idle \in [Endpoint -> BOOLEAN]
  /\ full \subseteq Endpoint /\ ctr \subseteq Endpoint
  /\ configured \in BOOLEAN
  /\ pc \in {"rest", "write", "spin"} /\ ep \in Endpoint
  /\ tries \in 0..SEND_RETRIES
  /\ resets \in 0..MaxResets
  /\ crowded \subseteq Endpoint /\ dropped \subseteq Endpoint

\* The host has configured the keyboard for the first time.
Init ==
  /\ idle = [e \in Endpoint |-> TRUE]
  /\ full = {} /\ ctr = {} /\ configured = TRUE
  /\ pc = "rest" /\ ep \in Endpoint /\ tries = 0
  /\ resets = 0 /\ crowded = {} /\ dropped = {}

-----------------------------------------------------------------------------
(* The main loop.                                                           *)

\* Nothing of an earlier report of e is under way.
Through(e) == idle[e] /\ e \notin full /\ e \notin ctr

\* usb_update_keyboard, _mouse, _extrakey, _nkro up to the call.
Update(e) ==
  /\ pc = "rest" /\ pc' = "write" /\ ep' = e
  /\ idle' = [idle EXCEPT ![e] = FALSE]
  /\ UNCHANGED <<full, ctr, configured, tries, resets, dropped>>

\* An event of a switch does not ask.
SendFromMatrix(e) ==
  /\ Update(e)
  /\ crowded' = IF Through(e) \/ e \in dropped THEN crowded \ {e}
                                               ELSE crowded \cup {e}

\* Mutant: the flag is not looked at.
SendAlways(e) == Update(e) /\ UNCHANGED crowded

\* send_if_idle and automouse_repeat do.
SendIfIdle(e) == idle[e] /\ Update(e) /\ UNCHANGED crowded

\* Mutant: the write looks at the flag that was just cleared.
WriteIfIdle ==
  /\ pc = "write" /\ pc' = "rest" /\ UNCHANGED tries
  /\ IF ~idle[ep]
       THEN UNCHANGED <<full, dropped>>
       ELSE full' = full \cup {ep} /\ dropped' = dropped \ {ep}
  /\ UNCHANGED <<idle, ctr, configured, ep, resets, crowded>>

\* The one call of usbd_ep_write_packet: 0 while a packet waits.
Write ==
  /\ pc = "write"
  /\ IF ep \in full
       THEN /\ pc' = "spin" /\ tries' = 0
            /\ UNCHANGED <<full, dropped>>
       ELSE /\ pc' = "rest" /\ UNCHANGED tries
            /\ full' = full \cup {ep}
            /\ dropped' = dropped \ {ep}
  /\ UNCHANGED <<idle, ctr, configured, ep, resets, crowded>>

\* The loop that counts tries; wlen stays 0 in it, and the report is lost.
Spin ==
  /\ pc = "spin"
  /\ IF tries < SEND_RETRIES
       THEN tries' = tries + 1 /\ UNCHANGED pc
       ELSE tries' = 0 /\ pc' = "rest"
  /\ UNCHANGED <<idle, full, ctr, configured, ep, resets, crowded, dropped>>

-----------------------------------------------------------------------------
(* The peripheral, the host and the interrupt.                              *)

\* The host fetches the report.
HostPoll(e) ==
  /\ configured /\ e \in full
  /\ full' = full \ {e} /\ ctr' = ctr \cup {e}
  /\ UNCHANGED <<idle, configured, main, resets, crowded, dropped>>

\* Mutant: the endpoint being sent to has no case in the switch.
EndpointIdleOther(e) ==
  /\ e \in ctr /\ ctr' = ctr \ {e}
  /\ idle' = [idle EXCEPT ![e] = @ \/ e # ep]
  /\ crowded' = IF e \in full \/ (pc # "rest" /\ ep = e) THEN crowded
                                                         ELSE crowded \ {e}
  /\ UNCHANGED <<full, configured, main, resets, dropped>>

\* usb_lp_can_rx0_isr, usbd_poll, usb_endpoint_idle.  The endpoint is no
\* longer crowded if nothing was sent to it again in the meantime.
usb_endpoint_idle(e) ==
  /\ e \in ctr /\ ctr' = ctr \ {e}
  /\ idle' = [idle EXCEPT ![e] = TRUE]
  /\ crowded' = IF e \in full \/ (pc # "rest" /\ ep = e) THEN crowded
                                                         ELSE crowded \ {e}
  /\ UNCHANGED <<full, configured, main, resets, dropped>>

\* What the peripheral held is gone, with the interrupts that were pending.
Discard ==
  /\ full' = {} /\ ctr' = {}
  /\ dropped' = dropped \cup {e \in Endpoint : ~idle[e]}

BusReset ==
  /\ resets < MaxResets /\ resets' = resets + 1
  /\ Discard /\ configured' = FALSE
  /\ UNCHANGED <<idle, main, crowded>>

\* usb_set_config sets up every endpoint anew.
usb_set_config ==
  /\ ~configured /\ configured' = TRUE
  /\ Discard
  /\ UNCHANGED <<idle, main, resets, crowded>>

-----------------------------------------------------------------------------
Send(e)   == SendFromMatrix(e) \/ SendIfIdle(e)
Continue  == Write \/ Spin
Device(e) == HostPoll(e) \/ usb_endpoint_idle(e)

Next ==
  \/ \E e \in Endpoint : Send(e) \/ Device(e)
  \/ Continue \/ BusReset \/ usb_set_config

\* The main loop goes on with what it began, the host polls the endpoints of
\* a configuration it has set and sets one after a reset, and interrupts are
\* served.  Nobody has to press a key.
Fairness ==
  /\ WF_vars(Continue) /\ WF_vars(usb_set_config)
  /\ \A e \in Endpoint : WF_vars(HostPoll(e)) /\ WF_vars(usb_endpoint_idle(e))

Spec == Init /\ [][Next]_vars /\ Fairness

-----------------------------------------------------------------------------
(* Properties.                                                              *)

\* No lost wake-up: an endpoint that is not idle has a report waiting, an
\* interrupt pending, the main loop about to write, or lost its report to a
\* reset.
WakeUpPending ==
  \A e \in Endpoint :
    ~idle[e] => e \in full \cup ctr \cup dropped \/ (pc # "rest" /\ ep = e)

\* A report that was sent to an idle endpoint is never lost to a busy one,
\* unless a switch event sent to the endpoint before it was through: then
\* the interrupt of the first report says idle while the second one waits.
BusyOnlyIfCrowded == pc = "spin" => ep \in crowded

\* Each endpoint becomes idle again and again, or has lost a report to a
\* reset and not been sent to since: the next key press ends that.
IdleOrDropped == \A e \in Endpoint : []<>(idle[e] \/ e \in dropped)

\* The comment in main: the host may renew the enumeration at any time.  Each
\* endpoint would then become idle again, and macros and automouse go on.
IdleAfterReset == \A e \in Endpoint : []<>idle[e]

-----------------------------------------------------------------------------
(* The invariant behind WakeUpPending and BusyOnlyIfCrowded.                *)

\* While the main loop spins, the report in its way is still to come through.
SpinsForAReport ==
  pc = "spin" /\ ~idle[ep] => ep \in full \cup ctr \cup dropped

\* What a reset has taken is gone.
DroppedIsGone == dropped \cap (full \cup ctr) = {}

\* An endpoint that is idle with a report under way, or has two of them, is
\* crowded.
CrowdedIfTwo ==
  \A e \in Endpoint :
    \/ idle[e] /\ e \in full \cup ctr
    \/ e \in full \cap ctr
    => e \in crowded

\* So is one that is being sent to with another report under way.
CrowdedIfSending ==
  pc # "rest" /\ (idle[ep] \/ ep \in full \cup ctr) => ep \in crowded

UsbInv ==
  /\ TypeOK
  /\ WakeUpPending /\ SpinsForAReport
  /\ DroppedIsGone
  /\ CrowdedIfTwo /\ CrowdedIfSending /\ BusyOnlyIfCrowded
=============================================================================
