------------------------------- MODULE UsbProofs -------------------------------
(***************************************************************************)
(* Proofs about Usb, for any endpoints, any number of retries and of bus   *)
(* resets: no wake-up is lost but to a reset, and who waits for an idle    *)
(* endpoint loses a report only where a switch event crowded it.           *)
(***************************************************************************)
EXTENDS Usb, TLAPS

LEMMA Numbers == SEND_RETRIES \in Nat /\ MaxResets \in Nat
BY UsbAssumption

\* The initial state satisfies the invariant.
LEMMA InitInv == Init => UsbInv
<1> SUFFICES ASSUME Init PROVE UsbInv
  OBVIOUS
<1>1. 0 \in 0..SEND_RETRIES /\ 0 \in 0..MaxResets
  BY Numbers
<1>2. TypeOK
  BY <1>1 DEF Init, TypeOK
<1>3. /\ WakeUpPending /\ SpinsForAReport /\ DroppedIsGone
      /\ CrowdedIfTwo /\ CrowdedIfSending /\ BusyOnlyIfCrowded
  BY DEF Init, WakeUpPending, SpinsForAReport, DroppedIsGone, CrowdedIfTwo,
         CrowdedIfSending, BusyOnlyIfCrowded
<1> QED
  BY <1>2, <1>3 DEF UsbInv

-----------------------------------------------------------------------------
(* The main loop keeps it.                                                  *)

\* A switch event crowds the endpoint unless it is through, or has nothing
\* coming because of a reset; who waits for the flag finds it through, or
\* crowded before.
LEMMA SendInv ==
  ASSUME NEW e \in Endpoint, UsbInv, Send(e)
  PROVE  UsbInv'
<1> USE DEF UsbInv, Update
<1>1. /\ pc = "rest" /\ pc' = "write" /\ ep' = e
      /\ idle' = [idle EXCEPT ![e] = FALSE]
      /\ UNCHANGED <<full, ctr, configured, tries, resets, dropped>>
  BY DEF Send, SendFromMatrix, SendIfIdle
<1>2. \/ crowded' = crowded /\ idle[e]
      \/ crowded' = crowded \cup {e}
      \/ crowded' = crowded \ {e} /\ (Through(e) \/ e \in dropped)
  BY DEF Send, SendFromMatrix, SendIfIdle
<1>3. TypeOK'
  BY <1>1, <1>2 DEF TypeOK
<1>4. /\ ~idle'[e]
      /\ \A f \in Endpoint : f # e =>
           idle'[f] = idle[f] /\ (f \in crowded' <=> f \in crowded)
  BY <1>1, <1>2 DEF TypeOK
<1>5. WakeUpPending' /\ SpinsForAReport' /\ DroppedIsGone' /\ BusyOnlyIfCrowded'
  BY <1>1, <1>4 DEF WakeUpPending, SpinsForAReport, DroppedIsGone,
                    BusyOnlyIfCrowded
<1>6. e \in full \cup ctr => e \in crowded'
  BY <1>2 DEF Through, DroppedIsGone, CrowdedIfTwo
<1>7. CrowdedIfTwo' /\ CrowdedIfSending'
  BY <1>1, <1>4, <1>6 DEF CrowdedIfTwo, CrowdedIfSending
<1> QED
  BY <1>3, <1>5, <1>7

\* The write fills an endpoint; it meets a report in a crowded one only.
LEMMA WriteInv == UsbInv /\ Write => UsbInv'
<1> SUFFICES ASSUME UsbInv, Write PROVE UsbInv'
  OBVIOUS
<1> USE DEF UsbInv, Write
<1>1. TypeOK'
  BY Numbers DEF TypeOK
<1>2. WakeUpPending' /\ SpinsForAReport' /\ DroppedIsGone'
  BY DEF WakeUpPending, SpinsForAReport, DroppedIsGone, TypeOK
<1>3. CrowdedIfTwo' /\ CrowdedIfSending' /\ BusyOnlyIfCrowded'
  BY DEF CrowdedIfTwo, CrowdedIfSending, BusyOnlyIfCrowded, TypeOK
<1> QED
  BY <1>1, <1>2, <1>3

\* The loop leaves everything as it is.
LEMMA SpinInv == UsbInv /\ Spin => UsbInv'
<1> SUFFICES ASSUME UsbInv, Spin PROVE UsbInv'
  OBVIOUS
<1> USE DEF UsbInv, Spin
<1>1. TypeOK'
  BY Numbers DEF TypeOK
<1>2. WakeUpPending' /\ SpinsForAReport' /\ DroppedIsGone'
  BY DEF WakeUpPending, SpinsForAReport, DroppedIsGone, TypeOK
<1>3. CrowdedIfTwo' /\ CrowdedIfSending' /\ BusyOnlyIfCrowded'
  BY DEF CrowdedIfTwo, CrowdedIfSending, BusyOnlyIfCrowded, TypeOK
<1> QED
  BY <1>1, <1>2, <1>3

-----------------------------------------------------------------------------
(* The host and the interrupt keep it.                                      *)

\* The host takes a report, which leaves its interrupt.
LEMMA HostPollInv ==
  ASSUME NEW e \in Endpoint, UsbInv, HostPoll(e)
  PROVE  UsbInv'
<1> USE DEF UsbInv, HostPoll, main
<1>1. TypeOK'
  BY DEF TypeOK
<1>2. WakeUpPending' /\ SpinsForAReport' /\ DroppedIsGone'
  BY DEF WakeUpPending, SpinsForAReport, DroppedIsGone
<1>3. CrowdedIfTwo' /\ CrowdedIfSending' /\ BusyOnlyIfCrowded'
  BY DEF CrowdedIfTwo, CrowdedIfSending, BusyOnlyIfCrowded
<1> QED
  BY <1>1, <1>2, <1>3

\* The interrupt of the last report under way ends the crowd.
LEMMA IdleInv ==
  ASSUME NEW e \in Endpoint, UsbInv, usb_endpoint_idle(e)
  PROVE  UsbInv'
<1> USE DEF UsbInv, usb_endpoint_idle, main
<1>1. TypeOK'
  BY DEF TypeOK
<1>2. /\ idle'[e]
      /\ \A f \in Endpoint : f # e =>
           /\ idle'[f] = idle[f] /\ (f \in crowded' <=> f \in crowded)
           /\ (f \in ctr' <=> f \in ctr)
  <2>1. idle' = [idle EXCEPT ![e] = TRUE] /\ ctr' = ctr \ {e}
    OBVIOUS
  <2>2. crowded' = crowded \/ crowded' = crowded \ {e}
    OBVIOUS
  <2> QED
    BY <2>1, <2>2 DEF TypeOK
<1>3. WakeUpPending' /\ SpinsForAReport' /\ DroppedIsGone'
  BY <1>2 DEF WakeUpPending, SpinsForAReport, DroppedIsGone, TypeOK
<1>4. CrowdedIfTwo'
  BY <1>2 DEF CrowdedIfTwo, CrowdedIfSending, TypeOK
<1>5. CrowdedIfSending' /\ BusyOnlyIfCrowded'
  BY <1>2 DEF CrowdedIfSending, BusyOnlyIfCrowded, TypeOK
<1> QED
  BY <1>1, <1>3, <1>4, <1>5

\* A reset takes everything that is under way.
LEMMA DiscardInv == UsbInv /\ (BusReset \/ usb_set_config) => UsbInv'
<1> SUFFICES ASSUME UsbInv, BusReset \/ usb_set_config PROVE UsbInv'
  OBVIOUS
<1> USE DEF UsbInv, BusReset, usb_set_config, Discard, main
<1>1. TypeOK'
  <2>1. /\ full' = {} /\ ctr' = {}
        /\ dropped' = dropped \cup {e \in Endpoint : ~idle[e]}
    OBVIOUS
  <2>2. dropped \cup {e \in Endpoint : ~idle[e]} \subseteq Endpoint
    BY DEF TypeOK
  <2>3. configured' \in BOOLEAN
    OBVIOUS
  <2>4. resets' \in 0..MaxResets
    <3>1. \/ resets < MaxResets /\ resets' = resets + 1
          \/ resets' = resets
      OBVIOUS
    <3>2. resets \in 0..MaxResets
      BY DEF TypeOK
    <3> HIDE DEF UsbInv, BusReset, usb_set_config, Discard, main
    <3> QED
      BY <3>1, <3>2, Numbers
  <2>5. UNCHANGED <<idle, pc, ep, tries, crowded>>
    OBVIOUS
  <2> QED
    BY <2>1, <2>2, <2>3, <2>4, <2>5 DEF TypeOK
<1>2. WakeUpPending' /\ SpinsForAReport' /\ DroppedIsGone'
  BY DEF WakeUpPending, SpinsForAReport, DroppedIsGone, TypeOK
<1>3. CrowdedIfTwo' /\ CrowdedIfSending' /\ BusyOnlyIfCrowded'
  BY DEF CrowdedIfTwo, CrowdedIfSending, BusyOnlyIfCrowded
<1> QED
  BY <1>1, <1>2, <1>3

-----------------------------------------------------------------------------
(* The theorems.                                                            *)

\* Every step of Usb keeps UsbInv: who adds to Usb and changes its variables
\* by its actions only may count on it.
LEMMA StepInv == UsbInv /\ [Next]_vars => UsbInv'
<1> SUFFICES ASSUME UsbInv, [Next]_vars PROVE UsbInv'
  OBVIOUS
<1>1. CASE UNCHANGED vars
  BY <1>1
  DEF vars, main, UsbInv, TypeOK, WakeUpPending, SpinsForAReport,
      DroppedIsGone, CrowdedIfTwo, CrowdedIfSending, BusyOnlyIfCrowded
<1> QED
  BY <1>1, SendInv, WriteInv, SpinInv, HostPollInv, IdleInv, DiscardInv
  DEF Next, Continue, Device

\* UsbInv is an invariant.
LEMMA InvHolds == Spec => []UsbInv
BY StepInv, InitInv, PTL DEF Spec

\* Every variable of Usb keeps its type.
THEOREM TypeCorrect == Spec => []TypeOK
<1>1. UsbInv => TypeOK
  BY DEF UsbInv
<1> QED
  BY <1>1, InvHolds, PTL

\* An endpoint that is not idle has something coming that makes it idle, or
\* lost its report to a reset.
THEOREM NoLostWakeUp == Spec => []WakeUpPending
<1>1. UsbInv => WakeUpPending
  BY DEF UsbInv
<1> QED
  BY <1>1, InvHolds, PTL

\* A report meets a busy endpoint only if a switch event has crowded it.
THEOREM WaitingIsEnough == Spec => []BusyOnlyIfCrowded
<1>1. UsbInv => BusyOnlyIfCrowded
  BY DEF UsbInv
<1> QED
  BY <1>1, InvHolds, PTL
=============================================================================
