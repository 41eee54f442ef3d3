--------------------------- MODULE EnumerationProofs ---------------------------
(***************************************************************************)
(* Proofs about Enumeration, for any interfaces, any length of the window  *)
(* and any number of bus resets: nothing the host asked for is forgotten   *)
(* and scanning stops for no longer than a window and a pass.              *)
(***************************************************************************)
EXTENDS Enumeration, TLAPS

\* The bounds are numbers, and a pass is short.
LEMMA Numbers ==
  /\ MS_ENUMERATE \in Nat /\ Stall \in Nat /\ Recovery \in Nat
  /\ Patience \in Nat /\ MaxResets \in Nat /\ 2 * Stall < Recovery
BY EnumerationAssumption

\* What a variable may be set to.
LEMMA Zero ==
  /\ 0 \in 0..(MS_ENUMERATE + 1) /\ 0 \in 0..Stall
  /\ 0 \in 0..(Recovery + Patience) /\ 0 \in 0..MaxResets
  /\ MS_ENUMERATE + 1 \in 0..(MS_ENUMERATE + 1)
BY Numbers

\* The initial state satisfies the invariant.
LEMMA InitInv == Init => EnumerationInv
<1> SUFFICES ASSUME Init PROVE EnumerationInv
  OBVIOUS
<1>1. TypeOK
  BY Zero DEF Init, TypeOK
<1>2. NothingToForget /\ Remembered /\ PassScans /\ DeafSoFar
  BY Numbers DEF Init, NothingToForget, Remembered, PassScans, DeafSoFar
<1> QED
  BY <1>1, <1>2 DEF EnumerationInv

-----------------------------------------------------------------------------
(* The main loop keeps it.                                                  *)

\* While the host recovers it asks for nothing, so there is nothing to forget
\* when the main loop clears what it knows.
LEMMA MainStepInv == EnumerationInv /\ MainStep => EnumerationInv'
<1> SUFFICES ASSUME EnumerationInv, MainStep PROVE EnumerationInv'
  OBVIOUS
<1> USE DEF EnumerationInv, mainVars, hostVars, clocks, Goes
<1>1. TypeOK'
  <2>1. CASE Boot \/ Flag \/ Test \/ Clear
    BY <2>1 DEF Boot, Flag, Test, Clear, TypeOK
  <2>2. CASE usb_init
    BY <2>2, Zero DEF usb_init, TypeOK
  <2>3. CASE ResetSystem
    BY <2>3, Zero DEF ResetSystem, TypeOK
  <2>4. CASE SetTimer
    BY <2>4, Zero DEF SetTimer, TypeOK
  <2>5. CASE Window \/ Succeed \/ Off \/ Activate
    BY <2>5 DEF Window, Succeed, Off, Activate, TypeOK
  <2>6. CASE Work
    BY <2>6, Zero DEF Work, TypeOK
  <2> QED
    BY <2>1, <2>2, <2>3, <2>4, <2>5, <2>6 DEF MainStep
<1>2. NothingToForget'
  <2>1. CASE Boot \/ usb_init \/ Flag
    BY <2>1, Numbers
    DEF Boot, usb_init, Flag, NothingToForget, ClearComes, TypeOK
  <2>2. CASE Test \/ Clear \/ SetTimer \/ Window \/ Succeed
    BY <2>2, Numbers
    DEF Test, Clear, SetTimer, Window, Succeed, NothingToForget, ClearComes,
        TypeOK
  <2>3. CASE ResetSystem \/ Off \/ Activate
    BY <2>3, Numbers
    DEF ResetSystem, Off, Activate, NothingToForget, ClearComes, TypeOK
  <2>4. CASE Work
    BY <2>4, Numbers DEF Work, NothingToForget, ClearComes, TypeOK
  <2> QED
    BY <2>1, <2>2, <2>3, <2>4 DEF MainStep
<1>3. Remembered'
  <2>1. CASE Clear
    <3>1. asked = {}
      BY <2>1 DEF Clear, NothingToForget, ClearComes
    <3> QED
      BY <2>1, <3>1 DEF Clear, Remembered
  <2>2. CASE ~Clear
    BY <2>2
    DEF MainStep, Boot, usb_init, Flag, Test, SetTimer, Window, Succeed,
        ResetSystem, Off, Activate, Work, Remembered
  <2> QED
    BY <2>1, <2>2
<1>4. PassScans'
  BY DEF MainStep, Boot, usb_init, Flag, Test, Clear, SetTimer, Window,
         Succeed, ResetSystem, Off, Activate, Work, PassScans, TypeOK
<1>5. DeafSoFar'
  <2>1. CASE Boot \/ usb_init \/ Flag \/ Test \/ Clear
    BY <2>1, Numbers
    DEF Boot, usb_init, Flag, Test, Clear, DeafSoFar, TypeOK
  <2>2. CASE SetTimer \/ Window \/ Succeed \/ ResetSystem
    BY <2>2, Numbers
    DEF SetTimer, Window, Succeed, ResetSystem, DeafSoFar, TypeOK
  <2>3. CASE Off \/ Activate
    BY <2>3, Numbers DEF Off, Activate, DeafSoFar, TypeOK
  <2>4. CASE Work
    BY <2>4, Numbers DEF Work, DeafSoFar, PassScans, TypeOK
  <2> QED
    BY <2>1, <2>2, <2>3, <2>4 DEF MainStep
<1> QED
  BY <1>1, <1>2, <1>3, <1>4, <1>5

-----------------------------------------------------------------------------
(* The host and the clock keep it.                                          *)

\* After a bus reset there is nothing to forget either.
LEMMA BusResetInv == EnumerationInv /\ BusReset => EnumerationInv'
<1> SUFFICES ASSUME EnumerationInv, BusReset PROVE EnumerationInv'
  OBVIOUS
<1> USE DEF EnumerationInv, BusReset, mainVars, clocks
<1>1. TypeOK'
  BY Numbers DEF TypeOK
<1>2. NothingToForget'
  BY Numbers DEF NothingToForget, TypeOK
<1>3. Remembered' /\ PassScans' /\ DeafSoFar'
  BY DEF Remembered, PassScans, DeafSoFar, TypeOK
<1> QED
  BY <1>1, <1>2, <1>3

\* The host asks after its recovery only, when no clearing is to come.
LEMMA RequestInv ==
  ASSUME NEW i \in Interface, EnumerationInv, usb_control_request(i)
  PROVE  EnumerationInv'
<1> USE DEF EnumerationInv, usb_control_request, mainVars, clocks
<1>1. TypeOK'
  BY DEF TypeOK
<1>2. NothingToForget'
  <2>1. ~ClearComes
    BY Numbers DEF NothingToForget, TypeOK
  <2> QED
    BY <2>1 DEF NothingToForget, ClearComes
<1>3. Remembered' /\ PassScans' /\ DeafSoFar'
  BY DEF Remembered, PassScans, DeafSoFar
<1> QED
  BY <1>1, <1>2, <1>3

\* A host that appears has asked for nothing that counts.
LEMMA HostAppearsInv == EnumerationInv /\ HostAppears => EnumerationInv'
<1> SUFFICES ASSUME EnumerationInv, HostAppears PROVE EnumerationInv'
  OBVIOUS
<1> USE DEF EnumerationInv, HostAppears, mainVars, clocks
<1>1. TypeOK'
  BY Numbers DEF TypeOK
<1>2. NothingToForget'
  BY Numbers DEF NothingToForget, ClearComes, TypeOK
<1>3. Remembered' /\ PassScans' /\ DeafSoFar'
  BY DEF Remembered, PassScans, DeafSoFar
<1> QED
  BY <1>1, <1>2, <1>3

\* A tick counts for the pass, or for the window that is open.
LEMMA TickInv == EnumerationInv /\ Tick => EnumerationInv'
<1> SUFFICES ASSUME EnumerationInv, Tick PROVE EnumerationInv'
  OBVIOUS
<1> USE DEF EnumerationInv, Tick, mainVars
<1>1. TypeOK'
  BY Numbers DEF TypeOK
<1>2. NothingToForget'
  BY Numbers DEF NothingToForget, ClearComes, TypeOK
<1>3. Remembered' /\ PassScans'
  BY DEF Remembered, PassScans
<1>4. DeafSoFar'
  BY Numbers DEF DeafSoFar, WindowOpen, TypeOK
<1> QED
  BY <1>1, <1>2, <1>3, <1>4

-----------------------------------------------------------------------------
(* The theorems.                                                            *)

\* EnumerationInv is an invariant.
LEMMA InvHolds == Spec => []EnumerationInv
<1>1. EnumerationInv /\ [Next]_vars => EnumerationInv'
  <2> SUFFICES ASSUME EnumerationInv, [Next]_vars PROVE EnumerationInv'
    OBVIOUS
  <2>1. CASE UNCHANGED vars
    BY <2>1
    DEF vars, mainVars, hostVars, clocks, EnumerationInv, TypeOK,
        NothingToForget, ClearComes, Remembered, PassScans, DeafSoFar
  <2> QED
    BY <2>1, MainStepInv, BusResetInv, RequestInv, HostAppearsInv, TickInv
    DEF Next, HostAsks
<1> QED
  BY <1>1, InitInv, PTL DEF Spec

\* Every variable of Enumeration keeps its type.
THEOREM TypeCorrect == Spec => []TypeOK
<1>1. EnumerationInv => TypeOK
  BY DEF EnumerationInv
<1> QED
  BY <1>1, InvHolds, PTL

\* main resets the system only if the host has asked for nothing, whenever
\* the bus was reset.
THEOREM ResetsOnlyUnasked == Spec => NoSpuriousReset
<1>1. EnumerationInv /\ [Next]_vars => [ResetSystem => asked = {}]_vars
  BY DEF EnumerationInv, Remembered, ResetSystem, Goes, Failed
<1> QED
  BY <1>1, InvHolds, PTL DEF Spec, NoSpuriousReset

\* Scanning stops for no longer than a window and a pass.
THEOREM ScansInTime == Spec => []DeafInTime
<1>1. EnumerationInv => DeafInTime
  BY Numbers DEF EnumerationInv, DeafSoFar, DeafInTime, TypeOK
<1> QED
  BY <1>1, InvHolds, PTL
=============================================================================
