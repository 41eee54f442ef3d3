---------------------------- MODULE KeyboardProofs ----------------------------
(***************************************************************************)
(* Proofs about Keyboard, for every set of switches, every keymap and every *)
(* number of layers, key slots and NKRO codes: TypeOK, SlotsBacked and      *)
(* AllUpAllClear are invariants of Spec.  The inductive invariant is        *)
(* KeyboardInv, defined and explained in Keyboard.                          *)
(***************************************************************************)
EXTENDS Keyboard, TLAPS, FiniteSetTheorems

-----------------------------------------------------------------------------
(* Types.                                                                   *)

\* The switches of any set the state keeps are finite in number.
LEMMA SwitchesFinite ==
  ASSUME NEW S, S \subseteq Switch
  PROVE  IsFiniteSet(S) /\ Cardinality(S) \in Nat
BY FS_Subset, FS_CardinalityType, KeyboardAssumption

\* A remainder is a layer.
LEMMA ModRange ==
  ASSUME NEW a \in Nat, NEW n \in Nat, n # 0
  PROVE  a % n \in 0..(n - 1)
OBVIOUS

\* An entry of the keymap is an event with its parts in range.
LEMMA EntryType ==
  ASSUME NEW m \in Keymap, NEW l \in Layer, NEW s \in Switch
  PROVE  /\ m[l][s].mod \in SUBSET ModBit
         /\ m[l][s].code \in Byte
BY DEF Keymap, Event

\* The initial state is well typed.
LEMMA InitTypeOK == Init => TypeOK
<1> SUFFICES ASSUME Init PROVE TypeOK
  OBVIOUS
<1>1. 0 \in Layer
  BY KeyboardAssumption DEF Layer
<1>2. NoKeys \in [Slot -> Byte]
  BY DEF NoKeys, Byte
<1>3. EmptyBoot \in [mods : SUBSET ModBit, keys : [Slot -> Byte]]
  BY <1>2 DEF EmptyBoot
<1>4. EmptyNkro \in [mods : SUBSET ModBit, bits : SUBSET Byte]
  BY DEF EmptyNkro
<1> QED
  BY <1>1, <1>3, <1>4, KeyboardAssumption DEF Init, TypeOK

\* The report operations keep the reports and their flags well typed.
LEMMA ReportsType ==
  ASSUME TypeOK, stage # "rest",
         EventMod \/ EventKey
  PROVE  /\ keyboard_state' \in [mods : SUBSET ModBit, keys : [Slot -> Byte]]
         /\ nkro_state' \in [mods : SUBSET ModBit, bits : SUBSET Byte]
         /\ keyboard_dirty' \in BOOLEAN /\ nkro_dirty' \in BOOLEAN
<1>c. /\ cur.mod \in SUBSET ModBit
      /\ cur.code \in Byte
  BY DEF TypeOK, NoEvent, Byte
<1>1. CASE UNCHANGED reports
  BY <1>1 DEF TypeOK, reports
<1>2. ASSUME NEW b \in SUBSET ModBit, NEW n \in SUBSET ModBit, SetModifiers(b, n)
      PROVE  /\ keyboard_state' \in [mods : SUBSET ModBit, keys : [Slot -> Byte]]
             /\ nkro_state' \in [mods : SUBSET ModBit, bits : SUBSET Byte]
             /\ keyboard_dirty' \in BOOLEAN /\ nkro_dirty' \in BOOLEAN
  BY <1>2 DEF SetModifiers, TypeOK
<1>3. ASSUME NEW b \in SUBSET Byte, SetBits(b)
      PROVE  /\ keyboard_state' \in [mods : SUBSET ModBit, keys : [Slot -> Byte]]
             /\ nkro_state' \in [mods : SUBSET ModBit, bits : SUBSET Byte]
             /\ keyboard_dirty' \in BOOLEAN /\ nkro_dirty' \in BOOLEAN
  BY <1>3 DEF SetBits, TypeOK
<1>4. ASSUME NEW w, NEW v \in Byte, SetFirstSlot(w, v)
      PROVE  /\ keyboard_state' \in [mods : SUBSET ModBit, keys : [Slot -> Byte]]
             /\ nkro_state' \in [mods : SUBSET ModBit, bits : SUBSET Byte]
             /\ keyboard_dirty' \in BOOLEAN /\ nkro_dirty' \in BOOLEAN
  <2>1. PICK i \in Slot :
          /\ keyboard_state' = [keyboard_state EXCEPT !.keys[i] = v]
          /\ keyboard_dirty' = TRUE /\ UNCHANGED <<nkro_state, nkro_dirty>>
        \/ UNCHANGED reports
    BY <1>4, KeyboardAssumption DEF SetFirstSlot, Slot
  <2>2. [keyboard_state.keys EXCEPT ![i] = v] \in [Slot -> Byte]
    BY DEF TypeOK
  <2>3. keyboard_state' = [keyboard_state EXCEPT
                             !.keys = [keyboard_state.keys EXCEPT ![i] = v]]
        => keyboard_state' \in [mods : SUBSET ModBit, keys : [Slot -> Byte]]
    BY <2>2 DEF TypeOK
  <2> QED
    BY <1>1, <2>1, <2>3 DEF TypeOK
<1>5. CASE EventMod
  <2>1. CASE AddModifier(cur.mod)
    BY <2>1, <1>2, <1>c DEF AddModifier, TypeOK
  <2>2. CASE DelModifier(cur.mod)
    BY <2>2, <1>2, <1>c DEF DelModifier, TypeOK
  <2> QED
    BY <1>1, <1>5, <2>1, <2>2 DEF EventMod
<1>6. CASE EventKey
  <2>1. CASE AddKey(cur.code)
    <3>1. nkro_state.bits \cup {cur.code} \in SUBSET Byte
      BY <1>c DEF TypeOK
    <3> QED
      BY <2>1, <3>1, <1>3, <1>4, <1>c DEF AddKey
  <2>2. CASE DelKey(cur.code)
    <3>1. nkro_state.bits \ {cur.code} \in SUBSET Byte
      BY DEF TypeOK
    <3>2. 0 \in Byte
      BY DEF Byte
    <3> QED
      BY <2>2, <3>1, <3>2, <1>3, <1>4 DEF DelKey
  <2> QED
    BY <1>1, <1>6, <2>1, <2>2 DEF EventKey
<1> QED
  BY <1>5, <1>6

\* Every step keeps the state well typed.
LEMMA StepTypeOK == TypeOK /\ [Next]_vars => TypeOK'
<1> SUFFICES ASSUME TypeOK, [Next]_vars PROVE TypeOK'
  OBVIOUS
<1>s. CASE UNCHANGED vars
  BY <1>s DEF vars, config, reports, TypeOK
<1>n. CASE Next
  <2>1. clean' \in BOOLEAN
    BY <1>n DEF Next, Observe
  <2>2. ASSUME matrix_previous' \subseteq Switch
        PROVE  peak' \in Nat
    BY <2>2, <1>n, SwitchesFinite DEF Next, Observe, TypeOK
  <2>3. ASSUME NEW s \in Switch, KeyEvent(s)
        PROVE  TypeOK'
    <3>1. /\ keymap[layer][s].mod \in SUBSET ModBit
          /\ keymap[layer][s].code \in Byte
      BY EntryType DEF TypeOK
    <3> QED
      BY <2>1, <2>2, <2>3, <3>1 DEF KeyEvent, TypeOK, config, reports
  <2>4. ASSUME NEW s \in Switch, LayerEvent(s)
        PROVE  TypeOK'
    <3>1. keymap[layer][s].code \in Byte
      BY EntryType DEF TypeOK
    <3>n. keymap[layer][s].code \in Nat /\ LAYERS_NUM \in Nat /\ LAYERS_NUM # 0
      BY <3>1, KeyboardAssumption DEF Byte
    <3>2. keymap[layer][s].code % LAYERS_NUM \in Layer
      BY <3>n, ModRange DEF Layer
    <3>3. matrix_previous' \subseteq Switch
      BY <2>4 DEF LayerEvent, Toggle, TypeOK
    <3> QED
      BY <2>1, <2>2, <2>4, <3>2, <3>3 DEF LayerEvent, TypeOK, reports
  <2>5. ASSUME NEW s \in Switch, OtherEvent(s)
        PROVE  TypeOK'
    <3>1. matrix_previous' \subseteq Switch
      BY <2>5 DEF OtherEvent, Toggle, TypeOK
    <3> QED
      BY <2>1, <2>2, <2>5, <3>1 DEF OtherEvent, TypeOK, reports, config
  <2>6. CASE EventMod
    BY <2>1, <2>2, <2>6, ReportsType DEF EventMod, TypeOK, config
  <2>7. CASE EventKey
    BY <2>1, <2>2, <2>7, ReportsType DEF EventKey, TypeOK, config
  <2>8. CASE EventSend
    <3>1. matrix_previous' \subseteq Switch
      BY <2>8 DEF EventSend, Toggle, TypeOK
    <3>2. posted' \in [keyboard : [mods : SUBSET ModBit, keys : [Slot -> Byte]],
                       nkro : [mods : SUBSET ModBit, bits : SUBSET Byte]]
      BY <2>8 DEF EventSend, TypeOK
    <3> QED
      BY <2>1, <2>2, <2>8, <3>1, <3>2 DEF EventSend, TypeOK, config
  <2>9. CASE Interrupt
    <3>1. keymap' \in Keymap /\ layer' \in Layer /\ nkro_active' \in BOOLEAN
      <4>1. ASSUME NEW on \in BOOLEAN, SetMode(on)
            PROVE  keymap' \in Keymap /\ layer' \in Layer /\ nkro_active' \in BOOLEAN
        BY <4>1 DEF SetMode, TypeOK
      <4>2. ASSUME NEW l \in Layer, NEW s \in Switch, NEW e \in NewEvents,
                   KeymapSet(l, s, e)
            PROVE  keymap' \in Keymap /\ layer' \in Layer /\ nkro_active' \in BOOLEAN
        <5>1. e \in Event
          BY KeyboardAssumption
        <5>2. [keymap[l] EXCEPT ![s] = e] \in [Switch -> Event]
          BY <5>1 DEF TypeOK, Keymap
        <5>3. keymap' = [keymap EXCEPT ![l] = [keymap[l] EXCEPT ![s] = e]]
          BY <4>2 DEF KeymapSet
        <5> QED
          BY <4>2, <5>2, <5>3 DEF KeymapSet, TypeOK, Keymap
      <4>3. ASSUME NEW c \in SavedConfigs, FlashReadConfig(c)
            PROVE  keymap' \in Keymap /\ layer' \in Layer /\ nkro_active' \in BOOLEAN
        BY <4>3, KeyboardAssumption DEF FlashReadConfig, Config
      <4> QED
        BY <2>9, <4>1, <4>2, <4>3 DEF Interrupt
    <3> QED
      BY <2>1, <2>2, <2>9, <3>1 DEF Interrupt, TypeOK, reports
  <2> QED
    BY <1>n, <2>3, <2>4, <2>5, <2>6, <2>7, <2>8, <2>9 DEF Next, Step, MatrixEvent
<1> QED
  BY <1>s, <1>n

\* The state is well typed in every run: reports, layer and event in range.
THEOREM TypeCorrect == Spec => []TypeOK
BY InitTypeOK, StepTypeOK, PTL DEF Spec

-----------------------------------------------------------------------------
(* What is true in every run.                                               *)

\* The step "mod" changes no key, and no report becomes clean.
LEMMA ModKeepsKeys ==
  ASSUME TypeOK, EventMod
  PROVE  /\ keyboard_state'.keys = keyboard_state.keys
         /\ nkro_state'.bits = nkro_state.bits
         /\ keyboard_dirty => keyboard_dirty'
         /\ nkro_dirty => nkro_dirty'
<1>1. CASE UNCHANGED reports
  BY <1>1 DEF reports
<1>2. ASSUME NEW b, NEW n, SetModifiers(b, n)
      PROVE  /\ keyboard_state'.keys = keyboard_state.keys
             /\ nkro_state'.bits = nkro_state.bits
             /\ keyboard_dirty => keyboard_dirty'
             /\ nkro_dirty => nkro_dirty'
  BY <1>2 DEF SetModifiers, TypeOK
<1> QED
  BY <1>1, <1>2 DEF EventMod, AddModifier, DelModifier

\* The step "key" changes one report at most, marks it dirty, and leaves the
\* modifiers alone.
LEMMA KeyChangesOne ==
  ASSUME TypeOK, EventKey
  PROVE  /\ keyboard_state'.mods = keyboard_state.mods
         /\ nkro_state'.mods = nkro_state.mods
         /\ keyboard_state'.keys = keyboard_state.keys \/ keyboard_dirty'
         /\ nkro_state'.bits = nkro_state.bits \/ nkro_dirty'
         /\ keyboard_dirty => keyboard_dirty'
         /\ nkro_dirty => nkro_dirty'
<1> DEFINE Goal ==
         /\ keyboard_state'.mods = keyboard_state.mods
         /\ nkro_state'.mods = nkro_state.mods
         /\ keyboard_state'.keys = keyboard_state.keys \/ keyboard_dirty'
         /\ nkro_state'.bits = nkro_state.bits \/ nkro_dirty'
         /\ keyboard_dirty => keyboard_dirty'
         /\ nkro_dirty => nkro_dirty'
<1>1. UNCHANGED reports => Goal
  BY DEF reports
<1>2. ASSUME NEW b, SetBits(b) PROVE Goal
  BY <1>2 DEF SetBits, TypeOK
<1>3. ASSUME NEW w, NEW v, SetFirstSlot(w, v) PROVE Goal
  BY <1>1, <1>3 DEF SetFirstSlot, TypeOK
<1> HIDE DEF Goal
<1>4. Goal
  BY <1>1, <1>2, <1>3 DEF EventKey, AddKey, DelKey
<1> QED
  BY <1>4 DEF Goal

\* Every step keeps SwitchRead and KeysSent.
LEMMA StepSentInv == SentInv /\ [Next]_vars => SentInv'
<1> SUFFICES ASSUME SentInv, [Next]_vars PROVE SentInv'
  OBVIOUS
<1>t. TypeOK /\ TypeOK'
  BY StepTypeOK DEF SentInv
<1>s. CASE UNCHANGED vars
  BY <1>s, <1>t DEF vars, config, reports, SentInv, SwitchRead, KeysSent
<1>n. CASE Step
  <2>1. CASE MatrixEvent
    BY <2>1, <1>t DEF MatrixEvent, KeyEvent, LayerEvent, OtherEvent, reports,
                      SentInv, SwitchRead, KeysSent
  <2>2. CASE EventMod
    BY <2>2, <1>t, ModKeepsKeys DEF EventMod, SentInv, SwitchRead, KeysSent
  <2>3. CASE EventKey
    BY <2>3, <1>t, KeyChangesOne DEF EventKey, SentInv, SwitchRead, KeysSent
  <2>4. CASE EventSend
    BY <2>4, <1>t DEF EventSend, SentInv, SwitchRead, KeysSent, TypeOK
  <2>5. CASE Interrupt
    BY <2>5, <1>t DEF Interrupt, reports, SentInv, SwitchRead, KeysSent
  <2> QED
    BY <1>n, <2>1, <2>2, <2>3, <2>4, <2>5 DEF Step
<1> QED
  BY <1>s, <1>n DEF Next

-----------------------------------------------------------------------------
(* What is true in clean runs.                                              *)

\* With empty reports and nothing in progress CleanInv holds, whatever the
\* keymap and whichever switches are down.
LEMMA EmptyIsClean ==
  ASSUME TypeOK', KeysSent', stage' = "rest",
         keyboard_state' = EmptyBoot, nkro_state' = EmptyNkro,
         posted' = [keyboard |-> EmptyBoot, nkro |-> EmptyNkro]
  PROVE  CleanInv'
<1>1. ASSUME NEW k \in Code
      PROVE  /\ Cardinality(Slots(k)') <= Cardinality(Holders(k)')
             /\ k \in nkro_state'.bits => Holders(k)' # {}
  <2>1. Slots(k)' = {}
    BY DEF Slots, EmptyBoot, NoKeys, Code
  <2>2. Holders(k)' \subseteq Switch
    BY DEF Holders, KeySwitch
  <2>3. Cardinality(Slots(k)') = 0 /\ Cardinality(Holders(k)') \in Nat
    BY <2>1, <2>2, FS_EmptySet, SwitchesFinite
  <2> QED
    BY <2>3 DEF EmptyNkro
<1>2. KeysBacked'
  BY <1>1 DEF KeysBacked
<1>3. ModsSent' /\ EventRead' /\ ModsBacked'
  BY DEF ModsSent, EventRead, ModsBacked, EmptyBoot, EmptyNkro
<1>4. InItsReport'
  BY DEF InItsReport, EmptyBoot, EmptyNkro, NoKeys
<1> QED
  BY <1>2, <1>3, <1>4 DEF CleanInv

\* With the reports and the held switches unchanged CleanInv carries over.
LEMMA SameHeld ==
  ASSUME clean, CleanInv, UNCHANGED <<config, reports, posted>>,
         Modifiers(ModHeld)' = Modifiers(ModHeld),
         \A k \in Code : Holders(k)' = Holders(k),
         EventRead'
  PROVE  CleanInv'
<1>1. KeysBacked'
  <2>1. \A k \in Code : Slots(k)' = Slots(k)
    BY DEF Slots, reports
  <2> QED
    BY <2>1 DEF CleanInv, KeysBacked, reports
<1> QED
  BY <1>1 DEF CleanInv, ModsSent, InItsReport, ModsBacked, config, reports

\* Which switches are held, in the terms of the step that is next.
LEMMA HeldAtRest ==
  ASSUME stage \in {"rest", "mod"}
  PROVE  KeyHeld = matrix_previous /\ ModHeld = matrix_previous
BY DEF KeyHeld, ModHeld

\* A switch that leaves the keyboard alone changes nobody's holders.
LEMMA OtherToggles ==
  ASSUME TypeOK, NEW s \in Switch, s \notin KeySwitch,
         stage = "rest", stage' = "rest", UNCHANGED config,
         matrix_previous' = Toggle(matrix_previous, s)
  PROVE  /\ Modifiers(ModHeld)' = Modifiers(ModHeld)
         /\ \A k \in Code : Holders(k)' = Holders(k)
<1>1. KeyHeld = matrix_previous /\ ModHeld = matrix_previous
  BY HeldAtRest
<1>2. KeyHeld' = matrix_previous' /\ ModHeld' = matrix_previous'
  BY DEF KeyHeld, ModHeld
<1>3. KeySwitch' = KeySwitch /\ \A t \in Switch : EventOf(t)' = EventOf(t)
  BY DEF KeySwitch, EventOf, config
<1>4. matrix_previous' \cap KeySwitch = matrix_previous \cap KeySwitch
  BY DEF Toggle
<1>5. Modifiers(ModHeld)' = Modifiers(ModHeld)
  BY <1>1, <1>2, <1>3, <1>4 DEF Modifiers, EventOf, config
<1>6. \A k \in Code : Holders(k)' = Holders(k)
  BY <1>1, <1>2, <1>3, <1>4 DEF Holders, EventOf, config
<1> QED
  BY <1>5, <1>6

\* A key event begins: nothing is held or reported differently yet.
LEMMA KeyEventClean ==
  ASSUME TypeOK, clean, CleanInv, NEW s \in Switch, KeyEvent(s)
  PROVE  CleanInv'
<1>1. KeyHeld' = KeyHeld /\ ModHeld' = ModHeld
  BY DEF KeyEvent, KeyHeld, ModHeld
<1>2. KeySwitch' = KeySwitch /\ \A t : EventOf(t)' = EventOf(t)
  BY DEF KeyEvent, config, KeySwitch, EventOf
<1>3. EventRead'
  BY DEF KeyEvent, EventRead, EventOf, KeySwitch, config, TypeOK
<1>4. Modifiers(ModHeld)' = Modifiers(ModHeld)
  BY <1>1, <1>2 DEF Modifiers
<1>5. \A k \in Code : Holders(k)' = Holders(k)
  BY <1>1, <1>2 DEF Holders
<1> QED
  BY <1>3, <1>4, <1>5, SameHeld DEF KeyEvent, reports

\* An event that is not a key, in a clean run that does not change the layer.
LEMMA OtherEventClean ==
  ASSUME TypeOK, clean, CleanInv, UNCHANGED config,
         NEW s \in Switch, LayerEvent(s) \/ OtherEvent(s)
  PROVE  CleanInv'
<1>1. s \notin KeySwitch
  BY DEF LayerEvent, OtherEvent, KeySwitch, EventOf
<1>2. /\ stage = "rest" /\ stage' = "rest"
      /\ matrix_previous' = Toggle(matrix_previous, s)
      /\ UNCHANGED <<reports, posted>>
  BY DEF LayerEvent, OtherEvent
<1>3. EventRead'
  BY <1>2 DEF EventRead
<1> QED
  BY <1>1, <1>2, <1>3, OtherToggles, SameHeld

\* An interrupt that leaves the configuration as it is.
LEMMA InterruptClean ==
  ASSUME clean, CleanInv, UNCHANGED config, Interrupt
  PROVE  CleanInv'
<1>1. /\ KeyHeld' = KeyHeld /\ ModHeld' = ModHeld
      /\ KeySwitch' = KeySwitch /\ \A t : EventOf(t)' = EventOf(t)
  BY DEF Interrupt, KeyHeld, ModHeld, KeySwitch, EventOf, config
<1>2. EventRead'
  BY <1>1 DEF Interrupt, EventRead, CleanInv
<1>3. Modifiers(ModHeld)' = Modifiers(ModHeld)
  BY <1>1 DEF Modifiers
<1>4. \A k \in Code : Holders(k)' = Holders(k)
  BY <1>1 DEF Holders
<1> QED
  BY <1>2, <1>3, <1>4, SameHeld DEF Interrupt

\* The step "mod": the modifiers follow the switch.
LEMMA EventModClean ==
  ASSUME SentInv, clean, CleanInv, EventMod
  PROVE  CleanInv'
<1>t. /\ TypeOK /\ stage = "mod" /\ stage' = "key"
      /\ UNCHANGED <<config, matrix_previous, cur, posted>>
      /\ cur.switch \in KeySwitch /\ EventOf(cur.switch).mod = cur.mod
      /\ cur.switch \in Switch
      /\ cur.pressed = (cur.switch \notin matrix_previous)
  BY DEF EventMod, SentInv, SwitchRead, CleanInv, EventRead, KeySwitch
<1>1. KeySwitch' = KeySwitch /\ \A s : EventOf(s)' = EventOf(s)
  BY <1>t DEF KeySwitch, EventOf, config
<1>2. /\ ModHeld = matrix_previous
      /\ ModHeld' = Toggle(matrix_previous, cur.switch)
      /\ KeyHeld' = KeyHeld
  BY <1>t DEF ModHeld, KeyHeld
<1>3. ModsBacked'
  <2> DEFINE before == Modifiers(matrix_previous)
             after  == UNION {EventOf(s).mod :
                         s \in Toggle(matrix_previous, cur.switch) \cap KeySwitch}
  <2>1. after = Modifiers(ModHeld)'
    BY <1>1, <1>2 DEF Modifiers
  <2>2. keyboard_state.mods \subseteq before /\ nkro_state.mods \subseteq before
    BY <1>2 DEF CleanInv, ModsBacked
  <2>3. CASE cur.mod = {}
    <3>1. before = after
      BY <1>t, <2>3 DEF Toggle, Modifiers
    <3> QED
      BY <1>t, <2>1, <2>2, <2>3, <3>1 DEF EventMod, ModsBacked, reports
  <2>4. CASE cur.mod # {} /\ cur.pressed
    <3>1. before \cup cur.mod \subseteq after
      BY <1>t, <2>4 DEF Toggle, Modifiers
    <3>2. AddModifier(cur.mod)
      BY <2>4 DEF EventMod
    <3>3. /\ keyboard_state'.mods = keyboard_state.mods \cup cur.mod
          /\ nkro_state'.mods = nkro_state.mods \cup cur.mod
      BY <1>t, <3>2 DEF AddModifier, SetModifiers, TypeOK
    <3> QED
      BY <2>1, <2>2, <3>1, <3>3 DEF ModsBacked
  <2>5. CASE cur.mod # {} /\ ~cur.pressed
    <3>1. before \ cur.mod \subseteq after
      BY <1>t, <2>5 DEF Toggle, Modifiers
    <3>2. DelModifier(cur.mod)
      BY <2>5 DEF EventMod
    <3>3. /\ keyboard_state'.mods = keyboard_state.mods \ cur.mod
          /\ nkro_state'.mods = nkro_state.mods \ cur.mod
      BY <1>t, <3>2 DEF DelModifier, SetModifiers, TypeOK
    <3> QED
      BY <2>1, <2>2, <3>1, <3>3 DEF ModsBacked
  <2> QED
    BY <1>t, <2>3, <2>4, <2>5
<1>4. ModsSent'
  <2>1. CASE UNCHANGED reports
    BY <1>t, <2>1 DEF CleanInv, ModsSent, config, reports
  <2>2. ASSUME NEW b, NEW n, SetModifiers(b, n)
        PROVE  ModsSent'
    BY <1>t, <2>2 DEF SetModifiers, ModsSent, config
  <2> QED
    BY <2>1, <2>2 DEF EventMod, AddModifier, DelModifier
<1>5. /\ keyboard_state'.keys = keyboard_state.keys
      /\ nkro_state'.bits = nkro_state.bits
  BY <1>t, ModKeepsKeys
<1>6. KeysBacked'
  <2>1. \A k \in Code : Holders(k)' = Holders(k)
    BY <1>1, <1>2 DEF Holders
  <2>2. \A k \in Code : Slots(k)' = Slots(k)
    BY <1>5 DEF Slots
  <2> QED
    BY <1>5, <2>1, <2>2 DEF CleanInv, KeysBacked
<1>7. EventRead' /\ InItsReport'
  BY <1>t, <1>1, <1>5 DEF CleanInv, EventRead, InItsReport, config
<1> QED
  BY <1>3, <1>4, <1>6, <1>7 DEF CleanInv

\* The step "send": the host has the reports, and what is held is unchanged.
LEMMA EventSendClean ==
  ASSUME SentInv, clean, CleanInv, EventSend
  PROVE  CleanInv'
<1>t. /\ TypeOK /\ stage = "send" /\ stage' = "rest"
      /\ UNCHANGED <<config, keyboard_state, nkro_state>>
      /\ matrix_previous' = Toggle(matrix_previous, cur.switch)
  BY DEF EventSend, SentInv
<1>1. /\ KeyHeld' = KeyHeld /\ ModHeld' = ModHeld
      /\ KeySwitch' = KeySwitch /\ \A s : EventOf(s)' = EventOf(s)
  BY <1>t DEF KeyHeld, ModHeld, KeySwitch, EventOf, config
<1>2. ModsSent'
  BY <1>t DEF EventSend, CleanInv, ModsSent, config
<1>3. \A k \in Code : Holders(k)' = Holders(k) /\ Slots(k)' = Slots(k)
  BY <1>t, <1>1 DEF Holders, Slots
<1>4. KeysBacked'
  BY <1>t, <1>3 DEF CleanInv, KeysBacked
<1>5. Modifiers(ModHeld)' = Modifiers(ModHeld)
  BY <1>1 DEF Modifiers
<1>6. EventRead' /\ InItsReport' /\ ModsBacked'
  BY <1>t, <1>5 DEF EventRead, InItsReport, ModsBacked, CleanInv, config
<1> QED
  BY <1>2, <1>4, <1>6 DEF CleanInv

\* The step "key": who holds which code afterwards.
LEMMA HoldersAfterKey ==
  ASSUME SentInv, clean, CleanInv, EventKey, NEW k \in Code
  PROVE  /\ k # cur.code => Holders(k)' = Holders(k)
         /\ k = cur.code /\ cur.pressed =>
              /\ cur.switch \notin Holders(k)
              /\ Holders(k)' = Holders(k) \cup {cur.switch}
         /\ k = cur.code /\ ~cur.pressed =>
              /\ cur.switch \in Holders(k)
              /\ Holders(k)' = Holders(k) \ {cur.switch}
<1>t. /\ stage = "key" /\ stage' = "send"
      /\ UNCHANGED <<config, matrix_previous, cur>>
      /\ cur.switch \in KeySwitch /\ EventOf(cur.switch).code = cur.code
      /\ cur.pressed = (cur.switch \notin matrix_previous)
  BY DEF EventKey, SentInv, SwitchRead, CleanInv, EventRead
<1>1. KeySwitch' = KeySwitch /\ \A s : EventOf(s)' = EventOf(s)
  BY <1>t DEF KeySwitch, EventOf, config
<1>2. KeyHeld = matrix_previous /\ KeyHeld' = Toggle(matrix_previous, cur.switch)
  BY <1>t DEF KeyHeld
<1> QED
  BY <1>t, <1>1, <1>2 DEF Holders, Toggle

\* The slots and the holders of a code are finite in number.
LEMMA CountsFinite ==
  ASSUME NEW k
  PROVE  /\ IsFiniteSet(Slots(k)) /\ Cardinality(Slots(k)) \in Nat
         /\ IsFiniteSet(Holders(k)) /\ Cardinality(Holders(k)) \in Nat
<1>1. IsFiniteSet(Slot)
  BY FS_Interval, KeyboardAssumption DEF Slot
<1>2. IsFiniteSet(Slots(k))
  BY <1>1, FS_Subset DEF Slots
<1>3. Holders(k) \subseteq Switch
  BY DEF Holders, KeySwitch
<1> QED
  BY <1>2, <1>3, SwitchesFinite, FS_CardinalityType

\* A press adds one slot of its code at most and leaves other codes alone;
\* the key goes to the report that a release will search.
LEMMA PressBacked ==
  ASSUME SentInv, clean, CleanInv, EventKey, cur.code # 0, cur.pressed,
         AddKey(cur.code)
  PROVE  KeysBacked' /\ InItsReport'
<1>t. /\ TypeOK /\ cur.code \in Code /\ cur.code' = cur.code
      /\ UNCHANGED <<config, nkro_active>>
      /\ KeysBacked /\ InItsReport
  BY DEF EventKey, SentInv, CleanInv, TypeOK, NoEvent, Code, config
<1>1. ASSUME NEW k \in Code
      PROVE  /\ IsFiniteSet(Slots(k)) /\ Cardinality(Slots(k)) \in Nat
             /\ Cardinality(Slots(k)) <= Cardinality(Holders(k))
             /\ Cardinality(Holders(k)) \in Nat /\ Cardinality(Holders(k)') \in Nat
             /\ k # cur.code => Holders(k)' = Holders(k)
             /\ k = cur.code =>
                  /\ Cardinality(Holders(k)') = Cardinality(Holders(k)) + 1
                  /\ Holders(k)' # {}
  <2>1. CASE k # cur.code
    BY <1>t, <2>1, CountsFinite, HoldersAfterKey DEF KeysBacked
  <2>2. CASE k = cur.code
    <3>1. /\ cur.switch \notin Holders(k)
          /\ Holders(k)' = Holders(k) \cup {cur.switch}
      BY <2>2, HoldersAfterKey
    <3>2. Cardinality(Holders(k)') = Cardinality(Holders(k)) + 1
      BY <3>1, CountsFinite, FS_AddElement
    <3> QED
      BY <1>t, <2>2, <3>1, <3>2, CountsFinite DEF KeysBacked
  <2> QED
    BY <2>1, <2>2
<1>2. CASE nkro_active /\ InNkro(cur.code)
  <2>1. /\ keyboard_state' = keyboard_state
        /\ nkro_state'.bits = nkro_state.bits \cup {cur.code}
    BY <1>t, <1>2 DEF AddKey, SetBits, TypeOK
  <2>2. \A k \in Code : Slots(k)' = Slots(k)
    BY <2>1 DEF Slots
  <2>3. KeysBacked'
    BY <1>1, <1>t, <2>1, <2>2 DEF KeysBacked
  <2>4. InItsReport'
    BY <1>t, <1>2, <2>1 DEF InItsReport, InNkro, Code
  <2> QED
    BY <2>3, <2>4
<1>3. CASE ~(nkro_active /\ InNkro(cur.code))
  <2>1. SetFirstSlot({0, cur.code}, cur.code)
    BY <1>3 DEF AddKey
  <2>2. CASE UNCHANGED reports
    <3>1. \A k \in Code : Slots(k)' = Slots(k)
      BY <2>2 DEF Slots, reports
    <3>2. KeysBacked'
      BY <1>1, <1>t, <2>2, <3>1 DEF KeysBacked, reports
    <3> QED
      BY <1>t, <2>2, <3>2 DEF InItsReport, reports
  <2>3. ASSUME NEW i \in Slot, keyboard_state.keys[i] \in {0, cur.code},
               keyboard_state' = [keyboard_state EXCEPT !.keys[i] = cur.code],
               UNCHANGED nkro_state
        PROVE  KeysBacked' /\ InItsReport'
    <3>1. keyboard_state'.keys = [keyboard_state.keys EXCEPT ![i] = cur.code]
      BY <2>3 DEF TypeOK, SentInv
    <3>2. \A j \in Slot : keyboard_state'.keys[j] =
                            IF j = i THEN cur.code ELSE keyboard_state.keys[j]
      BY <3>1, <1>t DEF TypeOK
    <3>3. ASSUME NEW k \in Code
          PROVE  Cardinality(Slots(k)') <= Cardinality(Holders(k)')
      <4>1. CASE k # cur.code
        <5>1. Slots(k)' = Slots(k)
          BY <2>3, <3>2, <4>1 DEF Slots, Code
        <5> QED
          BY <1>1, <4>1, <5>1
      <4>2. CASE k = cur.code
        <5>1. Slots(k)' = Slots(k) \cup {i}
          BY <3>2, <4>2 DEF Slots
        <5>2. Cardinality(Slots(k)') <= Cardinality(Slots(k)) + 1
          BY <1>1, <5>1, FS_AddElement
        <5>3. IsFiniteSet(Slots(k)') /\ Cardinality(Slots(k)') \in Nat
          BY <1>1, <5>1, FS_AddElement, FS_CardinalityType
        <5> QED
          BY <1>1, <4>2, <5>2, <5>3
      <4> QED
        BY <4>1, <4>2
    <3>4. KeysBacked'
      BY <1>1, <1>t, <2>3, <3>3 DEF KeysBacked
    <3>5. InItsReport'
      BY <1>3, <1>t, <2>3, <3>2 DEF InItsReport, InNkro
    <3> QED
      BY <3>4, <3>5
  <2> QED
    BY <2>1, <2>2, <2>3 DEF SetFirstSlot
<1> QED
  BY <1>2, <1>3

\* A release clears one slot of its code, or finds that there is none.
LEMMA ReleaseBacked ==
  ASSUME SentInv, clean, CleanInv, EventKey, cur.code # 0, ~cur.pressed,
         DelKey(cur.code)
  PROVE  KeysBacked' /\ InItsReport'
<1>t. /\ TypeOK /\ cur.code \in Code /\ cur.code' = cur.code
      /\ UNCHANGED <<config, nkro_active>>
      /\ KeysBacked /\ InItsReport
  BY DEF EventKey, SentInv, CleanInv, TypeOK, NoEvent, Code, config
<1>1. ASSUME NEW k \in Code
      PROVE  /\ IsFiniteSet(Slots(k)) /\ Cardinality(Slots(k)) \in Nat
             /\ Cardinality(Slots(k)) <= Cardinality(Holders(k))
             /\ Cardinality(Holders(k)) \in Nat /\ Cardinality(Holders(k)') \in Nat
             /\ k # cur.code => Holders(k)' = Holders(k)
             /\ k = cur.code =>
                  Cardinality(Holders(k)') = Cardinality(Holders(k)) - 1
  <2>1. CASE k # cur.code
    BY <1>t, <2>1, CountsFinite, HoldersAfterKey DEF KeysBacked
  <2>2. CASE k = cur.code
    <3>1. /\ cur.switch \in Holders(k)
          /\ Holders(k)' = Holders(k) \ {cur.switch}
      BY <2>2, HoldersAfterKey
    <3>2. /\ Cardinality(Holders(k)') = Cardinality(Holders(k)) - 1
          /\ Cardinality(Holders(k)') \in Nat
      BY <3>1, CountsFinite, FS_RemoveElement, FS_CardinalityType
    <3> QED
      BY <1>t, <2>2, <3>2, CountsFinite DEF KeysBacked
  <2> QED
    BY <2>1, <2>2
<1>2. CASE nkro_active /\ InNkro(cur.code)
  <2>1. /\ keyboard_state' = keyboard_state
        /\ nkro_state'.bits = nkro_state.bits \ {cur.code}
    BY <1>t, <1>2 DEF DelKey, SetBits, TypeOK
  <2>2. \A k \in Code : Slots(k)' = Slots(k)
    BY <2>1 DEF Slots
  <2>3. Slots(cur.code) = {}
    BY <1>t, <1>2 DEF InItsReport, Slots, Code
  <2>4. ASSUME NEW k \in Code
        PROVE  Cardinality(Slots(k)') <= Cardinality(Holders(k)')
    BY <1>1, <2>2, <2>3, FS_EmptySet
  <2>5. KeysBacked'
    BY <1>1, <1>t, <2>1, <2>4 DEF KeysBacked
  <2>6. InItsReport'
    BY <1>t, <2>1 DEF InItsReport, InNkro
  <2> QED
    BY <2>5, <2>6
<1>3. CASE ~(nkro_active /\ InNkro(cur.code))
  <2>b. cur.code \notin nkro_state.bits
    BY <1>t, <1>3 DEF InItsReport
  <2>1. SetFirstSlot({cur.code}, 0)
    BY <1>3 DEF DelKey
  <2>2. ASSUME UNCHANGED reports, \A i \in Slot : keyboard_state.keys[i] # cur.code
        PROVE  KeysBacked' /\ InItsReport'
    <3>1. \A k \in Code : Slots(k)' = Slots(k)
      BY <2>2 DEF Slots, reports
    <3>2. Slots(cur.code) = {}
      BY <2>2 DEF Slots
    <3>3. ASSUME NEW k \in Code
          PROVE  Cardinality(Slots(k)') <= Cardinality(Holders(k)')
      BY <1>1, <3>1, <3>2, FS_EmptySet
    <3>4. KeysBacked'
      BY <1>1, <1>t, <2>b, <2>2, <3>3 DEF KeysBacked, reports
    <3> QED
      BY <1>t, <2>2, <3>4 DEF InItsReport, reports
  <2>3. ASSUME NEW i \in Slot, keyboard_state.keys[i] = cur.code,
               keyboard_state' = [keyboard_state EXCEPT !.keys[i] = 0],
               UNCHANGED nkro_state
        PROVE  KeysBacked' /\ InItsReport'
    <3>1. keyboard_state'.keys = [keyboard_state.keys EXCEPT ![i] = 0]
      BY <2>3 DEF TypeOK, SentInv
    <3>2. \A j \in Slot : keyboard_state'.keys[j] =
                            IF j = i THEN 0 ELSE keyboard_state.keys[j]
      BY <3>1, <1>t DEF TypeOK
    <3>3. ASSUME NEW k \in Code
          PROVE  Cardinality(Slots(k)') <= Cardinality(Holders(k)')
      <4>1. CASE k # cur.code
        <5>1. Slots(k)' = Slots(k)
          BY <2>3, <3>2, <4>1 DEF Slots, Code
        <5> QED
          BY <1>1, <4>1, <5>1
      <4>2. CASE k = cur.code
        <5>1. i \in Slots(k) /\ Slots(k)' = Slots(k) \ {i}
          BY <1>t, <2>3, <3>2, <4>2 DEF Slots, Code
        <5>2. Cardinality(Slots(k)') = Cardinality(Slots(k)) - 1
          BY <1>1, <5>1, FS_RemoveElement
        <5> QED
          BY <1>1, <4>2, <5>2
      <4> QED
        BY <4>1, <4>2
    <3>4. KeysBacked'
      BY <1>1, <1>t, <2>b, <2>3, <3>3 DEF KeysBacked
    <3>5. InItsReport'
      BY <1>t, <2>3, <3>2 DEF InItsReport, InNkro
    <3> QED
      BY <3>4, <3>5
  <2> QED
    BY <2>1, <2>2, <2>3 DEF SetFirstSlot
<1> QED
  BY <1>2, <1>3

\* The step "key" in a clean run.
LEMMA EventKeyClean ==
  ASSUME SentInv, clean, CleanInv, EventKey
  PROVE  CleanInv'
<1>t. /\ TypeOK /\ stage = "key" /\ stage' = "send"
      /\ UNCHANGED <<config, matrix_previous, cur, posted>>
  BY DEF EventKey, SentInv
<1>1. KeysBacked' /\ InItsReport'
  <2>1. CASE cur.code = 0
    <3>1. UNCHANGED reports
      BY <2>1 DEF EventKey
    <3>2. \A k \in Code : Holders(k)' = Holders(k) /\ Slots(k)' = Slots(k)
      BY <2>1, <3>1, HoldersAfterKey DEF Slots, Code, reports
    <3>3. KeysBacked'
      BY <3>1, <3>2 DEF CleanInv, KeysBacked, reports
    <3> QED
      BY <1>t, <3>1, <3>3 DEF CleanInv, InItsReport, config, reports
  <2>2. CASE cur.code # 0 /\ cur.pressed
    BY <2>2, PressBacked DEF EventKey
  <2>3. CASE cur.code # 0 /\ ~cur.pressed
    BY <2>3, ReleaseBacked DEF EventKey
  <2> QED
    BY <1>t, <2>1, <2>2, <2>3
<1>2. /\ keyboard_state'.mods = keyboard_state.mods
      /\ nkro_state'.mods = nkro_state.mods
      /\ keyboard_dirty => keyboard_dirty'
      /\ nkro_dirty => nkro_dirty'
  BY <1>t, KeyChangesOne
<1>3. ModHeld' = ModHeld /\ KeySwitch' = KeySwitch
      /\ \A s : EventOf(s)' = EventOf(s)
  BY <1>t DEF ModHeld, KeySwitch, EventOf, config
<1>4. Modifiers(ModHeld)' = Modifiers(ModHeld)
  BY <1>3 DEF Modifiers
<1>5. ModsSent' /\ EventRead' /\ ModsBacked'
  BY <1>t, <1>2, <1>3, <1>4 DEF CleanInv, ModsSent, EventRead, ModsBacked, config
<1> QED
  BY <1>1, <1>5 DEF CleanInv

\* A change of the configuration that the run survives clean finds the
\* reports empty and leaves them so.
LEMMA ChangeClean ==
  ASSUME SentInv, SentInv', CleanInv, Step, CleanChange, ~UNCHANGED config
  PROVE  CleanInv'
<1>1. /\ stage' = "rest"
      /\ UNCHANGED <<keyboard_state, nkro_state, posted>>
  BY DEF Step, MatrixEvent, KeyEvent, LayerEvent, OtherEvent, EventMod, EventKey,
         EventSend, Interrupt, CleanChange, Quiet, config, reports
<1> QED
  BY <1>1, EmptyIsClean DEF CleanChange, Quiet, SentInv

\* Every step keeps CleanInv: the run becomes quiet, or stays clean because
\* the configuration stays or changes while it is quiet, or is not clean.
LEMMA StepCleanInv ==
  ASSUME SentInv, SentInv', CleanInv, [Next]_vars
  PROVE  CleanInv'
<1>s. CASE UNCHANGED vars
  <2>1. /\ KeyHeld' = KeyHeld /\ ModHeld' = ModHeld
        /\ KeySwitch' = KeySwitch /\ \A s : EventOf(s)' = EventOf(s)
    BY <1>s DEF vars, config, KeyHeld, ModHeld, KeySwitch, EventOf
  <2>2. Modifiers(ModHeld)' = Modifiers(ModHeld)
    BY <2>1 DEF Modifiers
  <2>3. \A k \in Code : Holders(k)' = Holders(k)
    BY <2>1 DEF Holders
  <2>4. CASE clean
    <3>1. EventRead'
      BY <1>s, <2>1, <2>4 DEF vars, CleanInv, EventRead
    <3> QED
      BY <1>s, <2>2, <2>3, <2>4, <3>1, SameHeld DEF vars
  <2>5. CASE ~clean
    BY <1>s, <2>5 DEF vars, CleanInv
  <2> QED
    BY <2>4, <2>5
<1>n. CASE Next
  <2>o. /\ Step
        /\ ~clean' \/ Quiet' \/ (clean /\ (UNCHANGED config \/ CleanChange))
    BY <1>n DEF Next, Observe
  <2>1. CASE ~clean'
    BY <2>1 DEF CleanInv
  <2>2. CASE Quiet'
    BY <2>2, EmptyIsClean DEF Quiet, SentInv
  <2>3. CASE clean /\ CleanChange /\ ~UNCHANGED config
    BY <2>o, <2>3, ChangeClean
  <2>4. CASE clean /\ UNCHANGED config
    <3>1. CASE MatrixEvent
      BY <2>4, <3>1, KeyEventClean, OtherEventClean DEF MatrixEvent, SentInv
    <3>2. CASE EventMod
      BY <2>4, <3>2, EventModClean
    <3>3. CASE EventKey
      BY <2>4, <3>3, EventKeyClean
    <3>4. CASE EventSend
      BY <2>4, <3>4, EventSendClean
    <3>5. CASE Interrupt
      BY <2>4, <3>5, InterruptClean
    <3> QED
      BY <2>o, <3>1, <3>2, <3>3, <3>4, <3>5 DEF Step
  <2> QED
    BY <2>o, <2>1, <2>2, <2>3, <2>4
<1> QED
  BY <1>s, <1>n

\* KeyboardInv is inductive.
LEMMA InitKeyboardInv == Init => KeyboardInv
<1> SUFFICES ASSUME Init PROVE KeyboardInv
  OBVIOUS
<1>1. SentInv
  BY InitTypeOK DEF Init, SentInv, SwitchRead, KeysSent
<1>2. ASSUME NEW k \in Code
      PROVE  /\ Cardinality(Slots(k)) <= Cardinality(Holders(k))
             /\ k \in nkro_state.bits => Holders(k) # {}
  <2>1. Slots(k) = {}
    BY DEF Init, Slots, EmptyBoot, NoKeys, Code
  <2> QED
    BY <2>1, FS_EmptySet, CountsFinite DEF Init, EmptyNkro
<1>3. CleanInv
  BY <1>2 DEF Init, CleanInv, ModsSent, EventRead, InItsReport, ModsBacked,
              KeysBacked, EmptyBoot, EmptyNkro, NoKeys
<1> QED
  BY <1>1, <1>3 DEF KeyboardInv

LEMMA StepKeyboardInv == KeyboardInv /\ [Next]_vars => KeyboardInv'
BY StepSentInv, StepCleanInv DEF KeyboardInv

LEMMA KeyboardInvCorrect == Spec => []KeyboardInv
BY InitKeyboardInv, StepKeyboardInv, PTL DEF Spec

-----------------------------------------------------------------------------
(* The results.                                                             *)

\* No phantom key: in every clean run a code in a report is held by a switch,
\* and no code fills more slots than there are switches holding it.
THEOREM NoPhantomKeys == Spec => []SlotsBacked
<1>1. KeyboardInv => SlotsBacked
  BY DEF KeyboardInv, CleanInv, KeysBacked, SlotsBacked
<1> QED
  BY <1>1, KeyboardInvCorrect, PTL

\* No stuck key: in every clean run, once every switch is up the host has been
\* sent empty key lists and, in the report of the mode, no modifier.
THEOREM NoStuckKeys == Spec => []AllUpAllClear
<1>1. ASSUME KeyboardInv, clean, stage = "rest", matrix_previous = {}
      PROVE  /\ posted.keyboard.keys = NoKeys
             /\ posted.nkro.bits = {}
             /\ IF nkro_active THEN posted.nkro.mods = {}
                               ELSE posted.keyboard.mods = {}
  <2>1. /\ TypeOK /\ KeysSent /\ ModsSent /\ InItsReport /\ ModsBacked
        /\ KeysBacked /\ ~keyboard_dirty /\ ~nkro_dirty
    BY <1>1 DEF KeyboardInv, SentInv, CleanInv, KeysSent
  <2>2. KeyHeld = {} /\ ModHeld = {}
    BY <1>1, HeldAtRest
  <2>3. \A k \in Code : Holders(k) = {} /\ Modifiers(ModHeld) = {}
    BY <2>2 DEF Holders, Modifiers
  <2>4. nkro_state.bits = {}
    BY <2>1, <2>3 DEF KeysBacked, InItsReport, TypeOK, Code
  <2>5. ASSUME NEW i \in Slot
        PROVE  keyboard_state.keys[i] = 0
    <3> DEFINE k == keyboard_state.keys[i]
    <3>1. k \in Byte
      BY <2>1 DEF TypeOK
    <3>2. ASSUME k \in Code PROVE FALSE
      <4>1. i \in Slots(k)
        BY DEF Slots
      <4>2. Cardinality(Slots(k)) <= 0
        BY <2>1, <2>3, <3>2, FS_EmptySet DEF KeysBacked
      <4>3. Slots(k) = {}
        BY <4>2, CountsFinite, FS_EmptySet
      <4> QED
        BY <4>1, <4>3
    <3> QED
      BY <3>1, <3>2 DEF Code
  <2>6. keyboard_state.keys = NoKeys
    BY <2>1, <2>5 DEF NoKeys, TypeOK
  <2>7. keyboard_state.mods = {} /\ nkro_state.mods = {}
    BY <2>1, <2>2 DEF ModsBacked, Modifiers
  <2> QED
    BY <2>1, <2>4, <2>6, <2>7 DEF KeysSent, ModsSent
<1>2. KeyboardInv => AllUpAllClear
  BY <1>1 DEF AllUpAllClear
<1> QED
  BY <1>2, KeyboardInvCorrect, PTL

-----------------------------------------------------------------------------
(* Nothing that is held is missing.                                         *)

\* What the configuration says is the same as long as it is the same.
LEMMA SameConfig ==
  UNCHANGED config =>
    /\ KeySwitch' = KeySwitch /\ \A s : EventOf(s)' = EventOf(s)
    /\ DistinctCodes' = DistinctCodes /\ DistinctMods' = DistinctMods
BY DEF config, KeySwitch, EventOf, DistinctCodes, DistinctMods

\* With no key of the keymap down nothing is held.
LEMMA NothingHeld ==
  ASSUME stage' = "rest",
         \A s \in matrix_previous' : keymap'[layer'][s].type # "KMT_KEY"
  PROVE  /\ Modifiers(ModHeld)' = {}
         /\ \A k : Holders(k)' = {}
BY DEF ModHeld, KeyHeld, Modifiers, Holders, KeySwitch, EventOf

\* Which steps leave what is held as it is.
LEMMA HeldSame ==
  ASSUME SentInv, UNCHANGED config, MatrixEvent \/ EventSend \/ Interrupt
  PROVE  /\ Modifiers(ModHeld)' = Modifiers(ModHeld)
         /\ \A k \in Code : Holders(k)' = Holders(k)
         /\ UNCHANGED <<keyboard_state, nkro_state>>
<1>1. ASSUME KeyHeld' = KeyHeld, ModHeld' = ModHeld
      PROVE  /\ Modifiers(ModHeld)' = Modifiers(ModHeld)
             /\ \A k \in Code : Holders(k)' = Holders(k)
  BY <1>1, SameConfig DEF Modifiers, Holders
<1>2. ASSUME NEW s \in Switch, KeyEvent(s)
      PROVE  KeyHeld' = KeyHeld /\ ModHeld' = ModHeld
  BY <1>2 DEF KeyEvent, KeyHeld, ModHeld
<1>3. EventSend \/ Interrupt => KeyHeld' = KeyHeld /\ ModHeld' = ModHeld
  BY DEF EventSend, Interrupt, KeyHeld, ModHeld
<1>4. ASSUME NEW s \in Switch, LayerEvent(s) \/ OtherEvent(s)
      PROVE  /\ Modifiers(ModHeld)' = Modifiers(ModHeld)
             /\ \A k \in Code : Holders(k)' = Holders(k)
  <2>1. /\ s \notin KeySwitch /\ stage = "rest" /\ stage' = "rest"
        /\ matrix_previous' = Toggle(matrix_previous, s)
    BY <1>4 DEF LayerEvent, OtherEvent, KeySwitch, EventOf
  <2> QED
    BY <2>1, OtherToggles DEF SentInv
<1>5. UNCHANGED <<keyboard_state, nkro_state>>
  BY DEF MatrixEvent, KeyEvent, LayerEvent, OtherEvent, EventSend, Interrupt,
         reports
<1> QED
  BY <1>1, <1>2, <1>3, <1>4, <1>5 DEF MatrixEvent

\* A step that keeps a run clean keeps the configuration, or leaves nothing
\* held.
LEMMA CleanOrNothing ==
  ASSUME Next, clean'
  PROVE  \/ clean /\ UNCHANGED config
         \/ Modifiers(ModHeld)' = {} /\ \A k : Holders(k)' = {}
<1>1. CASE Quiet'
  BY <1>1, NothingHeld DEF Quiet
<1>2. CASE CleanChange /\ ~UNCHANGED config
  <2>1. stage' = "rest"
    BY <1>2 DEF Next, Step, MatrixEvent, KeyEvent, LayerEvent, OtherEvent,
                EventMod, EventKey, EventSend, Interrupt, CleanChange, Quiet,
                config
  <2> QED
    BY <1>2, <2>1, NothingHeld DEF CleanChange
<1> QED
  BY <1>1, <1>2 DEF Next, Observe

\* The step "mod" with modifiers that no other switch has.
LEMMA ModMissesNone ==
  ASSUME SentInv, clean, CleanInv, DistinctMods, ModsComplete, EventMod
  PROVE  /\ Modifiers(ModHeld)' \subseteq keyboard_state'.mods
         /\ Modifiers(ModHeld)' \subseteq nkro_state'.mods
<1>t. /\ TypeOK /\ stage = "mod" /\ stage' = "key"
      /\ UNCHANGED <<config, matrix_previous, cur, posted>>
      /\ cur.switch \in KeySwitch /\ EventOf(cur.switch).mod = cur.mod
      /\ cur.pressed = (cur.switch \notin matrix_previous)
  BY DEF EventMod, SentInv, SwitchRead, CleanInv, EventRead
<1> DEFINE before == Modifiers(matrix_previous)
           after  == UNION {EventOf(s).mod :
                       s \in Toggle(matrix_previous, cur.switch) \cap KeySwitch}
<1>1. after = Modifiers(ModHeld)'
  <2>1. ModHeld' = Toggle(matrix_previous, cur.switch)
    BY <1>t DEF ModHeld
  <2> QED
    BY <1>t, <2>1, SameConfig DEF Modifiers
<1>2. before \subseteq keyboard_state.mods /\ before \subseteq nkro_state.mods
  <2>1. ModHeld = matrix_previous
    BY <1>t DEF ModHeld
  <2> QED
    BY <2>1 DEF ModsComplete
<1>3. CASE cur.pressed
  <2>1. after \subseteq before \cup cur.mod
    BY <1>t, <1>3 DEF Toggle, Modifiers
  <2>2. /\ keyboard_state'.mods = keyboard_state.mods \cup cur.mod
        /\ nkro_state'.mods = nkro_state.mods \cup cur.mod
    BY <1>t, <1>3 DEF EventMod, AddModifier, SetModifiers, TypeOK, reports
  <2> QED
    BY <1>1, <1>2, <2>1, <2>2
<1>4. CASE ~cur.pressed
  <2>1. after \subseteq before \ cur.mod
    <3> SUFFICES ASSUME NEW s \in matrix_previous \cap KeySwitch,
                        s # cur.switch, NEW m \in EventOf(s).mod
                 PROVE  m \in before /\ m \notin cur.mod
      BY <1>t, <1>4 DEF Toggle
    <3>1. EventOf(s).mod \cap EventOf(cur.switch).mod = {}
      BY <1>t DEF DistinctMods
    <3> QED
      BY <1>t, <3>1 DEF Modifiers
  <2>2. /\ keyboard_state'.mods = keyboard_state.mods \ cur.mod
        /\ nkro_state'.mods = nkro_state.mods \ cur.mod
    BY <1>t, <1>4 DEF EventMod, DelModifier, SetModifiers, TypeOK, reports
  <2> QED
    BY <1>1, <1>2, <2>1, <2>2
<1> QED
  BY <1>3, <1>4

LEMMA StepModsComplete ==
  KeyboardInv /\ ModsComplete /\ [Next]_vars => ModsComplete'
<1> SUFFICES ASSUME KeyboardInv, ModsComplete, [Next]_vars,
                    clean', DistinctMods'
             PROVE  /\ Modifiers(ModHeld)' \subseteq keyboard_state'.mods
                    /\ Modifiers(ModHeld)' \subseteq nkro_state'.mods
  BY DEF ModsComplete
<1>s. CASE UNCHANGED vars
  <2>1. ModHeld' = ModHeld /\ UNCHANGED config
    BY <1>s DEF vars, ModHeld
  <2>2. Modifiers(ModHeld)' = Modifiers(ModHeld)
    BY <2>1, SameConfig DEF Modifiers
  <2> QED
    BY <1>s, <2>1, <2>2, SameConfig DEF vars, reports, ModsComplete
<1>n. CASE Next
  <2>1. CASE Modifiers(ModHeld)' = {}
    BY <2>1
  <2>2. CASE clean /\ UNCHANGED config
    <3>1. DistinctMods /\ SentInv /\ TypeOK /\ CleanInv
      BY <2>2, SameConfig DEF KeyboardInv, SentInv
    <3>2. CASE MatrixEvent \/ EventSend \/ Interrupt
      BY <2>2, <3>1, <3>2, HeldSame DEF ModsComplete
    <3>3. CASE EventMod
      BY <2>2, <3>1, <3>3, ModMissesNone
    <3>4. CASE EventKey
      <4>1. ModHeld' = ModHeld
        BY <3>4 DEF EventKey, ModHeld
      <4>2. Modifiers(ModHeld)' = Modifiers(ModHeld)
        BY <2>2, <4>1, SameConfig DEF Modifiers
      <4> QED
        BY <2>2, <3>1, <3>4, <4>2, KeyChangesOne DEF ModsComplete
    <3> QED
      BY <1>n, <3>2, <3>3, <3>4 DEF Next, Step
  <2> QED
    BY <1>n, <2>1, <2>2, CleanOrNothing
<1> QED
  BY <1>s, <1>n

\* peak follows the switches.
LEMMA StepPeakCovers == TypeOK /\ PeakCovers /\ [Next]_vars => PeakCovers'
<1> SUFFICES ASSUME TypeOK, PeakCovers, [Next]_vars PROVE PeakCovers'
  OBVIOUS
<1>s. CASE UNCHANGED vars
  BY <1>s DEF vars, PeakCovers
<1>n. CASE Next
  <2>1. TypeOK'
    BY StepTypeOK
  <2>2. Cardinality(matrix_previous') \in Nat /\ peak \in Nat /\ peak' \in Nat
    BY <2>1, SwitchesFinite DEF TypeOK
  <2>3. matrix_previous' = {} => Cardinality(matrix_previous') = 0
    BY FS_EmptySet
  <2> QED
    BY <1>n, <2>2, <2>3 DEF Next, Observe, PeakCovers
<1> QED
  BY <1>s, <1>n

\* Where the slots suffice after a step they did before.
LEMMA FewBefore ==
  ASSUME TypeOK, PeakCovers, Next,
         stage = "send" => KeyHeld' = KeyHeld,
         matrix_previous' = {} => matrix_previous = {},
         Few'
  PROVE  Few
<1>1. /\ Cardinality(matrix_previous) \in Nat /\ peak \in Nat /\ peak' \in Nat
      /\ KeysNum \in Nat
  BY SwitchesFinite, StepTypeOK, KeyboardAssumption DEF TypeOK
<1>2. peak <= KeysNum
  <2>1. CASE matrix_previous' = {}
    BY <1>1, <2>1 DEF PeakCovers
  <2>2. CASE matrix_previous' # {}
    <3>1. Cardinality(matrix_previous') \in Nat
      BY StepTypeOK, SwitchesFinite DEF TypeOK
    <3> QED
      BY <1>1, <2>2, <3>1 DEF Next, Observe, Few
  <2> QED
    BY <2>1, <2>2
<1>3. Cardinality(KeyHeld) <= KeysNum
  <2>1. CASE stage = "send"
    BY <2>1 DEF Few
  <2>2. CASE stage # "send"
    <3>1. KeyHeld = matrix_previous
      BY <2>2 DEF KeyHeld
    <3> QED
      BY <1>1, <1>2, <3>1 DEF PeakCovers
  <2> QED
    BY <2>1, <2>2
<1> QED
  BY <1>2, <1>3 DEF Few

\* A step that leaves holders, slots and bits alone.
LEMMA KeysCompleteKept ==
  ASSUME TypeOK, PeakCovers, Next, clean, UNCHANGED config,
         DistinctCodes, KeysComplete, NEW k \in Code,
         Holders(k)' = Holders(k), Holders(k)' # {},
         Slots(k) \subseteq Slots(k)',
         k \in nkro_state.bits => k \in nkro_state'.bits,
         stage = "send" => KeyHeld' = KeyHeld,
         matrix_previous' = {} => matrix_previous = {}
  PROVE  IF nkro_active' /\ InNkro(k) THEN k \in nkro_state'.bits
                                      ELSE Few' => Slots(k)' # {}
<1>1. Few' => Few
  BY FewBefore
<1>2. nkro_active' = nkro_active
  BY DEF config
<1> QED
  BY <1>1, <1>2 DEF KeysComplete

\* At most one switch holds a code, and at most one slot shows it.
LEMMA OneHolder ==
  ASSUME SentInv, clean, CleanInv, DistinctCodes, NEW k \in Code
  PROVE  /\ \A s, t \in Holders(k) : s = t
         /\ \A i, j \in Slots(k) : i = j
         /\ Slots(k) # {} => Holders(k) # {}
<1>1. \A s, t \in Holders(k) : s = t
  BY DEF DistinctCodes, Holders, Code
<1>2. Cardinality(Slots(k)) <= Cardinality(Holders(k))
  BY DEF CleanInv, KeysBacked
<1>3. ASSUME NEW s \in Holders(k) PROVE Cardinality(Holders(k)) = 1
  <2>1. Holders(k) = {s}
    BY <1>1
  <2> QED
    BY <2>1, FS_Singleton
<1>4. Holders(k) = {} => Cardinality(Holders(k)) = 0
  BY FS_EmptySet
<1>5. ASSUME NEW i \in Slots(k), NEW j \in Slots(k), i # j PROVE FALSE
  <2>1. {i, j} \subseteq Slots(k)
    OBVIOUS
  <2>2. Cardinality({i, j}) = 2
    <3>1. Cardinality({i}) = 1 /\ IsFiniteSet({i})
      BY FS_Singleton
    <3>2. Cardinality({i} \cup {j}) = 2
      BY <1>5, <3>1, FS_AddElement
    <3> QED
      BY <3>2
  <2>3. Cardinality({i, j}) <= Cardinality(Slots(k))
    BY <2>1, CountsFinite, FS_Subset
  <2> QED
    BY <1>2, <1>3, <1>4, <2>2, <2>3, CountsFinite
<1>6. ASSUME NEW i \in Slots(k), Holders(k) = {} PROVE FALSE
  <2>1. Cardinality(Slots(k)) = 0
    BY <1>2, <1>4, <1>6, CountsFinite
  <2> QED
    BY <1>6, <2>1, CountsFinite, FS_EmptySet
<1> QED
  BY <1>1, <1>5, <1>6

\* The slots are not all taken by other codes while few switches are down:
\* each would be held by a switch of its own.
LEMMA SlotFree ==
  ASSUME SentInv, clean, CleanInv, DistinctCodes, stage # "send",
         Cardinality(matrix_previous) < KeysNum
  PROVE  \E i \in Slot : keyboard_state.keys[i] = 0
<1> SUFFICES ASSUME \A i \in Slot : keyboard_state.keys[i] # 0 PROVE FALSE
  OBVIOUS
<1>1. \A i \in Slot : keyboard_state.keys[i] \in Code
  BY DEF SentInv, TypeOK, Code
<1> DEFINE holder == [i \in Slot |-> CHOOSE s : s \in Holders(keyboard_state.keys[i])]
<1>2. ASSUME NEW i \in Slot
      PROVE  holder[i] \in Holders(keyboard_state.keys[i])
  <2>1. i \in Slots(keyboard_state.keys[i])
    BY DEF Slots
  <2>2. Holders(keyboard_state.keys[i]) # {}
    BY <1>1, <2>1, OneHolder
  <2> QED
    BY <2>2
<1>3. KeyHeld = matrix_previous
  BY DEF KeyHeld
<1>4. holder \in [Slot -> matrix_previous]
  BY <1>2, <1>3 DEF Holders
<1> HIDE DEF holder
<1>5. ASSUME NEW i \in Slot, NEW j \in Slot, holder[i] = holder[j]
      PROVE  i = j
  <2>1. keyboard_state.keys[i] = keyboard_state.keys[j]
    BY <1>2, <1>5 DEF Holders
  <2>2. i \in Slots(keyboard_state.keys[i]) /\ j \in Slots(keyboard_state.keys[i])
    BY <2>1 DEF Slots
  <2> QED
    BY <1>1, <2>2, OneHolder
<1>6. IsFiniteSet(Slot) /\ Cardinality(Slot) = KeysNum
  BY FS_Interval, KeyboardAssumption DEF Slot
<1>7. IsFiniteSet(matrix_previous)
  BY SwitchesFinite DEF SentInv, TypeOK
<1>8. PICK i \in Slot, j \in Slot : i # j /\ holder[i] = holder[j]
  BY <1>4, <1>6, <1>7, FS_PigeonHole
<1> QED
  BY <1>5, <1>8

\* The step "key": the code of the switch gets its bit or a slot, and other
\* codes keep theirs.
LEMMA KeyMissesNone ==
  ASSUME SentInv, clean, CleanInv, DistinctCodes, KeysComplete, PeakCovers,
         Next, EventKey, NEW k \in Code, Holders(k)' # {}
  PROVE  IF nkro_active' /\ InNkro(k) THEN k \in nkro_state'.bits
                                      ELSE Few' => Slots(k)' # {}
<1>t. /\ TypeOK /\ stage = "key" /\ stage' = "send"
      /\ UNCHANGED <<config, matrix_previous, cur, nkro_active>>
  BY DEF EventKey, SentInv, config
<1>k. ASSUME Holders(k)' = Holders(k), Slots(k) \subseteq Slots(k)',
             k \in nkro_state.bits => k \in nkro_state'.bits
      PROVE  IF nkro_active' /\ InNkro(k) THEN k \in nkro_state'.bits
                                          ELSE Few' => Slots(k)' # {}
  BY <1>k, <1>t, KeysCompleteKept
<1>1. CASE UNCHANGED reports /\ (cur.code = 0 \/ k # cur.code)
  <2>1. Holders(k)' = Holders(k) /\ Slots(k)' = Slots(k)
    BY <1>1, HoldersAfterKey DEF Slots, Code, reports
  <2> QED
    BY <1>1, <1>k, <2>1 DEF reports
<1>2. ASSUME k # cur.code, NEW b \in {TRUE, FALSE},
             SetBits(IF b THEN nkro_state.bits \cup {cur.code}
                          ELSE nkro_state.bits \ {cur.code})
      PROVE  IF nkro_active' /\ InNkro(k) THEN k \in nkro_state'.bits
                                          ELSE Few' => Slots(k)' # {}
  <2>1. Holders(k)' = Holders(k) /\ Slots(k)' = Slots(k)
    BY <1>2, HoldersAfterKey DEF SetBits, Slots
  <2>2. k \in nkro_state.bits => k \in nkro_state'.bits
    BY <1>2, <1>t DEF SetBits, TypeOK
  <2> QED
    BY <1>k, <2>1, <2>2
<1>3. ASSUME k # cur.code, NEW w, w \subseteq {0, cur.code},
             NEW v \in {0, cur.code}, SetFirstSlot(w, v)
      PROVE  IF nkro_active' /\ InNkro(k) THEN k \in nkro_state'.bits
                                          ELSE Few' => Slots(k)' # {}
  <2>1. Holders(k)' = Holders(k)
    BY <1>3, HoldersAfterKey
  <2>2. CASE UNCHANGED reports
    BY <1>1, <1>3, <2>2
  <2>3. ASSUME NEW i \in Slot, keyboard_state.keys[i] \in w,
               keyboard_state' = [keyboard_state EXCEPT !.keys[i] = v],
               UNCHANGED nkro_state
        PROVE  IF nkro_active' /\ InNkro(k) THEN k \in nkro_state'.bits
                                            ELSE Few' => Slots(k)' # {}
    <3>1. keyboard_state'.keys = [keyboard_state.keys EXCEPT ![i] = v]
      BY <1>t, <2>3 DEF TypeOK
    <3>2. \A j \in Slot : j # i => keyboard_state'.keys[j] = keyboard_state.keys[j]
      BY <1>t, <3>1 DEF TypeOK
    <3>3. Slots(k) \subseteq Slots(k)'
      BY <1>3, <2>3, <3>2 DEF Slots, Code
    <3> QED
      BY <1>k, <2>1, <2>3, <3>3
  <2> QED
    BY <1>3, <2>2, <2>3 DEF SetFirstSlot
<1>4. CASE k = cur.code /\ cur.pressed
  <2>1. AddKey(k)
    BY <1>4 DEF EventKey, Code
  <2>2. CASE nkro_active /\ InNkro(k)
    BY <1>t, <2>1, <2>2 DEF AddKey, SetBits, TypeOK
  <2>3. CASE ~(nkro_active /\ InNkro(k))
    <3> SUFFICES ASSUME Few' PROVE Slots(k)' # {}
      BY <1>t, <2>3
    <3>1. SetFirstSlot({0, k}, k)
      BY <2>1, <2>3 DEF AddKey
    <3>2. ASSUME NEW i \in Slot,
                 keyboard_state' = [keyboard_state EXCEPT !.keys[i] = k]
          PROVE  Slots(k)' # {}
      BY <1>t, <3>2 DEF TypeOK, Slots
    <3>3. \E i \in Slot : keyboard_state.keys[i] = 0
      <4>1. KeyHeld' = matrix_previous \cup {cur.switch}
            /\ cur.switch \notin matrix_previous
        BY <1>t, <1>4 DEF KeyHeld, Toggle, SentInv, SwitchRead
      <4>2. /\ IsFiniteSet(matrix_previous)
            /\ Cardinality(matrix_previous) \in Nat
        BY <1>t, SwitchesFinite DEF TypeOK
      <4>3. Cardinality(KeyHeld') = Cardinality(matrix_previous) + 1
        BY <4>1, <4>2, FS_AddElement
      <4>4. Cardinality(matrix_previous) < KeysNum
        BY <4>2, <4>3, KeyboardAssumption DEF Few
      <4> QED
        BY <1>t, <4>4, SlotFree
    <3> QED
      BY <3>1, <3>2, <3>3 DEF SetFirstSlot
  <2> QED
    BY <2>2, <2>3
<1>5. CASE k = cur.code /\ ~cur.pressed
  <2>1. cur.switch \in Holders(k) /\ Holders(k)' = Holders(k) \ {cur.switch}
    BY <1>5, HoldersAfterKey
  <2>2. Holders(k)' = {}
    BY <2>1, OneHolder
  <2> QED
    BY <2>2
<1>6. CASE k # cur.code /\ cur.code # 0
  <2>1. CASE cur.pressed /\ nkro_active /\ InNkro(cur.code)
    BY <1>2, <1>6, <2>1 DEF EventKey, AddKey
  <2>2. CASE ~cur.pressed /\ nkro_active /\ InNkro(cur.code)
    BY <1>2, <1>6, <2>2 DEF EventKey, DelKey
  <2>3. CASE cur.pressed /\ ~(nkro_active /\ InNkro(cur.code))
    <3>1. SetFirstSlot({0, cur.code}, cur.code)
      BY <1>6, <2>3 DEF EventKey, AddKey
    <3> QED
      BY <1>3, <1>6, <3>1
  <2>4. CASE ~cur.pressed /\ ~(nkro_active /\ InNkro(cur.code))
    <3>1. SetFirstSlot({cur.code}, 0)
      BY <1>6, <2>4 DEF EventKey, DelKey
    <3> QED
      BY <1>3, <1>6, <3>1
  <2> QED
    BY <2>1, <2>2, <2>3, <2>4
<1>7. CASE cur.code = 0
  BY <1>1, <1>7 DEF EventKey
<1> QED
  BY <1>4, <1>5, <1>6, <1>7

LEMMA StepKeysComplete ==
  KeyboardInv /\ KeysComplete /\ PeakCovers /\ [Next]_vars => KeysComplete'
<1> SUFFICES ASSUME KeyboardInv, KeysComplete, PeakCovers, [Next]_vars,
                    clean', DistinctCodes', NEW k \in Code, Holders(k)' # {}
             PROVE  IF nkro_active' /\ InNkro(k) THEN k \in nkro_state'.bits
                                                 ELSE Few' => Slots(k)' # {}
  BY DEF KeysComplete
<1>s. CASE UNCHANGED vars
  <2>1. KeyHeld' = KeyHeld /\ UNCHANGED config
    BY <1>s DEF vars, KeyHeld
  <2>2. Holders(k)' = Holders(k)
    BY <2>1, SameConfig DEF Holders
  <2>3. Slots(k)' = Slots(k) /\ (Few' <=> Few)
    BY <1>s, <2>1 DEF vars, reports, Slots, Few
  <2>4. clean /\ DistinctCodes /\ UNCHANGED <<nkro_active, nkro_state>>
    BY <1>s, <2>1, SameConfig DEF vars, config, reports
  <2> QED
    BY <2>2, <2>3, <2>4 DEF KeysComplete
<1>n. CASE Next
  <2>2. clean /\ UNCHANGED config
    BY <1>n, CleanOrNothing
  <2>3. DistinctCodes /\ SentInv /\ TypeOK /\ CleanInv
    BY <2>2, SameConfig DEF KeyboardInv, SentInv
  <2>4. CASE MatrixEvent \/ EventSend \/ Interrupt
    <3>1. /\ Holders(k)' = Holders(k)
          /\ UNCHANGED <<keyboard_state, nkro_state>>
      BY <2>2, <2>3, <2>4, HeldSame
    <3>2. Slots(k)' = Slots(k)
      BY <3>1 DEF Slots
    <3>3. stage = "send" => KeyHeld' = KeyHeld
      BY <2>4 DEF MatrixEvent, KeyEvent, LayerEvent, OtherEvent, EventSend,
                  Interrupt, KeyHeld
    <3>4. matrix_previous' = {} => matrix_previous = {}
      <4>1. CASE stage' = "rest"
        <5>1. KeyHeld' = matrix_previous'
          BY <4>1 DEF KeyHeld
        <5> QED
          BY <5>1 DEF Holders
      <4>2. CASE stage' # "rest"
        BY <2>4, <4>2 DEF MatrixEvent, KeyEvent, LayerEvent, OtherEvent,
                          EventSend, Interrupt
      <4> QED
        BY <4>1, <4>2
    <3> QED
      BY <1>n, <2>2, <2>3, <3>1, <3>2, <3>3, <3>4, KeysCompleteKept
  <2>5. CASE EventMod
    <3>1. /\ keyboard_state'.keys = keyboard_state.keys
          /\ nkro_state'.bits = nkro_state.bits
      BY <2>3, <2>5, ModKeepsKeys
    <3>2. /\ KeyHeld' = KeyHeld /\ stage # "send"
          /\ UNCHANGED matrix_previous
      BY <2>5 DEF EventMod, KeyHeld
    <3>3. Holders(k)' = Holders(k) /\ Slots(k)' = Slots(k)
      BY <2>2, <3>1, <3>2, SameConfig DEF Holders, Slots
    <3> QED
      BY <1>n, <2>2, <2>3, <3>1, <3>2, <3>3, KeysCompleteKept
  <2>6. CASE EventKey
    BY <1>n, <2>2, <2>3, <2>6, KeyMissesNone
  <2> QED
    BY <1>n, <2>4, <2>5, <2>6 DEF Next, Step
<1> QED
  BY <1>s, <1>n

LEMMA InitCompleteInv == Init => CompleteInv
<1> SUFFICES ASSUME Init PROVE CompleteInv
  OBVIOUS
<1>1. KeyHeld = {} /\ ModHeld = {} /\ Cardinality(matrix_previous) = 0
  BY FS_EmptySet DEF Init, KeyHeld, ModHeld
<1> QED
  BY <1>1 DEF Init, CompleteInv, ModsComplete, KeysComplete, PeakCovers,
              Modifiers, Holders

LEMMA CompleteInvCorrect == Spec => []CompleteInv
<1>1. KeyboardInv /\ CompleteInv /\ [Next]_vars => CompleteInv'
  BY StepModsComplete, StepKeysComplete, StepPeakCovers
  DEF CompleteInv, KeyboardInv, SentInv
<1> QED
  BY <1>1, InitCompleteInv, KeyboardInvCorrect, PTL DEF Spec

\* Rollover: in every clean run a key that is held is in the last report sent,
\* without a limit in NKRO mode and as long as the slots suffice otherwise.
THEOREM HeldKeysReported == Spec => []Rollover
<1>1. ASSUME KeyboardInv, CompleteInv, clean, stage = "rest", DistinctCodes,
             NEW s \in matrix_previous \cap KeySwitch, EventOf(s).code # 0
      PROVE  IF nkro_active /\ InNkro(EventOf(s).code)
               THEN EventOf(s).code \in posted.nkro.bits
               ELSE peak <= KeysNum =>
                 \E i \in Slot : posted.keyboard.keys[i] = EventOf(s).code
  <2> DEFINE k == EventOf(s).code
  <2>1. TypeOK /\ KeysSent /\ ~keyboard_dirty /\ ~nkro_dirty
    BY <1>1 DEF KeyboardInv, SentInv, KeysSent
  <2>2. k \in Code
    <3>1. keymap[layer][s].code \in Byte
      BY <2>1, EntryType DEF TypeOK, KeySwitch
    <3> QED
      BY <1>1, <3>1 DEF Code, EventOf
  <2>3. KeyHeld = matrix_previous
    BY <1>1, HeldAtRest
  <2>4. s \in Holders(k)
    BY <2>3 DEF Holders
  <2>5. Cardinality(matrix_previous) \in Nat /\ peak \in Nat /\ KeysNum \in Nat
    BY <2>1, SwitchesFinite, KeyboardAssumption DEF TypeOK
  <2>6. peak <= KeysNum => Few
    BY <1>1, <2>3, <2>5 DEF Few, CompleteInv, PeakCovers
  <2>7. IF nkro_active /\ InNkro(k) THEN k \in nkro_state.bits
                                    ELSE Few => Slots(k) # {}
    BY <1>1, <2>2, <2>4 DEF CompleteInv, KeysComplete
  <2> QED
    BY <2>1, <2>6, <2>7 DEF KeysSent, Slots
<1>2. KeyboardInv /\ CompleteInv => Rollover
  BY <1>1 DEF Rollover
<1> QED
  BY <1>2, KeyboardInvCorrect, CompleteInvCorrect, PTL

\* The report of the mode has no modifier that nobody holds and, if no two
\* keys share one, every modifier held.
THEOREM ModifiersFollow == Spec => []ModifiersExact
<1>1. KeyboardInv /\ CompleteInv => ModifiersExact
  <2> SUFFICES ASSUME KeyboardInv, CompleteInv, clean, stage = "rest"
               PROVE  LET mods == IF nkro_active THEN posted.nkro.mods
                                                 ELSE posted.keyboard.mods
                      IN  /\ mods \subseteq Modifiers(matrix_previous)
                          /\ DistinctMods => mods = Modifiers(matrix_previous)
    BY DEF ModifiersExact
  <2>1. /\ ModsSent /\ ModsBacked /\ ~keyboard_dirty /\ ~nkro_dirty
    BY DEF KeyboardInv, SentInv, KeysSent, CleanInv
  <2>2. ModHeld = matrix_previous
    BY HeldAtRest
  <2> QED
    BY <2>1, <2>2 DEF ModsSent, ModsBacked, CompleteInv, ModsComplete
<1> QED
  BY <1>1, KeyboardInvCorrect, CompleteInvCorrect, PTL
=============================================================================
