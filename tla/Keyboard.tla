------------------------------- MODULE Keyboard -------------------------------
(***************************************************************************)
(* keyboard.c and keymap.c: how the press and release events the matrix    *)
(* hands to keymap_event become the boot report and the NKRO report.       *)
(*                                                                         *)
(* The main loop runs keymap_event in the steps                            *)
(*                                                                         *)
(*     rest --> mod --> key --> send --> rest                              *)
(*                                                                         *)
(* and the USB interrupt may run between any two of them.  The interrupt   *)
(* changes what the steps read: the mode (commands n and N, SET_PROTOCOL), *)
(* the keymap (command K) or everything at once (command R).               *)
(*                                                                         *)
(* Bit fields are sets: a modifier byte is a set of modifier bits and the  *)
(* NKRO bitmap is the set of codes whose bit is 1.                         *)
(***************************************************************************)
EXTENDS Integers, FiniteSets

CONSTANTS
  Switch,       \* positions of the matrix, a (row, column) pair each
  NoSwitch,     \* no position
  ModBit,       \* the bits of a modifier byte
  LAYERS_NUM,   \* number of keymap layers
  KeysNum,      \* sizeof(keyboard_state.keys): key slots of the boot report
  NkroNum,      \* 8 * sizeof(nkro_state.bits): codes in the NKRO bitmap
  FactoryMap,   \* the keymap compiled into the firmware
  NewEvents,    \* the events command K may store
  SavedConfigs  \* the configurations command R may find in flash

VARIABLES
  keymap,          \* keymap[layer][switch]
  layer,           \* the active layer
  matrix_previous, \* the switches that are down as far as the matrix told us
  keyboard_state,  \* the boot report
  nkro_state,      \* the NKRO report
  nkro_active,     \* mode: NKRO when TRUE, boot when FALSE
  keyboard_dirty, nkro_dirty,
  stage,           \* where keymap_event is
  cur,             \* the event being processed, with its switch
  posted,          \* the report last handed to usb_update_*, per endpoint
  clean,           \* ghost: no configuration change hit a key in use
  peak             \* ghost: most switches down at once since all were up

config  == <<keymap, layer, nkro_active>>
reports == <<keyboard_state, nkro_state, keyboard_dirty, nkro_dirty>>
vars    == <<config, matrix_previous, reports, stage, cur, posted, clean, peak>>

Byte  == 0..255
Layer == 0..(LAYERS_NUM - 1)
Slot  == 1..KeysNum
KEY_A == 4

\* event_t, as far as the keyboard tells events apart: the third data byte
\* is key.code in a KMT_KEY event and layer.number in a KMT_LAYER event, and
\* every other type leaves the keyboard alone.
EventType == {"KMT_KEY", "KMT_LAYER", "KMT_OTHER"}
Event     == [type : EventType, mod : SUBSET ModBit, code : Byte]
Keymap    == [Layer -> [Switch -> Event]]
Config    == [keymap : Keymap, layer : Layer, nkro : BOOLEAN]

ASSUME KeyboardAssumption ==
  /\ IsFiniteSet(Switch)
  /\ NoSwitch \notin Switch
  /\ LAYERS_NUM \in Nat \ {0}
  /\ KeysNum \in Nat \ {0}
  /\ NkroNum \in Nat
  /\ FactoryMap \in Keymap
  /\ NewEvents \subseteq Event
  /\ SavedConfigs \subseteq Config

NoKeys     == [i \in Slot |-> 0]
EmptyBoot  == [mods |-> {}, keys |-> NoKeys]
EmptyNkro  == [mods |-> {}, bits |-> {}]
NoEvent    == [switch |-> NoSwitch, mod |-> {}, code |-> 0, pressed |-> FALSE]

\* k = key - KEY_A in uint8_t arithmetic, and k is a bit of the bitmap.
InNkro(key) == (key - KEY_A) % 256 < NkroNum

Toggle(S, x) == IF x \in S THEN S \ {x} ELSE S \cup {x}

TypeOK ==
  /\ keymap \in Keymap
  /\ layer \in Layer
  /\ matrix_previous \subseteq Switch
  /\ keyboard_state \in [mods : SUBSET ModBit, keys : [Slot -> Byte]]
  /\ nkro_state \in [mods : SUBSET ModBit, bits : SUBSET Byte]
  /\ nkro_active \in BOOLEAN
  /\ keyboard_dirty \in BOOLEAN /\ nkro_dirty \in BOOLEAN
  /\ stage \in {"rest", "mod", "key", "send"}
  /\ cur \in [switch : Switch, mod : SUBSET ModBit, code : Byte,
              pressed : BOOLEAN] \cup {NoEvent}
  /\ (stage # "rest") => (cur.switch \in Switch)
  /\ posted \in [keyboard : [mods : SUBSET ModBit, keys : [Slot -> Byte]],
                 nkro : [mods : SUBSET ModBit, bits : SUBSET Byte]]
  /\ clean \in BOOLEAN
  /\ peak \in Nat

Init ==
  /\ keymap = FactoryMap /\ layer = 0 /\ nkro_active = FALSE
  /\ matrix_previous = {}
  /\ keyboard_state = EmptyBoot /\ nkro_state = EmptyNkro
  /\ keyboard_dirty = FALSE /\ nkro_dirty = FALSE
  /\ stage = "rest" /\ cur = NoEvent
  /\ posted = [keyboard |-> EmptyBoot, nkro |-> EmptyNkro]
  /\ clean = TRUE /\ peak = 0

-----------------------------------------------------------------------------
(* The report operations of keyboard.c.                                     *)

\* keyboard_add_modifier and keyboard_del_modifier write both reports but
\* mark only the one of the current mode.
SetModifiers(bootMods, nkroMods) ==
  /\ keyboard_state' = [keyboard_state EXCEPT !.mods = bootMods]
  /\ nkro_state' = [nkro_state EXCEPT !.mods = nkroMods]
  /\ nkro_dirty' = (nkro_dirty \/ nkro_active)
  /\ keyboard_dirty' = (keyboard_dirty \/ ~nkro_active)

\* Mutant: the modifiers are assigned, not combined.
AddModifierAssign(mod) == SetModifiers(mod, mod)

AddModifier(mod) ==
  SetModifiers(keyboard_state.mods \cup mod, nkro_state.mods \cup mod)

DelModifier(mod) ==
  SetModifiers(keyboard_state.mods \ mod, nkro_state.mods \ mod)

SetBits(bits) ==
  /\ nkro_state' = [nkro_state EXCEPT !.bits = bits]
  /\ nkro_dirty' = TRUE
  /\ UNCHANGED <<keyboard_state, keyboard_dirty>>

\* Mutant: every slot that fits is set, as without the return in the loop.
SetFirstSlotNoReturn(wanted, value) ==
  /\ keyboard_state' = [keyboard_state EXCEPT !.keys =
       [i \in Slot |-> IF @[i] \in wanted THEN value ELSE @[i]]]
  /\ keyboard_dirty' = TRUE
  /\ UNCHANGED <<nkro_state, nkro_dirty>>

\* Mutant: the loop ends one slot early.
SetFirstSlotShort(wanted, value) ==
  \/ \E i \in 1..(KeysNum - 1) :
       /\ keyboard_state.keys[i] \in wanted
       /\ \A j \in 1..(i - 1) : keyboard_state.keys[j] \notin wanted
       /\ keyboard_state' = [keyboard_state EXCEPT !.keys[i] = value]
       /\ keyboard_dirty' = TRUE
       /\ UNCHANGED <<nkro_state, nkro_dirty>>
  \/ /\ \A i \in 1..(KeysNum - 1) : keyboard_state.keys[i] \notin wanted
     /\ UNCHANGED reports

\* The loop over keys[]: store value in the first slot that holds one of
\* the wanted bytes, or do nothing when no slot does.
SetFirstSlot(wanted, value) ==
  \/ \E i \in Slot :
       /\ keyboard_state.keys[i] \in wanted
       /\ \A j \in 1..(i - 1) : keyboard_state.keys[j] \notin wanted
       /\ keyboard_state' = [keyboard_state EXCEPT !.keys[i] = value]
       /\ keyboard_dirty' = TRUE
       /\ UNCHANGED <<nkro_state, nkro_dirty>>
  \/ /\ \A i \in Slot : keyboard_state.keys[i] \notin wanted
     /\ UNCHANGED reports

AddKey(key) ==
  IF nkro_active /\ InNkro(key)
    THEN SetBits(nkro_state.bits \cup {key})
    ELSE SetFirstSlot({0, key}, key)

\* Mutant: in NKRO mode the range of the bitmap is not checked.
DelKeyNoRange(key) ==
  IF nkro_active THEN SetBits(nkro_state.bits \ {key})
                 ELSE SetFirstSlot({key}, 0)

DelKey(key) ==
  IF nkro_active /\ InNkro(key)
    THEN SetBits(nkro_state.bits \ {key})
    ELSE SetFirstSlot({key}, 0)

-----------------------------------------------------------------------------
(* keymap_event(row, col, pressed), called by matrix_process for one switch *)
(* whose state differs from matrix_previous.                                *)

\* KMT_KEY: keyboard_event copies mod and code before it does anything else.
KeyEvent(s) ==
  LET e == keymap[layer][s] IN
  /\ stage = "rest" /\ e.type = "KMT_KEY"
  /\ cur' = [switch |-> s, mod |-> e.mod, code |-> e.code,
             pressed |-> s \notin matrix_previous]
  /\ stage' = "mod"
  /\ UNCHANGED <<config, matrix_previous, reports, posted>>

\* Mutant: the layer number is not reduced.
LayerEventUnbounded(s) ==
  LET e == keymap[layer][s] IN
  /\ stage = "rest" /\ e.type = "KMT_LAYER"
  /\ layer' = e.code
  /\ matrix_previous' = Toggle(matrix_previous, s)
  /\ UNCHANGED <<keymap, nkro_active, reports, stage, cur, posted>>

\* KMT_LAYER acts on the press and on the release alike.
LayerEvent(s) ==
  LET e == keymap[layer][s] IN
  /\ stage = "rest" /\ e.type = "KMT_LAYER"
  /\ layer' = e.code % LAYERS_NUM
  /\ matrix_previous' = Toggle(matrix_previous, s)
  /\ UNCHANGED <<keymap, nkro_active, reports, stage, cur, posted>>

OtherEvent(s) ==
  /\ stage = "rest" /\ keymap[layer][s].type = "KMT_OTHER"
  /\ matrix_previous' = Toggle(matrix_previous, s)
  /\ UNCHANGED <<config, reports, stage, cur, posted>>

EventMod ==
  /\ stage = "mod" /\ stage' = "key"
  /\ \/ cur.mod = {} /\ UNCHANGED reports
     \/ cur.mod # {} /\ cur.pressed /\ AddModifier(cur.mod)
     \/ cur.mod # {} /\ ~cur.pressed /\ DelModifier(cur.mod)
  /\ UNCHANGED <<config, matrix_previous, cur, posted>>

EventKey ==
  /\ stage = "key" /\ stage' = "send"
  /\ \/ cur.code = 0 /\ UNCHANGED reports
     \/ cur.code # 0 /\ cur.pressed /\ AddKey(cur.code)
     \/ cur.code # 0 /\ ~cur.pressed /\ DelKey(cur.code)
  /\ UNCHANGED <<config, matrix_previous, cur, posted>>

\* Mutant: one report is sent per event, and both count as sent.
EventSendOne ==
  /\ stage = "send" /\ stage' = "rest" /\ cur' = NoEvent
  /\ posted' = [keyboard |-> IF keyboard_dirty THEN keyboard_state
                                               ELSE posted.keyboard,
                nkro     |-> IF nkro_dirty /\ ~keyboard_dirty THEN nkro_state
                                               ELSE posted.nkro]
  /\ keyboard_dirty' = FALSE /\ nkro_dirty' = FALSE
  /\ matrix_previous' = Toggle(matrix_previous, cur.switch)
  /\ UNCHANGED <<config, keyboard_state, nkro_state>>

\* Hand the dirty reports to the USB layer, then let matrix_process note the
\* new state of the switch.
EventSend ==
  /\ stage = "send" /\ stage' = "rest" /\ cur' = NoEvent
  /\ posted' = [keyboard |-> IF keyboard_dirty THEN keyboard_state
                                               ELSE posted.keyboard,
                nkro     |-> IF nkro_dirty THEN nkro_state ELSE posted.nkro]
  /\ keyboard_dirty' = FALSE /\ nkro_dirty' = FALSE
  /\ matrix_previous' = Toggle(matrix_previous, cur.switch)
  /\ UNCHANGED <<config, keyboard_state, nkro_state>>

-----------------------------------------------------------------------------
(* What the USB interrupt may do between two steps of the main loop.        *)

\* Commands n and N; SET_PROTOCOL, which means NKRO by protocol 1.
SetMode(on) ==
  /\ nkro_active' = on
  /\ UNCHANGED <<keymap, layer>>

\* Command K with a position inside the keymap.
KeymapSet(l, s, e) ==
  /\ keymap' = [keymap EXCEPT ![l][s] = e]
  /\ UNCHANGED <<layer, nkro_active>>

\* Command R with a valid image in flash.
FlashReadConfig(c) ==
  keymap' = c.keymap /\ layer' = c.layer /\ nkro_active' = c.nkro

Interrupt ==
  /\ \/ \E on \in BOOLEAN : SetMode(on)
     \/ \E l \in Layer, s \in Switch, e \in NewEvents : KeymapSet(l, s, e)
     \/ \E c \in SavedConfigs : FlashReadConfig(c)
  /\ UNCHANGED <<matrix_previous, reports, stage, cur, posted>>

MatrixEvent == \E s \in Switch : KeyEvent(s) \/ LayerEvent(s) \/ OtherEvent(s)

Step == MatrixEvent \/ EventMod \/ EventKey \/ EventSend \/ Interrupt

-----------------------------------------------------------------------------
(* Ghost state.  Quiet: nothing is down, in progress or reported.  A change *)
(* of mode, layer or keymap keeps a run clean only when it is quiet, and    *)
(* when the switch that changed the layer is not a key in the new layer.    *)
(* After any other change the run is not clean until it is quiet again.     *)

Quiet ==
  /\ stage = "rest" /\ matrix_previous = {}
  /\ keyboard_state = EmptyBoot /\ nkro_state = EmptyNkro
  /\ posted = [keyboard |-> EmptyBoot, nkro |-> EmptyNkro]

CleanChange ==
  Quiet /\ \A s \in matrix_previous' : keymap'[layer'][s].type # "KMT_KEY"

Observe ==
  /\ clean' = (Quiet' \/ (clean /\ (UNCHANGED config \/ CleanChange)))
  /\ peak' = IF matrix_previous' = {} THEN 0
             ELSE IF peak < Cardinality(matrix_previous')
                    THEN Cardinality(matrix_previous') ELSE peak

Next == Step /\ Observe

Spec == Init /\ [][Next]_vars

-----------------------------------------------------------------------------
(* Properties.                                                              *)

\* The switches whose press is in the reports and whose release is not:
\* keyboard_event adds or deletes the key in its step "key", the matrix notes
\* the new state of the switch after the last step.
KeyHeld == IF stage = "send" THEN Toggle(matrix_previous, cur.switch)
                             ELSE matrix_previous

\* The same for modifiers, which the step "mod" adds or deletes.
ModHeld == IF stage \in {"key", "send"} THEN Toggle(matrix_previous, cur.switch)
                                        ELSE matrix_previous

Code == Byte \ {0}

\* The event of a switch, and the switches that carry a key event.
EventOf(s) == keymap[layer][s]
KeySwitch  == {s \in Switch : EventOf(s).type = "KMT_KEY"}

\* The switches that hold a code down, and the slots that report it.
Holders(k) == {s \in KeyHeld \cap KeySwitch : EventOf(s).code = k}
Slots(k)   == {i \in Slot : keyboard_state.keys[i] = k}

\* The modifiers of a set of switches.
Modifiers(S) == UNION {EventOf(s).mod : s \in S \cap KeySwitch}

\* A code the reports show is held by a switch, and no more slots show it
\* than switches hold it: so the last release always finds every slot it has
\* to clear, although keyboard_del_key clears one slot only and
\* keyboard_add_key may fill a second slot with a code that already has one.
SlotsBacked ==
  clean => \A k \in Code :
    /\ Cardinality(Slots(k)) <= Cardinality(Holders(k))
    /\ k \in nkro_state.bits => Holders(k) # {}

\* With every switch up the host has been told of no key in either report
\* and of no modifier in the report of the mode: nothing stays stuck down,
\* whatever codes and modifiers the switches share.
AllUpAllClear ==
  clean /\ stage = "rest" /\ matrix_previous = {} =>
    /\ posted.keyboard.keys = NoKeys
    /\ posted.nkro.bits = {}
    /\ IF nkro_active THEN posted.nkro.mods = {}
                      ELSE posted.keyboard.mods = {}

\* No two switches of the active layer share a code, or a modifier.
DistinctCodes ==
  \A s, t \in KeySwitch :
    s # t => EventOf(s).code # EventOf(t).code \/ EventOf(s).code = 0
DistinctMods ==
  \A s, t \in KeySwitch : s # t => EventOf(s).mod \cap EventOf(t).mod = {}

\* Every key held down is in the last report sent: always for a code of the
\* NKRO bitmap in NKRO mode, however many are down, and for the six slots of
\* the boot report as long as no more than six switches were down together
\* since all were up.
Rollover ==
  clean /\ stage = "rest" /\ DistinctCodes =>
    \A s \in matrix_previous \cap KeySwitch :
      LET k == EventOf(s).code IN
      k # 0 => IF nkro_active /\ InNkro(k)
                 THEN k \in posted.nkro.bits
                 ELSE peak <= KeysNum =>
                        \E i \in Slot : posted.keyboard.keys[i] = k

\* The report of the mode tells the host exactly the modifiers held down when
\* no two switches share a modifier bit, and never one that nobody holds.
ModifiersExact ==
  clean /\ stage = "rest" =>
    LET mods == IF nkro_active THEN posted.nkro.mods ELSE posted.keyboard.mods
    IN  /\ mods \subseteq Modifiers(matrix_previous)
        /\ DistinctMods => mods = Modifiers(matrix_previous)

-----------------------------------------------------------------------------
(* The inductive invariant behind SlotsBacked and AllUpAllClear.  SentInv   *)
(* holds in every run, CleanInv says more of the clean ones.                *)

\* The event in progress was read for a switch that is not as matrix_previous
\* has it.
SwitchRead == stage # "rest" => cur.pressed = (cur.switch \notin matrix_previous)

\* A report that is not dirty shows the keys the host was last sent.
KeysSent ==
  /\ stage = "rest" => ~keyboard_dirty /\ ~nkro_dirty
  /\ ~keyboard_dirty => posted.keyboard.keys = keyboard_state.keys
  /\ ~nkro_dirty => posted.nkro.bits = nkro_state.bits

SentInv == TypeOK /\ SwitchRead /\ KeysSent

\* The same of the modifiers in the report of the mode.
ModsSent ==
  /\ nkro_active /\ ~nkro_dirty => posted.nkro.mods = nkro_state.mods
  /\ ~nkro_active /\ ~keyboard_dirty =>
       posted.keyboard.mods = keyboard_state.mods

\* The keymap still says of the switch what keyboard_event read.
EventRead == stage # "rest" =>
  /\ cur.switch \in KeySwitch
  /\ EventOf(cur.switch).mod = cur.mod
  /\ EventOf(cur.switch).code = cur.code

\* Each code is in the report keyboard_del_key will search for it.
InItsReport ==
  /\ \A i \in Slot : LET k == keyboard_state.keys[i] IN
       k # 0 => ~(nkro_active /\ InNkro(k))
  /\ \A k \in nkro_state.bits : k # 0 /\ nkro_active /\ InNkro(k)

\* A modifier in a report is held by a switch.
ModsBacked ==
  /\ keyboard_state.mods \subseteq Modifiers(ModHeld)
  /\ nkro_state.mods \subseteq Modifiers(ModHeld)

KeysBacked ==
  \A k \in Code : /\ Cardinality(Slots(k)) <= Cardinality(Holders(k))
                  /\ k \in nkro_state.bits => Holders(k) # {}

CleanInv ==
  clean => ModsSent /\ EventRead /\ InItsReport /\ ModsBacked /\ KeysBacked

KeyboardInv == SentInv /\ CleanInv

-----------------------------------------------------------------------------
(* What ModifiersExact and Rollover need besides: nothing that is held is   *)
(* missing.                                                                 *)

\* Both reports have the modifiers held, whichever mode they are held in.
ModsComplete ==
  clean /\ DistinctMods =>
    /\ Modifiers(ModHeld) \subseteq keyboard_state.mods
    /\ Modifiers(ModHeld) \subseteq nkro_state.mods

\* So few switches have been down that the slots suffice, the one whose press
\* is half processed included.
Few == peak <= KeysNum /\ Cardinality(KeyHeld) <= KeysNum

\* A code that is held has its bit, or its slot.
KeysComplete ==
  clean /\ DistinctCodes =>
    \A k \in Code : Holders(k) # {} =>
      IF nkro_active /\ InNkro(k) THEN k \in nkro_state.bits
                                  ELSE Few => Slots(k) # {}

\* peak is no less than what is down now.
PeakCovers ==
  /\ Cardinality(matrix_previous) <= peak
  /\ matrix_previous = {} => peak = 0

CompleteInv == ModsComplete /\ KeysComplete /\ PeakCovers
=============================================================================
