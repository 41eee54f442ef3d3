------------------------------ MODULE MouseProofs ------------------------------
(***************************************************************************)
(* Proofs about Mouse, for any keys, buttons, codes and budgets: the       *)
(* pointer does not drift, extra keys and LEDs let go.  Mouse changes the  *)
(* variables of Usb by its actions only, so what holds of Usb holds here.  *)
(***************************************************************************)
EXTENDS Mouse, UsbProofs

LEMMA Endpoints ==
  /\ EP_MOUSE \in Endpoint /\ EP_EXTRAKEY \in Endpoint /\ EP_MOUSE # EP_EXTRAKEY
  /\ \A e \in Endpoint : e = EP_MOUSE \/ e = EP_EXTRAKEY
BY MouseAssumption

\* What the handlers find in an event.
LEMMA EventFields ==
  ASSUME NEW s \in Switch
  PROVE  /\ Event[s].type = "KMT_MOUSE" =>
              Event[s].button \subseteq Button /\ Event[s].x \in Int8
         /\ Event[s].type = "KMT_WHEEL" =>
              /\ Event[s].button \subseteq Button
              /\ Event[s].h \in Int8 /\ Event[s].v \in Int8
         /\ Event[s].type = "KMT_AUTOMOUSE" =>
              Event[s].button \subseteq Button /\ Event[s].wiggle \in Int8
         /\ Event[s].type \in {"KMT_CONSUMER", "KMT_SYSTEM"} =>
              Event[s].code \in Code
<1>1. Event[s] \in EventRecord
  BY MouseAssumption
<1> QED
  BY <1>1 DEF EventRecord

LEMMA NegateType ==
  ASSUME NEW x \in Int8
  PROVE  Negate(x) \in Int8 /\ (x # -128 => Negate(x) = -x)
BY DEF Negate, Int8

\* A step of Mouse is a step of Usb, or leaves Usb alone.
LEMMA UsbStep == [MouseNext]_mouseVars => [Next]_vars
<1> SUFFICES ASSUME [MouseNext]_mouseVars PROVE [Next]_vars
  OBVIOUS
<1>1. CASE UNCHANGED mouseVars
  BY <1>1 DEF mouseVars
<1>2. CASE Input
  <2>1. ASSUME NEW s \in Switch, keymap_event(s)
        PROVE  \/ UNCHANGED vars
               \/ SendFromMatrix(EP_MOUSE) \/ SendFromMatrix(EP_EXTRAKEY)
    BY <2>1 DEF keymap_event, mouse_event, automouse_event, extrakey_event
  <2>2. macro_event => UNCHANGED vars
    BY DEF macro_event
  <2>3. ASSUME NEW on \in HostLeds, keyboard_set_leds(on)
        PROVE  UNCHANGED vars
    BY <2>3 DEF keyboard_set_leds
  <2> QED
    BY <1>2, <2>1, <2>2, <2>3, Endpoints DEF Input, Next, Send
<1>3. CASE Internal
  <2>1. automouse_repeat => SendIfIdle(EP_MOUSE)
    BY DEF automouse_repeat
  <2>2. TimerPasses \/ macro_run => UNCHANGED vars
    BY DEF TimerPasses, macro_run
  <2>3. MouseWrite \/ MouseSpin => Continue
    BY DEF MouseWrite, MouseSpin, Continue
  <2>4. MouseReset => BusReset \/ usb_set_config
    BY DEF MouseReset
  <2>5. ASSUME NEW e \in Endpoint, MouseHostPoll(e) \/ MouseIdle(e)
        PROVE  Device(e)
    BY <2>5 DEF MouseHostPoll, MouseIdle, Device
  <2> QED
    BY <1>3, <2>1, <2>2, <2>3, <2>4, <2>5, Endpoints DEF Internal, Next, Send
<1> QED
  BY <1>1, <1>2, <1>3 DEF MouseNext

-----------------------------------------------------------------------------
(* Types.                                                                   *)

LEMMA KeyType ==
  ASSUME NEW s \in Switch, MouseTypeOK, keymap_event(s)
  PROVE  /\ matrix_previous' \subseteq Switch
         /\ mouse_state' \in MouseReport
         /\ automouse_state' \in [buttons : SUBSET Button, x : Int8]
         /\ automouse_active' \in {0, 1} /\ automouse_press' \in {0, 1}
         /\ passed' \in BOOLEAN /\ clicked' \in BOOLEAN
         /\ turns' \in [Axis -> Nat \cup {-1}]
         /\ state' \in ExtraReport
         /\ leds' \subseteq LED /\ lit' \subseteq LED
         /\ macro_active' \in BOOLEAN
<1> USE DEF MouseTypeOK
<1>1. matrix_previous' \subseteq Switch
  BY DEF keymap_event, Noted
<1>2. CASE mouse_event(s)
  <2>1. mouse_state' \in MouseReport
    <3>1. 0 \in Int8
      BY DEF Int8
    <3>2. \/ UNCHANGED mouse_state
          \/ /\ Event[s].type = "KMT_MOUSE"
             /\ mouse_state' = [buttons |-> Event[s].button,
                                x |-> Event[s].x, h |-> 0, v |-> 0]
          \/ /\ Event[s].type = "KMT_WHEEL"
             /\ mouse_state' = [buttons |-> Event[s].button,
                                x |-> 0, h |-> Event[s].h, v |-> Event[s].v]
      BY <1>2 DEF mouse_event
    <3> QED
      BY <3>1, <3>2, EventFields DEF MouseReport
  <2>2. clicked' \in BOOLEAN
    BY <1>2 DEF mouse_event
  <2>3. UNCHANGED <<automouse, state, lamps>>
    BY <1>2 DEF mouse_event
  <2>4. turns' \in [Axis -> Nat \cup {-1}]
    BY <1>2 DEF mouse_event
  <2> QED
    BY <1>1, <2>1, <2>2, <2>3, <2>4 DEF automouse, lamps
<1>3. CASE automouse_event(s)
  <2>1. /\ automouse_state' \in [buttons : SUBSET Button, x : Int8]
        /\ passed' \in BOOLEAN
    BY <1>3, EventFields DEF automouse_event
  <2>2. automouse_active' \in {0, 1}
    BY <1>3 DEF automouse_event, Toggled
  <2>3. leds' \subseteq LED /\ lit' \subseteq LED
    BY <1>3 DEF automouse_event, led_clear
  <2>4. /\ UNCHANGED <<mouse_state, automouse_press, state, clicked>>
        /\ UNCHANGED <<turns, macro_active>>
    BY <1>3 DEF automouse_event
  <2> QED
    BY <1>1, <2>1, <2>2, <2>3, <2>4
<1>4. CASE extrakey_event(s)
  <2>1. state' \in ExtraReport
    BY <1>4, EventFields DEF extrakey_event, ExtraReport
  <2>2. UNCHANGED <<mouse_state, automouse, clicked, turns, lamps>>
    BY <1>4 DEF extrakey_event
  <2> QED
    BY <1>1, <2>1, <2>2 DEF automouse, lamps
<1> QED
  BY <1>2, <1>3, <1>4 DEF keymap_event

LEMMA InputType == MouseTypeOK /\ TypeOK' /\ Input => MouseTypeOK'
<1> SUFFICES ASSUME MouseTypeOK, TypeOK', Input PROVE MouseTypeOK'
  OBVIOUS
<1>1. inputs' \in [Kind -> Nat] /\ Within(inputs)'
  <2>1. PICK k \in Kind : Count(k)
    <3>1. \A e : KindOf(e) \in Kind
      BY DEF KindOf, Kind
    <3> QED
      BY <3>1 DEF Input, Kind
  <2>2. inputs' = [inputs EXCEPT ![k] = @ + 1] /\ Within(inputs)'
    BY <2>1 DEF Count
  <2>3. inputs \in [Kind -> Nat]
    BY DEF MouseTypeOK
  <2>4. inputs' \in [Kind -> Nat]
    BY <2>2, <2>3
  <2> QED
    BY <2>2, <2>4
<1>2. ASSUME NEW s \in Switch, keymap_event(s) PROVE MouseTypeOK'
  <2>1. UNCHANGED outputs
    BY <1>2 DEF keymap_event
  <2> QED
    BY <1>1, <1>2, <2>1, KeyType DEF outputs, MouseTypeOK
<1>3. CASE macro_event
  BY <1>1, <1>3 DEF macro_event, reports, automouse, outputs, MouseTypeOK
<1>4. ASSUME NEW on \in HostLeds, keyboard_set_leds(on) PROVE MouseTypeOK'
  <2>1. on \subseteq LED
    BY MouseAssumption
  <2> QED
    BY <1>1, <1>4, <2>1
    DEF keyboard_set_leds, reports, automouse, outputs, MouseTypeOK
<1> QED
  BY <1>2, <1>3, <1>4 DEF Input

LEMMA RepeatType ==
  MouseTypeOK /\ TypeOK' /\ automouse_repeat /\ UNCHANGED inputs => MouseTypeOK'
<1> SUFFICES ASSUME MouseTypeOK, TypeOK', automouse_repeat, UNCHANGED inputs
             PROVE  MouseTypeOK'
  OBVIOUS
<1>1. mouse_state' \in MouseReport
  <2>1. /\ automouse_state.buttons \subseteq Button
        /\ automouse_state.x \in Int8 /\ 0 \in Int8
        /\ mouse_state \in MouseReport
    BY DEF MouseTypeOK, Int8
  <2>2. \E b \in SUBSET Button, x \in Int8 :
          mouse_state' = Unturned([mouse_state EXCEPT !.buttons = b, !.x = x])
    BY <2>1, NegateType DEF automouse_repeat
  <2> QED
    BY <2>1, <2>2 DEF Unturned, MouseReport
<1>2. leds' \subseteq LED /\ lit' \subseteq LED
  BY DEF automouse_repeat, led_state, LED, AUTOMOUSE_LED_ACTIVE,
         AUTOMOUSE_LED_PRESS
<1>3. automouse_press' \in {0, 1}
  BY DEF automouse_repeat, Toggled, MouseTypeOK
<1>4. passed' \in BOOLEAN /\ clicked' \in BOOLEAN
  BY DEF automouse_repeat
<1>5. /\ UNCHANGED <<matrix_previous, automouse_state, automouse_active, state>>
      /\ UNCHANGED <<turns, macro_active, outputs, inputs>>
  BY DEF automouse_repeat
<1> QED
  BY <1>1, <1>2, <1>3, <1>4, <1>5 DEF MouseTypeOK, outputs

LEMMA InternalType ==
  MouseTypeOK /\ TypeOK' /\ Internal /\ UNCHANGED inputs => MouseTypeOK'
<1> SUFFICES ASSUME MouseTypeOK, TypeOK', Internal, UNCHANGED inputs
             PROVE  MouseTypeOK'
  OBVIOUS
<1>1. NoMouse \in MouseReport /\ NoExtra \in ExtraReport
  BY DEF NoMouse, NoExtra, MouseReport, ExtraReport, Int8
<1>2. CASE TimerPasses
  BY <1>2 DEF TimerPasses, lamps, outputs, MouseTypeOK
<1>3. CASE macro_run
  BY <1>3 DEF macro_run, led_state, MACRO_LED_ACTIVE, LED, reports, automouse,
              outputs, MouseTypeOK
<1>4. CASE MouseWrite
  <2>1. packet' \in [mouse : MouseReport, clicked : BOOLEAN,
                     extra : ExtraReport]
    BY <1>4 DEF MouseWrite, MouseTypeOK
  <2>2. lost' \subseteq Endpoint
    BY <1>4 DEF MouseWrite, MouseTypeOK, TypeOK
  <2> QED
    BY <1>4, <2>1, <2>2 DEF MouseWrite, reports, automouse, lamps, MouseTypeOK
<1>5. CASE MouseSpin
  BY <1>5 DEF MouseSpin, reports, automouse, lamps, outputs, MouseTypeOK
<1>6. CASE MouseReset
  <2>1. /\ packet' \in [mouse : MouseReport, clicked : BOOLEAN,
                        extra : ExtraReport]
        /\ lost' \subseteq Endpoint
    BY <1>1, <1>6 DEF MouseReset, MouseTypeOK, TypeOK
  <2>2. seen' \in [buttons : SUBSET Button,
                   CONSUMER : Code \cup {0}, SYSTEM : Code \cup {0}]
    BY <1>6 DEF MouseReset, Unseen
  <2> QED
    BY <1>6, <2>1, <2>2 DEF MouseReset, reports, automouse, lamps, MouseTypeOK
<1>7. ASSUME NEW e \in Endpoint, MouseHostPoll(e) PROVE MouseTypeOK'
  <2>1. packet' \in [mouse : MouseReport, clicked : BOOLEAN,
                     extra : ExtraReport]
    BY <1>1, <1>7 DEF MouseHostPoll, MouseTypeOK
  <2>2. seen' \in [buttons : SUBSET Button,
                   CONSUMER : Code \cup {0}, SYSTEM : Code \cup {0}]
    BY <1>7 DEF MouseHostPoll, MouseTypeOK, MouseReport, ExtraReport
  <2>3. turns' \in [Axis -> Nat \cup {-1}]
    BY <1>7 DEF MouseHostPoll, Turned, MouseTypeOK
  <2> QED
    BY <1>7, <2>1, <2>2, <2>3 DEF MouseHostPoll, automouse, lamps, MouseTypeOK
<1>8. ASSUME NEW e \in Endpoint, MouseIdle(e) PROVE MouseTypeOK'
  BY <1>8 DEF MouseIdle, reports, automouse, lamps, outputs, MouseTypeOK
<1> QED
  BY RepeatType, <1>2, <1>3, <1>4, <1>5, <1>6, <1>7, <1>8 DEF Internal

-----------------------------------------------------------------------------
(* LEDs.                                                                    *)

LedInv == LedsAccounted /\ LedsOff

LEMMA LedStep ==
  MouseTypeOK /\ LedInv /\ [MouseNext]_mouseVars => LedInv'
<1> SUFFICES ASSUME MouseTypeOK, LedInv, [MouseNext]_mouseVars PROVE LedInv'
  OBVIOUS
<1> USE DEF LedInv, LedsAccounted, LedsOff, AUTOMOUSE_LED_ACTIVE,
            AUTOMOUSE_LED_PRESS
<1>1. CASE UNCHANGED <<leds, lit, macro_active, automouse_active>>
  BY <1>1
<1>2. ASSUME NEW s \in Switch, keymap_event(s) PROVE LedInv'
  <2>1. CASE mouse_event(s) \/ extrakey_event(s)
    <3>1. UNCHANGED <<automouse, lamps>>
      BY <2>1 DEF mouse_event, extrakey_event
    <3> QED
      BY <1>1, <3>1 DEF automouse, lamps
  <2>2. CASE automouse_event(s)
    BY <2>2 DEF automouse_event, led_clear
  <2> QED
    BY <1>2, <2>1, <2>2 DEF keymap_event
<1>3. CASE macro_event
  BY <1>3 DEF macro_event, reports, automouse
<1>4. ASSUME NEW on \in HostLeds, keyboard_set_leds(on) PROVE LedInv'
  BY <1>4 DEF keyboard_set_leds
<1>5. CASE automouse_repeat
  BY <1>5 DEF automouse_repeat, led_state
<1>6. CASE macro_run
  BY <1>6 DEF macro_run, led_state, MACRO_LED_ACTIVE
<1>7. CASE TimerPasses
  BY <1>1, <1>7 DEF TimerPasses, lamps
<1>8. CASE MouseWrite \/ MouseSpin \/ MouseReset
  BY <1>1, <1>8 DEF MouseWrite, MouseSpin, MouseReset, lamps, reports, automouse
<1>9. ASSUME NEW e \in Endpoint, MouseHostPoll(e) \/ MouseIdle(e) PROVE LedInv'
  BY <1>1, <1>9 DEF MouseHostPoll, MouseIdle, lamps, reports, automouse
<1>10. CASE UNCHANGED mouseVars
  BY <1>1, <1>10 DEF mouseVars, lamps, reports, automouse
<1> QED
  BY <1>2, <1>3, <1>4, <1>5, <1>6, <1>7, <1>8, <1>9, <1>10
  DEF MouseNext, Input, Internal

-----------------------------------------------------------------------------
(* Consumer and system keys.                                                *)

\* A step that sends no extra key report and changes no switch of theirs.
LEMMA CodesKept ==
  ASSUME CodesBacked, EP_EXTRAKEY \in lost' \/ EP_EXTRAKEY \notin lost,
         HeldKeys("KMT_CONSUMER") \subseteq HeldKeys("KMT_CONSUMER")',
         HeldKeys("KMT_SYSTEM") \subseteq HeldKeys("KMT_SYSTEM")',
         EP_EXTRAKEY \notin lost' =>
           \A id \in {"CONSUMER", "SYSTEM"} :
             LastCode(id)' \in {0, LastCode(id)}
  PROVE  CodesBacked'
BY DEF CodesBacked

LEMMA SameSwitches ==
  UNCHANGED matrix_previous =>
    /\ HeldKeys("KMT_CONSUMER") = HeldKeys("KMT_CONSUMER")'
    /\ HeldKeys("KMT_SYSTEM") = HeldKeys("KMT_SYSTEM")'
BY DEF HeldKeys

LEMMA CodesKey ==
  ASSUME NEW s \in Switch, TypeOK, MouseTypeOK, CodesBacked, keymap_event(s)
  PROVE  CodesBacked'
<1>1. /\ UNCHANGED <<packet, seen, lost>>
      /\ Noted(s)
  BY DEF keymap_event, outputs
<1>2. CASE Event[s].type \notin {"KMT_CONSUMER", "KMT_SYSTEM"}
  <2>1. /\ UNCHANGED state
        /\ UNCHANGED vars \/ SendFromMatrix(EP_MOUSE)
    BY <1>2 DEF keymap_event, mouse_event, automouse_event, extrakey_event
  <2>2. UNCHANGED full /\ (Writing(EP_EXTRAKEY)' => Writing(EP_EXTRAKEY))
    BY <2>1, Endpoints DEF vars, main, SendFromMatrix, Update, Writing
  <2>3. ~Writing(EP_EXTRAKEY)
    BY <1>2 DEF keymap_event, mouse_event, automouse_event, extrakey_event,
                SendFromMatrix, Update, Writing
  <2>4. \A id \in {"CONSUMER", "SYSTEM"} : LastCode(id)' = LastCode(id)
    BY <1>1, <2>1, <2>2, <2>3 DEF LastCode
  <2>5. /\ HeldKeys("KMT_CONSUMER") \subseteq HeldKeys("KMT_CONSUMER")'
        /\ HeldKeys("KMT_SYSTEM") \subseteq HeldKeys("KMT_SYSTEM")'
    BY <1>1, <1>2 DEF Noted, HeldKeys
  <2> QED
    BY <1>1, <2>4, <2>5, CodesKept
<1>3. CASE Event[s].type \in {"KMT_CONSUMER", "KMT_SYSTEM"}
  <2>1. /\ state' = [id |-> IF Event[s].type = "KMT_CONSUMER" THEN "CONSUMER"
                                                              ELSE "SYSTEM",
                     code |-> IF Pressed(s) THEN Event[s].code ELSE 0]
        /\ SendFromMatrix(EP_EXTRAKEY)
    BY <1>3 DEF keymap_event, mouse_event, automouse_event, extrakey_event
  <2>2. UNCHANGED full /\ Writing(EP_EXTRAKEY)' /\ ~Writing(EP_EXTRAKEY)
    BY <2>1 DEF SendFromMatrix, Update, Writing
  <2>3. ASSUME NEW id \in {"CONSUMER", "SYSTEM"}, id # state'.id
        PROVE  LastCode(id)' = LastCode(id)
    BY <1>1, <2>2, <2>3 DEF LastCode
  <2>4. ASSUME NEW id \in {"CONSUMER", "SYSTEM"}, id = state'.id
        PROVE  LastCode(id)' = state'.code
    BY <2>2, <2>4 DEF LastCode
  <2>5. Pressed(s) => s \in matrix_previous'
    BY <1>1 DEF Noted, Pressed
  <2>6. CASE Event[s].type = "KMT_CONSUMER"
    <3>1. state'.id = "CONSUMER" /\ (state'.code # 0 => Pressed(s))
      BY <2>1, <2>6
    <3>2. LastCode("CONSUMER")' # 0 => HeldKeys("KMT_CONSUMER")' # {}
      BY <2>4, <2>5, <2>6, <3>1 DEF HeldKeys
    <3>3. HeldKeys("KMT_SYSTEM") \subseteq HeldKeys("KMT_SYSTEM")'
      BY <1>1, <2>6 DEF Noted, HeldKeys
    <3>4. LastCode("SYSTEM")' = LastCode("SYSTEM")
      BY <2>3, <3>1
    <3> QED
      BY <1>1, <3>2, <3>3, <3>4 DEF CodesBacked
  <2>7. CASE Event[s].type = "KMT_SYSTEM"
    <3>1. state'.id = "SYSTEM" /\ (state'.code # 0 => Pressed(s))
      BY <2>1, <2>7
    <3>2. LastCode("SYSTEM")' # 0 => HeldKeys("KMT_SYSTEM")' # {}
      BY <2>4, <2>5, <2>7, <3>1 DEF HeldKeys
    <3>3. HeldKeys("KMT_CONSUMER") \subseteq HeldKeys("KMT_CONSUMER")'
      BY <1>1, <2>7 DEF Noted, HeldKeys
    <3>4. LastCode("CONSUMER")' = LastCode("CONSUMER")
      BY <2>3, <3>1
    <3> QED
      BY <1>1, <3>2, <3>3, <3>4 DEF CodesBacked
  <2> QED
    BY <1>3, <2>6, <2>7
<1> QED
  BY <1>2, <1>3

LEMMA CodesWrite ==
  ASSUME TypeOK, MouseTypeOK, CodesBacked, MouseWrite
  PROVE  CodesBacked'
<1>1. UNCHANGED <<matrix_previous, state, seen>>
  BY DEF MouseWrite, reports
<1>2. CASE ep \in full
  <2>1. /\ pc = "write" /\ pc' = "spin"
        /\ UNCHANGED <<ep, full, packet>>
        /\ lost' = lost \cup {ep}
    BY <1>2 DEF MouseWrite, Write
  <2>2. ASSUME NEW id \in {"CONSUMER", "SYSTEM"}, EP_EXTRAKEY \notin lost'
        PROVE  LastCode(id)' = LastCode(id)
    BY <1>1, <2>1, <2>2 DEF LastCode, Writing
  <2> QED
    BY <1>1, <2>1, <2>2, SameSwitches, CodesKept
<1>3. CASE ep \notin full
  <2>1. /\ pc = "write" /\ pc' = "rest"
        /\ full' = full \cup {ep} /\ UNCHANGED <<ep, lost>>
        /\ packet' = IF ep = EP_MOUSE
             THEN [packet EXCEPT !.mouse = mouse_state, !.clicked = clicked]
             ELSE [packet EXCEPT !.extra = state]
    BY <1>3 DEF MouseWrite, Write
  <2>2. /\ ep \in Endpoint
        /\ packet \in [mouse : MouseReport, clicked : BOOLEAN,
                       extra : ExtraReport]
    BY DEF TypeOK, MouseTypeOK
  <2>3. CASE ep = EP_MOUSE
    <3>1. packet'.extra = packet.extra
      BY <2>1, <2>2, <2>3
    <3>2. EP_EXTRAKEY \in full' <=> EP_EXTRAKEY \in full
      BY <2>1, <2>3, Endpoints
    <3>3. ~Writing(EP_EXTRAKEY) /\ ~Writing(EP_EXTRAKEY)'
      BY <2>1, <2>3, Endpoints DEF Writing
    <3>4. ASSUME NEW id \in {"CONSUMER", "SYSTEM"}
          PROVE  LastCode(id)' = LastCode(id)
      BY <1>1, <3>1, <3>2, <3>3 DEF LastCode
    <3> QED
      BY <1>1, <2>1, <3>4, SameSwitches, CodesKept
  <2>4. CASE ep = EP_EXTRAKEY
    <3>1. packet'.extra = state
      BY <2>1, <2>2, <2>4, Endpoints
    <3>2. EP_EXTRAKEY \in full' /\ EP_EXTRAKEY \notin full
      BY <1>3, <2>1, <2>4
    <3>3. Writing(EP_EXTRAKEY) /\ ~Writing(EP_EXTRAKEY)'
      BY <2>1, <2>4 DEF Writing
    <3>4. ASSUME NEW id \in {"CONSUMER", "SYSTEM"}
          PROVE  LastCode(id)' = LastCode(id)
      BY <1>1, <3>1, <3>2, <3>3 DEF LastCode
    <3> QED
      BY <1>1, <2>1, <3>4, SameSwitches, CodesKept
  <2> QED
    BY <2>2, <2>3, <2>4, Endpoints
<1> QED
  BY <1>2, <1>3

LEMMA CodesPoll ==
  ASSUME NEW e \in Endpoint, TypeOK, MouseTypeOK, CodesBacked, MouseHostPoll(e)
  PROVE  CodesBacked'
<1>1. /\ UNCHANGED <<matrix_previous, state, lost, pc, ep>>
      /\ e \in full /\ full' = full \ {e}
  BY DEF MouseHostPoll, HostPoll, reports, main
<1>2. /\ packet \in [mouse : MouseReport, clicked : BOOLEAN,
                     extra : ExtraReport]
      /\ packet.extra.id \in {"CONSUMER", "SYSTEM"}
      /\ seen \in [buttons : SUBSET Button,
                   CONSUMER : Code \cup {0}, SYSTEM : Code \cup {0}]
  BY DEF MouseTypeOK, ExtraReport
<1>3. ASSUME NEW id \in {"CONSUMER", "SYSTEM"}
      PROVE  LastCode(id)' = LastCode(id)
  <2>1. CASE e = EP_MOUSE
    <3>1. /\ seen' = [seen EXCEPT !.buttons = packet.mouse.buttons]
          /\ packet' = [packet EXCEPT !.mouse = NoMouse, !.clicked = FALSE]
      BY <2>1, Endpoints DEF MouseHostPoll
    <3>2. seen'[id] = seen[id] /\ packet'.extra = packet.extra
      BY <1>2, <3>1
    <3>3. EP_EXTRAKEY \in full' <=> EP_EXTRAKEY \in full
      BY <1>1, <2>1, Endpoints
    <3> QED
      BY <1>1, <3>2, <3>3 DEF LastCode, Writing
  <2>2. CASE e = EP_EXTRAKEY
    <3>1. seen' = [seen EXCEPT ![packet.extra.id] = packet.extra.code]
      BY <2>2, Endpoints DEF MouseHostPoll
    <3>2. seen'[id] = IF packet.extra.id = id THEN packet.extra.code ELSE seen[id]
      BY <1>2, <3>1
    <3>3. EP_EXTRAKEY \in full /\ EP_EXTRAKEY \notin full'
      BY <1>1, <2>2
    <3> QED
      BY <1>1, <3>2, <3>3 DEF LastCode, Writing
  <2> QED
    BY <2>1, <2>2, Endpoints
<1> QED
  BY <1>1, <1>3, SameSwitches, CodesKept

LEMMA CodesReset ==
  ASSUME TypeOK, MouseTypeOK, CodesBacked, MouseReset
  PROVE  CodesBacked'
<1>1. /\ UNCHANGED <<matrix_previous, state, pc, ep>>
      /\ full' = {} /\ lost' = lost \cup full /\ seen' = Unseen
  BY DEF MouseReset, BusReset, usb_set_config, Discard, reports, main
<1>2. ASSUME NEW id \in {"CONSUMER", "SYSTEM"}, EP_EXTRAKEY \notin lost'
      PROVE  LastCode(id)' \in {0, LastCode(id)}
  <2>1. EP_EXTRAKEY \notin full /\ EP_EXTRAKEY \notin full'
    BY <1>1, <1>2
  <2>2. seen'[id] = 0
    BY <1>1 DEF Unseen
  <2> QED
    BY <1>1, <2>1, <2>2 DEF LastCode, Writing
<1> QED
  BY <1>1, <1>2, SameSwitches, CodesKept

LEMMA CodesStep ==
  TypeOK /\ MouseTypeOK /\ CodesBacked /\ [MouseNext]_mouseVars => CodesBacked'
<1> SUFFICES ASSUME TypeOK, MouseTypeOK, CodesBacked, [MouseNext]_mouseVars
             PROVE  CodesBacked'
  OBVIOUS
<1>1. ASSUME UNCHANGED <<matrix_previous, state, packet, seen, lost, full>>,
             Writing(EP_EXTRAKEY)' <=> Writing(EP_EXTRAKEY)
      PROVE  CodesBacked'
  <2>1. ASSUME NEW id \in {"CONSUMER", "SYSTEM"}
        PROVE  LastCode(id)' = LastCode(id)
    BY <1>1 DEF LastCode
  <2> QED
    BY <1>1, <2>1, SameSwitches, CodesKept
<1>2. CASE macro_event \/ macro_run \/ TimerPasses
  BY <1>1, <1>2
  DEF macro_event, macro_run, TimerPasses, reports, outputs, vars, main, Writing
<1>3. ASSUME NEW on \in HostLeds, keyboard_set_leds(on) PROVE CodesBacked'
  BY <1>1, <1>3 DEF keyboard_set_leds, reports, outputs, vars, main, Writing
<1>4. CASE automouse_repeat
  <2>1. ~Writing(EP_EXTRAKEY) /\ ~Writing(EP_EXTRAKEY)' /\ UNCHANGED full
    BY <1>4, Endpoints DEF automouse_repeat, SendIfIdle, Update, Writing
  <2> QED
    BY <1>1, <1>4, <2>1 DEF automouse_repeat, outputs
<1>5. CASE MouseSpin
  <2>1. ~Writing(EP_EXTRAKEY) /\ ~Writing(EP_EXTRAKEY)' /\ UNCHANGED full
    BY <1>5 DEF MouseSpin, Spin, Writing
  <2> QED
    BY <1>1, <1>5, <2>1 DEF MouseSpin, reports, outputs
<1>6. ASSUME NEW e \in Endpoint, MouseIdle(e) PROVE CodesBacked'
  BY <1>1, <1>6
  DEF MouseIdle, usb_endpoint_idle, reports, outputs, main, Writing
<1>7. CASE UNCHANGED mouseVars
  BY <1>1, <1>7 DEF mouseVars, reports, outputs, vars, main, Writing
<1> QED
  BY <1>2, <1>3, <1>4, <1>5, <1>6, <1>7, CodesKey, CodesWrite, CodesPoll,
     CodesReset
  DEF MouseNext, Input, Internal

-----------------------------------------------------------------------------
(* The automouse.                                                           *)

LEMMA WiggleType ==
  ASSUME MouseTypeOK
  PROVE  /\ Held \in Int /\ Given \in Int
         /\ mouse_state.x \in Int /\ packet.mouse.x \in Int
         /\ automouse_state.x \in Int8
         /\ automouse_press \in {0, 1}
<1>1. /\ mouse_state.x \in Int8 /\ packet.mouse.x \in Int8
      /\ automouse_state.x \in Int8 /\ automouse_press \in {0, 1}
  BY DEF MouseTypeOK, MouseReport
<1>2. Int8 \subseteq Int
  BY DEF Int8
<1>3. Held \in {0, packet.mouse.x}
  BY DEF Held
<1>4. Given \in {0, mouse_state.x}
  BY DEF Given
<1>5. /\ mouse_state.x \in Int /\ packet.mouse.x \in Int
      /\ automouse_state.x \in Int8 /\ automouse_press \in {0, 1}
  BY <1>1, <1>2
<1>6. Held \in Int /\ Given \in Int
  BY <1>3, <1>4, <1>5
<1> QED
  BY <1>5, <1>6

\* A step that moves nothing.
LEMMA InStepKept ==
  ASSUME NEW w, InStep(w),
         UNCHANGED <<drift, automouse_press>>,
         Held' = Held, Given' = Given,
         automouse_active' = 1 => automouse_active = 1,
         UNCHANGED automouse_state
  PROVE  InStep(w)'
BY DEF InStep

LEMMA SameHeld ==
  UNCHANGED packet /\ (EP_MOUSE \in full' <=> EP_MOUSE \in full) => Held' = Held
BY DEF Held

LEMMA NothingGiven ==
  /\ pc # "write" \/ ep # EP_MOUSE \/ ~clicked
  => Given = 0
BY DEF Given, Writing

LEMMA InStepKey ==
  ASSUME NEW s \in Switch, NEW t \in Switch, MouseTypeOK,
         OnlyWiggle(t), InStep(Event[t].wiggle), keymap_event(s)
  PROVE  InStep(Event[t].wiggle)'
<1>1. UNCHANGED <<packet, lost, drift>>
  BY DEF keymap_event, outputs
<1>2. Given = 0 /\ pc = "rest"
  BY NothingGiven
  DEF keymap_event, mouse_event, automouse_event, extrakey_event,
      SendFromMatrix, Update
<1>3. UNCHANGED full
  BY DEF keymap_event, mouse_event, automouse_event, extrakey_event,
         SendFromMatrix, Update, vars
<1>4. Held' = Held
  BY <1>1, <1>3, SameHeld
<1>5. CASE mouse_event(s) \/ extrakey_event(s)
  <2>1. pc' # "write" \/ ep' # EP_MOUSE \/ ~clicked'
    BY <1>2, <1>5, Endpoints
    DEF mouse_event, extrakey_event, SendFromMatrix, Update, vars, main
  <2>2. Given' = 0
    BY <2>1, NothingGiven DEF Given, Writing
  <2>3. UNCHANGED automouse
    BY <1>5 DEF mouse_event, extrakey_event
  <2> QED
    BY <1>1, <1>2, <1>4, <2>2, <2>3, InStepKept DEF automouse
<1>6. CASE automouse_event(s)
  <2>1. Event[s] = Event[t]
    BY <1>6 DEF automouse_event, OnlyWiggle
  <2>2. automouse_state' = [buttons |-> Event[t].button, x |-> Event[t].wiggle]
    BY <1>6, <2>1 DEF automouse_event
  <2>3. automouse_state'.x = Event[t].wiggle
    BY <2>2
  <2>4. Given' = Given /\ UNCHANGED automouse_press
    BY <1>6 DEF automouse_event, vars, main, Given, Writing
  <2> QED
    BY <1>1, <1>4, <2>3, <2>4 DEF InStep
<1> QED
  BY <1>5, <1>6 DEF keymap_event

LEMMA InStepRepeat ==
  ASSUME NEW w \in Int8, w # -128, MouseTypeOK, drift \in Int, InStep(w),
         automouse_repeat
  PROVE  InStep(w)'
<1>1. /\ UNCHANGED <<packet, drift, automouse_state, automouse_active, full>>
      /\ pc = "rest" /\ pc' = "write" /\ ep' = EP_MOUSE /\ clicked'
  BY DEF automouse_repeat, SendIfIdle, Update, outputs
<1>2. Held' = Held
  BY <1>1, SameHeld
<1>3. Given = 0 /\ Given' = mouse_state'.x
  BY <1>1 DEF Given, Writing
<1>4. automouse_state.x = w
  BY DEF InStep, automouse_repeat
<1>5. automouse_press' = 1 - automouse_press
  BY DEF automouse_repeat, Toggled
<1>6. mouse_state'.x = IF automouse_press' = 1 THEN w ELSE -w
  <2>1. automouse_press' \in {0, 1}
    BY <1>5, WiggleType
  <2>2. automouse_press' = 1 => mouse_state'.x = w
    <3>1. automouse_press' = 1 =>
            mouse_state' = Unturned([mouse_state EXCEPT
              !.buttons = automouse_state.buttons, !.x = automouse_state.x])
      BY DEF automouse_repeat
    <3> QED
      BY <1>4, <3>1 DEF Unturned, MouseTypeOK, MouseReport
  <2>3. automouse_press' = 0 => mouse_state'.x = Negate(w)
    BY <1>4 DEF automouse_repeat, Unturned, MouseTypeOK, MouseReport
  <2> QED
    BY <2>1, <2>2, <2>3, NegateType
<1>7. w \in Int
  BY DEF Int8
<1>8. drift + Held = IF automouse_press = 1 THEN w ELSE 0
  BY <1>3, WiggleType DEF InStep
<1>9. drift + Held + Given' = IF automouse_press' = 1 THEN w ELSE 0
  BY <1>3, <1>5, <1>6, <1>7, <1>8, WiggleType
<1> QED
  BY <1>1, <1>2, <1>4, <1>9 DEF InStep

LEMMA InStepWrite ==
  ASSUME NEW w \in Int8, TypeOK, MouseTypeOK, drift \in Int, InStep(w),
         EP_MOUSE \notin lost', MouseWrite
  PROVE  InStep(w)'
<1>1. UNCHANGED <<drift, mouse_state, clicked, automouse, ep>> /\ pc = "write"
  BY DEF MouseWrite, Write, reports
<1>2. CASE ep # EP_MOUSE
  <2>1. /\ EP_MOUSE \in full' <=> EP_MOUSE \in full
        /\ packet'.mouse = packet.mouse /\ packet'.clicked = packet.clicked
    BY <1>2 DEF MouseWrite, Write, MouseTypeOK, TypeOK
  <2>2. Held' = Held
    BY <2>1 DEF Held
  <2>3. Given = 0 /\ Given' = 0
    BY <1>1, <1>2 DEF Given, Writing
  <2> QED
    BY <1>1, <2>2, <2>3, InStepKept DEF automouse
<1>3. CASE ep = EP_MOUSE
  <2>1. /\ EP_MOUSE \notin full /\ EP_MOUSE \in full' /\ pc' = "rest"
        /\ packet' = [packet EXCEPT !.mouse = mouse_state, !.clicked = clicked]
    BY <1>3 DEF MouseWrite, Write
  <2>2. packet'.mouse = mouse_state /\ packet'.clicked = clicked
    BY <2>1 DEF MouseTypeOK
  <2>3. Held = 0 /\ Held' = Given /\ Given' = 0
    BY <1>1, <1>3, <2>1, <2>2 DEF Held, Given, Writing
  <2>4. drift + Given = IF automouse_press = 1 THEN w ELSE 0
    BY <2>3, WiggleType DEF InStep
  <2>5. drift + Held' + Given' = drift + Given
    BY <2>3, WiggleType
  <2> QED
    BY <1>1, <2>3, <2>4, <2>5 DEF InStep, automouse
<1> QED
  BY <1>2, <1>3

LEMMA InStepPoll ==
  ASSUME NEW w \in Int8, NEW e \in Endpoint, MouseTypeOK, drift \in Int,
         InStep(w), EP_MOUSE \notin lost, MouseHostPoll(e)
  PROVE  InStep(w)'
<1>1. /\ UNCHANGED <<mouse_state, clicked, automouse, pc, ep>>
      /\ e \in full /\ full' = full \ {e}
  BY DEF MouseHostPoll, HostPoll, reports, main
<1>2. Given' = Given
  BY <1>1 DEF Given, Writing
<1>3. CASE e = EP_EXTRAKEY
  <2>1. /\ packet' = [packet EXCEPT !.extra = NoExtra] /\ UNCHANGED drift
    BY <1>3, Endpoints DEF MouseHostPoll
  <2>2. /\ EP_MOUSE \in full' <=> EP_MOUSE \in full
        /\ packet'.mouse = packet.mouse /\ packet'.clicked = packet.clicked
    BY <1>1, <1>3, <2>1, Endpoints DEF MouseTypeOK
  <2>3. Held' = Held
    BY <2>2 DEF Held
  <2> QED
    BY <1>1, <1>2, <2>1, <2>3, InStepKept DEF automouse
<1>4. CASE e = EP_MOUSE
  <2>1. drift' = drift + Held
    BY <1>1, <1>4, Endpoints DEF MouseHostPoll, Held
  <2>2. Held' = 0
    BY <1>1, <1>4 DEF Held
  <2>3. drift' + Held' = drift + Held
    BY <2>1, <2>2, WiggleType
  <2> QED
    BY <1>1, <1>2, <2>1, <2>3 DEF InStep, automouse
<1> QED
  BY <1>3, <1>4, Endpoints

LEMMA InStepReset ==
  ASSUME NEW w, InStep(w), EP_MOUSE \notin lost', MouseReset
  PROVE  InStep(w)'
<1>1. /\ UNCHANGED <<mouse_state, clicked, automouse, pc, ep, drift>>
      /\ full' = {} /\ lost' = lost \cup full
  BY DEF MouseReset, BusReset, usb_set_config, Discard, reports, main
<1>2. Held' = Held /\ Given' = Given
  BY <1>1 DEF Held, Given, Writing
<1> QED
  BY <1>1, <1>2, InStepKept DEF automouse

LEMMA WiggleStep ==
  /\ TypeOK /\ MouseTypeOK /\ drift \in Int /\ WiggleUndone
  /\ [MouseNext]_mouseVars
  => WiggleUndone'
<1> SUFFICES ASSUME TypeOK, MouseTypeOK, drift \in Int, WiggleUndone,
                    [MouseNext]_mouseVars, EP_MOUSE \notin lost',
                    NEW t \in Switch, OnlyWiggle(t),
                    NEW w, w = Event[t].wiggle
             PROVE  InStep(w)'
  BY DEF WiggleUndone
<1>1. w \in Int8 /\ w # -128
  BY EventFields DEF OnlyWiggle
<1>2. EP_MOUSE \notin lost
  BY DEF MouseNext, Input, Internal, keymap_event, macro_event,
         keyboard_set_leds, automouse_repeat, TimerPasses, macro_run,
         MouseWrite, MouseSpin, MouseReset, MouseHostPoll, MouseIdle, outputs,
         mouseVars
<1>3. InStep(w)
  BY <1>2 DEF WiggleUndone
<1>4. ASSUME UNCHANGED <<drift, automouse_state, automouse_active,
                         automouse_press, packet, full, mouse_state, clicked>>,
             Writing(EP_MOUSE)' <=> Writing(EP_MOUSE)
      PROVE  InStep(w)'
  <2>1. Held' = Held /\ Given' = Given
    BY <1>4 DEF Held, Given
  <2> QED
    BY <1>3, <1>4, <2>1, InStepKept
<1>5. ASSUME NEW s \in Switch, keymap_event(s) PROVE InStep(w)'
  BY <1>3, <1>5, InStepKey
<1>6. CASE macro_event \/ macro_run \/ TimerPasses
  BY <1>4, <1>6
  DEF macro_event, macro_run, TimerPasses, reports, automouse, outputs, vars,
      main, Writing
<1>7. ASSUME NEW on \in HostLeds, keyboard_set_leds(on) PROVE InStep(w)'
  BY <1>4, <1>7
  DEF keyboard_set_leds, reports, automouse, outputs, vars, main, Writing
<1>8. CASE MouseSpin
  <2>1. ~Writing(EP_MOUSE) /\ ~Writing(EP_MOUSE)' /\ UNCHANGED full
    BY <1>8 DEF MouseSpin, Spin, Writing
  <2> QED
    BY <1>4, <1>8, <2>1 DEF MouseSpin, reports, automouse, outputs
<1>9. ASSUME NEW e \in Endpoint, MouseIdle(e) PROVE InStep(w)'
  BY <1>4, <1>9
  DEF MouseIdle, usb_endpoint_idle, reports, automouse, outputs, main, Writing
<1>10. CASE UNCHANGED mouseVars
  BY <1>4, <1>10
  DEF mouseVars, reports, automouse, outputs, vars, main, Writing
<1> QED
  BY <1>1, <1>2, <1>3, <1>5, <1>6, <1>7, <1>8, <1>9, <1>10,
     InStepRepeat, InStepWrite, InStepPoll, InStepReset
  DEF MouseNext, Input, Internal

-----------------------------------------------------------------------------
(* The wheel.                                                               *)

\* A step that turns no wheel, asks for no turn and sends no mouse report.
LEMMA TurnsKept ==
  ASSUME NEW d \in Axis, TurnsLeft(d), turns[d] \in Int,
         turns'[d] = turns[d],
         EP_MOUSE \in full' /\ packet'.mouse[d] # 0 =>
           EP_MOUSE \in full /\ packet.mouse[d] # 0,
         Writing(EP_MOUSE)' /\ mouse_state'[d] # 0 =>
           Writing(EP_MOUSE) /\ mouse_state[d] # 0
  PROVE  TurnsLeft(d)'
BY DEF TurnsLeft, OneIf

LEMMA TurnsKey ==
  ASSUME NEW s \in Switch, NEW d \in Axis, MouseTypeOK, TurnsLeft(d),
         keymap_event(s)
  PROVE  TurnsLeft(d)'
<1>1. turns[d] \in Int /\ UNCHANGED packet
  BY DEF MouseTypeOK, keymap_event, outputs
<1>2. UNCHANGED full /\ ~Writing(EP_MOUSE)
  BY DEF keymap_event, mouse_event, automouse_event, extrakey_event,
         SendFromMatrix, Update, vars, Writing
<1>3. CASE /\ UNCHANGED vars \/ SendFromMatrix(EP_EXTRAKEY)
           /\ UNCHANGED turns
  <2>1. ~Writing(EP_MOUSE)' /\ UNCHANGED turns
    BY <1>2, <1>3, Endpoints DEF SendFromMatrix, Update, vars, main, Writing
  <2> QED
    BY <1>1, <1>2, <2>1, TurnsKept
<1>4. CASE mouse_event(s) /\ Pressed(s)
  <2>1. turns'[d] = IF mouse_state'[d] # 0 THEN turns[d] + 1 ELSE turns[d]
    BY <1>4 DEF mouse_event
  <2> QED
    BY <1>1, <1>2, <2>1 DEF TurnsLeft, OneIf
<1> QED
  BY <1>3, <1>4 DEF keymap_event, mouse_event, automouse_event, extrakey_event

\* The automouse clears h.
LEMMA TurnsRepeat ==
  ASSUME MouseTypeOK, TurnsLeft("h"), automouse_repeat
  PROVE  TurnsLeft("h")'
<1>1. mouse_state'["h"] = 0
  <2>1. \E b, x : mouse_state' = Unturned([mouse_state EXCEPT !.buttons = b,
                                                            !.x = x])
    BY DEF automouse_repeat
  <2> QED
    BY <2>1 DEF Unturned, MouseTypeOK, MouseReport
<1>2. UNCHANGED <<turns, packet, full>>
  BY DEF automouse_repeat, SendIfIdle, Update, outputs
<1>3. turns["h"] \in Int /\ "h" \in Axis
  BY DEF MouseTypeOK, Axis
<1> QED
  BY <1>1, <1>2, <1>3, TurnsKept

LEMMA TurnsWrite ==
  ASSUME NEW d \in Axis, TypeOK, MouseTypeOK, TurnsLeft(d), MouseWrite
  PROVE  TurnsLeft(d)'
<1>1. /\ UNCHANGED <<turns, mouse_state, ep>> /\ pc = "write" /\ pc' # "write"
      /\ turns[d] \in Int
  BY DEF MouseWrite, Write, reports, MouseTypeOK
<1>2. CASE ep # EP_MOUSE \/ pc' = "spin"
  <2>1. EP_MOUSE \in full' => EP_MOUSE \in full
    BY <1>2 DEF MouseWrite, Write
  <2>2. packet'.mouse = packet.mouse
    BY <1>2 DEF MouseWrite, MouseTypeOK
  <2> QED
    BY <1>1, <2>1, <2>2, TurnsKept DEF Writing
<1>3. CASE ep = EP_MOUSE /\ pc' = "rest"
  <2>1. EP_MOUSE \notin full /\ packet'.mouse = mouse_state
    BY <1>3 DEF MouseWrite, Write, MouseTypeOK
  <2> QED
    BY <1>1, <1>3, <2>1 DEF TurnsLeft, OneIf, Writing
<1> QED
  BY <1>2, <1>3 DEF MouseWrite

LEMMA TurnsPoll ==
  ASSUME NEW e \in Endpoint, NEW d \in Axis, MouseTypeOK, TurnsLeft(d),
         MouseHostPoll(e)
  PROVE  TurnsLeft(d)'
<1>1. /\ UNCHANGED <<mouse_state, pc, ep>>
      /\ e \in full /\ full' = full \ {e}
      /\ turns[d] \in Int
  BY DEF MouseHostPoll, HostPoll, main, MouseTypeOK
<1>2. CASE e = EP_EXTRAKEY
  <2>1. packet'.mouse = packet.mouse /\ UNCHANGED turns
    BY <1>2, Endpoints DEF MouseHostPoll, MouseTypeOK
  <2> QED
    BY <1>1, <2>1, TurnsKept DEF Writing
<1>3. CASE e = EP_MOUSE
  <2>1. turns'[d] = IF packet.mouse[d] # 0 /\ turns[d] # -1 THEN turns[d] - 1
                                                            ELSE turns[d]
    BY <1>3, Endpoints DEF MouseHostPoll, Turned
  <2> QED
    BY <1>1, <1>3, <2>1 DEF TurnsLeft, OneIf, Writing
<1> QED
  BY <1>2, <1>3, Endpoints

LEMMA TurnsReset ==
  ASSUME NEW d \in Axis, MouseTypeOK, TurnsLeft(d), MouseReset
  PROVE  TurnsLeft(d)'
<1>1. /\ UNCHANGED <<mouse_state, turns, pc, ep>> /\ full' = {}
      /\ turns[d] \in Int
  BY DEF MouseReset, BusReset, usb_set_config, Discard, reports, main,
         MouseTypeOK
<1> QED
  BY <1>1, TurnsKept DEF Writing

\* Every step but the automouse's keeps the count of either way to turn.
LEMMA TurnsStep ==
  ASSUME NEW d \in Axis, TypeOK, MouseTypeOK, TurnsLeft(d),
         [MouseNext]_mouseVars, d = "h" \/ ~automouse_repeat
  PROVE  TurnsLeft(d)'
<1>1. ASSUME UNCHANGED <<turns, packet, full, mouse_state>>,
             Writing(EP_MOUSE)' => Writing(EP_MOUSE)
      PROVE  TurnsLeft(d)'
  BY <1>1, TurnsKept DEF MouseTypeOK
<1>2. CASE macro_event \/ macro_run \/ TimerPasses
  BY <1>1, <1>2
  DEF macro_event, macro_run, TimerPasses, reports, outputs, vars, main, Writing
<1>3. ASSUME NEW on \in HostLeds, keyboard_set_leds(on) PROVE TurnsLeft(d)'
  BY <1>1, <1>3 DEF keyboard_set_leds, reports, outputs, vars, main, Writing
<1>4. CASE MouseSpin
  <2>1. ~Writing(EP_MOUSE)' /\ UNCHANGED full
    BY <1>4 DEF MouseSpin, Spin, Writing
  <2> QED
    BY <1>1, <1>4, <2>1 DEF MouseSpin, reports, outputs
<1>5. ASSUME NEW e \in Endpoint, MouseIdle(e) PROVE TurnsLeft(d)'
  BY <1>1, <1>5
  DEF MouseIdle, usb_endpoint_idle, reports, outputs, main, Writing
<1>6. CASE UNCHANGED mouseVars
  BY <1>1, <1>6 DEF mouseVars, reports, outputs, vars, main, Writing
<1> QED
  BY <1>2, <1>3, <1>4, <1>5, <1>6, TurnsKey, TurnsRepeat, TurnsWrite,
     TurnsPoll, TurnsReset
  DEF MouseNext, Input, Internal

\* As long as no automouse key was used the automouse is off.
LEMMA AutomouseUnused ==
  ASSUME MouseTypeOK, inputs["automouse"] = 0 => automouse_active = 0,
         [MouseNext]_mouseVars, inputs'["automouse"] = 0
  PROVE  /\ inputs["automouse"] = 0 /\ ~automouse_repeat
         /\ automouse_active' = 0
<1>1. "automouse" \in Kind
  BY DEF Kind
<1>2. ASSUME NEW k, Count(k)
      PROVE  inputs["automouse"] = 0 /\ k # "automouse"
  BY <1>1, <1>2 DEF Count, MouseTypeOK
<1>3. inputs["automouse"] = 0
  BY <1>2 DEF MouseNext, Input, mouseVars
<1>4. automouse_active = 0 /\ ~automouse_repeat
  BY <1>3 DEF automouse_repeat
<1>5. ASSUME NEW s \in Switch, keymap_event(s), Count(KindOf(Event[s]))
      PROVE  UNCHANGED automouse_active
  <2>1. Event[s].type # "KMT_AUTOMOUSE"
    BY <1>2, <1>5 DEF KindOf
  <2> QED
    BY <1>5, <2>1
    DEF keymap_event, mouse_event, automouse_event, extrakey_event, automouse
<1>6. UNCHANGED automouse_active
  BY <1>4, <1>5
  DEF MouseNext, Input, Internal, macro_event, keyboard_set_leds, TimerPasses,
      macro_run, MouseWrite, MouseSpin, MouseReset, MouseHostPoll, MouseIdle,
      reports, automouse, mouseVars
<1> QED
  BY <1>3, <1>4, <1>6

LEMMA TurnsCountedStep ==
  TypeOK /\ MouseTypeOK /\ TurnsCounted /\ [MouseNext]_mouseVars
  => TurnsCounted'
<1>1. "h" \in Axis /\ "v" \in Axis
  BY DEF Axis
<1> QED
  BY <1>1, TurnsStep, AutomouseUnused DEF TurnsCounted

-----------------------------------------------------------------------------
(* The theorems.                                                            *)

LEMMA MouseInitInv == MouseInit => UsbInv /\ MouseInv
<1> SUFFICES ASSUME MouseInit PROVE UsbInv /\ MouseInv
  OBVIOUS
<1>1. UsbInv
  BY InitInv DEF MouseInit
<1>2. Within(inputs)
  <2>1. PICK b \in Budgets : b \in [Kind -> Nat]
    BY MouseAssumption
  <2>2. \A k \in Kind : 0 \in 0..b[k]
    BY <2>1
  <2> QED
    BY <2>1, <2>2 DEF MouseInit, Within
<1>3. /\ NoMouse \in MouseReport /\ NoExtra \in ExtraReport
      /\ 0 \in Int8
  BY DEF NoMouse, NoExtra, MouseReport, ExtraReport, Int8
<1>4. seen \in [buttons : SUBSET Button,
                CONSUMER : Code \cup {0}, SYSTEM : Code \cup {0}]
  BY DEF MouseInit, Unseen
<1>5. MouseTypeOK
  BY <1>1, <1>2, <1>3, <1>4 DEF MouseInit, MouseTypeOK, UsbInv
<1>6. drift \in Int /\ Held = 0 /\ Given = 0
  BY DEF MouseInit, Init, Held, Given, Writing
<1>7. WiggleUndone
  BY <1>6 DEF WiggleUndone, InStep, MouseInit
<1>8. TurnsCounted
  BY DEF TurnsCounted, TurnsLeft, OneIf, Writing, Axis, Kind, MouseInit, Init
<1>9. CodesBacked
  BY DEF CodesBacked, LastCode, Writing, MouseInit, Init, Unseen
<1>10. LedsAccounted /\ LedsOff
  BY DEF LedsAccounted, LedsOff, MouseInit
<1> QED
  BY <1>1, <1>5, <1>6, <1>7, <1>8, <1>9, <1>10 DEF MouseInv

LEMMA MouseStepInv ==
  UsbInv /\ MouseInv /\ [MouseNext]_mouseVars => UsbInv' /\ MouseInv'
<1> SUFFICES ASSUME UsbInv, MouseInv, [MouseNext]_mouseVars
             PROVE  UsbInv' /\ MouseInv'
  OBVIOUS
<1>1. UsbInv'
  BY UsbStep, StepInv
<1>2. MouseTypeOK'
  <2>1. CASE UNCHANGED mouseVars
    BY <2>1, <1>1
    DEF mouseVars, reports, automouse, lamps, outputs, MouseInv, MouseTypeOK,
        UsbInv
  <2> QED
    BY <1>1, <2>1, InputType, InternalType DEF MouseNext, MouseInv, UsbInv
<1>3. drift' \in Int
  <2>1. drift' = drift \/ drift' = drift + packet.mouse.x
    BY DEF MouseNext, Input, Internal, keymap_event, macro_event,
           keyboard_set_leds, automouse_repeat, TimerPasses, macro_run,
           MouseWrite, MouseSpin, MouseReset, MouseHostPoll, MouseIdle,
           outputs, mouseVars
  <2> QED
    BY <2>1, WiggleType DEF MouseInv
<1>4. WiggleUndone' /\ TurnsCounted' /\ CodesBacked'
  BY WiggleStep, TurnsCountedStep, CodesStep DEF MouseInv, UsbInv
<1>5. LedsAccounted' /\ LedsOff'
  BY LedStep DEF MouseInv, LedInv
<1> QED
  BY <1>1, <1>2, <1>3, <1>4, <1>5 DEF MouseInv

LEMMA MouseInvHolds == MouseSpec => [](UsbInv /\ MouseInv)
BY MouseStepInv, MouseInitInv, PTL DEF MouseSpec

\* Every variable of Mouse keeps its type.
THEOREM MouseTypeCorrect == MouseSpec => []MouseTypeOK
<1>1. MouseInv => MouseTypeOK
  BY DEF MouseInv
<1> QED
  BY <1>1, MouseInvHolds, PTL

\* The wake-up that automouse_repeat waits for is never lost but to a reset,
\* and automouse_repeat loses no report to a busy endpoint on its own.
THEOREM MouseKeepsUsb == MouseSpec => []WakeUpPending /\ []BusyOnlyIfCrowded
<1>1. UsbInv => WakeUpPending /\ BusyOnlyIfCrowded
  BY DEF UsbInv
<1> QED
  BY <1>1, MouseInvHolds, PTL

\* With automouse keys that are all alike, of any wiggle but -128: however often
\* the automouse is turned off half way and mouse keys fill in its report, it
\* moves the pointer no further than one wiggle, unless a report was lost.
THEOREM PointerStays == MouseSpec => []NoDrift
<1>1. MouseInv => NoDrift
  BY DEF MouseInv, WiggleUndone, InStep, NoDrift
<1> QED
  BY <1>1, MouseInvHolds, PTL

\* Whatever resets and busy endpoints do to the report of wheel keys, mouse keys
\* and the automouse, a press of a wheel key turns the wheel sideways once at
\* the most; and up or down too, as long as the automouse is not used.
THEOREM WheelTurns == MouseSpec => []WheelTurnsOnce
<1>1. MouseInv => WheelTurnsOnce
  <2> SUFFICES ASSUME MouseInv, NEW d \in Axis, TurnsLeft(d)
               PROVE  turns[d] >= 0
    BY DEF MouseInv, TurnsCounted, WheelTurnsOnce, Axis
  <2>1. turns[d] \in Int
    BY DEF MouseInv, MouseTypeOK
  <2> QED
    BY <2>1 DEF TurnsLeft, OneIf
<1> QED
  BY <1>1, MouseInvHolds, PTL

\* No consumer or system key stays down on the host once all switches are up.
THEOREM NoStuckExtraKeys == MouseSpec => []ExtraKeysLetGo
<1>1. MouseInv => ExtraKeysLetGo
  <2> SUFFICES ASSUME MouseInv, matrix_previous = {}, Settled(EP_EXTRAKEY),
                      EP_EXTRAKEY \notin lost
               PROVE  seen.CONSUMER = 0 /\ seen.SYSTEM = 0
    BY DEF ExtraKeysLetGo
  <2>1. \A type \in {"KMT_CONSUMER", "KMT_SYSTEM"} : HeldKeys(type) = {}
    BY DEF HeldKeys
  <2>2. LastCode("CONSUMER") = 0 /\ LastCode("SYSTEM") = 0
    BY <2>1 DEF MouseInv, CodesBacked
  <2> QED
    BY <2>2 DEF LastCode, Writing, Settled, Through
<1> QED
  BY <1>1, MouseInvHolds, PTL

\* With the automouse and the macro over only the host's LEDs are on.
THEOREM LedsGoOff == MouseSpec => []LedsOff
<1>1. MouseInv => LedsOff
  BY DEF MouseInv
<1> QED
  BY <1>1, MouseInvHolds, PTL
=============================================================================
