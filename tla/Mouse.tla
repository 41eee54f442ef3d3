--------------------------------- MODULE Mouse ---------------------------------
(***************************************************************************)
(* mouse.c, automouse.c, extrakey.c and led.c over usb.c.                  *)
(*                                                                         *)
(* Mouse keys, wheel keys and the automouse fill in one report, consumer   *)
(* and system keys another.  Keys send whether the endpoint is idle or     *)
(* not; the automouse waits for its timer and for an idle endpoint, and    *)
(* presses and releases in turn:                                           *)
(*                                                                         *)
(*    off <--key--> on,  on: released --timer, idle--> pressed --> ...     *)
(*                                                                         *)
(* The LEDs are set by the host, by the automouse and by a macro.          *)
(*                                                                         *)
(* x stands for x and y, which the code treats alike; the automouse has no *)
(* y.  A timer is set or has passed; how the clock wraps is in Matrix.     *)
(***************************************************************************)
EXTENDS Usb

CONSTANTS
  EP_MOUSE, EP_EXTRAKEY,
  Switch,      \* switches that carry the events of this module
  Event,       \* the event of each, in the active layer
  Button,      \* MOUSE_BUTTON1..5
  Code,        \* codes of consumer and system keys
  HostLeds,    \* what the host may write to the LEDs
  Budgets      \* bounds: how often each kind of input may come in a run

VARIABLES
  matrix_previous,
  mouse_state,
  automouse_state, automouse_active, automouse_press,
  passed,      \* timer_passed(automouse_timer)
  state,       \* extrakey.c: the extra key report
  leds,        \* LEDs that are on
  macro_active,
  packet,      \* what an endpoint that is full holds
  seen,        \* the buttons, consumer and system codes the host knows of
  inputs,      \* how often each kind of input has come
  clicked,     \* ghost: mouse_state was last filled in by the automouse
  lost,        \* ghost: endpoints of which a report did not get to the host
  drift,       \* ghost: how far the automouse has moved the pointer
  turns,       \* ghost: turns of the wheel that were asked for and not made
  lit          \* ghost: LEDs the host turned on and nobody off since

automouse == <<automouse_state, automouse_active, automouse_press, passed>>
lamps     == <<leds, lit, macro_active>>
reports   == <<matrix_previous, mouse_state, automouse, state, clicked, turns>>
outputs   == <<packet, seen, lost, drift>>
mouseVars == <<vars, reports, lamps, outputs, inputs>>

Int8 == -128..127
LED  == {1, 2, 3}
AUTOMOUSE_LED_ACTIVE == {3}
AUTOMOUSE_LED_PRESS  == {2}
MACRO_LED_ACTIVE     == {3}

\* The bytes of event_t that the handlers of this module read.
EventRecord ==
  [type : {"KMT_MOUSE"}, button : SUBSET Button, x : Int8]
  \cup [type : {"KMT_WHEEL"}, button : SUBSET Button, h : Int8, v : Int8]
  \cup [type : {"KMT_AUTOMOUSE"}, button : SUBSET Button, wiggle : Int8]
  \cup [type : {"KMT_CONSUMER", "KMT_SYSTEM"}, code : Code]

MouseReport == [buttons : SUBSET Button, x : Int8, h : Int8, v : Int8]
ExtraReport == [id : {"CONSUMER", "SYSTEM"}, code : Code \cup {0}]

\* The ways a wheel turns.
Axis == {"h", "v"}

\* Kinds of input, each with a bound of its own.
Kind == {"automouse", "mouse", "extra", "leds"}
KindOf(e) == CASE e.type = "KMT_AUTOMOUSE"             -> "automouse"
               [] e.type \in {"KMT_MOUSE", "KMT_WHEEL"} -> "mouse"
               [] OTHER                                -> "extra"
Within(n) == \E b \in Budgets : \A k \in Kind : n[k] \in 0..b[k]
Count(k)  == /\ inputs' = [inputs EXCEPT ![k] = @ + 1]
             /\ Within(inputs')

ASSUME MouseAssumption ==
  /\ Endpoint = {EP_MOUSE, EP_EXTRAKEY} /\ EP_MOUSE # EP_EXTRAKEY
  /\ Event \in [Switch -> EventRecord]
  /\ Code \subseteq Nat \ {0}
  /\ HostLeds \subseteq SUBSET LED
  /\ Budgets \subseteq [Kind -> Nat] /\ Budgets # {}

MouseTypeOK ==
  /\ TypeOK
  /\ matrix_previous \subseteq Switch
  /\ mouse_state \in MouseReport
  /\ automouse_state \in [buttons : SUBSET Button, x : Int8]
  /\ automouse_active \in {0, 1} /\ automouse_press \in {0, 1}
  /\ passed \in BOOLEAN /\ clicked \in BOOLEAN
  /\ state \in ExtraReport
  /\ leds \subseteq LED /\ lit \subseteq LED /\ macro_active \in BOOLEAN
  /\ packet \in [mouse : MouseReport, clicked : BOOLEAN, extra : ExtraReport]
  /\ seen \in [buttons : SUBSET Button,
               CONSUMER : Code \cup {0}, SYSTEM : Code \cup {0}]
  /\ inputs \in [Kind -> Nat] /\ Within(inputs)
  /\ lost \subseteq Endpoint
  /\ turns \in [Axis -> Nat \cup {-1}]

NoMouse == [buttons |-> {}, x |-> 0, h |-> 0, v |-> 0]
NoExtra == [id |-> "CONSUMER", code |-> 0]
Unseen  == [buttons |-> {}, CONSUMER |-> 0, SYSTEM |-> 0]

MouseInit ==
  /\ Init
  /\ matrix_previous = {} /\ mouse_state = NoMouse
  /\ automouse_state = [buttons |-> {}, x |-> 0]
  /\ automouse_active = 0 /\ automouse_press = 0 /\ passed = TRUE
  /\ state = NoExtra
  /\ leds = {} /\ lit = {} /\ macro_active = FALSE
  /\ packet = [mouse |-> NoMouse, clicked |-> FALSE, extra |-> NoExtra]
  /\ seen = Unseen
  /\ inputs = [k \in Kind |-> 0] /\ clicked = FALSE /\ lost = {} /\ drift = 0
  /\ turns = [d \in Axis |-> 0]

-----------------------------------------------------------------------------
(* led.c.                                                                   *)

\* Mutant: only the first LED of the argument is looked at.
LedClearOne(on) ==
  leds' = leds \ {n \in on : \A m \in on : n <= m} /\ lit' = lit \ on

led_clear(on) == leds' = leds \ on /\ lit' = lit \ on

\* The other LEDs go off.
led_state(on) == leds' = on /\ lit' = {}

-----------------------------------------------------------------------------
(* The main loop: keymap_event for a switch that changed.                   *)

Pressed(s) == s \notin matrix_previous
Noted(s)   == matrix_previous' = IF Pressed(s) THEN matrix_previous \cup {s}
                                               ELSE matrix_previous \ {s}

\* Mutant: the flag is incremented.
ToggledUp(flag) == flag + 1

\* Mutant: the flag is set.
ToggledOn(flag) == 1

\* flag ^ 1.
Toggled(flag) == 1 - flag

\* Mouse and wheel keys do nothing when they are released.
mouse_event(s) ==
  LET e == Event[s] IN
  /\ e.type \in {"KMT_MOUSE", "KMT_WHEEL"}
  /\ \/ /\ ~Pressed(s) /\ pc = "rest"
        /\ UNCHANGED <<vars, mouse_state, clicked, turns>>
     \/ /\ Pressed(s) /\ SendFromMatrix(EP_MOUSE)
        /\ mouse_state' =
             IF e.type = "KMT_MOUSE"
               THEN [buttons |-> e.button, x |-> e.x, h |-> 0, v |-> 0]
               ELSE [buttons |-> e.button, x |-> 0, h |-> e.h, v |-> e.v]
        /\ clicked' = FALSE
        /\ turns' = [d \in Axis |-> IF mouse_state'[d] # 0 THEN turns[d] + 1
                                                          ELSE turns[d]]
  /\ UNCHANGED <<automouse, state, lamps>>

\* A press turns the automouse on or off; the timer starts anew in any case.
automouse_event(s) ==
  LET e == Event[s] IN
  /\ e.type = "KMT_AUTOMOUSE" /\ pc = "rest"
  /\ automouse_state' = [buttons |-> e.button, x |-> e.wiggle]
  /\ passed' = FALSE
  /\ automouse_active' = IF Pressed(s) THEN Toggled(automouse_active)
                                       ELSE automouse_active
  /\ IF automouse_active' = 0
       THEN led_clear(AUTOMOUSE_LED_ACTIVE \cup AUTOMOUSE_LED_PRESS)
       ELSE UNCHANGED <<leds, lit>>
  /\ UNCHANGED <<vars, mouse_state, automouse_press, state, clicked, turns,
                 macro_active>>

\* Mutant: the release of a system key is not sent.
ExtraPressOnly(s) ==
  LET e == Event[s] IN
  /\ e.type \in {"KMT_CONSUMER", "KMT_SYSTEM"}
  /\ state' = [id   |-> IF e.type = "KMT_CONSUMER" THEN "CONSUMER" ELSE "SYSTEM",
               code |-> IF Pressed(s) THEN e.code ELSE 0]
  /\ IF Pressed(s) \/ e.type = "KMT_CONSUMER"
       THEN SendFromMatrix(EP_EXTRAKEY)
       ELSE pc = "rest" /\ UNCHANGED vars
  /\ UNCHANGED <<mouse_state, automouse, clicked, turns, lamps>>

\* extrakey_consumer_event and extrakey_system_event.
extrakey_event(s) ==
  LET e == Event[s] IN
  /\ e.type \in {"KMT_CONSUMER", "KMT_SYSTEM"}
  /\ state' = [id   |-> IF e.type = "KMT_CONSUMER" THEN "CONSUMER" ELSE "SYSTEM",
               code |-> IF Pressed(s) THEN e.code ELSE 0]
  /\ SendFromMatrix(EP_EXTRAKEY)
  /\ UNCHANGED <<mouse_state, automouse, clicked, turns, lamps>>

keymap_event(s) ==
  /\ mouse_event(s) \/ automouse_event(s) \/ extrakey_event(s)
  /\ Noted(s)
  /\ UNCHANGED outputs

-----------------------------------------------------------------------------
(* The main loop: automouse_repeat and macro_run.                           *)

\* Mutant: the pointer is not moved back.
NegateNot(x) == x

\* Two's complement: -128 is its own opposite.
Negate(x) == IF x = -128 THEN -128 ELSE -x

\* Mutant: the line clears v and forgets h.
UnturnedV(report) == [report EXCEPT !.v = 0]

\* mouse_state.h = automouse_state.v = 0: mouse_state.v stays as it was.
Unturned(report) == [report EXCEPT !.h = 0]

automouse_repeat ==
  /\ automouse_active = 1 /\ passed
  /\ SendIfIdle(EP_MOUSE)
  /\ automouse_press' = Toggled(automouse_press)
  /\ \/ /\ automouse_press' # 0
        /\ led_state(AUTOMOUSE_LED_ACTIVE \cup AUTOMOUSE_LED_PRESS)
        /\ mouse_state' = Unturned([mouse_state EXCEPT
             !.buttons = automouse_state.buttons, !.x = automouse_state.x])
     \/ /\ automouse_press' = 0
        /\ led_state(AUTOMOUSE_LED_ACTIVE)
        /\ mouse_state' = Unturned([mouse_state EXCEPT
             !.buttons = {}, !.x = Negate(automouse_state.x)])
  /\ passed' = FALSE /\ clicked' = TRUE
  /\ UNCHANGED <<matrix_previous, automouse_state, automouse_active, state,
                 turns, macro_active, outputs>>

TimerPasses ==
  /\ ~passed /\ passed' = TRUE
  /\ UNCHANGED <<vars, matrix_previous, mouse_state, automouse_state,
                 automouse_active, automouse_press, state, clicked, turns,
                 lamps, outputs>>

\* What a macro does to the LEDs: every call of macro_run sets its LED, the
\* last one clears it.  Macro has the rest.
macro_event ==
  /\ pc = "rest" /\ macro_active' = TRUE
  /\ UNCHANGED <<vars, reports, leds, lit, outputs>>

macro_run ==
  /\ pc = "rest" /\ macro_active
  /\ \/ led_state(MACRO_LED_ACTIVE) /\ UNCHANGED macro_active
     \/ /\ leds' = {} /\ lit' = {}    \* led_state and led_clear
        /\ macro_active' = FALSE
  /\ UNCHANGED <<vars, reports, outputs>>

\* The peripheral takes the report, or the report is given up.
MouseWrite ==
  /\ Write
  /\ \/ /\ pc' = "spin" /\ lost' = lost \cup {ep}
        /\ UNCHANGED packet
     \/ /\ pc' = "rest" /\ UNCHANGED lost
        /\ packet' = IF ep = EP_MOUSE
             THEN [packet EXCEPT !.mouse = mouse_state, !.clicked = clicked]
             ELSE [packet EXCEPT !.extra = state]
  /\ UNCHANGED <<reports, lamps, seen, drift>>

MouseSpin == Spin /\ UNCHANGED <<reports, lamps, outputs>>

-----------------------------------------------------------------------------
(* The host and the interrupt.                                              *)

\* What turns becomes when the host acts on a report; it stops at -1.
Turned(report) ==
  [d \in Axis |-> IF report[d] # 0 /\ turns[d] # -1 THEN turns[d] - 1
                                                    ELSE turns[d]]

\* The host acts on a report: movement is relative, all else is absolute.
MouseHostPoll(e) ==
  /\ HostPoll(e)
  /\ \/ /\ e = EP_MOUSE
        /\ seen' = [seen EXCEPT !.buttons = packet.mouse.buttons]
        /\ drift' = IF packet.clicked /\ EP_MOUSE \notin lost
                      THEN drift + packet.mouse.x ELSE drift
        /\ turns' = Turned(packet.mouse)
        /\ packet' = [packet EXCEPT !.mouse = NoMouse, !.clicked = FALSE]
     \/ /\ e = EP_EXTRAKEY
        /\ seen' = [seen EXCEPT ![packet.extra.id] = packet.extra.code]
        /\ packet' = [packet EXCEPT !.extra = NoExtra]
        /\ UNCHANGED <<drift, turns>>
  /\ UNCHANGED <<matrix_previous, mouse_state, automouse, state, clicked,
                 lamps, lost>>

MouseIdle(e) == usb_endpoint_idle(e) /\ UNCHANGED <<reports, lamps, outputs>>

\* The host forgets the buttons and keys of a device it sets up anew.
MouseReset ==
  /\ BusReset \/ usb_set_config
  /\ lost' = lost \cup full
  /\ packet' = [mouse |-> NoMouse, clicked |-> FALSE, extra |-> NoExtra]
  /\ seen' = Unseen
  /\ UNCHANGED <<reports, lamps, drift>>

\* A SET_REPORT with the LEDs.
keyboard_set_leds(on) ==
  /\ leds' = on /\ lit' = on
  /\ UNCHANGED <<vars, reports, macro_active, outputs>>

-----------------------------------------------------------------------------
\* What people and the host do of their own accord, a bounded number of times.
Input ==
  \/ \E s \in Switch : keymap_event(s) /\ Count(KindOf(Event[s]))
  \/ macro_event /\ Count("leds")
  \/ \E on \in HostLeds : keyboard_set_leds(on) /\ Count("leds")

Internal ==
  \/ automouse_repeat \/ TimerPasses \/ macro_run
  \/ MouseWrite \/ MouseSpin \/ MouseReset
  \/ \E e \in Endpoint : MouseHostPoll(e) \/ MouseIdle(e)

MouseNext ==
  \/ Input
  \/ Internal /\ UNCHANGED inputs

\* As in Usb; and the main loop calls automouse_repeat again and again, and
\* time passes.
MouseFairness ==
  /\ WF_mouseVars(automouse_repeat /\ UNCHANGED inputs)
  /\ WF_mouseVars(TimerPasses /\ UNCHANGED inputs)
  /\ WF_mouseVars((MouseWrite \/ MouseSpin) /\ UNCHANGED inputs)
  /\ WF_mouseVars(usb_set_config /\ MouseNext)
  /\ \A e \in Endpoint : WF_mouseVars(MouseHostPoll(e) /\ UNCHANGED inputs)
                       /\ WF_mouseVars(MouseIdle(e) /\ UNCHANGED inputs)

MouseSpec == MouseInit /\ [][MouseNext]_mouseVars /\ MouseFairness

-----------------------------------------------------------------------------
(* Properties.                                                              *)

\* The automouse waits for an interrupt that a reset has taken away.
Stuck == EP_MOUSE \in dropped /\ ~idle[EP_MOUSE]

\* automouse_repeat: as long as the automouse is on, the host sees its buttons
\* go down and up again and again, whatever mouse keys did before to the
\* report they share and to the endpoint.
Clicks ==
  /\ []<>(automouse_active = 0 \/ Stuck \/ seen.buttons = {})
  /\ []<>(automouse_active = 0 \/ Stuck
            \/ seen.buttons = automouse_state.buttons)

\* Every automouse key does what s does, and its wiggle has an opposite.
OnlyWiggle(s) ==
  /\ Event[s].type = "KMT_AUTOMOUSE" /\ Event[s].wiggle # -128
  /\ \A t \in Switch : Event[t].type = "KMT_AUTOMOUSE" => Event[t] = Event[s]

\* automouse_repeat wiggles the pointer and puts it back: if all automouse keys
\* are alike and their wiggle is not -128, then, turned off at any moment, on
\* again, with mouse keys pressed in between, the automouse moves the pointer no
\* further than one wiggle from where it was, unless a report was lost.
NoDrift ==
  EP_MOUSE \notin lost =>
    \A s \in Switch : OnlyWiggle(s) => drift \in {0, Event[s].wiggle}

\* wheel_event: a press turns the wheel once at the most, though its movement
\* stays in a report that mouse keys and the automouse send again.  For h that
\* holds whoever sends, for v as long as no automouse key was used.
WheelTurnsOnce ==
  /\ turns["h"] >= 0
  /\ inputs["automouse"] = 0 => turns["v"] >= 0

\* "click mouse button many times, while wiggling the pointer somewhat": the
\* automouse does not go on turning the wheel, so that for v, too, the wheel
\* turns no more often than wheel keys are pressed.
WheelStays == turns["v"] >= 0

\* Nothing of the endpoint is under way.
Settled(e) == pc = "rest" /\ Through(e)

\* extrakey.c: with every switch up, the host knows of no consumer and of no
\* system code, although both kinds of keys share one report and the release of
\* one of them clears it, unless a report was lost.
ExtraKeysLetGo ==
  /\ matrix_previous = {} /\ Settled(EP_EXTRAKEY) /\ EP_EXTRAKEY \notin lost
  => seen.CONSUMER = 0 /\ seen.SYSTEM = 0

\* With the automouse and the macro over, only LEDs that the host turned on
\* are on, although all three write to them.
LedsOff == automouse_active = 0 /\ ~macro_active => leds \subseteq lit

-----------------------------------------------------------------------------
(* The invariant behind NoDrift, WheelTurnsOnce, ExtraKeysLetGo and LedsOff. *)

Writing(e) == pc = "write" /\ ep = e

\* What the reports under way add to the wiggle the host has seen: the one the
\* peripheral holds, then the one the main loop is about to write.
Held  == IF EP_MOUSE \in full /\ packet.clicked THEN packet.mouse.x ELSE 0
Given == IF Writing(EP_MOUSE) /\ clicked THEN mouse_state.x ELSE 0

\* For a wiggle of w: the pointer is where automouse_press says, give or take
\* what is under way, and what is under way takes it no further.
InStep(w) ==
  /\ automouse_active = 1 \/ automouse_press = 1 => automouse_state.x = w
  /\ drift \in {0, w} /\ drift + Held \in {0, w}
  /\ drift + Held + Given = IF automouse_press = 1 THEN w ELSE 0

WiggleUndone ==
  EP_MOUSE \notin lost =>
    \A s \in Switch : OnlyWiggle(s) => InStep(Event[s].wiggle)

\* A turn under way, in the packet or in the report about to be written, was
\* asked for and is not made yet.
OneIf(b) == IF b THEN 1 ELSE 0
TurnsLeft(d) ==
  turns[d] >= OneIf(EP_MOUSE \in full /\ packet.mouse[d] # 0)
              + OneIf(Writing(EP_MOUSE) /\ mouse_state[d] # 0)

TurnsCounted ==
  /\ TurnsLeft("h")
  /\ inputs["automouse"] = 0 => automouse_active = 0 /\ TurnsLeft("v")

\* The code the host will know of once it has all that is under way.
LastCode(id) ==
  IF Writing(EP_EXTRAKEY) /\ state.id = id THEN state.code
  ELSE IF EP_EXTRAKEY \in full /\ packet.extra.id = id THEN packet.extra.code
  ELSE seen[id]

HeldKeys(type) == {s \in matrix_previous : Event[s].type = type}

\* A key that is down stands behind it.
CodesBacked ==
  EP_EXTRAKEY \notin lost =>
    /\ LastCode("CONSUMER") # 0 => HeldKeys("KMT_CONSUMER") # {}
    /\ LastCode("SYSTEM") # 0 => HeldKeys("KMT_SYSTEM") # {}

\* An LED that is on was turned on by the host, or the automouse clears it.
LedsAccounted ==
  leds \subseteq lit \cup AUTOMOUSE_LED_ACTIVE \cup AUTOMOUSE_LED_PRESS

MouseInv ==
  /\ MouseTypeOK /\ drift \in Int
  /\ WiggleUndone /\ TurnsCounted
  /\ CodesBacked
  /\ LedsAccounted /\ LedsOff
=============================================================================
