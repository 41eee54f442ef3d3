--------------------------------- MODULE Macro ---------------------------------
(***************************************************************************)
(* macro.c over usb.c: a macro key starts a macro, and macro_run types it, *)
(* one report at a time, whenever the endpoints of the keyboard are idle.  *)
(*                                                                         *)
(*   INIT --press--> PRESSED --release--> UNPRESSED --next character--.    *)
(*     ^                                                              |    *)
(*     `--------------------------------------------------------------'    *)
(*                                                                         *)
(* Between its steps, and between the steps of usb_update_*, the interrupt *)
(* may define or clear macros, load others and change the mode, and        *)
(* switches may send reports of their own and restart the macro.           *)
(*                                                                         *)
(* A phrase is of characters, each an event of type KMT_KEY with a code    *)
(* inside the NKRO bitmap: a stroke.  A report is the set of the strokes   *)
(* that are down in it; its bytes are in Keyboard.                         *)
(***************************************************************************)
EXTENDS Usb, Sequences

CONSTANTS
  EP_KEYBOARD, EP_NKRO,
  Key,           \* macro numbers: 0..MACRO_MAXKEYS - 1
  MACRO_MAXLEN,
  Stroke,        \* the events of map_ascii.c
  SwitchStroke,  \* those that switches carry too
  NoStroke,      \* the event that is all zero, of type KMT_NONE
  Phrase,        \* phrases command M may define
  Saved,         \* macros command R may load: a phrase for each key
  MaxBothers     \* bound on the commands, and on the switches, of a run

VARIABLES
  macro_buffer, macro_len,
  macro_active, macro_key, macro_position, macro_operation,
  nkro_active,
  down,       \* strokes that switches hold down
  report,     \* keyboard_state and nkro_state
  packet,     \* what an endpoint that is full holds
  host,       \* the last report the host fetched from an endpoint
  bothers,    \* commands and other switches so far
  sure,       \* ghost: nobody interfered with typing since all was quiet
  cut         \* ghost: a macro was changed in the middle, the rest is there

macros  == <<macro_buffer, macro_len>>
running == <<macro_active, macro_key, macro_position, macro_operation>>
view    == <<report, packet, host>>
ghosts  == <<sure, cut>>
mvars   == <<vars, macros, running, nkro_active, down, view, bothers, ghosts>>

Keyboards == {EP_KEYBOARD, EP_NKRO}
Place     == 0..(MACRO_MAXLEN - 1)

ASSUME MacroAssumption ==
  /\ Keyboards = Endpoint /\ EP_KEYBOARD # EP_NKRO
  /\ Key # {} /\ MACRO_MAXLEN \in Nat \ {0, 1, 2}
  /\ SwitchStroke \subseteq Stroke /\ NoStroke \notin Stroke
  /\ MaxBothers \in Nat
  /\ Phrase \subseteq Seq(Stroke) \ {<<>>}
  /\ Saved \subseteq [Key -> Seq(Stroke)]
  /\ \A s \in Saved, k \in Key : Len(s[k]) <= MACRO_MAXLEN - 2

MTypeOK ==
  /\ TypeOK
  /\ macro_buffer \in [Key -> [Place -> Stroke \cup {NoStroke}]]
  /\ macro_len \in [Key -> 0..(MACRO_MAXLEN - 2)]
  /\ macro_active \in BOOLEAN /\ macro_key \in Key
  /\ macro_position \in Place
  /\ macro_operation \in {"INIT", "PRESSED", "UNPRESSED"}
  /\ nkro_active \in BOOLEAN
  /\ down \subseteq SwitchStroke
  /\ \A f \in {report, packet, host} : f \in [Endpoint -> SUBSET Stroke]
  /\ bothers \in 0..MaxBothers
  /\ sure \in BOOLEAN /\ cut \in BOOLEAN

NoReport == [e \in Endpoint |-> {}]

NoMacros == [k \in Key |-> [i \in Place |-> NoStroke]]
NoLength == [k \in Key |-> 0]

MInit ==
  /\ Init
  /\ macro_buffer = NoMacros /\ macro_len = NoLength
  /\ macro_active = FALSE /\ macro_key \in Key
  /\ macro_position = 0 /\ macro_operation = "INIT"
  /\ nkro_active = FALSE /\ down = {}
  /\ report = NoReport /\ packet = NoReport /\ host = NoReport
  /\ bothers = 0 /\ sure = TRUE /\ cut = FALSE

-----------------------------------------------------------------------------
(* The main loop.                                                           *)

\* The endpoint of the current mode.
Active == IF nkro_active THEN EP_NKRO ELSE EP_KEYBOARD

\* keyboard_event on the report of the mode, by a client that has waited for
\* idle endpoints or not.  A release that finds nothing in the boot report may
\* send nothing.
keyboard_event(stroke, pressed, waited) ==
  /\ report' = [report EXCEPT ![Active] =
       IF pressed THEN @ \cup {stroke} ELSE @ \ {stroke}]
  /\ \/ waited /\ SendIfIdle(Active)
     \/ ~waited /\ SendFromMatrix(Active)
     \/ /\ ~pressed /\ ~nkro_active /\ stroke \notin report[Active]
        /\ pc = "rest" /\ UNCHANGED vars
  /\ UNCHANGED <<packet, host>>

Event == macro_buffer[macro_key][macro_position]

\* Mutant: the endpoints are not looked at.
send_at_once(pressed) ==
  \/ Event = NoStroke /\ pc = "rest" /\ UNCHANGED <<vars, view>>
  \/ Event # NoStroke /\ keyboard_event(Event, pressed, FALSE)

\* It does not return 1 until both endpoints are idle.
send_if_idle(pressed) ==
  \/ Event = NoStroke /\ pc = "rest" /\ UNCHANGED <<vars, view>>
  \/ /\ Event # NoStroke /\ \A e \in Keyboards : idle[e]
     /\ keyboard_event(Event, pressed, TRUE)

\* Mutant: the release is left out.
RunPressForget ==
  /\ macro_active /\ macro_operation = "INIT"
  /\ send_if_idle(TRUE)
  /\ macro_operation' = "UNPRESSED"
  /\ UNCHANGED <<macros, macro_active, macro_key, macro_position,
                 nkro_active, down>>

RunPress ==
  /\ macro_active /\ macro_operation = "INIT"
  /\ send_if_idle(TRUE)
  /\ macro_operation' = "PRESSED"
  /\ UNCHANGED <<macros, macro_active, macro_key, macro_position,
                 nkro_active, down>>

RunRelease ==
  /\ macro_active /\ macro_operation = "PRESSED"
  /\ send_if_idle(FALSE)
  /\ macro_operation' = "UNPRESSED"
  /\ UNCHANGED <<macros, macro_active, macro_key, macro_position,
                 nkro_active, down>>

\* Mutant: the end is an exact match.
RunNextExact ==
  /\ macro_active /\ macro_operation = "UNPRESSED" /\ pc = "rest"
  /\ macro_operation' = "INIT" /\ macro_position' = macro_position + 1
  /\ macro_active' = (macro_position' # macro_len[macro_key])
  /\ UNCHANGED <<vars, macros, macro_key, nkro_active, down, view>>

RunNext ==
  /\ macro_active /\ macro_operation = "UNPRESSED" /\ pc = "rest"
  /\ macro_operation' = "INIT" /\ macro_position' = macro_position + 1
  /\ macro_active' = (macro_position' < macro_len[macro_key])
  /\ UNCHANGED <<vars, macros, macro_key, nkro_active, down, view>>

macro_run == RunPress \/ RunRelease \/ RunNext

\* The press of a macro key; its release does nothing.
macro_event(k) ==
  /\ pc = "rest"
  /\ macro_key' = k /\ macro_position' = 0
  /\ macro_operation' = "INIT" /\ macro_active' = TRUE
  /\ UNCHANGED <<vars, macros, nkro_active, down, view>>

\* Any other switch: it does not wait for an idle endpoint.
SwitchEvent(stroke) ==
  /\ keyboard_event(stroke, stroke \notin down, FALSE)
  /\ down' = IF stroke \in down THEN down \ {stroke} ELSE down \cup {stroke}
  /\ UNCHANGED <<macros, running, nkro_active>>

\* The peripheral takes the report as it is at the moment.
MWrite ==
  /\ Write
  /\ packet' = IF pc' = "rest" THEN [packet EXCEPT ![ep] = report[ep]]
                               ELSE packet
  /\ UNCHANGED <<macros, running, nkro_active, down, report, host>>

MSpin == Spin /\ UNCHANGED <<macros, running, nkro_active, down, view>>

-----------------------------------------------------------------------------
(* The host and the interrupt.                                              *)

MHostPoll(e) ==
  /\ HostPoll(e)
  /\ host' = [host EXCEPT ![e] = packet[e]]
  /\ packet' = [packet EXCEPT ![e] = {}]
  /\ UNCHANGED <<macros, running, nkro_active, down, report>>

MIdle(e) ==
  /\ usb_endpoint_idle(e)
  /\ UNCHANGED <<macros, running, nkro_active, down, view>>

\* The host forgets the keys of a keyboard it sets up anew.
MReset ==
  /\ BusReset \/ usb_set_config
  /\ packet' = NoReport /\ host' = NoReport
  /\ UNCHANGED <<macros, running, nkro_active, down, report>>

\* The events of macro_buffer[k] once the first i characters are stored.
Stored(k, phrase, i) ==
  [macro_buffer EXCEPT ![k] =
     [j \in Place |-> IF j < i THEN phrase[j + 1] ELSE @[j]]]

\* Command M: all characters have an event, or the first i have and the next
\* one has not; a phrase too long is refused.  The interrupt is not
\* interrupted, so the characters are stored in one step.
macro_set_phrase(k, phrase) ==
  /\ Len(phrase) <= MACRO_MAXLEN - 2
  /\ \/ /\ macro_buffer' = Stored(k, phrase, Len(phrase))
        /\ macro_len' = [macro_len EXCEPT ![k] = Len(phrase)]
     \/ \E i \in 0..(Len(phrase) - 1) :
          macro_buffer' = Stored(k, phrase, i) /\ UNCHANGED macro_len
  /\ UNCHANGED <<vars, running, nkro_active, down, view>>

\* Command m.
macro_init ==
  /\ macro_buffer' = NoMacros /\ macro_len' = NoLength
  /\ UNCHANGED <<vars, running, nkro_active, down, view>>

\* Command R, of a configuration that was saved when s was defined.
flash_read_config(s, on) ==
  /\ macro_len' = [k \in Key |-> Len(s[k])]
  /\ macro_buffer' = [k \in Key |-> [i \in Place |->
       IF i < Len(s[k]) THEN s[k][i + 1] ELSE NoStroke]]
  /\ nkro_active' = on
  /\ UNCHANGED <<vars, running, down, view>>

\* Commands n and N, SET_PROTOCOL.
SetMode(on) ==
  /\ nkro_active' = on
  /\ UNCHANGED <<vars, macros, running, down, view>>

-----------------------------------------------------------------------------
(* Ghosts, and the specification.                                           *)

AllUp == report = NoReport /\ down = {} /\ ~macro_active
Quiet == /\ AllUp /\ host = NoReport /\ configured /\ pc = "rest"
         /\ \A e \in Endpoint : Through(e)

\* Notes whether a step interferes with typing, and with a macro.
Note(disturbs, cuts) ==
  /\ sure' = (Quiet' \/ (sure /\ ~disturbs))
  /\ cut' = ((cut \/ cuts) /\ ~AllUp')

Start == \E k \in Key : ~macro_active /\ macro_event(k) /\ Note(FALSE, FALSE)

Bother ==
  \/ \E s \in SwitchStroke : SwitchEvent(s) /\ Note(TRUE, FALSE)
  \/ \E k \in Key : macro_active /\ macro_event(k) /\ Note(TRUE, TRUE)
  \/ \E k \in Key, p \in Phrase :
       LET hit == macro_active /\ macro_key = k
       IN  macro_set_phrase(k, p) /\ Note(hit, hit)
  \/ macro_init /\ Note(macro_active, macro_active)
  \/ \E s \in Saved, on \in BOOLEAN :
       flash_read_config(s, on) /\ Note(~AllUp, ~AllUp)
  \/ \E on \in BOOLEAN :
       LET hit == on # nkro_active /\ ~AllUp
       IN  SetMode(on) /\ Note(hit, hit)

Typing == macro_run /\ Note(FALSE, FALSE)

Sending ==
  \/ (MWrite \/ MSpin) /\ Note(FALSE, FALSE)
  \/ \E e \in Endpoint : (MHostPoll(e) \/ MIdle(e)) /\ Note(FALSE, FALSE)
  \/ MReset /\ Note(TRUE, FALSE)

MNext ==
  \/ (Start \/ Typing \/ Sending) /\ UNCHANGED bothers
  \/ Bother /\ bothers < MaxBothers /\ bothers' = bothers + 1

\* As in Usb; and the main loop calls macro_run again and again.
MFairness ==
  /\ WF_mvars(Typing /\ UNCHANGED bothers)
  /\ WF_mvars((MWrite \/ MSpin) /\ MNext)
  /\ WF_mvars(usb_set_config /\ MNext)
  /\ \A e \in Endpoint : WF_mvars(MHostPoll(e) /\ MNext)
                       /\ WF_mvars(MIdle(e) /\ MNext)

MSpec == MInit /\ [][MNext]_mvars /\ MFairness

-----------------------------------------------------------------------------
(* Properties.                                                              *)

\* The strokes a run of macro k types: one at least, whatever its length.
Typed(k) ==
  IF macro_len[k] = 0
    THEN IF macro_buffer[k][0] = NoStroke THEN <<>> ELSE <<macro_buffer[k][0]>>
    ELSE [i \in 1..macro_len[k] |-> macro_buffer[k][i - 1]]

\* The report on its way to the host, and those macro_run has yet to make.
OnItsWay ==
  IF pc # "rest" THEN <<report[ep]>>
  ELSE IF full # {} THEN <<packet[CHOOSE e \in full : TRUE]>> ELSE <<>>

\* The reports that macro_run has made of the phrase it runs.
Made ==
  2 * macro_position + CASE macro_operation = "INIT"    -> 0
                         [] macro_operation = "PRESSED" -> 1
                         [] OTHER                       -> 2

ToMake ==
  IF ~macro_active THEN <<>>
  ELSE LET text == Typed(macro_key)
       IN  SubSeq([i \in 1..(2 * Len(text)) |->
                     IF i % 2 = 1 THEN {text[(i + 1) \div 2]} ELSE {}],
                  Made + 1, 2 * Len(text))

Ideal == INSTANCE Typist WITH
  phrases <- [k \in Key |-> Typed(k)],
  todo    <- IF sure THEN OnItsWay \o ToMake ELSE <<>>,
  seen    <- IF sure THEN UNION {host[e] : e \in Endpoint} ELSE {}

\* The host sees the strokes of a macro one by one, none twice, none lost and
\* none joined to the next, while commands define other macros and the mode
\* changes between macros.
TypesThePhrase == Ideal!Spec

\* Whatever the switches do meanwhile, a macro that was not restarted,
\* redefined or moved to the other mode leaves no stroke of its own down.
NothingLeftDown ==
  ~macro_active /\ ~cut => \A e \in Endpoint : report[e] \subseteq down

\* Once the switches rest, a macro comes to its end, redefined or cleared as
\* it may be, unless a reset took the report it waits for.
MacroEnds ==
  []<>(~macro_active \/ \E e \in Keyboards : e \in dropped /\ ~idle[e])

-----------------------------------------------------------------------------
(* The invariant behind NothingLeftDown.                                    *)

\* A macro that runs has a place for the character it is at and the next one.
PlacesLeft == macro_active => macro_position < MACRO_MAXLEN - 2

\* The stroke that macro_run has pressed and not yet released.
OwnStroke ==
  IF macro_active /\ macro_operation = "PRESSED" THEN {Event} ELSE {}

\* What is down is held by a switch or is that stroke, in the report of the
\* mode; the other report is empty.
OnlyOwn ==
  \A e \in Endpoint :
    report[e] \subseteq IF e = Active THEN down \cup OwnStroke ELSE {}

OwnStrokes == ~cut => OnlyOwn

MacroInv == MTypeOK /\ PlacesLeft /\ OwnStrokes

-----------------------------------------------------------------------------
(* The invariant behind TypesThePhrase.                                     *)

\* What macro_len counts are strokes.
NoHoles ==
  \A k \in Key, i \in Place :
    i < macro_len[k] => macro_buffer[k][i] # NoStroke

\* An empty macro runs its first event; any other stays within its length.
AtAStroke ==
  macro_active => macro_position = 0 \/ macro_position < macro_len[macro_key]

\* The report of e is still to be seen by the host.
Unseen(e) == e \in full \/ (pc # "rest" /\ ep = e)

\* One endpoint at most is not idle, and its report is in one place: about to
\* be written, waiting for the host, or fetched with the interrupt pending.
OneAtATime ==
  /\ configured /\ pc # "spin"
  /\ \A e \in Endpoint : ~(Unseen(e) /\ e \in ctr)
  /\ pc # "rest" => ep \notin full
  /\ \A e \in Endpoint : idle[e] <=> ~Unseen(e) /\ e \notin ctr
  /\ \A e, f \in Endpoint : idle[e] \/ idle[f] \/ e = f

\* No stroke is down but the one that macro_run has pressed.
OneStroke ==
  /\ down = {}
  /\ \A e \in Endpoint :
       report[e] = IF e = Active THEN OwnStroke \ {NoStroke} ELSE {}

\* The host has the reports as they are, but for the one it has yet to see,
\* and then it holds no stroke of the other endpoint.
HostFollows ==
  \A e \in Endpoint :
    /\ ~Unseen(e) => host[e] = report[e]
    /\ Unseen(e)  => \A f \in Endpoint \ {e} : host[f] = {}
    /\ e \in full => packet[e] = report[e]

Steady == AtAStroke /\ OneAtATime /\ OneStroke /\ HostFollows

TypingInv == NoHoles /\ (sure => Steady)
=============================================================================
