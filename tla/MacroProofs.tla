------------------------------ MODULE MacroProofs ------------------------------
(***************************************************************************)
(* Proofs about Macro, for any macros, phrases, strokes and interferences: *)
(* types, the promises of Usb, that a macro lets go of what it presses     *)
(* unless it was cut, and that Macro implements Typist.  Macro changes the *)
(* variables of Usb by its actions only, so what holds of Usb holds here.  *)
(***************************************************************************)
EXTENDS Macro, UsbProofs, SequenceTheorems

LEMMA Endpoints ==
  /\ EP_KEYBOARD \in Endpoint /\ EP_NKRO \in Endpoint /\ EP_KEYBOARD # EP_NKRO
  /\ Active \in Endpoint
BY MacroAssumption DEF Keyboards, Active

LEMMA Lengths == MACRO_MAXLEN \in Nat /\ MACRO_MAXLEN > 2 /\ 0 \in Place
BY MacroAssumption DEF Place

\* The calls of keyboard_event send, or leave Usb alone.
LEMMA EventSends ==
  ASSUME NEW stroke, NEW pressed \in BOOLEAN, NEW waited \in BOOLEAN,
         keyboard_event(stroke, pressed, waited)
  PROVE  UNCHANGED vars \/ Send(Active)
BY DEF keyboard_event, Send

LEMMA RunSends == macro_run => UNCHANGED vars \/ Send(Active)
<1> SUFFICES ASSUME macro_run PROVE UNCHANGED vars \/ Send(Active)
  OBVIOUS
<1>1. ASSUME NEW pressed \in BOOLEAN, send_if_idle(pressed)
      PROVE  UNCHANGED vars \/ Send(Active)
  BY <1>1, EventSends DEF send_if_idle
<1> QED
  BY <1>1 DEF macro_run, RunPress, RunRelease, RunNext

\* A step of Macro is a step of Usb, or leaves Usb alone.
LEMMA UsbStep == [MNext]_mvars => [Next]_vars
<1> SUFFICES ASSUME [MNext]_mvars PROVE [Next]_vars
  OBVIOUS
<1>1. CASE UNCHANGED mvars
  BY <1>1 DEF mvars
<1>2. CASE Start
  BY <1>2 DEF Start, macro_event
<1>3. CASE Typing
  BY <1>3, RunSends, Endpoints DEF Typing, Next
<1>4. CASE Sending
  <2>1. MWrite \/ MSpin => Continue
    BY DEF MWrite, MSpin, Continue
  <2>2. ASSUME NEW e \in Endpoint, MHostPoll(e) \/ MIdle(e) PROVE Device(e)
    BY <2>2 DEF MHostPoll, MIdle, Device
  <2>3. MReset => BusReset \/ usb_set_config
    BY DEF MReset
  <2> QED
    BY <1>4, <2>1, <2>2, <2>3 DEF Sending, Next
<1>5. CASE Bother
  <2>1. ASSUME NEW s \in SwitchStroke, SwitchEvent(s)
        PROVE  UNCHANGED vars \/ Send(Active)
    BY <2>1, EventSends DEF SwitchEvent
  <2>2. ASSUME \/ \E k \in Key : macro_event(k)
               \/ \E k \in Key, p \in Phrase : macro_set_phrase(k, p)
               \/ macro_init
               \/ \E s \in Saved, on \in BOOLEAN : flash_read_config(s, on)
               \/ \E on \in BOOLEAN : SetMode(on)
        PROVE  UNCHANGED vars
    BY <2>2 DEF macro_event, macro_set_phrase, macro_init, flash_read_config,
                SetMode
  <2> QED
    BY <1>5, <2>1, <2>2, Endpoints DEF Bother, Next
<1> QED
  BY <1>1, <1>2, <1>3, <1>4, <1>5 DEF MNext

-----------------------------------------------------------------------------
(* Types.                                                                   *)

Buffers == [Key -> [Place -> Stroke \cup {NoStroke}]]
Lens    == [Key -> 0..(MACRO_MAXLEN - 2)]
Reports == [Endpoint -> SUBSET Stroke]

\* MTypeOK, but for what Usb and the notes say.
Types ==
  /\ macro_buffer \in Buffers /\ macro_len \in Lens
  /\ macro_active \in BOOLEAN /\ macro_key \in Key
  /\ macro_position \in Place
  /\ macro_operation \in {"INIT", "PRESSED", "UNPRESSED"}
  /\ nkro_active \in BOOLEAN
  /\ down \subseteq SwitchStroke
  /\ report \in Reports /\ packet \in Reports /\ host \in Reports

LEMMA MTypes ==
  MTypeOK <=> /\ TypeOK /\ Types /\ bothers \in 0..MaxBothers
              /\ sure \in BOOLEAN /\ cut \in BOOLEAN
BY DEF MTypeOK, Types, Buffers, Lens, Reports

LEMMA EventType == Types => Event \in Stroke \cup {NoStroke}
BY DEF Types, Event, Buffers

\* Some of the characters of a phrase in place of those of another.
LEMMA StoredType ==
  ASSUME Types, NEW k \in Key, NEW p \in Phrase, Len(p) <= MACRO_MAXLEN - 2,
         NEW i \in 0..Len(p)
  PROVE  Stored(k, p, i) \in Buffers
<1>1. p \in Seq(Stroke) /\ Len(p) \in Nat
  BY MacroAssumption
<1>2. ASSUME NEW j \in Place, j < i
      PROVE  p[j + 1] \in Stroke
  BY <1>1, <1>2, Lengths DEF Place
<1>3. macro_buffer[k] \in [Place -> Stroke \cup {NoStroke}]
  BY DEF Types, Buffers
<1>4. [j \in Place |-> IF j < i THEN p[j + 1] ELSE macro_buffer[k][j]]
        \in [Place -> Stroke \cup {NoStroke}]
  BY <1>2, <1>3
<1> QED
  BY <1>4 DEF Types, Buffers, Stored

\* What commands do to the macros.
LEMMA CommandType ==
  ASSUME Types,
         \/ \E k \in Key, p \in Phrase : macro_set_phrase(k, p)
         \/ macro_init
         \/ \E s \in Saved, on \in BOOLEAN : flash_read_config(s, on)
  PROVE  macro_buffer' \in Buffers /\ macro_len' \in Lens
<1>1. ASSUME NEW k \in Key, NEW p \in Phrase, macro_set_phrase(k, p)
      PROVE  macro_buffer' \in Buffers /\ macro_len' \in Lens
  <2>1. Len(p) \in 0..(MACRO_MAXLEN - 2)
    <3>1. p \in Seq(Stroke)
      BY MacroAssumption
    <3> QED
      BY <1>1, <3>1, Lengths DEF macro_set_phrase
  <2>2. \E i \in 0..Len(p) : macro_buffer' = Stored(k, p, i)
    BY <1>1, <2>1, Lengths DEF macro_set_phrase
  <2>3. macro_len' = macro_len \/ macro_len' = [macro_len EXCEPT ![k] = Len(p)]
    BY <1>1 DEF macro_set_phrase
  <2>4. Len(p) <= MACRO_MAXLEN - 2
    BY <2>1, Lengths
  <2>5. macro_buffer' \in Buffers
    BY <2>2, <2>4, StoredType
  <2>6. macro_len' \in Lens
    BY <2>1, <2>3 DEF Types, Lens
  <2> QED
    BY <2>5, <2>6
<1>2. CASE macro_init
  BY <1>2, Lengths DEF macro_init, NoMacros, NoLength, Buffers, Lens
<1>3. ASSUME NEW s \in Saved, NEW on \in BOOLEAN, flash_read_config(s, on)
      PROVE  macro_buffer' \in Buffers /\ macro_len' \in Lens
  <2>1. ASSUME NEW k \in Key
        PROVE  /\ s[k] \in Seq(Stroke) /\ Len(s[k]) \in 0..(MACRO_MAXLEN - 2)
               /\ \A i \in Place : i < Len(s[k]) => s[k][i + 1] \in Stroke
    <3>1. s[k] \in Seq(Stroke) /\ Len(s[k]) <= MACRO_MAXLEN - 2
      BY MacroAssumption
    <3> QED
      BY <3>1, Lengths DEF Place
  <2> QED
    BY <1>3, <2>1 DEF flash_read_config, Buffers, Lens
<1> QED
  BY <1>1, <1>2, <1>3

\* keyboard_event changes one report.
LEMMA ReportType ==
  ASSUME Types, NEW stroke \in Stroke, NEW pressed \in BOOLEAN,
         NEW waited \in BOOLEAN, keyboard_event(stroke, pressed, waited)
  PROVE  report' \in Reports /\ UNCHANGED <<packet, host>>
<1>1. \/ report' = [report EXCEPT ![Active] = @ \cup {stroke}]
      \/ report' = [report EXCEPT ![Active] = @ \ {stroke}]
  BY DEF keyboard_event
<1>2. UNCHANGED <<packet, host>>
  BY DEF keyboard_event
<1> QED
  BY <1>1, <1>2 DEF Types, Reports

LEMMA RunType == Types /\ PlacesLeft /\ macro_run => Types' /\ PlacesLeft'
<1> SUFFICES ASSUME Types, PlacesLeft, macro_run PROVE Types' /\ PlacesLeft'
  OBVIOUS
<1>1. ASSUME NEW pressed \in BOOLEAN, send_if_idle(pressed)
      PROVE  report' \in Reports /\ packet' \in Reports /\ host' \in Reports
  <2>1. CASE UNCHANGED view
    BY <2>1 DEF view, Types
  <2>2. CASE Event # NoStroke /\ keyboard_event(Event, pressed, TRUE)
    BY <2>2, EventType, ReportType DEF Types
  <2> QED
    BY <1>1, <2>1, <2>2 DEF send_if_idle
<1>2. CASE RunPress \/ RunRelease
  <2>1. report' \in Reports /\ packet' \in Reports /\ host' \in Reports
    BY <1>1, <1>2 DEF RunPress, RunRelease
  <2>2. /\ UNCHANGED <<macros, macro_active, macro_key, macro_position,
                       nkro_active, down>>
        /\ macro_operation' \in {"PRESSED", "UNPRESSED"}
    BY <1>2 DEF RunPress, RunRelease
  <2> QED
    BY <2>1, <2>2 DEF Types, PlacesLeft, macros
<1>3. CASE RunNext
  <2>1. /\ macro_position' = macro_position + 1 /\ macro_operation' = "INIT"
        /\ macro_active' = (macro_position' < macro_len[macro_key])
        /\ UNCHANGED <<macros, macro_key, nkro_active, down, view>>
        /\ macro_active
    BY <1>3 DEF RunNext
  <2>2. macro_len[macro_key] \in 0..(MACRO_MAXLEN - 2)
    BY DEF Types, Lens
  <2>3. macro_position' \in Place
    BY <2>1, Lengths DEF PlacesLeft, Types, Place
  <2>4. PlacesLeft'
    <3>1. macro_active' => macro_position' < macro_len[macro_key]
      BY <2>1
    <3> QED
      BY <2>2, <2>3, <3>1, Lengths DEF PlacesLeft, Place
  <2>5. macro_active' \in BOOLEAN
    BY <2>1
  <2> QED
    BY <2>1, <2>3, <2>4, <2>5 DEF Types, macros, view
<1> QED
  BY <1>2, <1>3 DEF macro_run

LEMMA StartType ==
  ASSUME Types, NEW k \in Key, macro_event(k)
  PROVE  Types' /\ PlacesLeft'
BY Lengths DEF macro_event, Types, PlacesLeft, macros, view

LEMMA SwitchType ==
  ASSUME Types, PlacesLeft, NEW s \in SwitchStroke, SwitchEvent(s)
  PROVE  Types' /\ PlacesLeft'
<1>1. report' \in Reports /\ UNCHANGED <<packet, host>>
  <2>1. s \in Stroke
    BY MacroAssumption
  <2>2. keyboard_event(s, s \notin down, FALSE)
    BY DEF SwitchEvent
  <2>3. CASE s \in down
    <3>1. keyboard_event(s, FALSE, FALSE)
      BY <2>2, <2>3 DEF keyboard_event
    <3> QED
      BY <2>1, <3>1, ReportType
  <2>4. CASE s \notin down
    <3>1. keyboard_event(s, TRUE, FALSE)
      BY <2>2, <2>4 DEF keyboard_event
    <3> QED
      BY <2>1, <3>1, ReportType
  <2> QED
    BY <2>3, <2>4
<1>2. /\ down' \subseteq SwitchStroke
      /\ UNCHANGED <<macros, running, nkro_active>>
  BY DEF SwitchEvent, Types
<1> QED
  BY <1>1, <1>2 DEF Types, PlacesLeft, macros, running

LEMMA SendingType ==
  ASSUME Types, PlacesLeft, TypeOK, Sending
  PROVE  Types' /\ PlacesLeft'
<1>1. UNCHANGED <<macros, running, nkro_active, down, report>>
  BY DEF Sending, MWrite, MSpin, MHostPoll, MIdle, MReset, view
<1>2. packet' \in Reports /\ host' \in Reports
  <2>1. NoReport \in Reports
    BY DEF NoReport, Reports
  <2>2. CASE MWrite
    <3>1. packet' = packet \/ packet' = [packet EXCEPT ![ep] = report[ep]]
      BY <2>2 DEF MWrite
    <3> QED
      BY <2>2, <3>1 DEF MWrite, Types, Reports, TypeOK
  <2>3. ASSUME NEW e \in Endpoint, MHostPoll(e)
        PROVE  packet' \in Reports /\ host' \in Reports
    BY <2>3 DEF MHostPoll, Types, Reports
  <2>4. CASE MSpin \/ \E e \in Endpoint : MIdle(e)
    BY <2>4 DEF MSpin, MIdle, view, Types
  <2>5. CASE MReset
    BY <2>1, <2>5 DEF MReset
  <2> QED
    BY <2>2, <2>3, <2>4, <2>5 DEF Sending
<1> QED
  BY <1>1, <1>2 DEF Types, PlacesLeft, macros, running

LEMMA BotherType ==
  ASSUME Types, PlacesLeft, Bother
  PROVE  Types' /\ PlacesLeft'
<1>1. CASE \/ \E s \in SwitchStroke : SwitchEvent(s)
           \/ \E k \in Key : macro_event(k)
  BY <1>1, SwitchType, StartType
<1>2. CASE \/ \E k \in Key, p \in Phrase : macro_set_phrase(k, p)
           \/ macro_init
           \/ \E s \in Saved, on \in BOOLEAN : flash_read_config(s, on)
  <2>1. macro_buffer' \in Buffers /\ macro_len' \in Lens
    BY <1>2, CommandType
  <2>2. UNCHANGED <<running, down, view>> /\ nkro_active' \in BOOLEAN
    BY <1>2 DEF macro_set_phrase, macro_init, flash_read_config, Types
  <2> QED
    BY <2>1, <2>2 DEF Types, PlacesLeft, running, view
<1>3. ASSUME NEW on \in BOOLEAN, SetMode(on)
      PROVE  Types' /\ PlacesLeft'
  BY <1>3 DEF SetMode, Types, PlacesLeft, macros, running, view
<1> QED
  BY <1>1, <1>2, <1>3 DEF Bother

\* Every step keeps the types.
LEMMA StepTypes ==
  MTypeOK /\ PlacesLeft /\ TypeOK' /\ [MNext]_mvars => MTypeOK' /\ PlacesLeft'
<1> SUFFICES ASSUME MTypeOK, PlacesLeft, TypeOK', [MNext]_mvars
             PROVE  MTypeOK' /\ PlacesLeft'
  OBVIOUS
<1>1. CASE UNCHANGED mvars
  BY <1>1, MTypes
  DEF mvars, macros, running, view, ghosts, MTypeOK, PlacesLeft
<1>2. CASE MNext
  <2>1. Types' /\ PlacesLeft'
    BY <1>2, MTypes, StartType, RunType, SendingType, BotherType
    DEF MNext, Start, Typing
  <2>2. bothers' \in 0..MaxBothers
    <3>1. bothers \in 0..MaxBothers /\ MaxBothers \in Nat
      BY MTypes, MacroAssumption
    <3>2. bothers' = bothers \/ (bothers < MaxBothers /\ bothers' = bothers + 1)
      BY <1>2 DEF MNext
    <3> QED
      BY <3>1, <3>2
  <2>3. sure' \in BOOLEAN /\ cut' \in BOOLEAN
    <3>1. ASSUME NEW d, NEW c, Note(d, c)
          PROVE  sure' \in BOOLEAN /\ cut' \in BOOLEAN
      BY <3>1 DEF Note
    <3>2. Start \/ Typing \/ Sending => \E d, c \in BOOLEAN : Note(d, c)
      BY DEF Start, Typing, Sending
    <3>3. Bother => \E d, c : Note(d, c)
      BY DEF Bother
    <3> QED
      BY <1>2, <3>1, <3>2, <3>3 DEF MNext
  <2> QED
    BY <2>1, <2>2, <2>3 DEF MTypeOK, Types, Buffers, Lens, Reports
<1> QED
  BY <1>1, <1>2
-----------------------------------------------------------------------------
(* Whose strokes are down.                                                  *)

\* keyboard_event adds a stroke to the report of the mode, or takes it away.
LEMMA EventReport ==
  ASSUME Types, NEW stroke, NEW pressed \in BOOLEAN, NEW waited \in BOOLEAN,
         keyboard_event(stroke, pressed, waited)
  PROVE  \A e \in Endpoint :
           report'[e] = IF e # Active THEN report[e]
                        ELSE IF pressed THEN report[e] \cup {stroke}
                                        ELSE report[e] \ {stroke}
BY Endpoints DEF keyboard_event, Types, Reports

\* macro_run adds its own stroke, and takes it away again.
LEMMA RunOwn == Types /\ OnlyOwn /\ macro_run => OnlyOwn'
<1> SUFFICES ASSUME Types, OnlyOwn, macro_run PROVE OnlyOwn'
  OBVIOUS
<1>1. CASE RunPress
  <2>1. /\ UNCHANGED <<macros, macro_active, macro_key, macro_position,
                       nkro_active, down>>
        /\ macro_active /\ macro_operation = "INIT"
        /\ macro_operation' = "PRESSED"
    BY <1>1 DEF RunPress
  <2>2. OwnStroke = {} /\ OwnStroke' = {Event} /\ Active' = Active
    BY <2>1 DEF OwnStroke, Event, Active, macros
  <2>3. CASE UNCHANGED view
    BY <2>1, <2>2, <2>3 DEF OnlyOwn, view
  <2>4. CASE keyboard_event(Event, TRUE, TRUE)
    <3>1. \A e \in Endpoint :
            report'[e] = IF e # Active THEN report[e] ELSE report[e] \cup {Event}
      BY <2>4, EventReport
    <3> QED
      BY <2>1, <2>2, <3>1 DEF OnlyOwn
  <2> QED
    BY <1>1, <2>3, <2>4 DEF RunPress, send_if_idle
<1>2. CASE RunRelease
  <2>1. /\ UNCHANGED <<macros, macro_active, macro_key, macro_position,
                       nkro_active, down>>
        /\ macro_active /\ macro_operation = "PRESSED"
        /\ macro_operation' = "UNPRESSED"
    BY <1>2 DEF RunRelease
  <2>2. OwnStroke = {Event} /\ OwnStroke' = {} /\ Active' = Active
    BY <2>1 DEF OwnStroke, Active
  <2>3. CASE Event = NoStroke /\ UNCHANGED view
    <3>1. \A e \in Endpoint : Event \notin report[e]
      BY <2>3, MacroAssumption DEF Types, Reports
    <3> QED
      BY <2>1, <2>2, <2>3, <3>1 DEF OnlyOwn, view
  <2>4. CASE keyboard_event(Event, FALSE, TRUE)
    <3>1. \A e \in Endpoint :
            report'[e] = IF e # Active THEN report[e] ELSE report[e] \ {Event}
      BY <2>4, EventReport
    <3> QED
      BY <2>1, <2>2, <3>1 DEF OnlyOwn
  <2> QED
    BY <1>2, <2>3, <2>4 DEF RunRelease, send_if_idle
<1>3. CASE RunNext
  <2>1. /\ macro_operation = "UNPRESSED" /\ macro_operation' = "INIT"
        /\ UNCHANGED <<nkro_active, down, report>>
    BY <1>3 DEF RunNext, view
  <2>2. OwnStroke = {} /\ OwnStroke' = {} /\ Active' = Active
    BY <2>1 DEF OwnStroke, Active
  <2> QED
    BY <2>1, <2>2 DEF OnlyOwn
<1> QED
  BY <1>1, <1>2, <1>3 DEF macro_run

\* A macro begins with nothing of its own down.
LEMMA StartOwn ==
  ASSUME OnlyOwn, NEW k \in Key, ~macro_active, macro_event(k)
  PROVE  OnlyOwn'
<1>1. UNCHANGED <<nkro_active, down, report>>
  BY DEF macro_event, view
<1>2. OwnStroke = {} /\ OwnStroke' = {} /\ Active' = Active
  BY <1>1 DEF OwnStroke, Active, macro_event
<1> QED
  BY <1>1, <1>2 DEF OnlyOwn

\* A switch adds its stroke to the report and to those that switches hold, or
\* takes it from both.
LEMMA SwitchOwn ==
  ASSUME Types, OnlyOwn, NEW s \in SwitchStroke, SwitchEvent(s)
  PROVE  OnlyOwn'
<1>1. /\ down' = IF s \in down THEN down \ {s} ELSE down \cup {s}
      /\ UNCHANGED <<macros, running, nkro_active>>
      /\ keyboard_event(s, s \notin down, FALSE)
  BY DEF SwitchEvent
<1>2. OwnStroke' = OwnStroke /\ Active' = Active
  BY <1>1 DEF OwnStroke, Active, Event, macros, running
<1>3. CASE s \in down
  <2>1. \A e \in Endpoint :
          report'[e] = IF e # Active THEN report[e] ELSE report[e] \ {s}
    <3>1. keyboard_event(s, FALSE, FALSE)
      BY <1>1, <1>3 DEF keyboard_event
    <3> QED
      BY <3>1, EventReport
  <2> QED
    BY <1>1, <1>2, <1>3, <2>1 DEF OnlyOwn
<1>4. CASE s \notin down
  <2>1. \A e \in Endpoint :
          report'[e] = IF e # Active THEN report[e] ELSE report[e] \cup {s}
    <3>1. keyboard_event(s, TRUE, FALSE)
      BY <1>1, <1>4 DEF keyboard_event
    <3> QED
      BY <3>1, EventReport
  <2> QED
    BY <1>1, <1>2, <1>4, <2>1 DEF OnlyOwn
<1> QED
  BY <1>3, <1>4

LEMMA SendingOwn == OnlyOwn /\ Sending => OnlyOwn'
<1> SUFFICES ASSUME OnlyOwn, Sending PROVE OnlyOwn'
  OBVIOUS
<1>1. UNCHANGED <<macros, running, nkro_active, down, report>>
  BY DEF Sending, MWrite, MSpin, MHostPoll, MIdle, MReset, view
<1>2. OwnStroke' = OwnStroke /\ Active' = Active
  BY <1>1 DEF OwnStroke, Active, Event, macros, running
<1> QED
  BY <1>1, <1>2 DEF OnlyOwn

\* A command that does not touch the macro that runs.
LEMMA PhraseOwn ==
  ASSUME Types, OnlyOwn, NEW k \in Key, NEW p \in Phrase,
         macro_set_phrase(k, p), ~(macro_active /\ macro_key = k)
  PROVE  OnlyOwn'
<1>1. /\ UNCHANGED <<running, nkro_active, down, report>>
      /\ \E i : macro_buffer' = Stored(k, p, i)
  BY DEF macro_set_phrase, view
<1>2. macro_active => Event' = Event
  BY <1>1 DEF Event, Stored, Types, Buffers, running
<1>3. OwnStroke' = OwnStroke /\ Active' = Active
  BY <1>1, <1>2 DEF OwnStroke, Active, running
<1> QED
  BY <1>1, <1>3 DEF OnlyOwn

\* With no macro under way, or nothing down at all, the reports stand as they
\* are whatever the macros and the mode become.
LEMMA RestOwn ==
  ASSUME OnlyOwn, ~macro_active, UNCHANGED <<running, down, report>>,
         AllUp \/ UNCHANGED nkro_active
  PROVE  OnlyOwn'
<1>1. OwnStroke = {} /\ OwnStroke' = {}
  BY DEF OwnStroke, running
<1>2. CASE AllUp
  BY <1>1, <1>2 DEF OnlyOwn, AllUp, NoReport
<1>3. CASE UNCHANGED nkro_active
  BY <1>1, <1>3 DEF OnlyOwn, Active
<1> QED
  BY <1>2, <1>3

LEMMA UpOwn == AllUp' => OnlyOwn'
BY DEF AllUp, OnlyOwn, NoReport
\* Those who change a macro that runs note that they cut it; the note is
\* given up when nothing is down.
LEMMA BotherOwn == Types /\ OwnStrokes /\ Bother => OwnStrokes'
<1> SUFFICES ASSUME Types, OwnStrokes, Bother, ~cut', ~AllUp' PROVE OnlyOwn'
  BY UpOwn DEF OwnStrokes
<1>1. ASSUME NEW s \in SwitchStroke, SwitchEvent(s), Note(TRUE, FALSE)
      PROVE  OnlyOwn'
  BY <1>1, SwitchOwn DEF OwnStrokes, Note
<1>2. ASSUME NEW k \in Key, macro_event(k), Note(TRUE, TRUE)
      PROVE  OnlyOwn'
  BY <1>2 DEF Note
<1>3. ASSUME NEW k \in Key, NEW p \in Phrase, macro_set_phrase(k, p),
             Note(macro_active /\ macro_key = k, macro_active /\ macro_key = k)
      PROVE  OnlyOwn'
  BY <1>3, PhraseOwn DEF OwnStrokes, Note
<1>4. CASE macro_init /\ Note(macro_active, macro_active)
  <2>1. ~macro_active /\ OnlyOwn
    BY <1>4 DEF OwnStrokes, Note
  <2> QED
    BY <1>4, <2>1, RestOwn DEF macro_init, view
<1>5. ASSUME NEW s \in Saved, NEW on \in BOOLEAN, flash_read_config(s, on),
             Note(~AllUp, ~AllUp)
      PROVE  OnlyOwn'
  <2>1. AllUp /\ OnlyOwn
    BY <1>5 DEF OwnStrokes, Note
  <2>2. ~macro_active
    BY <2>1 DEF AllUp
  <2> QED
    BY <1>5, <2>1, <2>2, RestOwn DEF flash_read_config, view
<1>6. ASSUME NEW on \in BOOLEAN, SetMode(on),
             Note(on # nkro_active /\ ~AllUp, on # nkro_active /\ ~AllUp)
      PROVE  OnlyOwn'
  <2>1. OnlyOwn /\ (on = nkro_active \/ AllUp)
    BY <1>6 DEF OwnStrokes, Note
  <2>2. UNCHANGED <<macros, running, down, report>> /\ nkro_active' = on
    BY <1>6 DEF SetMode, view
  <2>3. CASE on = nkro_active
    <3>1. OwnStroke' = OwnStroke /\ Active' = Active
      BY <2>2, <2>3 DEF OwnStroke, Active, Event, macros, running
    <3> QED
      BY <2>1, <2>2, <3>1 DEF OnlyOwn
  <2>4. CASE AllUp
    <3>1. ~macro_active
      BY <2>4 DEF AllUp
    <3> QED
      BY <2>1, <2>2, <2>4, <3>1, RestOwn
  <2> QED
    BY <2>1, <2>3, <2>4
<1> QED
  BY <1>1, <1>2, <1>3, <1>4, <1>5, <1>6 DEF Bother

LEMMA StepOwn == Types /\ OwnStrokes /\ [MNext]_mvars => OwnStrokes'
<1> SUFFICES ASSUME Types, OwnStrokes, [MNext]_mvars PROVE OwnStrokes'
  OBVIOUS
<1>1. CASE UNCHANGED mvars
  BY <1>1 DEF mvars, macros, running, view, ghosts, OwnStrokes, OnlyOwn,
              OwnStroke, Active, Event
<1>2. CASE Start \/ Typing \/ Sending
  <2> SUFFICES ASSUME ~cut', ~AllUp' PROVE OnlyOwn'
    BY UpOwn DEF OwnStrokes
  <2>1. OnlyOwn
    BY <1>2 DEF OwnStrokes, Start, Typing, Sending, Note
  <2> QED
    BY <1>2, <2>1, StartOwn, RunOwn, SendingOwn DEF Start, Typing
<1>3. CASE Bother
  BY <1>3, BotherOwn
<1> QED
  BY <1>1, <1>2, <1>3 DEF MNext

-----------------------------------------------------------------------------
(* The theorems.                                                            *)

LEMMA InitMacroInv == MInit /\ UsbInv => MacroInv
<1> SUFFICES ASSUME MInit, UsbInv PROVE MacroInv
  OBVIOUS
<1>1. TypeOK
  BY DEF UsbInv
<1>2. NoMacros \in Buffers /\ NoLength \in Lens /\ NoReport \in Reports
  BY Lengths DEF NoMacros, NoLength, NoReport, Buffers, Lens, Reports
<1>3. 0 \in 0..MaxBothers
  BY MacroAssumption
<1>4. Types
  BY <1>2, Lengths DEF MInit, Types
<1>5. MTypeOK
  BY <1>1, <1>3, <1>4, MTypes DEF MInit
<1>6. PlacesLeft /\ OwnStrokes
  BY DEF MInit, PlacesLeft, OwnStrokes, OnlyOwn, NoReport
<1> QED
  BY <1>5, <1>6 DEF MacroInv

\* UsbInv and MacroInv are invariants.
LEMMA MacroInvHolds == MSpec => [](UsbInv /\ MacroInv)
<1>1. MInit => UsbInv /\ MacroInv
  BY InitInv, InitMacroInv DEF MInit
<1>2. UsbInv /\ MacroInv /\ [MNext]_mvars => UsbInv' /\ MacroInv'
  <2> SUFFICES ASSUME UsbInv, MacroInv, [MNext]_mvars
               PROVE  UsbInv' /\ MacroInv'
    OBVIOUS
  <2>1. UsbInv' /\ TypeOK'
    <3>1. UsbInv'
      BY UsbStep, StepInv
    <3> QED
      BY <3>1 DEF UsbInv
  <2>2. MTypeOK /\ PlacesLeft /\ OwnStrokes
    BY DEF MacroInv
  <2>3. MTypeOK' /\ PlacesLeft'
    BY <2>1, <2>2, StepTypes
  <2>4. OwnStrokes'
    BY <2>2, StepOwn, MTypes
  <2> QED
    BY <2>1, <2>3, <2>4 DEF MacroInv
<1> QED
  BY <1>1, <1>2, PTL DEF MSpec

\* Every variable of Macro keeps its type: macro_position stays inside the
\* buffer however often the macro is redefined, cleared and restarted while it
\* runs.
THEOREM MacroTypeCorrect == MSpec => []MTypeOK
<1>1. MacroInv => MTypeOK
  BY DEF MacroInv
<1> QED
  BY <1>1, MacroInvHolds, PTL

\* With macros and switches as their clients the endpoints keep what Usb
\* promises of them.
THEOREM MacroKeepsUsb == MSpec => []WakeUpPending /\ []BusyOnlyIfCrowded
<1>1. UsbInv => WakeUpPending /\ BusyOnlyIfCrowded
  BY DEF UsbInv
<1> QED
  BY <1>1, MacroInvHolds, PTL

\* A macro that was not restarted, redefined or moved to the other mode leaves
\* none of its strokes in a report, whatever the switches did meanwhile.
THEOREM MacroLetsGo == MSpec => []NothingLeftDown
<1>1. MacroInv => NothingLeftDown
  <2> SUFFICES ASSUME MacroInv, ~macro_active, ~cut, NEW e \in Endpoint
               PROVE  report[e] \subseteq down
    BY DEF NothingLeftDown
  <2>1. OwnStroke = {} /\ OnlyOwn
    BY DEF MacroInv, OwnStrokes, OwnStroke
  <2> QED
    BY <2>1 DEF OnlyOwn
<1> QED
  BY <1>1, MacroInvHolds, PTL

-----------------------------------------------------------------------------
(* TypingInv: while nobody interferes, one report at a time is under way.   *)

\* All that macro_set_phrase, macro_init and flash_read_config count in
\* macro_len are strokes.
LEMMA StoredNoHoles ==
  ASSUME Types, NoHoles, NEW k \in Key, NEW p \in Phrase, macro_set_phrase(k, p)
  PROVE  NoHoles'
<1>1. p \in Seq(Stroke) /\ Len(p) \in Nat
  BY MacroAssumption
<1>2. ASSUME NEW i \in Nat, NEW j \in Place, j < i, i <= Len(p)
      PROVE  p[j + 1] # NoStroke
  <2>1. j \in Nat /\ j + 1 \in 1..Len(p)
    BY <1>1, <1>2, Lengths DEF Place
  <2> QED BY <1>1, <2>1, MacroAssumption
<1>3. PICK i \in 0..Len(p) :
        /\ macro_buffer' = Stored(k, p, i)
        /\ \/ i = Len(p) /\ macro_len' = [macro_len EXCEPT ![k] = Len(p)]
           \/ UNCHANGED macro_len
  BY <1>1 DEF macro_set_phrase
<1>4. \A l \in Key, j \in Place :
        macro_buffer'[l][j] = IF l = k /\ j < i THEN p[j + 1] ELSE macro_buffer[l][j]
  BY <1>3 DEF Stored, Types, Buffers
<1>5. \A l \in Key : macro_len'[l] = macro_len[l] \/ (l = k /\ macro_len'[l] = i)
  BY <1>3 DEF Types, Lens
<1> QED BY <1>1, <1>2, <1>4, <1>5 DEF NoHoles, Place

LEMMA StepNoHoles == Types /\ NoHoles /\ [MNext]_mvars => NoHoles'
<1> SUFFICES ASSUME Types, NoHoles, [MNext]_mvars PROVE NoHoles'
  OBVIOUS
<1>1. CASE UNCHANGED macros
  BY <1>1 DEF macros, NoHoles
<1>2. Start \/ Typing \/ Sending \/ UNCHANGED mvars => UNCHANGED macros
  BY DEF Start, macro_event, Typing, macro_run, RunPress, RunRelease, RunNext,
         Sending, MWrite, MSpin, MHostPoll, MIdle, MReset, mvars
<1>3. CASE Bother
  <2>1. ASSUME \/ \E s \in SwitchStroke : SwitchEvent(s)
               \/ \E k \in Key : macro_event(k)
               \/ \E on \in BOOLEAN : SetMode(on)
        PROVE  UNCHANGED macros
    BY <2>1 DEF SwitchEvent, macro_event, SetMode
  <2>2. CASE macro_init
    BY <2>2, Lengths DEF macro_init, NoLength, NoHoles, Place
  <2>3. ASSUME NEW s \in Saved, NEW on \in BOOLEAN, flash_read_config(s, on)
        PROVE  NoHoles'
    <3> SUFFICES ASSUME NEW k \in Key, NEW i \in Place, i < macro_len'[k]
                 PROVE  macro_buffer'[k][i] # NoStroke
      BY DEF NoHoles
    <3>1. macro_len'[k] = Len(s[k]) /\ s[k] \in Seq(Stroke)
      BY <2>3, MacroAssumption DEF flash_read_config
    <3>2. macro_buffer'[k][i] = s[k][i + 1]
      BY <2>3, <3>1 DEF flash_read_config
    <3>3. i + 1 \in 1..Len(s[k])
      BY <3>1, Lengths DEF Place
    <3> QED BY <3>1, <3>2, <3>3, MacroAssumption
  <2> QED BY <1>1, <1>3, <2>1, <2>2, <2>3, StoredNoHoles DEF Bother
<1> QED BY <1>1, <1>2, <1>3 DEF MNext

\* When all is quiet, typing may begin.
LEMMA QuietSteady == Types' /\ TypeOK' /\ Quiet' => Steady'
<1> SUFFICES ASSUME Types', TypeOK', Quiet' PROVE Steady'
  OBVIOUS
<1>1. /\ report' = NoReport /\ down' = {} /\ ~macro_active' /\ host' = NoReport
      /\ configured' /\ pc' = "rest"
      /\ \A e \in Endpoint : idle'[e] /\ e \notin full' /\ e \notin ctr'
  BY DEF Quiet, AllUp, Through
<1>2. AtAStroke' /\ OneAtATime'
  BY <1>1 DEF AtAStroke, OneAtATime, Unseen
<1>3. OneStroke' /\ HostFollows'
  BY <1>1 DEF OneStroke, OwnStroke, HostFollows, Unseen, NoReport
<1> QED BY <1>2, <1>3 DEF Steady

\* With every endpoint idle nothing is under way and the host is in step.
LEMMA IdleIsSeen ==
  ASSUME OneAtATime, HostFollows, \A e \in Endpoint : idle[e], pc = "rest"
  PROVE  /\ full \cap Endpoint = {} /\ ctr \cap Endpoint = {}
         /\ \A e \in Endpoint : ~Unseen(e) /\ host[e] = report[e]
BY DEF OneAtATime, HostFollows, Unseen

\* A report that waited for its turn is the only one under way.
LEMMA SentSteady ==
  ASSUME Types, TypeOK, OneAtATime, HostFollows,
         \A e \in Endpoint : idle[e],
         SendIfIdle(Active), UNCHANGED <<nkro_active, packet, host>>,
         \A e \in Endpoint : report[e] = {} \/ e = Active,
         \A e \in Endpoint \ {Active} : report'[e] = report[e]
  PROVE  OneAtATime' /\ HostFollows'
<1>1. /\ pc = "rest" /\ pc' = "write" /\ ep' = Active
      /\ idle' = [idle EXCEPT ![Active] = FALSE]
      /\ UNCHANGED <<full, ctr, configured>>
  BY DEF SendIfIdle, Update
<1>2. /\ full \cap Endpoint = {} /\ ctr \cap Endpoint = {}
      /\ \A e \in Endpoint : host[e] = report[e]
  BY <1>1, IdleIsSeen
<1>3. full' = {} /\ ctr' = {}
  BY <1>1, <1>2 DEF TypeOK
<1>4. \A e \in Endpoint : idle'[e] <=> e # Active
  BY <1>1, Endpoints DEF TypeOK
<1>5. OneAtATime'
  BY <1>1, <1>3, <1>4 DEF OneAtATime, Unseen
<1>6. HostFollows'
  BY <1>1, <1>2, <1>3 DEF HostFollows, Unseen
<1> QED BY <1>5, <1>6

\* The event macro_run is at is a stroke, or its macro is empty.
LEMMA AtAStrokeOr ==
  ASSUME Types, NoHoles, AtAStroke, macro_active, Event = NoStroke
  PROVE  macro_position = 0 /\ macro_len[macro_key] = 0
<1>1. macro_len[macro_key] \in Nat /\ macro_position \in Place
  BY Lengths DEF Types, Lens
<1>2. ~(macro_position < macro_len[macro_key])
  BY <1>1 DEF Types, NoHoles, Event
<1> QED BY <1>1, <1>2 DEF AtAStroke

\* The press and the release of a stroke.
LEMMA PressSteady ==
  ASSUME Types, TypeOK, Steady, RunPress
  PROVE  Steady'
<1>1. /\ UNCHANGED <<macros, macro_active, macro_key, macro_position,
                     nkro_active, down>>
      /\ macro_active /\ macro_operation = "INIT"
      /\ macro_operation' = "PRESSED" /\ send_if_idle(TRUE)
  BY DEF RunPress
<1>2. /\ OwnStroke = {} /\ OwnStroke' = {Event} /\ Active' = Active
      /\ \A e \in Endpoint : report[e] = {}
  BY <1>1 DEF OwnStroke, Event, Active, macros, Steady, OneStroke
<1>3. AtAStroke' /\ down' = {}
  BY <1>1 DEF Steady, AtAStroke, OneStroke, macros
<1>4. CASE Event = NoStroke /\ UNCHANGED <<vars, view>>
  <2>1. OneAtATime' /\ HostFollows'
    BY <1>4 DEF vars, main, view, Steady, OneAtATime, HostFollows, Unseen
  <2>2. OneStroke'
    BY <1>2, <1>3, <1>4 DEF OneStroke, view
  <2> QED BY <1>3, <2>1, <2>2 DEF Steady
<1>5. CASE /\ Event # NoStroke /\ \A e \in Keyboards : idle[e]
           /\ keyboard_event(Event, TRUE, TRUE)
  <2>1. \A e \in Endpoint :
          report'[e] = IF e # Active THEN report[e] ELSE report[e] \cup {Event}
    BY <1>5, EventReport
  <2>2. SendIfIdle(Active) /\ UNCHANGED <<packet, host>>
    BY <1>5 DEF keyboard_event
  <2>3. \A e \in Endpoint : idle[e]
    BY <1>5, MacroAssumption
  <2>4. OneAtATime' /\ HostFollows'
    BY <1>1, <1>2, <2>1, <2>2, <2>3, SentSteady DEF Steady
  <2>5. OneStroke'
    BY <1>2, <1>3, <1>5, <2>1 DEF OneStroke
  <2> QED BY <1>3, <2>4, <2>5 DEF Steady
<1> QED BY <1>1, <1>4, <1>5 DEF send_if_idle

LEMMA ReleaseSteady ==
  ASSUME Types, TypeOK, Steady, RunRelease
  PROVE  Steady'
<1>1. /\ UNCHANGED <<macros, macro_active, macro_key, macro_position,
                     nkro_active, down>>
      /\ macro_active /\ macro_operation = "PRESSED"
      /\ macro_operation' = "UNPRESSED" /\ send_if_idle(FALSE)
  BY DEF RunRelease
<1>2. /\ OwnStroke = {Event} /\ OwnStroke' = {} /\ Active' = Active
      /\ \A e \in Endpoint :
           report[e] = IF e = Active THEN {Event} \ {NoStroke} ELSE {}
  BY <1>1 DEF OwnStroke, Active, Steady, OneStroke
<1>3. AtAStroke' /\ down' = {}
  BY <1>1 DEF Steady, AtAStroke, OneStroke, macros
<1>4. CASE Event = NoStroke /\ UNCHANGED <<vars, view>>
  <2>1. OneAtATime' /\ HostFollows'
    BY <1>4 DEF vars, main, view, Steady, OneAtATime, HostFollows, Unseen
  <2>2. OneStroke'
    BY <1>2, <1>3, <1>4 DEF OneStroke, view
  <2> QED BY <1>3, <2>1, <2>2 DEF Steady
<1>5. CASE /\ Event # NoStroke /\ \A e \in Keyboards : idle[e]
           /\ keyboard_event(Event, FALSE, TRUE)
  <2>1. \A e \in Endpoint :
          report'[e] = IF e # Active THEN report[e] ELSE report[e] \ {Event}
    BY <1>5, EventReport
  <2>2. SendIfIdle(Active) /\ UNCHANGED <<packet, host>>
    BY <1>2, <1>5, Endpoints DEF keyboard_event
  <2>3. \A e \in Endpoint : idle[e]
    BY <1>5, MacroAssumption
  <2>4. OneAtATime' /\ HostFollows'
    BY <1>1, <1>2, <2>1, <2>2, <2>3, SentSteady DEF Steady
  <2>5. OneStroke'
    BY <1>2, <1>3, <1>5, <2>1 DEF OneStroke
  <2> QED BY <1>3, <2>4, <2>5 DEF Steady
<1> QED BY <1>1, <1>4, <1>5 DEF send_if_idle

LEMMA NextSteady ==
  ASSUME Types, Steady, RunNext
  PROVE  Steady'
<1>1. /\ macro_operation = "UNPRESSED" /\ macro_operation' = "INIT"
      /\ macro_active' = (macro_position' < macro_len[macro_key])
      /\ UNCHANGED <<vars, macros, macro_key, nkro_active, down, view>>
  BY DEF RunNext
<1>2. AtAStroke'
  BY <1>1 DEF AtAStroke, macros
<1>3. OneAtATime' /\ HostFollows'
  BY <1>1 DEF vars, main, view, Steady, OneAtATime, HostFollows, Unseen
<1>4. OwnStroke = {} /\ OwnStroke' = {} /\ Active' = Active
  BY <1>1 DEF OwnStroke, Active
<1>5. OneStroke'
  BY <1>1, <1>4 DEF Steady, OneStroke, view
<1> QED BY <1>2, <1>3, <1>5 DEF Steady

\* A macro that starts changes nothing else.
LEMMA StartSteady ==
  ASSUME Steady, NEW k \in Key, ~macro_active, macro_event(k)
  PROVE  Steady'
<1>1. /\ macro_position' = 0 /\ macro_operation' = "INIT"
      /\ UNCHANGED <<vars, macros, nkro_active, down, view>>
  BY DEF macro_event
<1>2. OwnStroke = {} /\ OwnStroke' = {} /\ Active' = Active
  BY <1>1 DEF OwnStroke, Active
<1>3. AtAStroke'
  BY <1>1 DEF AtAStroke
<1>4. OneAtATime' /\ HostFollows'
  BY <1>1 DEF vars, main, view, Steady, OneAtATime, HostFollows, Unseen
<1>5. OneStroke'
  BY <1>1, <1>2 DEF Steady, OneStroke, view
<1> QED BY <1>3, <1>4, <1>5 DEF Steady

\* On its way to the host a report is in one place after the other.
LEMMA SendingSteady ==
  ASSUME Types, TypeOK, Steady,
         MWrite \/ MSpin \/ \E e \in Endpoint : MHostPoll(e) \/ MIdle(e)
  PROVE  Steady'
<1>1. UNCHANGED <<macros, running, nkro_active, down, report>>
  BY DEF MWrite, MSpin, MHostPoll, MIdle, view
<1>2. OwnStroke' = OwnStroke /\ Active' = Active
  BY <1>1 DEF OwnStroke, Active, Event, macros, running
<1>3. AtAStroke' /\ OneStroke'
  BY <1>1, <1>2 DEF Steady, AtAStroke, OneStroke, macros, running
<1>4. CASE MWrite
  <2>1. ep \notin full
    BY <1>4 DEF MWrite, Write, Steady, OneAtATime
  <2>2. /\ pc = "write" /\ pc' = "rest" /\ full' = full \cup {ep} /\ ep \in Endpoint
        /\ packet' = [packet EXCEPT ![ep] = report[ep]]
        /\ UNCHANGED <<idle, ctr, configured, ep, host>>
    BY <1>4, <2>1 DEF MWrite, Write, TypeOK
  <2>3. \A e \in Endpoint : Unseen(e)' = Unseen(e)
    BY <2>2 DEF Unseen
  <2>4. OneAtATime'
    BY <2>2, <2>3 DEF Steady, OneAtATime
  <2>5. \A e \in Endpoint : e \in full' => packet'[e] = report[e]
    BY <2>2 DEF Steady, HostFollows, Types, Reports
  <2>6. HostFollows'
    BY <1>1, <2>2, <2>3, <2>5 DEF Steady, HostFollows
  <2> QED BY <1>3, <2>4, <2>6 DEF Steady
<1>5. ASSUME NEW e \in Endpoint, MHostPoll(e)
      PROVE  OneAtATime' /\ HostFollows'
  <2>1. /\ e \in full /\ full' = full \ {e} /\ ctr' = ctr \cup {e}
        /\ host' = [host EXCEPT ![e] = packet[e]]
        /\ packet' = [packet EXCEPT ![e] = {}]
        /\ UNCHANGED <<idle, configured, pc, ep>>
    BY <1>5 DEF MHostPoll, HostPoll, main
  <2>2. Unseen(e) /\ ~idle[e] /\ packet[e] = report[e]
    BY <2>1 DEF Steady, OneAtATime, HostFollows, Unseen
  <2>3. ASSUME NEW f \in Endpoint, f # e
        PROVE  idle[f] /\ ~Unseen(f) /\ f \notin ctr
    BY <2>2, <2>3 DEF Steady, OneAtATime
  <2>4. pc = "rest"
    BY <2>1, <2>3 DEF Steady, OneAtATime, Unseen, TypeOK
  <2>5. \A f \in Endpoint : ~Unseen(f)'
    BY <2>1, <2>3, <2>4 DEF Unseen
  <2>6. OneAtATime'
    BY <2>1, <2>2, <2>3, <2>4, <2>5 DEF Steady, OneAtATime
  <2>7. \A f \in Endpoint : host'[f] = report[f]
    BY <2>1, <2>2, <2>3 DEF Steady, HostFollows, Types, Reports
  <2>8. \A f \in Endpoint : f \notin full'
    BY <2>5 DEF Unseen
  <2> QED BY <1>1, <2>5, <2>6, <2>7, <2>8 DEF HostFollows
<1>6. ASSUME NEW e \in Endpoint, MIdle(e)
      PROVE  OneAtATime' /\ HostFollows'
  <2>1. /\ e \in ctr /\ ctr' = ctr \ {e} /\ idle' = [idle EXCEPT ![e] = TRUE]
        /\ UNCHANGED <<full, configured, pc, ep, packet, host>>
    BY <1>6 DEF MIdle, usb_endpoint_idle, main, view
  <2>2. \A f \in Endpoint : idle'[f] = (idle[f] \/ f = e)
    BY <2>1 DEF TypeOK
  <2>3. \A f \in Endpoint : Unseen(f)' = Unseen(f)
    BY <2>1 DEF Unseen
  <2>4. OneAtATime'
    BY <2>1, <2>2, <2>3 DEF Steady, OneAtATime
  <2>5. HostFollows'
    BY <1>1, <2>1, <2>3 DEF Steady, HostFollows
  <2> QED BY <2>4, <2>5
<1>7. ~MSpin
  BY DEF MSpin, Spin, Steady, OneAtATime
<1> QED BY <1>3, <1>4, <1>5, <1>6, <1>7 DEF Steady

\* A command that leaves the macro that runs alone, and the mode while
\* anything is down.
Spares ==
  /\ UNCHANGED <<vars, running, down, view>>
  /\ \/ AllUp
     \/ /\ UNCHANGED nkro_active
        /\ macro_active => /\ macro_buffer'[macro_key] = macro_buffer[macro_key]
                           /\ macro_len'[macro_key] = macro_len[macro_key]

LEMMA SparesSteady == Steady /\ Spares => Steady'
<1> SUFFICES ASSUME Steady, Spares PROVE Steady'
  OBVIOUS
<1>1. OneAtATime' /\ HostFollows'
  BY DEF Spares, vars, main, view, Steady, OneAtATime, HostFollows, Unseen
<1>2. CASE AllUp
  <2>1. ~macro_active' /\ down' = {} /\ report' = NoReport
    BY <1>2 DEF Spares, AllUp, running, view
  <2>2. AtAStroke' /\ OneStroke'
    BY <2>1 DEF AtAStroke, OneStroke, OwnStroke, NoReport
  <2> QED BY <1>1, <2>2 DEF Steady
<1>3. CASE ~AllUp
  <2>1. UNCHANGED <<nkro_active, down, report, macro_active, macro_key,
                    macro_position, macro_operation>>
    BY <1>3 DEF Spares, running, view
  <2>2. macro_active => Event' = Event /\ macro_len'[macro_key] = macro_len[macro_key]
    BY <1>3, <2>1 DEF Spares, Event
  <2>3. OwnStroke' = OwnStroke /\ Active' = Active
    BY <2>1, <2>2 DEF OwnStroke, Active
  <2>4. AtAStroke' /\ OneStroke'
    BY <2>1, <2>2, <2>3 DEF Steady, AtAStroke, OneStroke
  <2> QED BY <1>1, <2>4 DEF Steady
<1> QED BY <1>2, <1>3

\* Who disturbs typing takes the promise away; a command that keeps it spares
\* the macro.
LEMMA BotherSpares ==
  ASSUME Types, sure, Steady, Bother, sure'
  PROVE  \/ \E k \in Key, p \in Phrase : macro_set_phrase(k, p) /\ Spares
         \/ macro_init /\ Spares
         \/ \E s \in Saved, on \in BOOLEAN : flash_read_config(s, on) /\ Spares
         \/ \E on \in BOOLEAN : SetMode(on) /\ Spares
<1>1. \A d, c : Note(d, c) => ~d \/ Quiet'
  BY DEF Note
<1>2. ASSUME Quiet' PROVE ~macro_active' /\ down' = {} /\ AllUp'
  BY <1>2 DEF Quiet, AllUp
<1>3. ASSUME NEW s \in SwitchStroke, SwitchEvent(s), Note(TRUE, FALSE)
      PROVE  FALSE
  <2>1. down = {} /\ down' = IF s \in down THEN down \ {s} ELSE down \cup {s}
    BY <1>3 DEF SwitchEvent, Steady, OneStroke
  <2> QED BY <1>1, <1>2, <1>3, <2>1
<1>4. ASSUME NEW k \in Key, macro_event(k), Note(TRUE, TRUE)
      PROVE  FALSE
  BY <1>1, <1>2, <1>4 DEF macro_event
<1>5. ASSUME NEW k \in Key, NEW p \in Phrase, macro_set_phrase(k, p),
             Note(macro_active /\ macro_key = k, macro_active /\ macro_key = k)
      PROVE  Spares
  <2>1. /\ UNCHANGED <<vars, running, nkro_active, down, view>>
        /\ \E i : macro_buffer' = Stored(k, p, i)
        /\ macro_len' = macro_len \/ macro_len' = [macro_len EXCEPT ![k] = Len(p)]
    BY <1>5 DEF macro_set_phrase
  <2>2. ~(macro_active /\ macro_key = k)
    BY <1>1, <1>2, <1>5, <2>1 DEF running
  <2>3. macro_active => /\ macro_buffer'[macro_key] = macro_buffer[macro_key]
                        /\ macro_len'[macro_key] = macro_len[macro_key]
    BY <2>1, <2>2 DEF Stored, Types, Buffers, Lens
  <2> QED BY <2>1, <2>3 DEF Spares
<1>6. CASE macro_init /\ Note(macro_active, macro_active)
  <2>1. ~macro_active
    BY <1>1, <1>2, <1>6 DEF macro_init, running
  <2> QED BY <1>6, <2>1 DEF macro_init, Spares
<1>7. ASSUME NEW s \in Saved, NEW on \in BOOLEAN, flash_read_config(s, on),
             Note(~AllUp, ~AllUp)
      PROVE  Spares
  <2>1. UNCHANGED <<vars, running, down, view>>
    BY <1>7 DEF flash_read_config
  <2>2. AllUp
    BY <1>1, <1>2, <1>7, <2>1 DEF AllUp, running, view
  <2> QED BY <2>1, <2>2 DEF Spares
<1>8. ASSUME NEW on \in BOOLEAN, SetMode(on),
             Note(on # nkro_active /\ ~AllUp, on # nkro_active /\ ~AllUp)
      PROVE  Spares
  <2>1. UNCHANGED <<vars, macros, running, down, view>> /\ nkro_active' = on
    BY <1>8 DEF SetMode
  <2>2. AllUp \/ on = nkro_active
    BY <1>1, <1>2, <1>8, <2>1 DEF AllUp, running, view
  <2> QED BY <2>1, <2>2 DEF Spares, macros
<1> QED BY <1>3, <1>4, <1>5, <1>6, <1>7, <1>8 DEF Bother

LEMMA StepSteady ==
  ASSUME Types, TypeOK, NoHoles, Types', TypeOK', sure => Steady, MNext, sure'
  PROVE  Steady'
<1>1. CASE Quiet'
  BY <1>1, QuietSteady
<1>2. CASE ~Quiet'
  <2>1. \A d, c : Note(d, c) => sure /\ ~d
    BY <1>2 DEF Note
  <2>2. sure /\ Steady
    BY <2>1 DEF MNext, Start, Typing, Sending, Bother
  <2>3. CASE Start
    BY <2>2, <2>3, StartSteady DEF Start
  <2>4. CASE Typing
    BY <2>2, <2>4, PressSteady, ReleaseSteady, NextSteady DEF Typing, macro_run
  <2>5. CASE Sending
    BY <2>1, <2>2, <2>5, SendingSteady DEF Sending
  <2>6. CASE Bother
    BY <2>2, <2>6, BotherSpares, SparesSteady
  <2> QED BY <2>3, <2>4, <2>5, <2>6 DEF MNext
<1> QED BY <1>1, <1>2

LEMMA TypingInvHolds == MSpec => [](UsbInv /\ MacroInv /\ TypingInv)
<1>1. MInit => TypingInv
  <2> SUFFICES ASSUME MInit PROVE TypingInv
    OBVIOUS
  <2>1. NoHoles
    BY Lengths DEF MInit, NoLength, NoHoles, Place
  <2>2. AtAStroke /\ OneAtATime
    BY DEF MInit, Init, AtAStroke, OneAtATime, Unseen
  <2>3. OneStroke /\ HostFollows
    BY DEF MInit, Init, OneStroke, OwnStroke, HostFollows, Unseen, NoReport
  <2> QED BY <2>1, <2>2, <2>3 DEF TypingInv, Steady
<1>2. /\ UsbInv /\ MacroInv /\ UsbInv' /\ MacroInv' /\ TypingInv /\ [MNext]_mvars
      => TypingInv'
  <2> SUFFICES ASSUME UsbInv, MacroInv, UsbInv', MacroInv', TypingInv, [MNext]_mvars
               PROVE  TypingInv'
    OBVIOUS
  <2>1. TypeOK /\ Types /\ TypeOK' /\ Types'
    BY MTypes DEF MacroInv, MTypeOK, Types, Buffers, Lens, Reports
  <2>2. NoHoles'
    BY <2>1, StepNoHoles DEF TypingInv
  <2>3. CASE UNCHANGED mvars
    <3>1. UNCHANGED <<vars, macros, running, nkro_active, down, view, sure>>
      BY <2>3 DEF mvars, ghosts
    <3>2. Event' = Event /\ Active' = Active
      BY <3>1 DEF Event, Active, macros, running
    <3>3. Steady => Steady'
      BY <3>1, <3>2
      DEF vars, main, macros, running, view, Steady, AtAStroke, OneAtATime,
          OneStroke, OwnStroke, HostFollows, Unseen
    <3> QED BY <2>2, <3>1, <3>3 DEF TypingInv
  <2>4. CASE MNext
    BY <2>1, <2>2, <2>4, StepSteady DEF TypingInv
  <2> QED BY <2>3, <2>4
<1> QED BY <1>1, <1>2, MacroInvHolds, PTL DEF MSpec

-----------------------------------------------------------------------------
(* Macro implements Typist.                                                 *)

Sets == SUBSET (Stroke \cup {NoStroke})

\* What is left of the reports of a phrase when some of them are made.
Left(text, made) == SubSeq(Ideal!Reports(text), made + 1, 2 * Len(text))

LEMMA ReportsAre ==
  ASSUME NEW text \in Seq(Stroke)
  PROVE  /\ Ideal!Reports(text) \in Seq(Sets) /\ Len(Ideal!Reports(text)) = 2 * Len(text)
         /\ \A i \in 0..(Len(text) - 1) :
              /\ Ideal!Reports(text)[2 * i + 1] = {text[i + 1]}
              /\ Ideal!Reports(text)[2 * i + 2] = {}
<1> DEFINE n == Len(text)
           r == Ideal!Reports(text)
<1>1. n \in Nat /\ 2 * n \in Nat
  OBVIOUS
<1>2. r = [i \in 1..(2 * n) |-> IF i % 2 = 1 THEN {text[(i + 1) \div 2]} ELSE {}]
  BY DEF Ideal!Reports
<1>3. ASSUME NEW i \in 1..(2 * n), i % 2 = 1 PROVE text[(i + 1) \div 2] \in Stroke
  <2>1. (i + 1) \div 2 \in 1..n
    BY <1>1, <1>3
  <2> QED BY <2>1
<1>4. \A i \in 1..(2 * n) : r[i] \in Sets
  BY <1>2, <1>3 DEF Sets
<1>5. r \in Seq(Sets) /\ Len(r) = 2 * n
  <2>1. r \in [1..(2 * n) -> Sets]
    BY <1>2, <1>4
  <2> QED BY <1>1, <2>1
<1>6. ASSUME NEW i \in 0..(n - 1)
      PROVE  r[2 * i + 1] = {text[i + 1]} /\ r[2 * i + 2] = {}
  <2>1. 2 * i + 1 \in 1..(2 * n) /\ 2 * i + 2 \in 1..(2 * n)
    BY <1>1
  <2>2. (2 * i + 1) % 2 = 1 /\ (2 * i + 2) % 2 = 0 /\ (2 * i + 2) \div 2 = i + 1
    BY <1>1
  <2> QED BY <1>2, <2>1, <2>2
<1> QED BY <1>5, <1>6

\* At first all reports are left; each one made is the first of those left;
\* in the end there are none.
LEMMA LeftIs ==
  ASSUME NEW text \in Seq(Stroke), NEW made \in Nat
  PROVE  /\ Left(text, made) \in Seq(Sets)
         /\ Left(text, 0) = Ideal!Reports(text)
         /\ made >= 2 * Len(text) => Left(text, made) = <<>>
         /\ made < 2 * Len(text) =>
              Left(text, made) = <<Ideal!Reports(text)[made + 1]>> \o Left(text, made + 1)
<1> DEFINE n == Len(text)
           r == Ideal!Reports(text)
<1>1. r \in Seq(Sets) /\ Len(r) = 2 * n /\ n \in Nat
  BY ReportsAre
<1>2. Left(text, made) \in Seq(Sets)
  <2>1. \A i \in (made + 1)..(2 * n) : r[i] \in Sets
    BY <1>1
  <2>2. made + 1 \in Int /\ 2 * n \in Int
    BY <1>1
  <2> HIDE DEF n, r
  <2>3. SubSeq(r, made + 1, 2 * n) \in Seq(Sets)
    BY <2>1, <2>2, SubSeqProperties
  <2> QED BY <2>3 DEF Left, n, r
<1>3. Left(text, 0) = r
  <2>1. SubSeq(r, 1, Len(r)) = r
    BY <1>1, SubSeqFull
  <2> QED BY <1>1, <2>1 DEF Left
<1>4. made >= 2 * n => Left(text, made) = <<>>
  BY <1>1, SubSeqEmpty DEF Left
<1>5. made < 2 * n => Left(text, made) = <<r[made + 1]>> \o Left(text, made + 1)
  <2>1. made < 2 * n => made + 1 \in 1..Len(r) /\ 2 * n \in (made + 1)..Len(r)
    BY <1>1
  <2> HIDE DEF n, r
  <2>2. made < 2 * n => SubSeq(r, made + 1, 2 * n)
                          = <<r[made + 1]>> \o SubSeq(r, made + 2, 2 * n)
    BY <1>1, <2>1, SubSeqRecursiveFirst
  <2> QED BY <2>2 DEF Left, n, r
<1> QED BY <1>2, <1>3, <1>4, <1>5

LEMMA HeadAndTail ==
  ASSUME NEW x \in Sets, NEW s \in Seq(Sets)
  PROVE  /\ <<x>> \o s \in Seq(Sets) /\ <<x>> \o s # <<>>
         /\ Head(<<x>> \o s) = x /\ Tail(<<x>> \o s) = s
<1> DEFINE c == <<x>> \o s
<1>1. <<x>> \in Seq(Sets) /\ Len(<<x>>) = 1 /\ <<x>>[1] = x /\ Len(s) \in Nat
  OBVIOUS
<1>2. /\ c \in Seq(Sets) /\ Len(c) = 1 + Len(s)
      /\ \A i \in 1..(1 + Len(s)) : c[i] = IF i <= 1 THEN x ELSE s[i - 1]
  BY <1>1, ConcatProperties
<1> HIDE DEF c
<1>3. c # <<>> /\ Head(c) = x
  BY <1>1, <1>2
<1>4. /\ Tail(c) \in Seq(Sets) /\ Len(Tail(c)) = Len(s)
      /\ \A i \in 1..Len(s) : Tail(c)[i] = c[i + 1]
  BY <1>1, <1>2, <1>3, HeadTailProperties
<1>5. \A i \in 1..Len(s) : Tail(c)[i] = s[i]
  BY <1>1, <1>2, <1>4
<1>6. Tail(c) = s
  BY <1>4, <1>5, SeqEqual
<1> QED BY <1>2, <1>3, <1>6 DEF c

\* What a run types: as many strokes as macro_len says, or for an empty macro
\* the first event if it is one.
LEMMA TypedIs ==
  ASSUME Types, NoHoles, NEW k \in Key
  PROVE  /\ Typed(k) \in Seq(Stroke)
         /\ Len(Typed(k)) = IF macro_len[k] > 0 THEN macro_len[k]
                            ELSE IF macro_buffer[k][0] = NoStroke THEN 0 ELSE 1
         /\ \A i \in 0..(Len(Typed(k)) - 1) : Typed(k)[i + 1] = macro_buffer[k][i]
<1> DEFINE n == macro_len[k]
           b == macro_buffer[k]
<1>1. n \in Nat /\ n <= MACRO_MAXLEN - 2 /\ b \in [Place -> Stroke \cup {NoStroke}]
  BY Lengths DEF Types, Lens, Buffers
<1>2. CASE n = 0
  <2>1. Typed(k) = IF b[0] = NoStroke THEN <<>> ELSE <<b[0]>>
    BY <1>2 DEF Typed
  <2>2. b[0] \in Stroke \cup {NoStroke}
    BY <1>1, Lengths
  <2>3. CASE b[0] = NoStroke
    BY <1>2, <2>1, <2>3
  <2>4. CASE b[0] # NoStroke
    <3>1. Typed(k) = <<b[0]>> /\ b[0] \in Stroke
      BY <2>1, <2>2, <2>4
    <3> QED BY <1>2, <2>4, <3>1
  <2> QED BY <2>3, <2>4
<1>3. CASE n # 0
  <2>1. Typed(k) = [i \in 1..n |-> b[i - 1]]
    BY <1>3 DEF Typed
  <2>2. ASSUME NEW i \in 0..(n - 1) PROVE b[i] \in Stroke
    <3>1. i \in Place
      BY <1>1, Lengths DEF Place
    <3> QED BY <1>1, <3>1 DEF NoHoles
  <2>3. ASSUME NEW i \in 1..n PROVE b[i - 1] \in Stroke
    <3>1. i - 1 \in 0..(n - 1)
      BY <1>1
    <3> QED BY <2>2, <3>1
  <2>4. Typed(k) \in [1..n -> Stroke]
    BY <2>1, <2>3
  <2>5. Typed(k) \in Seq(Stroke) /\ Len(Typed(k)) = n
    BY <1>1, <2>4
  <2>6. \A i \in 0..(n - 1) : Typed(k)[i + 1] = b[i]
    <3>1. \A i \in 0..(n - 1) : i + 1 \in 1..n /\ (i + 1) - 1 = i
      BY <1>1
    <3> QED BY <2>1, <3>1
  <2> QED BY <1>1, <1>3, <2>5, <2>6
<1> QED BY <1>2, <1>3

\* What phrases, todo and seen of Typist stand for.
Phrases == [k \in Key |-> Typed(k)]
Todo    == IF sure THEN OnItsWay \o ToMake ELSE <<>>
Seen    == IF sure THEN UNION {host[e] : e \in Endpoint} ELSE {}

Way ==
  /\ \A e \in Endpoint : Unseen(e) => OnItsWay = <<report[e]>>
  /\ (\A e \in Endpoint : ~Unseen(e)) => OnItsWay = <<>>

LEMMA WayIs == TypeOK /\ OneAtATime /\ HostFollows => Way
<1> SUFFICES ASSUME TypeOK, OneAtATime, HostFollows PROVE Way
  OBVIOUS
<1>1. ASSUME NEW e \in Endpoint, Unseen(e) PROVE OnItsWay = <<report[e]>>
  <2>1. \A f \in Endpoint : Unseen(f) => f = e
    BY <1>1 DEF OneAtATime
  <2>2. CASE pc # "rest"
    <3>1. ep = e
      BY <2>1, <2>2 DEF Unseen, TypeOK
    <3> QED BY <2>2, <3>1 DEF OnItsWay
  <2>3. CASE pc = "rest"
    <3>1. full = {e}
      BY <1>1, <2>1, <2>3 DEF Unseen, TypeOK
    <3>2. (CHOOSE f \in full : TRUE) = e
      BY <3>1
    <3>3. packet[e] = report[e]
      BY <3>1 DEF HostFollows
    <3> QED BY <2>3, <3>1, <3>2, <3>3 DEF OnItsWay
  <2> QED BY <2>2, <2>3
<1>2. ASSUME \A e \in Endpoint : ~Unseen(e) PROVE OnItsWay = <<>>
  BY <1>2 DEF Unseen, OnItsWay, TypeOK
<1> QED BY <1>1, <1>2 DEF Way

LEMMA WayIsNext == (TypeOK /\ OneAtATime /\ HostFollows)' => Way'
<1>1. (TypeOK /\ OneAtATime /\ HostFollows => Way)'
  BY WayIs, PTL
<1> QED BY <1>1

\* OnItsWay does not change while the same report is under way.
LEMMA SameWay ==
  ASSUME Way, Way', UNCHANGED report,
         \A e \in Endpoint : Unseen(e)' = Unseen(e)
  PROVE  UNCHANGED OnItsWay
BY DEF Way

LEMMA ToMakeIs == macro_active => ToMake = Left(Typed(macro_key), Made)
BY DEF ToMake, Left, Ideal!Reports

LEMMA ToMakeIsNext == macro_active' => ToMake' = Left(Typed(macro_key)', Made')
BY DEF ToMake, Left, Ideal!Reports

LEMMA WayType == TypeOK /\ Types => OnItsWay \in Seq(Sets)
<1> SUFFICES ASSUME TypeOK, Types PROVE OnItsWay \in Seq(Sets)
  OBVIOUS
<1>1. \A e \in Endpoint : report[e] \in Sets /\ packet[e] \in Sets
  BY DEF Types, Reports, Sets
<1>2. ep \in Endpoint /\ full \subseteq Endpoint
  BY DEF TypeOK
<1>3. full # {} => (CHOOSE e \in full : TRUE) \in Endpoint
  BY <1>2
<1>4. \A x \in Sets : <<x>> \in Seq(Sets)
  OBVIOUS
<1> QED BY <1>1, <1>2, <1>3, <1>4 DEF OnItsWay

\* A step that leaves macros and macro_run alone leaves what there is to make.
LEMMA SameToMake == UNCHANGED <<macros, running>> => UNCHANGED <<Phrases, ToMake>>
BY DEF macros, running, Phrases, ToMake, Typed, Made

LEMMA SamePhrases == UNCHANGED macros => UNCHANGED Phrases
BY DEF macros, Phrases, Typed

\* With nothing under way, a report that macro_run makes moves from what there
\* is to make to what is on its way.
LEMMA MadeOne ==
  ASSUME Types, NoHoles, macro_active, UNCHANGED <<macros, macro_active, macro_key>>,
         Way, Way', \A e \in Endpoint : ~Unseen(e),
         pc' = "write", ep' = Active,
         Made \in Nat, Made' = Made + 1, Made < 2 * Len(Typed(macro_key)),
         report'[Active] = Ideal!Reports(Typed(macro_key))[Made + 1]
  PROVE  OnItsWay' \o ToMake' = OnItsWay \o ToMake
<1> DEFINE text == Typed(macro_key)
<1>1. text \in Seq(Stroke)
  BY TypedIs DEF Types
<1>2. text' = text
  BY DEF Typed, macros
<1>3. ToMake = Left(text, Made) /\ ToMake' = Left(text, Made + 1)
  BY <1>2, ToMakeIs, ToMakeIsNext
<1> HIDE DEF text
<1>4. Left(text, Made) = <<Ideal!Reports(text)[Made + 1]>> \o Left(text, Made + 1)
  BY <1>1, LeftIs DEF text
<1>5. OnItsWay = <<>> /\ OnItsWay' = <<report'[Active]>>
  <2>1. OnItsWay = <<>>
    BY DEF Way
  <2>2. OnItsWay' = <<report'[Active]>>
    BY Endpoints DEF Way, Unseen
  <2> QED BY <2>1, <2>2
<1>6. Left(text, Made) \in Seq(Sets)
  BY <1>1, LeftIs
<1>7. <<>> \o Left(text, Made) = Left(text, Made)
  BY <1>6, ConcatEmptySeq
<1> QED BY <1>3, <1>4, <1>5, <1>7 DEF text

\* The state of a run, in terms of its phrase.
LEMMA AtTheStroke ==
  ASSUME Types, NoHoles, AtAStroke, macro_active
  PROVE  /\ macro_position \in Nat
         /\ Event = NoStroke => Typed(macro_key) = <<>>
         /\ Event # NoStroke => /\ macro_position < Len(Typed(macro_key))
                                /\ Typed(macro_key)[macro_position + 1] = Event
<1> DEFINE text == Typed(macro_key)
<1>1. macro_position \in Nat /\ macro_key \in Key
  BY Lengths DEF Types, Place
<1>2. /\ text \in Seq(Stroke) /\ macro_len[macro_key] \in Nat
      /\ Len(text) = IF macro_len[macro_key] > 0 THEN macro_len[macro_key]
                     ELSE IF macro_buffer[macro_key][0] = NoStroke THEN 0 ELSE 1
      /\ \A i \in 0..(Len(text) - 1) : text[i + 1] = macro_buffer[macro_key][i]
  <2>1. macro_len[macro_key] \in Nat
    BY <1>1, Lengths DEF Types, Lens
  <2> QED BY <1>1, <2>1, TypedIs
<1>3. CASE Event = NoStroke
  <2>1. macro_position = 0 /\ macro_len[macro_key] = 0
    BY <1>3, AtAStrokeOr
  <2>2. Len(text) = 0
    BY <1>2, <1>3, <2>1 DEF Event
  <2>3. text = <<>>
    BY <1>2, <2>2
  <2> QED BY <1>1, <1>3, <2>3
<1>4. CASE Event # NoStroke
  <2>1. macro_position < Len(text)
    BY <1>1, <1>2, <1>4 DEF AtAStroke, Event
  <2> QED BY <1>1, <1>2, <1>4, <2>1 DEF Event
<1> QED BY <1>3, <1>4

\* macro_run makes the next report of the phrase or, for a macro without one,
\* none; what the host has yet to see stays the same.
LEMMA PressStep ==
  ASSUME Types, TypeOK, NoHoles, Steady, Steady', Way, Way', sure, sure', RunPress
  PROVE  UNCHANGED <<Phrases, Todo, Seen>>
<1>1. /\ UNCHANGED <<macros, macro_active, macro_key, macro_position>>
      /\ macro_active /\ macro_operation = "INIT"
      /\ macro_operation' = "PRESSED" /\ send_if_idle(TRUE)
  BY DEF RunPress
<1>2. /\ macro_position \in Nat
      /\ Event = NoStroke => Typed(macro_key) = <<>>
      /\ Event # NoStroke => /\ macro_position < Len(Typed(macro_key))
                             /\ Typed(macro_key)[macro_position + 1] = Event
  BY <1>1, AtTheStroke DEF Steady
<1>3. Typed(macro_key) \in Seq(Stroke) /\ Typed(macro_key)' = Typed(macro_key)
  BY <1>1, TypedIs DEF Types, Typed, macros
<1>4. Made = 2 * macro_position /\ Made' = Made + 1
  BY <1>1, <1>2 DEF Made
<1>5. UNCHANGED Phrases
  BY <1>1, SamePhrases
<1>6. CASE Event = NoStroke /\ UNCHANGED <<vars, view>>
  <2>1. ToMake = <<>> /\ ToMake' = <<>>
    <3>1. Made \in Nat /\ Made' \in Nat /\ Made >= 2 * Len(<<>>) /\ Made' >= 2 * Len(<<>>)
      BY <1>2, <1>4
    <3> QED BY <1>1, <1>2, <1>3, <1>6, <3>1, ToMakeIs, ToMakeIsNext, LeftIs
  <2>2. UNCHANGED <<OnItsWay, host>>
    BY <1>6 DEF vars, main, view, OnItsWay
  <2> QED BY <1>5, <2>1, <2>2 DEF Todo, Seen
<1>7. CASE /\ Event # NoStroke /\ \A e \in Keyboards : idle[e]
           /\ keyboard_event(Event, TRUE, TRUE)
  <2>1. SendIfIdle(Active) /\ UNCHANGED <<packet, host>>
    BY <1>7 DEF keyboard_event
  <2>2. pc = "rest" /\ pc' = "write" /\ ep' = Active
    BY <2>1 DEF SendIfIdle, Update
  <2>3. \A e \in Endpoint : ~Unseen(e)
    BY <1>7, <2>2, MacroAssumption, IdleIsSeen DEF Steady
  <2>4. report'[Active] = {Event}
    <3>1. report'[Active] = report[Active] \cup {Event}
      BY <1>7, EventReport, Endpoints
    <3>2. report[Active] = {}
      BY <1>1, Endpoints DEF Steady, OneStroke, OwnStroke
    <3> QED BY <3>1, <3>2
  <2>5. Ideal!Reports(Typed(macro_key))[Made + 1] = {Event}
    <3>1. macro_position \in 0..(Len(Typed(macro_key)) - 1)
      BY <1>2, <1>3, <1>7
    <3> QED BY <1>2, <1>3, <1>4, <1>7, <3>1, ReportsAre
  <2>6. Made \in Nat /\ Made < 2 * Len(Typed(macro_key))
    BY <1>2, <1>3, <1>4, <1>7
  <2>7. OnItsWay' \o ToMake' = OnItsWay \o ToMake
    BY <1>1, <1>4, <2>2, <2>3, <2>4, <2>5, <2>6, MadeOne
  <2> QED BY <1>5, <2>1, <2>7 DEF Todo, Seen
<1> QED BY <1>1, <1>6, <1>7 DEF send_if_idle

LEMMA ReleaseStep ==
  ASSUME Types, TypeOK, NoHoles, Steady, Steady', Way, Way', sure, sure', RunRelease
  PROVE  UNCHANGED <<Phrases, Todo, Seen>>
<1>1. /\ UNCHANGED <<macros, macro_active, macro_key, macro_position>>
      /\ macro_active /\ macro_operation = "PRESSED"
      /\ macro_operation' = "UNPRESSED" /\ send_if_idle(FALSE)
  BY DEF RunRelease
<1>2. /\ macro_position \in Nat
      /\ Event = NoStroke => Typed(macro_key) = <<>>
      /\ Event # NoStroke => /\ macro_position < Len(Typed(macro_key))
                             /\ Typed(macro_key)[macro_position + 1] = Event
  BY <1>1, AtTheStroke DEF Steady
<1>3. Typed(macro_key) \in Seq(Stroke) /\ Typed(macro_key)' = Typed(macro_key)
  BY <1>1, TypedIs DEF Types, Typed, macros
<1>4. Made = 2 * macro_position + 1 /\ Made' = Made + 1
  BY <1>1, <1>2 DEF Made
<1>5. UNCHANGED Phrases
  BY <1>1, SamePhrases
<1>6. CASE Event = NoStroke /\ UNCHANGED <<vars, view>>
  <2>1. ToMake = <<>> /\ ToMake' = <<>>
    <3>1. Made \in Nat /\ Made' \in Nat /\ Made >= 2 * Len(<<>>) /\ Made' >= 2 * Len(<<>>)
      BY <1>2, <1>4
    <3> QED BY <1>1, <1>2, <1>3, <1>6, <3>1, ToMakeIs, ToMakeIsNext, LeftIs
  <2>2. UNCHANGED <<OnItsWay, host>>
    BY <1>6 DEF vars, main, view, OnItsWay
  <2> QED BY <1>5, <2>1, <2>2 DEF Todo, Seen
<1>7. CASE /\ Event # NoStroke /\ \A e \in Keyboards : idle[e]
           /\ keyboard_event(Event, FALSE, TRUE)
  <2>1. report[Active] = {Event}
    BY <1>1, <1>7, Endpoints DEF Steady, OneStroke, OwnStroke
  <2>2. SendIfIdle(Active) /\ UNCHANGED <<packet, host>>
    BY <1>7, <2>1 DEF keyboard_event
  <2>3. pc = "rest" /\ pc' = "write" /\ ep' = Active
    BY <2>2 DEF SendIfIdle, Update
  <2>4. \A e \in Endpoint : ~Unseen(e)
    BY <1>7, <2>3, MacroAssumption, IdleIsSeen DEF Steady
  <2>5. report'[Active] = {}
    <3>1. report'[Active] = report[Active] \ {Event}
      BY <1>7, EventReport, Endpoints
    <3> QED BY <2>1, <3>1
  <2>6. Ideal!Reports(Typed(macro_key))[Made + 1] = {}
    <3>1. /\ macro_position \in 0..(Len(Typed(macro_key)) - 1)
          /\ Made + 1 = 2 * macro_position + 2
      BY <1>2, <1>3, <1>4, <1>7
    <3> QED BY <1>3, <3>1, ReportsAre
  <2>7. Made \in Nat /\ Made < 2 * Len(Typed(macro_key))
    BY <1>2, <1>3, <1>4, <1>7
  <2>8. OnItsWay' \o ToMake' = OnItsWay \o ToMake
    BY <1>1, <1>4, <2>3, <2>4, <2>5, <2>6, <2>7, MadeOne
  <2> QED BY <1>5, <2>2, <2>8 DEF Todo, Seen
<1> QED BY <1>1, <1>6, <1>7 DEF send_if_idle

\* Going on to the next character makes nothing, and ends the macro when
\* nothing is left.
LEMMA NextStep ==
  ASSUME Types, NoHoles, Steady, sure, sure', RunNext
  PROVE  UNCHANGED <<Phrases, Todo, Seen>>
<1>1. /\ macro_active /\ macro_operation = "UNPRESSED" /\ macro_operation' = "INIT"
      /\ macro_position' = macro_position + 1
      /\ macro_active' = (macro_position' < macro_len[macro_key])
      /\ UNCHANGED <<vars, macros, macro_key, view>>
  BY DEF RunNext
<1>2. macro_position \in Nat /\ macro_key \in Key /\ macro_len[macro_key] \in Nat
  BY Lengths DEF Types, Place, Lens
<1>3. Made = 2 * macro_position + 2 /\ Made' = Made /\ Made \in Nat
  BY <1>1, <1>2 DEF Made
<1>4. Typed(macro_key) \in Seq(Stroke) /\ Typed(macro_key)' = Typed(macro_key)
  BY <1>1, <1>2, TypedIs DEF Typed, macros
<1>5. ToMake' = ToMake
  <2>1. CASE macro_active'
    BY <1>1, <1>3, <1>4, <2>1, ToMakeIs, ToMakeIsNext
  <2>2. CASE ~macro_active'
    <3>1. macro_position + 1 >= macro_len[macro_key]
      <4>1. ~(macro_position' < macro_len[macro_key])
        BY <1>1, <2>2, Zenon
      <4> QED BY <1>1, <1>2, <4>1
    <3>2. /\ Len(Typed(macro_key)) = IF macro_len[macro_key] > 0 THEN macro_len[macro_key]
               ELSE IF macro_buffer[macro_key][0] = NoStroke THEN 0 ELSE 1
      BY <1>2, TypedIs
    <3>3. Made >= 2 * Len(Typed(macro_key))
      BY <1>2, <1>3, <3>1, <3>2
    <3>4. ToMake = <<>>
      BY <1>1, <1>3, <1>4, <3>3, ToMakeIs, LeftIs
    <3>5. ToMake' = <<>>
      BY <2>2 DEF ToMake
    <3> QED BY <3>4, <3>5
  <2> QED BY <2>1, <2>2
<1>6. UNCHANGED <<Phrases, OnItsWay, host>>
  BY <1>1, SamePhrases DEF vars, main, view, OnItsWay
<1> QED BY <1>5, <1>6 DEF Todo, Seen

\* The press of a macro key adds the reports of its phrase.
LEMMA StartStep ==
  ASSUME Types, TypeOK, NoHoles, sure, sure', NEW k \in Key, ~macro_active, macro_event(k)
  PROVE  Ideal!Press(k) /\ UNCHANGED Phrases
<1>1. /\ macro_key' = k /\ macro_position' = 0 /\ macro_operation' = "INIT"
      /\ macro_active' = TRUE
      /\ UNCHANGED <<vars, macros, view>>
  BY DEF macro_event
<1>2. Typed(k) \in Seq(Stroke) /\ Typed(macro_key)' = Typed(k)
  BY <1>1, TypedIs DEF Typed, macros
<1>3. ToMake = <<>>
  BY DEF ToMake
<1>4. ToMake' = Ideal!Reports(Typed(k))
  <2>1. Made' = 0
    BY <1>1 DEF Made
  <2> QED BY <1>1, <1>2, <2>1, ToMakeIsNext, LeftIs
<1>5. UNCHANGED <<Phrases, OnItsWay, host>>
  BY <1>1, SamePhrases DEF vars, main, view, OnItsWay
<1>6. OnItsWay \o <<>> = OnItsWay
  BY WayType, ConcatEmptySeq
<1>7. Phrases[k] = Typed(k)
  BY DEF Phrases
<1>8. Todo' = Todo \o Ideal!Reports(Phrases[k]) /\ UNCHANGED <<Seen, sure>>
  BY <1>3, <1>4, <1>5, <1>6, <1>7 DEF Todo, Seen
<1> QED BY <1>5, <1>8 DEF Ideal!Press, Todo, Seen, Phrases

\* The host sees the report that is on its way, and the others are empty.
LEMMA PollStep ==
  ASSUME Types, TypeOK, Steady, Steady', Way, Way', sure, sure',
         ToMake \in Seq(Sets), NEW e \in Endpoint, MHostPoll(e)
  PROVE  Ideal!See /\ UNCHANGED Phrases
<1>1. /\ e \in full /\ full' = full \ {e} /\ ctr' = ctr \cup {e}
      /\ host' = [host EXCEPT ![e] = packet[e]]
      /\ UNCHANGED <<macros, running, report, idle, pc, ep>>
  BY DEF MHostPoll, HostPoll, main
<1>2. Unseen(e) /\ packet[e] = report[e]
  BY <1>1 DEF Unseen, Steady, HostFollows
<1>3. OnItsWay = <<report[e]>>
  BY <1>2 DEF Way
<1>4. OnItsWay' = <<>>
  <2>1. \A f \in Endpoint : f # e => ~Unseen(f)
    BY <1>2 DEF Steady, OneAtATime
  <2>2. ~Unseen(e)'
    BY <1>1 DEF Steady, OneAtATime
  <2>3. \A f \in Endpoint : ~Unseen(f)'
    BY <1>1, <2>1, <2>2 DEF Unseen
  <2> QED BY <2>3 DEF Way
<1>5. UNION {host'[f] : f \in Endpoint} = report[e]
  <2>1. \A f \in Endpoint : host'[f] = IF f = e THEN report[e] ELSE {}
    BY <1>1, <1>2 DEF Steady, HostFollows, Types, Reports
  <2> QED BY <2>1
<1>6. report[e] \in Sets
  BY DEF Types, Reports, Sets
<1>7. UNCHANGED <<Phrases, ToMake>>
  BY <1>1, SameToMake
<1>8. <<>> \o ToMake = ToMake
  BY ConcatEmptySeq
<1>9. /\ Todo # <<>> /\ Head(Todo) = report[e]
      /\ Tail(Todo) = ToMake /\ Todo' = ToMake /\ Seen' = report[e]
  BY <1>3, <1>4, <1>5, <1>6, <1>7, <1>8, HeadAndTail DEF Todo, Seen
<1> QED BY <1>7, <1>9 DEF Ideal!See, Todo, Seen

\* Everything else that happens on the way shows nothing.
LEMMA WriteStep ==
  ASSUME Types, TypeOK, Steady, Steady', Way, Way', sure, sure',
         MWrite \/ \E e \in Endpoint : MIdle(e)
  PROVE  UNCHANGED <<Phrases, Todo, Seen>>
<1>1. UNCHANGED <<macros, running, report, host>>
  BY DEF MWrite, MIdle, view
<1>2. ASSUME NEW e \in Endpoint PROVE Unseen(e)' = Unseen(e)
  <2>1. CASE MWrite
    <3>1. ep \notin full
      BY <2>1 DEF MWrite, Write, Steady, OneAtATime
    <3>2. /\ pc = "write" /\ pc' = "rest" /\ full' = full \cup {ep}
          /\ UNCHANGED ep
      BY <2>1, <3>1 DEF MWrite, Write
    <3> QED BY <3>2 DEF Unseen
  <2>2. CASE UNCHANGED <<full, pc, ep>>
    BY <2>2 DEF Unseen
  <2>3. ~MWrite => UNCHANGED <<full, pc, ep>>
    BY DEF MIdle, usb_endpoint_idle, main
  <2> QED BY <2>1, <2>2, <2>3
<1>3. UNCHANGED <<OnItsWay, Phrases, ToMake>>
  BY <1>1, <1>2, SameWay, SameToMake
<1> QED BY <1>1, <1>3 DEF Todo, Seen

-----------------------------------------------------------------------------
(* What commands make of the phrases.                                       *)

\* The characters of a phrase after i characters of another are stored.
LEMMA StoredIs ==
  ASSUME Types, NEW k \in Key, NEW p \in Phrase, NEW i \in 0..Len(p),
         macro_buffer' = Stored(k, p, i)
  PROVE  \A l \in Key, j \in Place :
           macro_buffer'[l][j] = IF l = k /\ j < i THEN p[j + 1] ELSE macro_buffer[l][j]
BY DEF Stored, Types, Buffers

LEMMA PhraseIs ==
  ASSUME NEW p \in Phrase
  PROVE  /\ p \in Seq(Stroke) /\ Len(p) \in Nat \ {0} /\ p # <<>>
         /\ p[1] \in Stroke /\ p[1] # NoStroke
         /\ p = [i \in 1..Len(p) |-> p[i]]
<1>1. p \in Seq(Stroke) /\ p # <<>>
  BY MacroAssumption
<1>2. Len(p) \in Nat \ {0}
  BY <1>1, EmptySeq
<1>3. p[1] \in Stroke
  BY <1>1, <1>2
<1>4. p = [i \in 1..Len(p) |-> p[i]]
  BY <1>1
<1> QED BY <1>1, <1>2, <1>3, <1>4, MacroAssumption

\* A phrase that is accepted is what the macro types.
LEMMA AcceptedIsTyped ==
  ASSUME Types, NEW k \in Key, NEW p \in Phrase, Len(p) <= MACRO_MAXLEN - 2,
         macro_buffer' = Stored(k, p, Len(p)), macro_len' = [macro_len EXCEPT ![k] = Len(p)]
  PROVE  Typed(k)' = p
<1> DEFINE n == Len(p)
<1>1. n \in Nat \ {0} /\ n \in 0..n /\ p = [i \in 1..n |-> p[i]]
  BY PhraseIs
<1>2. \A j \in Place : macro_buffer'[k][j] = IF j < n THEN p[j + 1] ELSE macro_buffer[k][j]
  BY <1>1, StoredIs
<1>3. macro_len'[k] = n
  BY DEF Types, Lens
<1>4. ASSUME NEW i \in 1..n PROVE macro_buffer'[k][i - 1] = p[i]
  <2>1. i - 1 \in Place /\ i - 1 < n /\ (i - 1) + 1 = i
    BY <1>1, Lengths DEF Place
  <2> QED BY <1>2, <2>1
<1>5. Typed(k)' = [i \in 1..n |-> macro_buffer'[k][i - 1]]
  BY <1>1, <1>3 DEF Typed
<1> HIDE DEF n
<1>6. [i \in 1..n |-> macro_buffer'[k][i - 1]] = [i \in 1..n |-> p[i]]
  BY <1>4
<1> QED BY <1>1, <1>5, <1>6

\* Of one that is refused the macro types what Mixed says.
LEMMA RefusedIsMixed ==
  ASSUME Types, NEW k \in Key, NEW p \in Phrase, Len(p) <= MACRO_MAXLEN - 2,
         NEW i \in 0..Len(p), macro_buffer' = Stored(k, p, i), UNCHANGED macro_len
  PROVE  Typed(k)' = Ideal!Mixed(Typed(k), p, i)
<1> DEFINE n  == macro_len[k]
           b  == macro_buffer[k]
           bb == macro_buffer'[k]
<1>1. /\ p \in Seq(Stroke) /\ Len(p) \in Nat \ {0}
      /\ p[1] \in Stroke /\ p[1] # NoStroke /\ i \in Nat
  BY PhraseIs
<1>2. \A j \in Place : bb[j] = IF j < i THEN p[j + 1] ELSE b[j]
  BY StoredIs
<1>3. n \in Nat /\ n <= MACRO_MAXLEN - 2 /\ macro_len'[k] = n
  BY Lengths DEF Types, Lens
<1>4. bb[0] = IF 0 < i THEN p[1] ELSE b[0]
  BY <1>2, Lengths
<1>5. CASE n = 0 /\ b[0] = NoStroke
  <2>1. Typed(k) = <<>>
    BY <1>5 DEF Typed
  <2>2. Typed(k)' = IF i = 0 THEN <<>> ELSE <<p[1]>>
    BY <1>1, <1>3, <1>4, <1>5 DEF Typed
  <2>3. SubSeq(p, 1, 0) = <<>>
    BY SubSeqEmpty
  <2>4. SubSeq(p, 1, 1) = <<p[1]>>
    <3>1. SubSeq(p, 1, 1) = <<p[1]>> \o SubSeq(p, 2, 1)
      <4>1. 1 \in 1..Len(p)
        BY <1>1
      <4> QED BY <1>1, <4>1, SubSeqRecursiveFirst
    <3>2. SubSeq(p, 2, 1) = <<>>
      BY SubSeqEmpty
    <3>3. <<p[1]>> \in Seq(Stroke)
      BY <1>1
    <3>4. <<p[1]>> \o <<>> = <<p[1]>>
      BY <3>3, ConcatEmptySeq
    <3> QED BY <3>1, <3>2, <3>4
  <2> QED BY <2>1, <2>2, <2>3, <2>4 DEF Ideal!Mixed
<1>6. CASE n = 0 /\ b[0] # NoStroke
  <2>1. Typed(k) = <<b[0]>>
    BY <1>6 DEF Typed
  <2>2. Typed(k)' = <<bb[0]>>
    BY <1>1, <1>3, <1>4, <1>6 DEF Typed
  <2>3. Ideal!Mixed(<<b[0]>>, p, i) = [j \in 1..1 |-> IF j <= i THEN p[j] ELSE <<b[0]>>[j]]
    BY DEF Ideal!Mixed
  <2>4. [j \in 1..1 |-> IF j <= i THEN p[j] ELSE <<b[0]>>[j]] = [j \in 1..1 |-> bb[0]]
    <3>1. \A j \in 1..1 : (IF j <= i THEN p[j] ELSE <<b[0]>>[j]) = bb[0]
      BY <1>1, <1>4
    <3> HIDE DEF bb, b
    <3> QED BY <3>1
  <2>5. [j \in 1..1 |-> bb[0]] = <<bb[0]>>
    OBVIOUS
  <2> QED BY <2>1, <2>2, <2>3, <2>4, <2>5
<1>7. CASE n # 0
  <2>1. Typed(k) = [j \in 1..n |-> b[j - 1]] /\ Typed(k)' = [j \in 1..n |-> bb[j - 1]]
    BY <1>3, <1>7 DEF Typed
  <2>2. Typed(k) # <<>> /\ Len(Typed(k)) = n
    BY <1>3, <1>7, <2>1
  <2>3. Ideal!Mixed(Typed(k), p, i) = [j \in 1..n |-> IF j <= i THEN p[j] ELSE Typed(k)[j]]
    BY <2>2 DEF Ideal!Mixed
  <2>4. ASSUME NEW j \in 1..n
        PROVE  bb[j - 1] = IF j <= i THEN p[j] ELSE Typed(k)[j]
    <3>1. j - 1 \in Place /\ (j - 1 < i <=> j <= i) /\ (j - 1) + 1 = j
      BY <1>1, <1>3, Lengths DEF Place
    <3> QED BY <1>2, <2>1, <3>1
  <2> HIDE DEF bb, n
  <2> QED BY <2>1, <2>3, <2>4
<1> QED BY <1>5, <1>6, <1>7

LEMMA SetPhraseDefines ==
  ASSUME Types, NEW k \in Key, NEW p \in Phrase, macro_set_phrase(k, p)
  PROVE  Ideal!Define
<1>1. Len(p) \in Nat \ {0} /\ Len(p) <= MACRO_MAXLEN - 2
  BY PhraseIs DEF macro_set_phrase
<1>2. PICK i \in 0..Len(p) :
        /\ macro_buffer' = Stored(k, p, i)
        /\ \/ i = Len(p) /\ macro_len' = [macro_len EXCEPT ![k] = Len(p)]
           \/ UNCHANGED macro_len
  BY <1>1 DEF macro_set_phrase
<1>3. ASSUME NEW l \in Key, l # k PROVE Typed(l)' = Typed(l)
  <2>1. macro_len'[l] = macro_len[l]
    BY <1>2, <1>3 DEF Types, Lens
  <2>2. macro_buffer'[l] = macro_buffer[l]
    BY <1>2, <1>3 DEF Stored, Types, Buffers
  <2> QED BY <2>1, <2>2 DEF Typed
<1>4. CASE i = Len(p) /\ macro_len' = [macro_len EXCEPT ![k] = Len(p)]
  <2>1. Typed(k)' = p
    BY <1>1, <1>2, <1>4, AcceptedIsTyped
  <2>2. Phrases' = [Phrases EXCEPT ![k] = p]
    BY <1>3, <2>1 DEF Phrases
  <2> QED BY <2>2 DEF Ideal!Define, Phrases
<1>5. CASE UNCHANGED macro_len
  <2>1. Typed(k)' = Ideal!Mixed(Typed(k), p, i)
    BY <1>1, <1>2, <1>5, RefusedIsMixed
  <2>2. Phrases' = [Phrases EXCEPT ![k] = Ideal!Mixed(Phrases[k], p, i)]
    BY <1>3, <2>1 DEF Phrases
  <2> QED BY <2>2 DEF Ideal!Define, Phrases
<1> QED BY <1>2, <1>4, <1>5

LEMMA LoadDefines ==
  ASSUME NEW s \in Saved, NEW on \in BOOLEAN, flash_read_config(s, on)
  PROVE  Ideal!Define
<1>1. s \in [Key -> Seq(Stroke)]
  BY MacroAssumption
<1>2. ASSUME NEW k \in Key PROVE Typed(k)' = s[k]
  <2>1. s[k] \in Seq(Stroke) /\ Len(s[k]) \in Nat /\ Len(s[k]) <= MACRO_MAXLEN - 2
    BY <1>1, MacroAssumption
  <2>2. /\ macro_len'[k] = Len(s[k])
        /\ \A i \in Place : macro_buffer'[k][i]
                              = IF i < Len(s[k]) THEN s[k][i + 1] ELSE NoStroke
    BY DEF flash_read_config
  <2>3. CASE Len(s[k]) = 0
    <3>1. macro_buffer'[k][0] = NoStroke
      BY <2>2, <2>3, Lengths
    <3>2. s[k] = <<>>
      BY <2>1, <2>3
    <3> QED BY <2>2, <2>3, <3>1, <3>2 DEF Typed
  <2>4. CASE Len(s[k]) # 0
    <3>1. Typed(k)' = [i \in 1..Len(s[k]) |-> macro_buffer'[k][i - 1]]
      BY <2>2, <2>4 DEF Typed
    <3>2. ASSUME NEW i \in 1..Len(s[k]) PROVE macro_buffer'[k][i - 1] = s[k][i]
      <4>1. i - 1 \in Place /\ i - 1 < Len(s[k]) /\ (i - 1) + 1 = i
        BY <2>1, Lengths DEF Place
      <4> QED BY <2>2, <4>1
    <3>3. s[k] = [i \in 1..Len(s[k]) |-> s[k][i]]
      BY <2>1
    <3>4. [i \in 1..Len(s[k]) |-> macro_buffer'[k][i - 1]] = [i \in 1..Len(s[k]) |-> s[k][i]]
      BY <3>2
    <3> QED BY <3>1, <3>3, <3>4
  <2> QED BY <2>3, <2>4
<1>3. Phrases' = s
  BY <1>1, <1>2 DEF Phrases
<1> QED BY <1>3 DEF Ideal!Define, Phrases

LEMMA InitDefines == macro_init => Ideal!Define
<1> SUFFICES ASSUME macro_init PROVE Ideal!Define
  OBVIOUS
<1>1. \A k \in Key : macro_len'[k] = 0 /\ macro_buffer'[k][0] = NoStroke
  BY Lengths DEF macro_init, NoMacros, NoLength
<1>2. Phrases' = [k \in Key |-> <<>>]
  BY <1>1 DEF Phrases, Typed
<1> QED BY <1>2 DEF Ideal!Define, Ideal!Empty, Phrases

LEMMA PhrasesStep == Types /\ MNext => UNCHANGED Phrases \/ Ideal!Define
<1> SUFFICES ASSUME Types, MNext PROVE UNCHANGED Phrases \/ Ideal!Define
  OBVIOUS
<1>1. CASE Start \/ Typing \/ Sending
  <2>1. UNCHANGED macros
    BY <1>1 DEF Start, macro_event, Typing, macro_run, RunPress, RunRelease, RunNext,
                Sending, MWrite, MSpin, MHostPoll, MIdle, MReset
  <2> QED BY <2>1, SamePhrases
<1>2. CASE Bother
  <2>1. ASSUME \/ \E s \in SwitchStroke : SwitchEvent(s)
               \/ \E k \in Key : macro_event(k)
               \/ \E on \in BOOLEAN : SetMode(on)
        PROVE  UNCHANGED Phrases
    <3>1. UNCHANGED macros
      BY <2>1 DEF SwitchEvent, macro_event, SetMode
    <3> QED BY <3>1, SamePhrases
  <2> QED BY <1>2, <2>1, SetPhraseDefines, LoadDefines, InitDefines DEF Bother
<1> QED BY <1>1, <1>2 DEF MNext

-----------------------------------------------------------------------------
(* Every step of Macro is one of Typist, or shows nothing.                  *)

LEMMA QuietShows == TypeOK' /\ Quiet' => Todo' = <<>> /\ Seen' = {}
<1> SUFFICES ASSUME TypeOK', Quiet' PROVE Todo' = <<>> /\ Seen' = {}
  OBVIOUS
<1>1. /\ ~macro_active' /\ host' = NoReport /\ pc' = "rest" /\ full' = {}
  BY DEF Quiet, AllUp, Through, TypeOK
<1>2. OnItsWay' = <<>> /\ ToMake' = <<>>
  BY <1>1 DEF OnItsWay, ToMake
<1>3. UNION {host'[e] : e \in Endpoint} = {}
  BY <1>1 DEF NoReport
<1>4. <<>> \o <<>> = <<>>
  BY EmptySeq, ConcatEmptySeq
<1> QED BY <1>2, <1>3, <1>4 DEF Todo, Seen

LEMMA SparesShows == Spares => UNCHANGED <<OnItsWay, ToMake, host>>
<1> SUFFICES ASSUME Spares PROVE UNCHANGED <<OnItsWay, ToMake, host>>
  OBVIOUS
<1>1. UNCHANGED <<OnItsWay, host>>
  BY DEF Spares, vars, main, view, OnItsWay
<1>2. UNCHANGED <<macro_active, macro_key, Made>>
  BY DEF Spares, running, Made
<1>3. macro_active => Typed(macro_key)' = Typed(macro_key)
  BY <1>2 DEF Spares, AllUp, Typed
<1>4. ToMake' = ToMake
  BY <1>2, <1>3, ToMakeIs, ToMakeIsNext DEF ToMake
<1> QED BY <1>1, <1>4

LEMMA ToMakeType == Types /\ NoHoles => ToMake \in Seq(Sets)
<1> SUFFICES ASSUME Types, NoHoles PROVE ToMake \in Seq(Sets)
  OBVIOUS
<1>1. Typed(macro_key) \in Seq(Stroke)
  BY TypedIs DEF Types
<1>2. Made \in Nat
  BY Lengths DEF Types, Made, Place
<1>3. macro_active => ToMake \in Seq(Sets)
  BY <1>1, <1>2, ToMakeIs, LeftIs
<1>4. ~macro_active => ToMake \in Seq(Sets)
  BY EmptySeq DEF ToMake
<1> QED BY <1>3, <1>4

Same == UNCHANGED <<Phrases, Todo, Seen, sure>>

\* While nobody interferes.
LEMMA SteadyStep ==
  ASSUME Types, TypeOK, NoHoles, TypeOK', Steady, Steady', sure, sure', MNext
  PROVE  Ideal!Next \/ Same
<1>1. Way /\ Way'
  BY WayIs, WayIsNext DEF Steady
<1>2. CASE Start
  BY <1>2, StartStep DEF Start, Ideal!Next, Phrases
<1>3. CASE Typing
  BY <1>1, <1>3, PressStep, ReleaseStep, NextStep DEF Typing, macro_run, Same
<1>4. CASE Sending
  <2>1. ~MSpin
    BY DEF MSpin, Spin, Steady, OneAtATime
  <2>2. ~(MReset /\ Note(TRUE, FALSE))
    <3> SUFFICES ASSUME MReset, Note(TRUE, FALSE) PROVE FALSE
      OBVIOUS
    <3>1. configured /\ configured'
      BY DEF Steady, OneAtATime
    <3> QED BY <3>1 DEF MReset, BusReset, usb_set_config
  <2>3. MWrite \/ (\E e \in Endpoint : MIdle(e)) => Same
    BY <1>1, WriteStep DEF Same
  <2>4. ASSUME NEW e \in Endpoint, MHostPoll(e) PROVE Ideal!Next
    BY <1>1, <2>4, PollStep, ToMakeType DEF Ideal!Next, Phrases
  <2> QED BY <1>4, <2>1, <2>2, <2>3, <2>4 DEF Sending
<1>5. CASE Bother
  <2>1. Spares /\ (\/ \E k \in Key, p \in Phrase : macro_set_phrase(k, p)
                   \/ macro_init
                   \/ \E s \in Saved, on \in BOOLEAN : flash_read_config(s, on)
                   \/ \E on \in BOOLEAN : SetMode(on))
    BY <1>5, BotherSpares
  <2>2. UNCHANGED <<Todo, Seen, sure>>
    BY <2>1, SparesShows DEF Todo, Seen
  <2>3. UNCHANGED Phrases \/ Ideal!Define
    BY PhrasesStep
  <2> QED BY <2>2, <2>3 DEF Same, Ideal!Next, Todo, Seen
<1> QED BY <1>2, <1>3, <1>4, <1>5 DEF MNext

LEMMA TypistStep ==
  ASSUME Types, TypeOK, TypingInv, Types', TypeOK', TypingInv', [MNext]_mvars,
         sure \in BOOLEAN, sure' \in BOOLEAN
  PROVE  Ideal!Next \/ Same
<1>1. CASE UNCHANGED mvars
  <2>1. UNCHANGED <<macros, running, vars, view, sure>>
    BY <1>1 DEF mvars, ghosts
  <2>2. UNCHANGED <<Phrases, ToMake>>
    BY <2>1, SameToMake
  <2>3. UNCHANGED <<OnItsWay, host>>
    BY <2>1 DEF vars, main, view, OnItsWay
  <2> QED BY <2>1, <2>2, <2>3 DEF Same, Todo, Seen
<1>2. CASE MNext
  <2>1. UNCHANGED Phrases \/ Ideal!Define
    BY <1>2, PhrasesStep
  <2>2. CASE sure /\ sure'
    BY <1>2, <2>2, SteadyStep DEF TypingInv
  <2>3. CASE sure /\ ~sure'
    <3>1. Todo' = <<>> /\ Seen' = {} /\ sure' = FALSE
      BY <2>3 DEF Todo, Seen
    <3> QED BY <2>1, <3>1 DEF Ideal!Next, Ideal!Lose, Phrases, Todo, Seen
  <2>4. CASE ~sure /\ ~sure'
    <3>1. UNCHANGED <<Todo, Seen, sure>>
      BY <2>4 DEF Todo, Seen
    <3> QED BY <2>1, <3>1 DEF Same, Ideal!Next, Todo, Seen
  <2>5. CASE ~sure /\ sure'
    <3>1. Quiet'
      <4>1. \A d, c : Note(d, c) => Quiet'
        BY <2>5 DEF Note
      <4> QED BY <1>2, <4>1 DEF MNext, Start, Typing, Sending, Bother
    <3>2. Todo = <<>> /\ Seen = {} /\ Todo' = <<>> /\ Seen' = {}
      BY <2>5, <3>1, QuietShows DEF Todo, Seen
    <3>3. Ideal!Resume
      BY <2>5, <3>2 DEF Ideal!Resume, Todo, Seen
    <3> QED BY <2>1, <3>3 DEF Ideal!Next, Phrases
  <2> QED BY <2>2, <2>3, <2>4, <2>5
<1> QED BY <1>1, <1>2

\* Macro implements Typist: while nobody presses another key, restarts or
\* redefines the macro that runs, changes the mode under it or resets the bus,
\* the host sees each stroke of the phrase go down and up, in order and each
\* once, however the writes, the fetches, the interrupts and the commands fall
\* between the steps of macro_run.
THEOREM MacroTypesThePhrase == MSpec => TypesThePhrase
<1>1. MInit => Ideal!Init
  <2> SUFFICES ASSUME MInit PROVE Ideal!Init
    OBVIOUS
  <2>1. \A k \in Key : Typed(k) = <<>>
    BY Lengths DEF MInit, NoMacros, NoLength, Typed
  <2>2. OnItsWay = <<>> /\ ToMake = <<>>
    BY DEF MInit, Init, OnItsWay, ToMake
  <2>3. UNION {host[e] : e \in Endpoint} = {}
    BY DEF MInit, NoReport
  <2>4. <<>> \o <<>> = <<>>
    BY EmptySeq, ConcatEmptySeq
  <2> QED BY <2>1, <2>2, <2>3, <2>4 DEF Ideal!Init, Ideal!Empty, MInit
<1>2. /\ MacroInv /\ TypingInv /\ MacroInv' /\ TypingInv' /\ [MNext]_mvars
      => [Ideal!Next]_(Ideal!vars)
  <2> SUFFICES ASSUME MacroInv, TypingInv, MacroInv', TypingInv', [MNext]_mvars
               PROVE  [Ideal!Next]_(Ideal!vars)
    OBVIOUS
  <2>1. /\ TypeOK /\ Types /\ TypeOK' /\ Types'
        /\ sure \in BOOLEAN /\ sure' \in BOOLEAN
    BY MTypes DEF MacroInv, MTypeOK, Types, Buffers, Lens, Reports
  <2>2. Ideal!Next \/ Same
    BY <2>1, TypistStep
  <2>3. Same => UNCHANGED Ideal!vars
    BY DEF Same, Ideal!vars, Phrases, Todo, Seen
  <2> QED BY <2>2, <2>3
<1> QED BY <1>1, <1>2, TypingInvHolds, PTL DEF MSpec, TypesThePhrase, Ideal!Spec
=============================================================================
