-------------------------------- MODULE Typist --------------------------------
(***************************************************************************)
(* What macro keys promise, without buffers, positions and endpoints.  A   *)
(* macro key has a phrase.  After it is pressed the host sees each stroke  *)
(* of the phrase go down and up again, in order, each exactly once, as it  *)
(* would see of a typist who hits one key at a time.                       *)
(*                                                                         *)
(* The promise is given only while sure is TRUE.  What may take it away,   *)
(* and when it is given again, the implementation says.                    *)
(***************************************************************************)
EXTENDS Integers, Sequences

CONSTANTS
  Key,      \* macro keys
  Stroke,   \* a key of a keyboard with its modifiers
  Phrase,   \* phrases one may ask for
  Saved     \* phrases of all keys that may be loaded

VARIABLES
  phrases,  \* the phrase of each macro key
  todo,     \* the reports the host has yet to see: sets of strokes down
  seen,     \* the last one it saw
  sure

vars == <<phrases, todo, seen, sure>>

Empty == [k \in Key |-> <<>>]

Init == phrases = Empty /\ todo = <<>> /\ seen = {} /\ sure = TRUE

\* The reports of a phrase: the strokes down and up in turn.
Reports(phrase) ==
  [i \in 1..(2 * Len(phrase)) |->
     IF i % 2 = 1 THEN {phrase[(i + 1) \div 2]} ELSE {}]

Press(k) ==
  /\ sure /\ todo' = todo \o Reports(phrases[k])
  /\ UNCHANGED <<seen, sure>>

See ==
  /\ sure /\ todo # <<>>
  /\ seen' = Head(todo) /\ todo' = Tail(todo)
  /\ UNCHANGED sure

Lose   == todo' = <<>> /\ seen' = {} /\ sure' = FALSE
Resume == ~sure /\ sure' = TRUE /\ UNCHANGED <<todo, seen>>

\* A phrase that is refused half way replaces the strokes read so far, and no
\* more than there were, or the first one if there were none.
Mixed(old, new, i) ==
  IF old = <<>> THEN SubSeq(new, 1, IF i = 0 THEN 0 ELSE 1)
  ELSE [j \in 1..Len(old) |-> IF j <= i THEN new[j] ELSE old[j]]

Define ==
  \/ phrases' = Empty \/ phrases' \in Saved
  \/ \E k \in Key, p \in Phrase : phrases' = [phrases EXCEPT ![k] = p]
  \/ \E k \in Key, p \in Phrase : \E i \in 0..Len(p) :
       phrases' = [phrases EXCEPT ![k] = Mixed(phrases[k], p, i)]

Next ==
  \/ (\E k \in Key : Press(k)) /\ UNCHANGED phrases
  \/ (See \/ Lose \/ Resume) /\ UNCHANGED phrases
  \/ Define /\ (Lose \/ Resume \/ UNCHANGED <<todo, seen, sure>>)

Spec == Init /\ [][Next]_vars
=============================================================================
