------------------------------ MODULE CommandLine ------------------------------
(***************************************************************************)
(* What the command channel promises, line by line.  Bytes gather until a  *)
(* packet has an end of line; then every line is executed by itself: what  *)
(* a line does depends on no other line.  Two things limit the promise.    *)
(*                                                                         *)
(*   - The rest of that packet after its last end of line, and what has no *)
(*     room, is cut off: it is executed as far as it goes.                 *)
(*   - A line that breaks off inside a command spoils the lines after it,  *)
(*     but only those of the same packet.                                  *)
(***************************************************************************)
EXTENDS Integers, Sequences, SequencesExt

CONSTANTS
  Char, Eol, Simple, CMD_KEYMAP_SET, CMD_MACRO_SET,
  Args,      \* hexadecimal pairs of a keymap command
  HexValue,
  Room,      \* bytes that are kept for a line
  Packet

VARIABLES
  line,      \* bytes that wait for the end of their line
  packet,    \* the last packet of the host
  executed   \* the commands it caused to be executed

vars == <<line, packet, executed>>

HasEol(bytes)  == \E i \in 1..Len(bytes) : bytes[i] \in Eol
From(s, i)     == SubSeq(s, i, Len(s))
Value(l, i)    == IF i > Len(l) THEN 0 ELSE HexValue[l[i]]
Pair(l, i)     == 16 * Value(l, i) + Value(l, i + 1)

\* What a line that begins with K or M asks for.
KeymapSet(l) == <<CMD_KEYMAP_SET, [i \in 1..Args |-> Pair(l, 2 * i)]>>
MacroSet(l)  == <<CMD_MACRO_SET, Pair(l, 2), SubSeq(l, 4, Len(l) - 1)>>

\* The commands of a line with its end, or of one that was cut off before it,
\* which defines no macro.
Commands[l \in Seq(Char)] ==
  IF l = <<>> THEN <<>>
  ELSE IF Head(l) \in Simple THEN <<<<Head(l)>>>> \o Commands[Tail(l)]
  ELSE IF Head(l) = CMD_KEYMAP_SET
         THEN <<KeymapSet(l)>> \o Commands[From(l, 2 * Args + 2)]
  ELSE IF Head(l) = CMD_MACRO_SET /\ HasEol(l) THEN <<MacroSet(l)>>
  ELSE <<>>

\* No command of a line that has its end breaks off.
WellFormed[l \in Seq(Char)] ==
  \/ l = <<>>
  \/ Head(l) \in Simple /\ WellFormed[Tail(l)]
  \/ /\ Head(l) = CMD_KEYMAP_SET
     /\ Len(l) > 2 * Args + 1 /\ WellFormed[From(l, 2 * Args + 2)]
  \/ Head(l) = CMD_MACRO_SET /\ Len(l) > 4
  \/ Head(l) \notin Simple \cup {CMD_KEYMAP_SET, CMD_MACRO_SET}

\* The commands of these bytes up to the first line that breaks off, and
\* whether there is such a line.
Promise[bytes \in Seq(Char)] ==
  IF ~HasEol(bytes) THEN [first |-> Commands[bytes], spoiled |-> FALSE]
  ELSE LET end  == Min({i \in 1..Len(bytes) : bytes[i] \in Eol})
           l    == SubSeq(bytes, 1, end)
           rest == Promise[From(bytes, end + 1)]
       IN  IF WellFormed[l]
             THEN [first |-> Commands[l] \o rest.first, spoiled |-> rest.spoiled]
             ELSE [first |-> <<>>, spoiled |-> TRUE]

Kept(bytes) == SubSeq(bytes, 1, IF Len(bytes) > Room THEN Room ELSE Len(bytes))

Init == line = <<>> /\ packet = <<>> /\ executed = <<>>

Gather ==
  /\ packet' \in Packet /\ ~HasEol(packet')
  /\ line' = Kept(line \o packet') /\ executed' = <<>>

Execute ==
  /\ packet' \in Packet /\ HasEol(packet')
  /\ LET promise == Promise[Kept(line \o packet')]
     IN  IF promise.spoiled THEN IsPrefix(promise.first, executed')
                            ELSE executed' = promise.first
  /\ line' = <<>>

Next == Gather \/ Execute

Spec == Init /\ [][Next]_vars
=============================================================================
