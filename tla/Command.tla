-------------------------------- MODULE Command --------------------------------
(***************************************************************************)
(* serial.c and command.c: packets of the host go to the input ring, and a *)
(* packet that has an end of line has command_process read the ring until  *)
(* it is empty.  Both run in the USB interrupt, which nothing interrupts,  *)
(* so a packet is one step.                                                *)
(*                                                                         *)
(* The ring is its contents: SerialProofs shows that a ring of size places *)
(* is a queue of up to size - 1 bytes that drops what has no room.         *)
(*                                                                         *)
(* A command is the tuple of its byte and its arguments.  What commands do *)
(* is in Keyboard (n, N, K, R), Macro (m, M, R) and Flash (W, R, Z).       *)
(***************************************************************************)
EXTENDS Integers, Sequences, SequencesExt

CONSTANTS
  Char,
  Eol,                \* '\n' and '\r'
  Simple,             \* the commands that take no arguments
  CMD_KEYMAP_SET, CMD_MACRO_SET,
  KEYMAP_ARGS,        \* layer, row, column, type and three arguments: 7
  HexValue,           \* the value of each byte as a digit, 0 if it is none
  SERIAL_BUF_SIZEIN,
  Packet              \* sequences of bytes the host may send in a packet

VARIABLES
  input_ring,
  received,  \* the packet that serial_in got
  executed   \* the commands executed for it

commandVars == <<input_ring, received, executed>>

ASSUME CommandAssumption ==
  /\ CMD_KEYMAP_SET # CMD_MACRO_SET
  /\ {CMD_KEYMAP_SET, CMD_MACRO_SET} \cap (Simple \cup Eol) = {}
  /\ Simple \cap Eol = {}
  /\ Simple \cup Eol \cup {CMD_KEYMAP_SET, CMD_MACRO_SET} \subseteq Char
  /\ HexValue \in [Char -> 0..15]
  /\ KEYMAP_ARGS \in Nat \ {0} /\ SERIAL_BUF_SIZEIN \in Nat \ {0, 1}
  /\ Packet \subseteq Seq(Char)

\* Mutant: a byte is never dropped.
PutAlways(ring, c) == Append(ring, c)

\* ring_write_ch.
Put(ring, c) ==
  IF Len(ring) < SERIAL_BUF_SIZEIN - 1 THEN Append(ring, c) ELSE ring

\* The ring after the bytes of a packet.
Gathered(ring, bytes) ==
  LET after[i \in 0..Len(bytes)] ==
        IF i = 0 THEN ring ELSE Put(after[i - 1], bytes[i])
  IN  after[Len(bytes)]

From(ring, i) == SubSeq(ring, i, Len(ring))

\* The places of the ends of line from the i-th byte on.
Eols(ring, i) == {j \in i..Len(ring) : ring[j] \in Eol}

\* Mutant: the end of line is left out of account.
SkipAll(ring) == <<>>

\* The ring after the next end of line.
ring_skip_line(ring) ==
  IF Eols(ring, 1) = {} THEN <<>> ELSE From(ring, Min(Eols(ring, 1)) + 1)

hex_digit(ring, i) == IF i > Len(ring) THEN 0 ELSE HexValue[ring[i]]

\* Of the i-th byte and the next one; what the ring has not got counts as 0.
read_hex_8(ring, i) == 16 * hex_digit(ring, i) + hex_digit(ring, i + 1)

\* The arguments of K are read whatever they are, ends of line included.
command_set_keymap(ring) ==
  <<CMD_KEYMAP_SET, [n \in 1..KEYMAP_ARGS |-> read_hex_8(ring, 2 * n - 1)]>>

\* The ends of a phrase that begins at the third byte: an end of line there
\* is not one, it becomes a character.  buffer has as many bytes as the ring
\* has places, so that a phrase always fits.
PhraseEnds(ring) == Eols(ring, 4)

command_set_macro(ring) ==
  <<CMD_MACRO_SET, read_hex_8(ring, 1), SubSeq(ring, 3, Min(PhraseEnds(ring)) - 1)>>

\* The commands executed until the ring is empty.
command_process[ring \in Seq(Char)] ==
  IF ring = <<>> THEN <<>>
  ELSE LET c == Head(ring)
           rest == Tail(ring)
       IN  CASE c \in Simple -> <<<<c>>>> \o command_process[rest]
             [] c = CMD_KEYMAP_SET ->
                  <<command_set_keymap(rest)>>
                    \o command_process[From(rest, 2 * KEYMAP_ARGS + 1)]
             [] c = CMD_MACRO_SET ->
                  IF PhraseEnds(rest) = {} THEN <<>>
                  ELSE <<command_set_macro(rest)>>
                         \o command_process[From(rest, Min(PhraseEnds(rest)) + 1)]
             [] c \in Eol -> command_process[rest]
             [] OTHER -> command_process[ring_skip_line(rest)]

\* Mutant: only the last byte counts.
EolSeenLast(bytes) == Last(bytes) \in Eol

\* The end of line counts although the ring may have dropped it.
eol_seen(bytes) == \E i \in 1..Len(bytes) : bytes[i] \in Eol

CommandInit == input_ring = <<>> /\ received = <<>> /\ executed = <<>>

serial_in(bytes) ==
  LET ring == Gathered(input_ring, bytes)
  IN  /\ received' = bytes
      /\ \/ ~eol_seen(bytes) /\ input_ring' = ring /\ executed' = <<>>
         \/ /\ eol_seen(bytes)
            /\ input_ring' = <<>> /\ executed' = command_process[ring]

CommandNext == \E bytes \in Packet : serial_in(bytes)

CommandSpec == CommandInit /\ [][CommandNext]_commandVars

-----------------------------------------------------------------------------
(* Properties.                                                              *)

CommandTypeOK ==
  /\ input_ring \in Seq(Char) /\ Len(input_ring) < SERIAL_BUF_SIZEIN
  /\ received \in Packet \cup {<<>>}
  /\ \A i \in 1..Len(executed) : executed[i][1] \in Char

Lines == INSTANCE CommandLine WITH
  line <- input_ring, packet <- received,
  Room <- SERIAL_BUF_SIZEIN - 1, Args <- KEYMAP_ARGS

\* However lines are spread over packets, and whatever was sent before, each
\* is executed by itself; what overflows or breaks off harms no later packet.
ExecutesLines == Lines!Spec

\* No line that is complete waits in the ring, the one whose end the ring had
\* no room for included: the channel cannot be blocked by a full ring.
NoLineWaits == \A i \in 1..Len(input_ring) : input_ring[i] \notin Eol
=============================================================================
