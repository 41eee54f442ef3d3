---------------------------------- MODULE Pipe ----------------------------------
(***************************************************************************)
(* What the serial log promises: a queue of Room bytes between those who   *)
(* log and the host.  Bytes without room are dropped, the others come out  *)
(* in order, in chunks that the endpoint takes or refuses as a whole.      *)
(*                                                                         *)
(* Two things may go wrong, and the promise says when.  A chunk that was   *)
(* read and not yet handed over is spoilt by bytes for which there is no   *)
(* room beside it.  And while harmed is TRUE the queue may become any      *)
(* other: somebody wrote to it while somebody else was half way.           *)
(***************************************************************************)
EXTENDS Integers, Sequences

CONSTANTS
  Byte,
  Room,      \* bytes the queue holds
  MaxChunk,
  Message    \* what is logged at once

VARIABLES
  queue,
  chunk,     \* read from the queue, not yet handed over
  packet,    \* what the endpoint has for the host
  harmed

vars == <<queue, chunk, packet, harmed>>

Init == queue = <<>> /\ chunk = <<>> /\ packet = <<>> /\ harmed = FALSE

AnyQueue ==
  /\ Len(queue') <= Room
  /\ \A i \in 1..Len(queue') : queue'[i] \in Byte

\* As much of a message as there is room for.
Put(msg) ==
  LET room == Room - Len(queue) IN
  /\ queue' = queue \o SubSeq(msg, 1, IF Len(msg) < room THEN Len(msg) ELSE room)
  /\ IF Len(queue') + Len(chunk) > Room + 1 THEN Len(chunk') = Len(chunk)
                                            ELSE chunk' = chunk

Take ==
  /\ chunk = <<>> /\ queue # <<>> /\ queue = chunk' \o queue'
  /\ Len(chunk') \in 1..MaxChunk
  /\ UNCHANGED <<packet, harmed>>

\* A packet that waits is not written over: the chunk is lost.
Hand ==
  /\ chunk # <<>> /\ chunk' = <<>>
  /\ packet' = IF packet = <<>> THEN chunk ELSE packet
  /\ UNCHANGED <<queue, harmed>>

\* The host fetches the packet, or a reset, which logs, discards it.
MayGo == packet' \in {packet, <<>>}

\* The harm itself, done by a message, or by the one whose write it met.
Harm == (harmed \/ harmed') /\ AnyQueue /\ Len(chunk') = Len(chunk)

Next ==
  \/ (\E msg \in Message : Put(msg)) /\ MayGo /\ harmed' \in {harmed, TRUE}
  \/ Harm /\ MayGo
  \/ Take \/ Hand
  \/ MayGo /\ UNCHANGED <<queue, chunk, harmed>>
  \/ harmed' = FALSE /\ UNCHANGED <<queue, chunk, packet>>

Spec == Init /\ [][Next]_vars
=============================================================================
