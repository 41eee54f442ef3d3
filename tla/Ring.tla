---------------------------------- MODULE Ring ----------------------------------
(***************************************************************************)
(* ring.c: a ring buffer as a record.  begin is the place of the next byte *)
(* to read and end that of the next to write; a ring of size places holds  *)
(* up to size - 1 bytes, as begin = end is the empty ring.                 *)
(*                                                                         *)
(* Each operation is given as the ring it leaves and what it returns.      *)
(* Contents(r) is the queue that the ring stands for.                      *)
(***************************************************************************)
EXTENDS Integers, Sequences

Places(size) == 0..(size - 1)

\* The rings of a size over a set of bytes.
RingOf(size, Ch) ==
  [size : {size}, data : [Places(size) -> Ch],
   begin : Places(size), end : Places(size)]

ring_init(data, size) ==
  [size |-> size, data |-> data, begin |-> 0, end |-> 0]

RING_EMPTY(r) == r.begin = r.end

\* The place after a place.
Succ(r, place) == (place + 1) % r.size

HasRoom(r) == Succ(r, r.end) # r.begin

\* A byte that has no room is dropped.
ring_write_ch(r, ch) ==
  IF HasRoom(r)
    THEN [size |-> r.size, data |-> [r.data EXCEPT ![r.end] = ch],
          begin |-> r.begin, end |-> Succ(r, r.end)]
    ELSE r

\* What ring_read_ch stores, of a ring that is not empty, and what it leaves.
ring_peek(r)    == r.data[r.begin]
ring_read_ch(r) == IF RING_EMPTY(r) THEN r
                   ELSE [r EXCEPT !.begin = Succ(r, r.begin)]

\* ring_mark and ring_marklen, since the ring was at mark.
ring_mark(r)          == r.end
ring_marklen(r, mark) == ((r.end - mark) + r.size) % r.size

\* ring_read_contineous: the bytes up to the end of the ring or of the buffer,
\* at most maxlen, lie where they lay and are free to be written over.
ring_contineous(r, maxlen) ==
  LET upTo == IF r.begin > r.end THEN r.size ELSE r.end
      len  == upTo - r.begin
  IN  IF len > maxlen THEN maxlen ELSE len
ring_read_contineous(r, maxlen) ==
  [r EXCEPT !.begin = (@ + ring_contineous(r, maxlen)) % r.size]
ring_chunk(r, maxlen) ==
  [i \in 1..ring_contineous(r, maxlen) |-> r.data[r.begin + i - 1]]

-----------------------------------------------------------------------------
RingLen(r)  == ring_marklen(r, r.begin)
Contents(r) == [i \in 1..RingLen(r) |-> r.data[(r.begin + i - 1) % r.size]]
=============================================================================
