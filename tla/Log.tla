----------------------------------- MODULE Log -----------------------------------
(***************************************************************************)
(* The output side of serial.c: everything that logs writes to one ring,   *)
(* the main loop byte by byte and the USB interrupt in between, and        *)
(* serial_out reads it in chunks that it hands to the endpoint in place.   *)
(*                                                                         *)
(* The steps of the main loop, as the machine takes them:                  *)
(*                                                                         *)
(*   ring_write_ch   rest -> load -> store (two) -> reload -> wrap -> rest *)
(*   serial_out      rest -> begin -> clear -> copy -> rest                *)
(*                                                                         *)
(* The interrupt is not interrupted: each of its messages is one step.     *)
(* A place is read once between two stores, as in an optimised build.      *)
(***************************************************************************)
EXTENDS Ring

CONSTANTS
  Byte,
  SERIAL_BUF_SIZEOUT,
  EP_SIZE,        \* EP_SIZE_SERIALDATAOUT: the longest chunk
  MainByte,       \* what the main loop logs, byte by byte
  Message,        \* what the interrupt logs at once
  MaxResets       \* bound on the bus resets of a run

VARIABLES
  output_ring,
  at,             \* where the main loop is
  ch,             \* the byte it writes
  reg,            \* the register that holds a place
  todo,           \* the stores of ring_write_ch still to be done
  buf, len,       \* serial_out: the chunk
  idle,           \* usb_ep_serial_idle
  packet,         \* what the endpoint has for the host, or nothing
  ctr,            \* a transfer is done and the interrupt pending
  resets,
  harmed,         \* ghost: an interrupt met a write half way
  early,          \* ghost: the port was attached before a chunk was through
  silent          \* ghost: the port is closed, or a reset took a chunk, and
                  \* none was sent since

writing  == <<at, ch, reg, todo>>
reading  == <<buf, len>>
endpoint == <<idle, packet, ctr>>
ghosts   == <<early, silent>>
vars == <<output_ring, writing, reading, endpoint, resets, harmed, ghosts>>

size == SERIAL_BUF_SIZEOUT

\* What ch is when nothing is being written.
NoByte == 0

ASSUME LogAssumption ==
  /\ size \in Nat \ {0, 1} /\ EP_SIZE \in Nat \ {0}
  /\ MainByte \subseteq Byte /\ Message \subseteq Seq(Byte) /\ MaxResets \in Nat

\* end is one too far between its two stores.
TypeOK ==
  /\ output_ring \in [size : {size}, data : [Places(size) -> Byte],
                      begin : Places(size), end : 0..size]
  /\ output_ring.end = size => at \in {"store", "reload", "wrap"}
  /\ at \in {"rest", "load", "store", "reload", "wrap", "begin", "clear", "copy"}
  /\ ch \in Byte \cup {NoByte} /\ reg \in 0..size /\ todo \subseteq {"end", "data"}
  /\ buf \in Places(size) /\ len \in 0..EP_SIZE /\ buf + len <= size
  /\ idle \in BOOLEAN /\ ctr \in BOOLEAN
  /\ packet \in Seq(Byte) /\ Len(packet) <= EP_SIZE
  /\ resets \in 0..MaxResets
  /\ harmed \in BOOLEAN /\ early \in BOOLEAN /\ silent \in BOOLEAN

\* serial_init, and then nobody is attached.
Init ==
  /\ \E b \in Byte : output_ring = ring_init([p \in Places(size) |-> b], size)
  /\ at = "rest" /\ ch = NoByte /\ reg = 0 /\ todo = {}
  /\ buf = 0 /\ len = 0
  /\ idle = FALSE /\ packet = <<>> /\ ctr = FALSE /\ resets = 0
  /\ harmed = FALSE /\ early = FALSE /\ silent = TRUE

-----------------------------------------------------------------------------
(* The main loop logs a byte: ring_write_ch.                                *)

\* Mutant: there is room as long as the next place is not begin.
CheckLate(c) ==
  /\ at = "rest" /\ output_ring.end + 1 # output_ring.begin
  /\ at' = "load" /\ ch' = c
  /\ UNCHANGED <<output_ring, reg, todo, reading, endpoint, resets, harmed,
                 ghosts>>

\* A byte without room is silent.
Check(c) ==
  /\ at = "rest" /\ HasRoom(output_ring)
  /\ at' = "load" /\ ch' = c
  /\ UNCHANGED <<output_ring, reg, todo, reading, endpoint, resets, harmed,
                 ghosts>>

Load ==
  /\ at = "load" /\ at' = "store"
  /\ reg' = output_ring.end /\ todo' = {"end", "data"}
  /\ UNCHANGED <<output_ring, ch, reading, endpoint, resets, harmed, ghosts>>

\* data[end++] = ch: two stores, in the order the compiler likes.
Store(what) ==
  /\ at = "store" /\ what \in todo /\ todo' = todo \ {what}
  /\ at' = IF todo' = {} THEN "reload" ELSE "store"
  /\ output_ring' =
       IF what = "end" THEN [output_ring EXCEPT !.end = reg + 1]
                       ELSE [output_ring EXCEPT !.data[reg] = ch]
  /\ UNCHANGED <<ch, reg, reading, endpoint, resets, harmed, ghosts>>

\* end %= size.
Reload ==
  /\ at = "reload" /\ at' = "wrap"
  /\ reg' = output_ring.end
  /\ UNCHANGED <<output_ring, ch, todo, reading, endpoint, resets, harmed,
                 ghosts>>

\* Mutant: the end of the ring is not wrapped.
WrapNot ==
  /\ at = "wrap" /\ at' = "rest" /\ reg' = 0 /\ ch' = NoByte /\ harmed' = FALSE
  /\ output_ring' = [output_ring EXCEPT !.end = reg]
  /\ UNCHANGED <<todo, reading, endpoint, resets, ghosts>>

Wrap ==
  /\ at = "wrap" /\ at' = "rest" /\ reg' = 0 /\ ch' = NoByte /\ harmed' = FALSE
  /\ output_ring' = [output_ring EXCEPT !.end = reg % size]
  /\ UNCHANGED <<todo, reading, endpoint, resets, ghosts>>

-----------------------------------------------------------------------------
(* The main loop sends a chunk: serial_out, which is called in every pass.  *)

\* ring_read_contineous up to its last store.
Read ==
  /\ at = "rest" /\ idle /\ ~RING_EMPTY(output_ring)
  /\ at' = "begin"
  /\ buf' = output_ring.begin
  /\ len' = ring_contineous(output_ring, EP_SIZE)
  /\ reg' = ring_read_contineous(output_ring, EP_SIZE).begin
  /\ UNCHANGED <<output_ring, ch, todo, endpoint, resets, harmed, ghosts>>

\* From here on the chunk may be written over.
StoreBegin ==
  /\ at = "begin" /\ at' = "clear" /\ reg' = 0
  /\ output_ring' = [output_ring EXCEPT !.begin = reg]
  /\ UNCHANGED <<ch, todo, reading, endpoint, resets, harmed, ghosts>>

\* Mutant: the flag is left as it is.
ClearIdleNot ==
  /\ at = "clear" /\ at' = "copy"
  /\ UNCHANGED <<output_ring, ch, reg, todo, reading, endpoint, resets, harmed,
                 ghosts>>

\* cdcacm_data_wx clears the flag ...
ClearIdle ==
  /\ at = "clear" /\ at' = "copy" /\ idle' = FALSE
  /\ UNCHANGED <<output_ring, ch, reg, todo, reading, packet, ctr, resets,
                 harmed, ghosts>>

\* ... and offers the chunk.  An endpoint that has a packet refuses it, and
\* nobody looks at the result.
Chunk == [i \in 1..len |-> output_ring.data[buf + i - 1]]
Copy ==
  /\ at = "copy" /\ at' = "rest"
  /\ \/ packet = <<>> /\ packet' = Chunk /\ silent' = FALSE
     \/ packet # <<>> /\ UNCHANGED <<packet, silent>>
  /\ buf' = 0 /\ len' = 0
  /\ UNCHANGED <<output_ring, ch, reg, todo, idle, ctr, resets, harmed, early>>

-----------------------------------------------------------------------------
(* The interrupt.                                                           *)

\* The ring after a whole message: ring_write_ch again and again.  If end is
\* one too far, the first byte goes to data[size], behind the ring.
Logged(msg) ==
  LET after[i \in 0..Len(msg)] ==
        IF i = 0 THEN output_ring ELSE ring_write_ch(after[i - 1], msg[i])
  IN  after[Len(msg)]

\* The write of the main loop has seen an end that is not the end any more, or
\* has shown one that is not an end.
Meets ==
  /\ output_ring' # output_ring
  /\ \/ at = "load" /\ ~HasRoom(output_ring')
     \/ at = "store" /\ "end" \in todo
     \/ at = "wrap"
     \/ output_ring.end = size

Interrupt(msg) ==
  /\ output_ring' = Logged(msg)
  /\ harmed' = (harmed \/ Meets)
  /\ UNCHANGED <<writing, reading>>

\* A command that prints, an elog of the interrupt.
InterruptLogs ==
  /\ \E msg \in Message : Interrupt(msg)
  /\ UNCHANGED <<endpoint, resets, ghosts>>

Pending == packet # <<>> \/ ctr \/ at = "copy"

\* SET_CONTROL_LINE_STATE: the host opens the port ...
Attach ==
  /\ \E msg \in Message : Interrupt(msg)
  /\ idle' = TRUE /\ early' = (early \/ Pending) /\ silent' = FALSE
  /\ UNCHANGED <<packet, ctr, resets>>

\* ... and closes it.
Detach ==
  /\ idle' = FALSE /\ silent' = TRUE
  /\ UNCHANGED <<output_ring, writing, reading, packet, ctr, resets, harmed,
                 early>>

HostPoll ==
  /\ packet # <<>> /\ packet' = <<>> /\ ctr' = TRUE
  /\ UNCHANGED <<output_ring, writing, reading, idle, resets, harmed, ghosts>>

\* Mutant: the serial endpoint has no case in the switch.
EndpointIdleNot ==
  /\ ctr /\ ctr' = FALSE
  /\ early' = (early /\ (packet # <<>> \/ at = "copy"))
  /\ UNCHANGED <<output_ring, writing, reading, idle, packet, resets, harmed,
                 silent>>

usb_endpoint_idle ==
  /\ ctr /\ ctr' = FALSE /\ idle' = TRUE
  /\ early' = (early /\ (packet # <<>> \/ at = "copy"))
  /\ UNCHANGED <<output_ring, writing, reading, packet, resets, harmed, silent>>

\* A bus reset, or SET_CONFIGURATION, discards what the endpoint has.
BusReset ==
  /\ resets < MaxResets /\ resets' = resets + 1
  /\ \E msg \in Message : Interrupt(msg)
  /\ packet' = <<>> /\ ctr' = FALSE
  /\ silent' = (silent \/ Pending)
  /\ UNCHANGED <<idle, early>>

-----------------------------------------------------------------------------
MainGoesOn ==
  \/ Load \/ (\E what \in {"end", "data"} : Store(what)) \/ Reload \/ Wrap
  \/ StoreBegin \/ ClearIdle \/ Copy

Next ==
  \/ \E c \in MainByte : Check(c)
  \/ Read \/ MainGoesOn
  \/ InterruptLogs \/ Attach \/ Detach \/ HostPoll \/ usb_endpoint_idle \/ BusReset

\* The main loop goes on with what it began and calls serial_out in every
\* pass, whatever else it logs; the host fetches what it is offered.
Fairness ==
  /\ WF_vars(MainGoesOn) /\ SF_vars(Read)
  /\ WF_vars(HostPoll) /\ WF_vars(usb_endpoint_idle)

Spec == Init /\ [][Next]_vars /\ Fairness

-----------------------------------------------------------------------------
(* Properties.                                                              *)

\* What is in the ring, a byte included whose place is taken and not filled.
Queue ==
  Contents(IF at = "store" /\ todo = {"data"}
             THEN [output_ring EXCEPT !.data[reg] = ch] ELSE output_ring)

Ideal == INSTANCE Pipe WITH
  Room     <- size - 1,
  MaxChunk <- EP_SIZE,
  Message  <- Message \cup {<<c>> : c \in MainByte},
  queue    <- Queue,
  chunk    <- IF at \in {"clear", "copy"} THEN Chunk ELSE <<>>

\* Bytes come out in order, none is made up and none lost but for want of
\* room, whatever the interrupt logs between the steps of the main loop: but
\* when it meets a write of the main loop the queue is another one, until that
\* write is over, and when it fills the ring the chunk being sent is spoilt.
LogsInOrder == Ideal!Spec

\* A chunk is refused only if the host opened the port while one was under way.
LostOnlyAfterAttach == at = "copy" /\ packet # <<>> => early

\* serial_out does not wait for ever for an endpoint that waits for it: as
\* long as the port is open and something is logged, chunks are sent, unless a
\* reset took one.
Drains == []<>(RING_EMPTY(output_ring) \/ at = "copy" \/ silent)
-----------------------------------------------------------------------------
(* The invariant behind LogsInOrder and LostOnlyAfterAttach.                *)

\* The i-th place of the ring, counted from begin.
PlaceOf(i) == (output_ring.begin + i - 1) % size

\* A write that nothing met: the room it has seen is there, its place is the
\* end of the queue, and after the store of end the last in the queue.
CleanWrite ==
  /\ at = "load" => HasRoom(output_ring)
  /\ at = "store" /\ "end" \in todo =>
       /\ HasRoom(output_ring) /\ reg = output_ring.end
       /\ "data" \notin todo => output_ring.data[reg] = ch
  /\ at = "store" /\ "end" \notin todo =>
       \E i \in 1..RingLen(output_ring) : reg = PlaceOf(i)
  /\ at = "wrap" => reg = output_ring.end

Writes ==
  /\ at \in {"load", "store"} => ch \in MainByte
  /\ at = "store" => todo # {} /\ reg \in Places(size)
  /\ at # "store" => todo = {}
  /\ ~harmed => CleanWrite

\* The chunk lies at the begin of the ring, and then right before it.
Reads ==
  /\ at = "begin" =>
       /\ buf = output_ring.begin /\ reg = (buf + len) % size
       /\ len \in 1..ring_contineous(output_ring, EP_SIZE)
  /\ at \in {"clear", "copy"} =>
       len > 0 /\ output_ring.begin = (buf + len) % size

\* As long as the port was not attached early the flag tells the truth, and
\* one chunk is under way at most.
OneChunk ==
  ~early => /\ idle \/ at \in {"begin", "clear", "copy"} => packet = <<>> /\ ~ctr
            /\ at = "copy" => ~idle
            /\ packet # <<>> => ~ctr

LogInv == TypeOK /\ Writes /\ Reads /\ OneChunk
=============================================================================
