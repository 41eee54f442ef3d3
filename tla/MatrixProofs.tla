---------------------------- MODULE MatrixProofs ----------------------------
(***************************************************************************)
(* Proofs about Matrix, for every size of the matrix, every debounce time  *)
(* and every speed of the main loop: while the clock does not wrap, a      *)
(* value is taken only when it was stable, and no switch chatters.         *)
(***************************************************************************)
EXTENDS Matrix, TLAPS

\* The numbers the ghosts and timers are made of.
LEMMA Numbers ==
  /\ MS_DEBOUNCE \in Nat /\ Stall \in Nat /\ Latency \in Nat
  /\ MS_DEBOUNCE < Latency /\ ClockMod \in Nat /\ MaxMs \in Nat
  /\ MaxMs <= ClockMod
BY MatrixAssumption DEF Latency

\* A ghost grows by one until it is past the longest time of interest.
LEMMA OlderType ==
  ASSUME NEW n \in 0..(Latency + 1)
  PROVE  /\ Older(n) \in 0..(Latency + 1)
         /\ Older(n) >= n /\ Older(n) <= n + 1
         /\ n <= Latency => Older(n) = n + 1
BY Numbers DEF Older

\* The initial state satisfies the invariant.
LEMMA InitDebounceInv == Init => DebounceInv
<1> SUFFICES ASSUME Init PROVE DebounceInv
  OBVIOUS
<1>1. /\ 0 \in 0..(ClockMod - 1) /\ 0 \in Row
      /\ 0 \in 0..Stall /\ 0 \in 0..(Latency + 1)
      /\ Latency + 1 \in 0..(Latency + 1)
  BY Numbers, MatrixAssumption DEF Row
<1>2. TypeOK
  BY <1>1 DEF Init, TypeOK
<1>3. TimerCovers
  BY Numbers DEF Init, TimerCovers
<1>4. QuietWhileNoted /\ EventsOfTake
  BY DEF Init, QuietWhileNoted, EventsOfTake, SymDiff
<1>5. system_ms <= MaxMs
  BY Numbers DEF Init
<1> QED
  BY <1>2, <1>3, <1>4, <1>5 DEF DebounceInv

\* While the clock does not wrap a timer lies MS_DEBOUNCE ahead of it.
LEMMA TimerAhead ==
  ASSUME NoWrap, NEW n \in 0..MaxMs
  PROVE  (n + MS_DEBOUNCE) % ClockMod = n + MS_DEBOUNCE
<1>1. n + MS_DEBOUNCE \in 0..(ClockMod - 1)
  BY Numbers DEF NoWrap
<1>2. \A a, b \in Nat : a < b => a % b = a
  OBVIOUS
<1> QED
  BY <1>1, <1>2, Numbers

-----------------------------------------------------------------------------
(* Every step keeps the invariant, one lemma per action.                    *)

LEMMA ReadRowInv == DebounceInv /\ ReadRow => DebounceInv'
<1> SUFFICES ASSUME DebounceInv, ReadRow PROVE DebounceInv'
  OBVIOUS
<1>1. TypeOK'
  BY DEF DebounceInv, ReadRow, TypeOK, RowOf
<1>2. TimerCovers' /\ QuietWhileNoted' /\ EventsOfTake' /\ (system_ms <= MaxMs)'
  BY DEF DebounceInv, ReadRow, TimerCovers, QuietWhileNoted, EventsOfTake
<1> QED
  BY <1>1, <1>2 DEF DebounceInv

\* A switch noted anew starts a new count, and the timer starts again.
LEMMA NoteRowInv == NoWrap /\ DebounceInv /\ NoteRow => DebounceInv'
<1> SUFFICES ASSUME NoWrap, DebounceInv, NoteRow PROVE DebounceInv'
  OBVIOUS
<1>t. /\ TypeOK /\ system_ms \in 0..MaxMs /\ row \in Row /\ pc = "note"
      /\ noted \in [Position -> 0..(Latency + 1)]
      /\ quiet \in [Position -> 0..(Latency + 1)]
      /\ debounce \in Nat
  BY Numbers DEF DebounceInv, TypeOK, NoteRow
<1>c. UNCHANGED <<contacts, system_ms, matrix, matrix_previous, stalled, quiet,
                  still>>
  BY DEF NoteRow
<1>r. row' \in Row /\ pc' \in {"take", "read"}
  BY <1>t, MatrixAssumption DEF NoteRow, LastRow, Row
<1>m. matrix = matrix_previous
  BY <1>t DEF DebounceInv, EventsOfTake
<1>1. CASE col = RowOf(matrix_debounce, row)
  <2>1. UNCHANGED <<matrix_debounce, matrix_update, debounce, noted>>
    BY <1>1 DEF NoteRow
  <2>2. TypeOK'
    BY <2>1, <1>c, <1>r, <1>t DEF NoteRow, TypeOK
  <2> QED
    BY <2>1, <2>2, <1>c, <1>r, <1>m
       DEF DebounceInv, TimerCovers, QuietWhileNoted, EventsOfTake
<1>2. CASE col # RowOf(matrix_debounce, row)
  <2> DEFINE changed == SymDiff(matrix_debounce', matrix_debounce)
  <2>1. /\ matrix_debounce' \subseteq Position
        /\ matrix_update' = TRUE
        /\ noted' = [p \in Position |-> IF p \in changed THEN 0 ELSE noted[p]]
    <3> DEFINE new == (matrix_debounce \ InRow(row, Column)) \cup InRow(row, col)
    <3>1. new \subseteq Position
      <4>1. col \subseteq Column
        BY <1>t DEF TypeOK
      <4>2. {row} \X col \subseteq Row \X Column
        BY <1>t, <4>1
      <4> QED
        BY <1>t, <4>2 DEF TypeOK, InRow, Position
    <3>2. matrix_debounce' = new /\ matrix_update' = TRUE
      BY <1>2 DEF NoteRow
    <3>3. noted' = [p \in Position |->
                      IF p \in SymDiff(new, matrix_debounce) THEN 0 ELSE noted[p]]
      BY <1>2 DEF NoteRow
    <3> QED
      BY <3>1, <3>2, <3>3
  <2>2. debounce' = system_ms + MS_DEBOUNCE /\ debounce' \in 0..(ClockMod - 1)
    <3>1. debounce' = (system_ms + MS_DEBOUNCE) % ClockMod
      BY <1>2 DEF NoteRow, timer_set
    <3>2. debounce' = system_ms + MS_DEBOUNCE
      BY <3>1, <1>t, TimerAhead
    <3> QED
      BY <3>2, <1>t, Numbers DEF NoWrap
  <2>3. noted' \in [Position -> 0..(Latency + 1)]
    BY <2>1, <1>t, Numbers
  <2>4. TypeOK'
    BY <2>1, <2>2, <2>3, <1>c, <1>r, <1>t DEF NoteRow, TypeOK
  <2>5. TimerCovers'
    BY <2>1, <2>2, <2>3, <1>c, <1>t, Numbers DEF TimerCovers
  <2>6. ASSUME NEW p \in SymDiff(matrix_debounce', matrix)
        PROVE  quiet[p] >= noted'[p]
    <3>1. p \in Position
      BY <2>1, <1>t DEF SymDiff, TypeOK
    <3>2. CASE p \in changed
      BY <3>1, <3>2, <2>1, <1>t, Numbers
    <3>3. CASE p \notin changed
      <4>1. p \in SymDiff(matrix_debounce, matrix)
        BY <3>3 DEF SymDiff
      <4> QED
        BY <4>1, <3>1, <3>3, <2>1 DEF DebounceInv, QuietWhileNoted
    <3> QED
      BY <3>2, <3>3
  <2>7. QuietWhileNoted'
    BY <2>6, <1>c DEF QuietWhileNoted
  <2>8. EventsOfTake'
    BY <1>c, <1>r, <1>m DEF EventsOfTake, SymDiff
  <2> QED
    BY <2>4, <2>5, <2>7, <2>8, <1>c DEF DebounceInv
<1> QED
  BY <1>1, <1>2

\* What is taken has been stable for more than MS_DEBOUNCE ms.
LEMMA TakeStable ==
  ASSUME DebounceInv, Take, NEW p \in SymDiff(matrix, matrix')
  PROVE  /\ matrix' = matrix_debounce
         /\ noted[p] > MS_DEBOUNCE
         /\ quiet[p] >= noted[p]
<1>1. /\ matrix' = matrix_debounce /\ timer_passed(debounce)
      /\ p \in SymDiff(matrix_debounce, matrix) /\ p \in Position
  BY DEF Take, SymDiff, DebounceInv, TypeOK
<1>2. /\ debounce \in Nat /\ system_ms \in Nat /\ noted[p] \in Nat
      /\ debounce < system_ms
      /\ noted[p] > Latency \/ noted[p] + debounce >= system_ms + MS_DEBOUNCE
  BY <1>1, Numbers DEF DebounceInv, TypeOK, TimerCovers, timer_passed
<1>3. noted[p] > MS_DEBOUNCE
  BY <1>2, Numbers
<1> QED
  BY <1>1, <1>3 DEF DebounceInv, QuietWhileNoted

LEMMA TakeInv == DebounceInv /\ Take => DebounceInv'
<1> SUFFICES ASSUME DebounceInv, Take PROVE DebounceInv'
  OBVIOUS
<1>t. /\ TypeOK /\ pc = "take" /\ pc' = "process" /\ matrix = matrix_previous
      /\ UNCHANGED <<contacts, system_ms, debounce, matrix_debounce,
                     matrix_previous, row, col, stalled, noted, quiet, still>>
  BY DEF DebounceInv, Take, EventsOfTake
<1>1. TypeOK'
  BY <1>t DEF Take, TypeOK
<1>2. TimerCovers' /\ (system_ms <= MaxMs)'
  BY <1>t DEF DebounceInv, TimerCovers
<1>3. matrix' = matrix \/ matrix' = matrix_debounce
  BY DEF Take
<1>4. QuietWhileNoted'
  BY <1>t, <1>3 DEF DebounceInv, QuietWhileNoted, SymDiff
<1>5. ASSUME NEW p \in SymDiff(matrix', matrix_previous)
      PROVE  quiet[p] > MS_DEBOUNCE
  <2>1. p \in SymDiff(matrix, matrix') /\ p \in Position
    BY <1>t, <1>1 DEF SymDiff, TypeOK
  <2>2. noted[p] \in Nat /\ quiet[p] \in Nat
    BY <1>t, <2>1, Numbers DEF TypeOK
  <2> QED
    BY <2>1, <2>2, TakeStable, Numbers
<1>6. EventsOfTake'
  BY <1>t, <1>3, <1>5 DEF EventsOfTake
<1> QED
  BY <1>1, <1>2, <1>4, <1>6 DEF DebounceInv

\* An event starts the count of its own switch, which is as noted.
LEMMA ProcessSwitchInv == DebounceInv /\ ProcessSwitch => DebounceInv'
<1> SUFFICES ASSUME DebounceInv, ProcessSwitch PROVE DebounceInv'
  OBVIOUS
<1>1. PICK q \in SymDiff(matrix, matrix_previous) :
         /\ matrix_previous' = SymDiff(matrix_previous, {q})
         /\ quiet' = [quiet EXCEPT ![q] = 0]
  BY DEF ProcessSwitch
<1>t. /\ TypeOK /\ pc = "process" /\ pc' = "process" /\ q \in Position
      /\ UNCHANGED <<contacts, system_ms, debounce, matrix_update, matrix,
                     matrix_debounce, row, col, stalled, noted, still>>
  BY DEF DebounceInv, ProcessSwitch, TypeOK, SymDiff
<1>2. matrix_debounce = matrix
  BY <1>1 DEF DebounceInv, EventsOfTake, SymDiff
<1>3. TypeOK'
  <2>1. matrix_previous' \subseteq Position
    BY <1>1, <1>t DEF SymDiff, TypeOK
  <2>2. quiet' \in [Position -> 0..(Latency + 1)]
    BY <1>1, <1>t, Numbers DEF TypeOK
  <2> QED
    BY <1>t, <2>1, <2>2 DEF TypeOK
<1>4. QuietWhileNoted'
  BY <1>2, <1>t DEF QuietWhileNoted, SymDiff
<1>5. ASSUME NEW p \in SymDiff(matrix, matrix_previous')
      PROVE  quiet'[p] > MS_DEBOUNCE
  <2>1. p # q /\ p \in SymDiff(matrix, matrix_previous) /\ p \in Position
    BY <1>1, <1>t, <1>3 DEF SymDiff, TypeOK
  <2> QED
    BY <1>1, <1>t, <2>1 DEF TypeOK, DebounceInv, EventsOfTake
<1>6. EventsOfTake'
  BY <1>2, <1>5, <1>t DEF EventsOfTake
<1> QED
  BY <1>3, <1>4, <1>6, <1>t DEF DebounceInv, TimerCovers

LEMMA ProcessDoneInv == DebounceInv /\ ProcessDone => DebounceInv'
<1> SUFFICES ASSUME DebounceInv, ProcessDone PROVE DebounceInv'
  OBVIOUS
<1>1. TypeOK'
  BY Numbers DEF DebounceInv, ProcessDone, TypeOK
<1> QED
  BY <1>1 DEF DebounceInv, ProcessDone, TimerCovers, QuietWhileNoted,
              EventsOfTake, SymDiff

LEMMA BounceInv == DebounceInv /\ Bounce => DebounceInv'
<1> SUFFICES ASSUME DebounceInv, Bounce PROVE DebounceInv'
  OBVIOUS
<1>1. TypeOK'
  BY Numbers DEF DebounceInv, Bounce, TypeOK, SymDiff, code
<1> QED
  BY <1>1 DEF DebounceInv, Bounce, TimerCovers, QuietWhileNoted, EventsOfTake,
              code

\* A millisecond ages every count alike and the clock with them.
LEMMA TickInv == NoWrap /\ DebounceInv /\ sys_tick_handler => DebounceInv'
<1> SUFFICES ASSUME NoWrap, DebounceInv, sys_tick_handler PROVE DebounceInv'
  OBVIOUS
<1>t. /\ TypeOK /\ system_ms \in Nat /\ system_ms < MaxMs /\ debounce \in Nat
      /\ noted \in [Position -> 0..(Latency + 1)]
      /\ quiet \in [Position -> 0..(Latency + 1)]
      /\ UNCHANGED <<contacts, code>>
      /\ noted' = [p \in Position |-> Older(noted[p])]
      /\ quiet' = [p \in Position |-> Older(quiet[p])]
  BY Numbers DEF DebounceInv, TypeOK, sys_tick_handler
<1>1. system_ms' = system_ms + 1 /\ system_ms' \in 0..(ClockMod - 1)
      /\ system_ms' <= MaxMs
  <2>1. system_ms + 1 < ClockMod
    BY <1>t, Numbers DEF NoWrap
  <2>2. \A a, b \in Nat : a < b => a % b = a
    OBVIOUS
  <2>3. system_ms + 1 \in Nat
    BY <1>t
  <2>4. (system_ms + 1) % ClockMod = system_ms + 1
    BY <2>1, <2>2, <2>3, Numbers
  <2>5. system_ms' = system_ms + 1
    BY <2>4 DEF sys_tick_handler
  <2> QED
    BY <2>1, <2>5, <1>t, Numbers
<1>2. noted' \in [Position -> 0..(Latency + 1)]
      /\ quiet' \in [Position -> 0..(Latency + 1)]
  BY <1>t, OlderType
<1>3. TypeOK'
  <2>1. still' \in 0..(Latency + 1)
    BY OlderType DEF sys_tick_handler, DebounceInv, TypeOK
  <2>2. stalled' \in 0..Stall
    BY Numbers DEF sys_tick_handler, DebounceInv, TypeOK
  <2> QED
    BY <1>t, <1>1, <1>2, <2>1, <2>2 DEF TypeOK, code
<1>4. ASSUME NEW p \in Position
      PROVE  /\ noted[p] \in Nat /\ noted'[p] \in Nat
             /\ noted[p] <= Latency => noted'[p] = noted[p] + 1
             /\ noted'[p] >= noted[p]
             /\ quiet[p] \in Nat /\ quiet'[p] \in Nat
             /\ quiet'[p] >= quiet[p]
             /\ quiet[p] >= noted[p] => quiet'[p] >= noted'[p]
  <2>1. noted[p] \in 0..(Latency + 1) /\ quiet[p] \in 0..(Latency + 1)
    BY <1>t
  <2>2. noted'[p] = Older(noted[p]) /\ quiet'[p] = Older(quiet[p])
    BY <1>t
  <2> QED
    BY <2>1, <2>2, OlderType, Numbers DEF Older
<1>5. TimerCovers'
  <2>1. ASSUME NEW p \in Position
        PROVE  noted'[p] > Latency
               \/ noted'[p] + debounce >= system_ms + 1 + MS_DEBOUNCE
    BY <1>4, <1>t, Numbers DEF DebounceInv, TimerCovers
  <2> QED
    BY <1>1, <1>t, <2>1 DEF TimerCovers, code
<1>6. QuietWhileNoted'
  <2>1. ASSUME NEW p \in SymDiff(matrix_debounce, matrix)
        PROVE  quiet'[p] >= noted'[p]
    <3>1. p \in Position
      BY <1>t DEF SymDiff, TypeOK
    <3> QED
      BY <1>4, <3>1 DEF DebounceInv, QuietWhileNoted
  <2> QED
    BY <1>t, <2>1 DEF QuietWhileNoted, code
<1>7. EventsOfTake'
  <2>1. ASSUME NEW p \in SymDiff(matrix, matrix_previous)
        PROVE  quiet'[p] > MS_DEBOUNCE
    <3>1. p \in Position
      BY <1>t DEF SymDiff, TypeOK
    <3> QED
      BY <1>4, <3>1, Numbers DEF DebounceInv, EventsOfTake
  <2> QED
    BY <1>t, <2>1 DEF DebounceInv, EventsOfTake, code
<1> QED
  BY <1>1, <1>3, <1>5, <1>6, <1>7 DEF DebounceInv

LEMMA StepDebounceInv == NoWrap /\ DebounceInv /\ [Next]_vars => DebounceInv'
<1> SUFFICES ASSUME NoWrap, DebounceInv, [Next]_vars PROVE DebounceInv'
  OBVIOUS
<1>1. CASE UNCHANGED vars
  BY <1>1 DEF vars, code, DebounceInv, TypeOK, TimerCovers, QuietWhileNoted,
              EventsOfTake
<1> QED
  BY <1>1, ReadRowInv, NoteRowInv, TakeInv, ProcessSwitchInv, ProcessDoneInv,
     BounceInv, TickInv DEF Next, Main

-----------------------------------------------------------------------------
(* How long it takes.                                                       *)

\* The types LatencyInv speaks of.
LEMMA LatencyTypes ==
  ASSUME DebounceInv
  PROVE  /\ still \in Nat /\ stalled \in 0..Stall /\ row \in Row
         /\ debounce \in Nat /\ system_ms \in 0..MaxMs
         /\ matrix \subseteq Position /\ matrix_debounce \subseteq Position
         /\ contacts \subseteq Position
BY Numbers DEF DebounceInv, TypeOK

\* A longer time includes a shorter one.
LEMMA StillLonger ==
  ASSUME DebounceInv, NEW m \in Nat, NEW n \in Nat, n <= m, StillAtPass(m)
  PROVE  StillAtPass(n)
BY LatencyTypes DEF StillAtPass

\* A pass that scans rows that hold still finds the matrix as it is.
LEMMA ScannedAll ==
  ASSUME DebounceInv, ScansRows, StillAtPass(0), pc \in {"take", "process"}
  PROVE  matrix_debounce = contacts
<1>1. \A p \in Position : p \in matrix_debounce <=> p \in contacts
  BY DEF ScansRows, Scanned
<1> QED
  BY <1>1, LatencyTypes

LEMMA InitLatencyInv == Init => LatencyInv
BY Numbers
DEF Init, LatencyInv, RowAtEnd, ScansRows, AllNoted, TimerEnds, UpdatePending,
    Taken, Reported, StillAtPass

LEMMA ReadRowLatency == DebounceInv /\ LatencyInv /\ ReadRow => LatencyInv'
<1> SUFFICES ASSUME DebounceInv, LatencyInv, ReadRow PROVE LatencyInv'
  OBVIOUS
<1>1. ScansRows'
  BY DEF LatencyInv, ReadRow, ScansRows, Scanned, StillAtPass, RowOf
<1>2. RowAtEnd' /\ AllNoted' /\ TimerEnds' /\ UpdatePending' /\ Taken' /\ Reported'
  BY DEF LatencyInv, ReadRow, RowAtEnd, AllNoted, TimerEnds, UpdatePending,
         Taken, Reported, StillAtPass
<1> QED
  BY <1>1, <1>2 DEF LatencyInv

\* A row is noted as it is, unless a contact has changed since it was read.
LEMMA NoteRowScans ==
  ASSUME DebounceInv, LatencyInv, NoteRow
  PROVE  ScansRows'
<1> SUFFICES ASSUME StillAtPass(0), NEW p \in Position, Scanned(p[1])'
             PROVE  p \in matrix_debounce' <=> p \in contacts
  BY DEF NoteRow, ScansRows, StillAtPass
<1>1. /\ pc = "note" /\ col = RowOf(contacts, row)
      /\ row \in Row /\ p \in Row \X Column
  BY LatencyTypes DEF LatencyInv, NoteRow, ScansRows, Position
<1>2. p[1] <= row
  <2>1. row' = row + 1 \/ row = ROWS_NUM - 1
    BY DEF NoteRow, LastRow
  <2>2. p[1] \in 0..(ROWS_NUM - 1) /\ row \in 0..(ROWS_NUM - 1)
    BY <1>1 DEF Row
  <2>3. row' = row + 1 => pc' = "read"
    BY <2>2 DEF NoteRow, LastRow
  <2> QED
    BY <2>1, <2>2, <2>3, MatrixAssumption DEF Scanned
<1>3. CASE p[1] # row
  <2>1. p[1] < row
    BY <1>1, <1>2, <1>3 DEF Row
  <2>2. p \in matrix_debounce <=> p \in contacts
    BY <2>1 DEF LatencyInv, ScansRows, Scanned
  <2>3. p \in matrix_debounce' <=> p \in matrix_debounce
    BY <1>3 DEF NoteRow, InRow
  <2> QED
    BY <2>2, <2>3
<1>4. CASE p[1] = row
  <2>1. p = <<row, p[2]>> /\ p[2] \in Column
    BY <1>1, <1>4
  <2>2. p[2] \in col <=> p \in contacts
    BY <1>1, <2>1 DEF RowOf
  <2>3. CASE col = RowOf(matrix_debounce, row)
    BY <2>1, <2>2, <2>3 DEF NoteRow, RowOf
  <2>4. CASE col # RowOf(matrix_debounce, row)
    <3>1. p \in InRow(row, Column) /\ (p \in InRow(row, col) <=> p[2] \in col)
      BY <2>1 DEF InRow
    <3>2. matrix_debounce' =
            (matrix_debounce \ InRow(row, Column)) \cup InRow(row, col)
      BY <2>4 DEF NoteRow
    <3> QED
      BY <2>2, <3>1, <3>2
  <2> QED
    BY <2>3, <2>4
<1> QED
  BY <1>3, <1>4

LEMMA NoteRowLatency ==
  NoWrap /\ DebounceInv /\ LatencyInv /\ NoteRow => LatencyInv'
<1> SUFFICES ASSUME NoWrap, DebounceInv, LatencyInv, NoteRow PROVE LatencyInv'
  OBVIOUS
<1>c. /\ UNCHANGED <<contacts, system_ms, matrix, matrix_previous, stalled,
                     still>>
      /\ pc = "note" /\ pc' \in {"take", "read"}
  BY DEF NoteRow
<1>1. RowAtEnd'
  BY DEF NoteRow, RowAtEnd
<1>2. ScansRows'
  BY NoteRowScans
<1>3. CASE StillAtPass(Stall)
  <2>1. matrix_debounce = contacts
    BY <1>3 DEF LatencyInv, AllNoted
  <2>2. StillAtPass(0)
    BY <1>3, Numbers, StillLonger
  <2>3. col = RowOf(matrix_debounce, row)
    BY <1>c, <2>1, <2>2 DEF LatencyInv, ScansRows
  <2>4. UNCHANGED <<matrix_debounce, matrix_update, debounce>>
    BY <2>3 DEF NoteRow
  <2> QED
    BY <1>c, <1>1, <1>2, <2>1, <2>4
    DEF LatencyInv, AllNoted, TimerEnds, UpdatePending, Taken, Reported,
        StillAtPass
<1>4. CASE ~StillAtPass(Stall)
  <2>1. AllNoted'
    BY <1>c, <1>4 DEF AllNoted, StillAtPass
  <2>2. still <= 2 * Stall
    BY <1>4, LatencyTypes, Numbers DEF StillAtPass
  <2>3. TimerEnds'
    <3>1. debounce' = debounce \/ debounce' = system_ms + MS_DEBOUNCE
      BY LatencyTypes, TimerAhead DEF NoteRow, timer_set
    <3> QED
      BY <1>c, <2>2, <3>1, LatencyTypes, Numbers DEF LatencyInv, TimerEnds
  <2>4. UpdatePending'
    BY <1>c DEF NoteRow, LatencyInv, UpdatePending
  <2>5. Taken' /\ Reported'
    BY <1>c DEF LatencyInv, Taken, Reported, StillAtPass
  <2> QED
    BY <1>1, <1>2, <2>1, <2>3, <2>4, <2>5 DEF LatencyInv
<1> QED
  BY <1>3, <1>4

LEMMA TakeLatency == DebounceInv /\ LatencyInv /\ Take => LatencyInv'
<1> SUFFICES ASSUME DebounceInv, LatencyInv, Take PROVE LatencyInv'
  OBVIOUS
<1>c. /\ UNCHANGED <<contacts, system_ms, debounce, matrix_debounce,
                     matrix_previous, row, stalled, still>>
      /\ pc = "take" /\ pc' = "process"
      /\ matrix' \in {matrix, matrix_debounce}
  BY DEF Take
<1>1. RowAtEnd' /\ AllNoted' /\ TimerEnds'
  BY <1>c DEF LatencyInv, RowAtEnd, AllNoted, TimerEnds, StillAtPass
<1>2. ScansRows'
  BY <1>c DEF LatencyInv, ScansRows, Scanned, StillAtPass
<1>3. UpdatePending'
  BY <1>c DEF Take, LatencyInv, UpdatePending
<1>4. Taken'
  <2> SUFFICES ASSUME StillAtPass(MS_DEBOUNCE + 2 * Stall)
               PROVE  matrix' = contacts
    BY <1>c DEF Taken, StillAtPass
  <2>1. matrix_debounce = contacts
    <3>1. StillAtPass(Stall)
      BY Numbers, StillLonger
    <3> QED
      BY <3>1 DEF LatencyInv, AllNoted
  <2>2. timer_passed(debounce)
    BY LatencyTypes, Numbers DEF LatencyInv, TimerEnds, StillAtPass, timer_passed
  <2> QED
    BY <2>1, <2>2 DEF Take, LatencyInv, UpdatePending
<1>5. Reported'
  <2> SUFFICES ASSUME StillAtPass(MS_DEBOUNCE + 3 * Stall)
               PROVE  matrix' = contacts /\ matrix_previous' = contacts
    BY <1>c DEF Reported, StillAtPass
  <2>1. StillAtPass(Stall)
    BY Numbers, StillLonger
  <2> QED
    BY <1>c, <2>1 DEF LatencyInv, AllNoted, Reported
<1> QED
  BY <1>1, <1>2, <1>3, <1>4, <1>5 DEF LatencyInv

LEMMA ProcessSwitchLatency ==
  DebounceInv /\ LatencyInv /\ ProcessSwitch => LatencyInv'
<1> SUFFICES ASSUME DebounceInv, LatencyInv, ProcessSwitch PROVE LatencyInv'
  OBVIOUS
<1>c. UNCHANGED <<contacts, system_ms, debounce, matrix_update, matrix,
                  matrix_debounce, pc, row, col, stalled, still>>
  BY DEF ProcessSwitch
<1>1. ScansRows'
  BY <1>c DEF LatencyInv, ScansRows, Scanned, StillAtPass
<1>2. Reported'
  <2>1. matrix # matrix_previous
    BY DEF ProcessSwitch, SymDiff
  <2> QED
    BY <1>c, <2>1 DEF LatencyInv, Reported, StillAtPass
<1>3. RowAtEnd' /\ AllNoted' /\ TimerEnds' /\ UpdatePending' /\ Taken'
  BY <1>c DEF LatencyInv, RowAtEnd, AllNoted, TimerEnds, UpdatePending, Taken,
              StillAtPass
<1> QED
  BY <1>1, <1>2, <1>3 DEF LatencyInv

\* The next pass begins: what held of the one that ends holds for Stall ms
\* more.
LEMMA ProcessDoneLatency ==
  DebounceInv /\ LatencyInv /\ ProcessDone => LatencyInv'
<1> SUFFICES ASSUME DebounceInv, LatencyInv, ProcessDone PROVE LatencyInv'
  OBVIOUS
<1>c. /\ UNCHANGED <<contacts, system_ms, debounce, matrix_update, matrix,
                     matrix_debounce, matrix_previous, row, still>>
      /\ pc = "process" /\ pc' = "read" /\ row = 0 /\ stalled' = 0
      /\ matrix = matrix_previous
  BY DEF ProcessDone, LatencyInv, RowAtEnd
<1>1. ASSUME NEW n \in Nat, StillAtPass(n + Stall)'
      PROVE  StillAtPass(n)
  BY <1>c, <1>1, LatencyTypes, Numbers DEF StillAtPass
<1>2. RowAtEnd' /\ TimerEnds' /\ UpdatePending' /\ Taken'
  BY <1>c DEF LatencyInv, RowAtEnd, TimerEnds, UpdatePending, Taken
<1>3. ScansRows'
  <2>1. ASSUME NEW p \in Position PROVE ~(p[1] < 0)
    BY DEF Position, Row
  <2> QED
    BY <1>c, <2>1 DEF ScansRows, Scanned
<1>4. AllNoted'
  <2> SUFFICES ASSUME StillAtPass(Stall)' PROVE matrix_debounce = contacts
    BY <1>c DEF AllNoted
  <2>1. StillAtPass(0)
    BY <1>1, Numbers
  <2> QED
    BY <1>c, <2>1, ScannedAll DEF LatencyInv
<1>5. Reported'
  <2> SUFFICES ASSUME StillAtPass(MS_DEBOUNCE + 3 * Stall)'
               PROVE  matrix = contacts
    BY <1>c DEF Reported
  <2>1. StillAtPass(MS_DEBOUNCE + 2 * Stall)
    BY <1>1, Numbers
  <2> QED
    BY <1>c, <2>1 DEF LatencyInv, Taken
<1> QED
  BY <1>2, <1>3, <1>4, <1>5 DEF LatencyInv

LEMMA BounceLatency == DebounceInv /\ LatencyInv /\ Bounce => LatencyInv'
<1> SUFFICES ASSUME DebounceInv, LatencyInv, Bounce PROVE LatencyInv'
  OBVIOUS
<1>1. still' = 0 /\ UNCHANGED <<system_ms, code, stalled>>
  BY DEF Bounce
<1>2. ASSUME NEW n \in Nat PROVE ~StillAtPass(n)'
  BY <1>1, LatencyTypes DEF StillAtPass
<1>3. ScansRows' /\ AllNoted' /\ Taken' /\ Reported'
  BY <1>2, Numbers DEF ScansRows, AllNoted, Taken, Reported
<1>4. RowAtEnd' /\ UpdatePending'
  BY <1>1 DEF code, LatencyInv, RowAtEnd, UpdatePending
<1>5. TimerEnds'
  BY <1>1, LatencyTypes, Numbers DEF code, LatencyInv, TimerEnds
<1> QED
  BY <1>3, <1>4, <1>5 DEF LatencyInv

LEMMA TickLatency ==
  NoWrap /\ DebounceInv /\ LatencyInv /\ sys_tick_handler => LatencyInv'
<1> SUFFICES ASSUME NoWrap, DebounceInv, LatencyInv, sys_tick_handler
             PROVE  LatencyInv'
  OBVIOUS
<1>1. /\ UNCHANGED <<contacts, code>> /\ stalled' = stalled + 1
      /\ still' \in Nat /\ still' <= still + 1
  BY OlderType, Numbers DEF sys_tick_handler, DebounceInv, TypeOK
<1>2. system_ms' = system_ms + 1
  <2>1. system_ms + 1 \in 0..MaxMs /\ MaxMs <= ClockMod
    BY LatencyTypes, Numbers DEF sys_tick_handler
  <2>2. MaxMs < ClockMod
    BY Numbers DEF NoWrap
  <2>3. \A a, b \in Nat : a < b => a % b = a
    OBVIOUS
  <2> QED
    BY <2>1, <2>2, <2>3, Numbers DEF sys_tick_handler
<1>3. ASSUME NEW n \in Nat, StillAtPass(n)' PROVE StillAtPass(n)
  BY <1>1, <1>3, LatencyTypes DEF StillAtPass
<1>4. ScansRows'
  BY <1>1, <1>3 DEF code, LatencyInv, ScansRows, Scanned
<1>5. AllNoted' /\ Taken' /\ Reported'
  BY <1>1, <1>3, Numbers DEF code, LatencyInv, AllNoted, Taken, Reported
<1>6. RowAtEnd' /\ UpdatePending'
  BY <1>1 DEF code, LatencyInv, RowAtEnd, UpdatePending
<1>7. TimerEnds'
  BY <1>1, <1>2, LatencyTypes, Numbers DEF code, LatencyInv, TimerEnds
<1> QED
  BY <1>4, <1>5, <1>6, <1>7 DEF LatencyInv

LEMMA StepLatencyInv ==
  NoWrap /\ DebounceInv /\ LatencyInv /\ [Next]_vars => LatencyInv'
<1> SUFFICES ASSUME NoWrap, DebounceInv, LatencyInv, [Next]_vars
             PROVE  LatencyInv'
  OBVIOUS
<1>1. CASE UNCHANGED vars
  BY <1>1
  DEF vars, code, LatencyInv, RowAtEnd, ScansRows, Scanned, AllNoted, TimerEnds,
      UpdatePending, Taken, Reported, StillAtPass
<1> QED
  BY <1>1, ReadRowLatency, NoteRowLatency, TakeLatency, ProcessSwitchLatency,
     ProcessDoneLatency, BounceLatency, TickLatency DEF Next, Main

-----------------------------------------------------------------------------
(* The results.                                                             *)

\* The first 49 days: a switch value is taken only after no scan has noted
\* another one for more than MS_DEBOUNCE ms.
THEOREM OnlyStableTaken ==
  ASSUME NoWrap
  PROVE  Spec => StableBeforeTaken
<1>1. ASSUME DebounceInv, [Next]_vars
      PROVE  [\A p \in SymDiff(matrix, matrix') : noted[p] > MS_DEBOUNCE]_vars
  <2>1. CASE Take
    BY <1>1, <2>1, TakeStable
  <2>2. CASE ~Take
    <3>1. matrix' = matrix
      BY <1>1, <2>2 DEF Next, Main, ReadRow, NoteRow, ProcessSwitch,
                        ProcessDone, Bounce, sys_tick_handler, vars, code
    <3> QED
      BY <3>1 DEF SymDiff
  <2> QED
    BY <2>1, <2>2
<1> QED
  BY <1>1, InitDebounceInv, StepDebounceInv, PTL DEF Spec, StableBeforeTaken

\* The first 49 days: two events of one switch are more than MS_DEBOUNCE ms
\* apart, however its contacts bounce and however slow the main loop is.
THEOREM NoSwitchChatters ==
  ASSUME NoWrap
  PROVE  Spec => NoChatter
<1>1. ASSUME DebounceInv, [Next]_vars
      PROVE  [\A p \in SymDiff(matrix_previous, matrix_previous') :
                quiet[p] > MS_DEBOUNCE]_vars
  <2>1. CASE ProcessSwitch
    <3>1. ASSUME NEW p \in SymDiff(matrix_previous, matrix_previous')
          PROVE  p \in SymDiff(matrix, matrix_previous)
      BY <2>1 DEF ProcessSwitch, SymDiff
    <3> QED
      BY <1>1, <3>1 DEF DebounceInv, EventsOfTake
  <2>2. CASE ~ProcessSwitch
    <3>1. matrix_previous' = matrix_previous
      BY <1>1, <2>2 DEF Next, Main, ReadRow, NoteRow, Take,
                        ProcessDone, Bounce, sys_tick_handler, vars, code
    <3> QED
      BY <3>1 DEF SymDiff
  <2> QED
    BY <2>1, <2>2
<1> QED
  BY <1>1, InitDebounceInv, StepDebounceInv, PTL DEF Spec, NoChatter

\* The first 49 days: every variable keeps its type; the timer is a time of the
\* clock and the row is one of the matrix.
THEOREM TypeCorrect ==
  ASSUME NoWrap
  PROVE  Spec => []TypeOK
<1>1. DebounceInv => TypeOK
  BY DEF DebounceInv
<1> QED
  BY <1>1, InitDebounceInv, StepDebounceInv, PTL DEF Spec

\* The first 49 days: contacts that have been still for the debounce time and
\* four passes are reported as they are, however long a pass may take.
THEOREM ReportsInTime ==
  ASSUME NoWrap
  PROVE  Spec => []ReportedInTime
<1>1. ASSUME DebounceInv, LatencyInv PROVE ReportedInTime
  <2> SUFFICES ASSUME still > Latency PROVE matrix_previous = contacts
    BY DEF ReportedInTime
  <2>1. StillAtPass(MS_DEBOUNCE + 3 * Stall)
    BY <1>1, LatencyTypes, Numbers DEF StillAtPass, Latency
  <2> QED
    BY <1>1, <2>1 DEF LatencyInv, Reported
<1> QED
  BY <1>1, InitDebounceInv, StepDebounceInv, InitLatencyInv, StepLatencyInv, PTL
  DEF Spec
=============================================================================
