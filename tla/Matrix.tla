-------------------------------- MODULE Matrix --------------------------------
(***************************************************************************)
(* matrix.c and clock.c: scanning the key matrix and debouncing it.        *)
(*                                                                         *)
(* One pass of the main loop is one call of matrix_process: it reads and   *)
(* notes each row, takes the noted matrix if it has been stable, and makes *)
(* an event of every switch that differs from what was last reported:      *)
(*                                                                         *)
(*     read --> note --> ... --> read --> note --> take --> process        *)
(*                                                                         *)
(* The contacts change whenever they like, and sys_tick_handler counts     *)
(* milliseconds between any two steps.  A row of bits is a set of columns, *)
(* so a matrix_t is a set of positions.                                    *)
(***************************************************************************)
EXTENDS Integers

CONSTANTS
  ROWS_NUM, COLS_NUM,
  MS_DEBOUNCE,
  ClockMod,   \* the millisecond clock counts modulo this: 2^32
  MaxMs,      \* the clock is not run beyond this; ClockMod to let it wrap
  Stall       \* most milliseconds that one pass of the main loop takes

VARIABLES
  contacts,         \* the switches that are closed
  system_ms,
  debounce,         \* the timer
  matrix_update, matrix, matrix_debounce, matrix_previous,
  pc, row,          \* where matrix_process is, and the row it is scanning
  col,              \* the columns just read
  stalled,          \* ghost: milliseconds since the pass began
  noted,            \* ghost: milliseconds since a switch was last noted anew
  quiet,            \* ghost: milliseconds since a switch last made an event
  still             \* ghost: milliseconds since a contact last changed

code == <<debounce, matrix_update, matrix, matrix_debounce, matrix_previous,
          pc, row, col>>
vars == <<contacts, system_ms, code, stalled, noted, quiet, still>>

Row      == 0..(ROWS_NUM - 1)
Column   == 0..(COLS_NUM - 1)
Position == Row \X Column

ASSUME MatrixAssumption ==
  /\ ROWS_NUM \in Nat \ {0} /\ COLS_NUM \in Nat \ {0}
  /\ MS_DEBOUNCE \in Nat /\ Stall \in Nat \ {0}
  /\ ClockMod \in Nat /\ MaxMs \in 0..ClockMod /\ MS_DEBOUNCE < ClockMod

\* The ghosts count up to the longest time a property speaks of.
Latency == MS_DEBOUNCE + 4 * Stall
Older(ms) == IF ms > Latency THEN ms ELSE ms + 1

\* Mutants: no delay; passed in the millisecond the timer ends.
TimerSetNow(delay)   == system_ms
TimerPassedAt(timer) == timer <= system_ms

timer_set(delay)    == (system_ms + delay) % ClockMod
timer_passed(timer) == timer < system_ms

TypeOK ==
  /\ contacts \subseteq Position
  /\ system_ms \in 0..(ClockMod - 1) /\ debounce \in 0..(ClockMod - 1)
  /\ matrix_update \in BOOLEAN
  /\ matrix \subseteq Position /\ matrix_debounce \subseteq Position
  /\ matrix_previous \subseteq Position
  /\ pc \in {"read", "note", "take", "process"}
  /\ row \in Row /\ col \subseteq Column
  /\ stalled \in 0..Stall
  /\ noted \in [Position -> 0..(Latency + 1)]
  /\ quiet \in [Position -> 0..(Latency + 1)]
  /\ still \in 0..(Latency + 1)

Init ==
  /\ contacts \in SUBSET Position
  /\ system_ms = 0 /\ debounce = 0 /\ matrix_update = FALSE
  /\ matrix = {} /\ matrix_debounce = {} /\ matrix_previous = {}
  /\ pc = "read" /\ row = 0 /\ col = {}
  /\ stalled = 0 /\ still = 0
  /\ noted = [p \in Position |-> Latency + 1]
  /\ quiet = [p \in Position |-> Latency + 1]

-----------------------------------------------------------------------------
(* The main loop.                                                           *)

InRow(r, cols) == {r} \X cols
RowOf(m, r)    == {c \in Column : <<r, c>> \in m}
SymDiff(a, b)  == (a \ b) \cup (b \ a)

\* row_select(r); col = col_read()
ReadRow ==
  /\ pc = "read" /\ pc' = "note"
  /\ col' = RowOf(contacts, row)
  /\ UNCHANGED <<contacts, system_ms, debounce, matrix_update, matrix,
                 matrix_debounce, matrix_previous, row, stalled, noted, quiet,
                 still>>

\* Mutant: one row too many.
PastLastRow == row = ROWS_NUM

LastRow == row = ROWS_NUM - 1

\* The comparison with matrix_debounce, and the loop to the next row.
NoteRow ==
  /\ pc = "note"
  /\ IF col = RowOf(matrix_debounce, row)
       THEN UNCHANGED <<matrix_debounce, matrix_update, debounce, noted>>
       ELSE LET new == (matrix_debounce \ InRow(row, Column)) \cup InRow(row, col)
            IN  /\ matrix_debounce' = new
                /\ matrix_update' = TRUE
                /\ debounce' = timer_set(MS_DEBOUNCE)
                /\ noted' = [p \in Position |->
                     IF p \in SymDiff(new, matrix_debounce) THEN 0 ELSE noted[p]]
  /\ IF LastRow
       THEN pc' = "take" /\ row' = 0
       ELSE pc' = "read" /\ row' = row + 1
  /\ col' = {}
  /\ UNCHANGED <<contacts, system_ms, matrix, matrix_previous, stalled, quiet,
                 still>>

\* Mutant: the update is forgotten when the timer has not passed yet.
TakeOnce ==
  /\ pc = "take" /\ pc' = "process"
  /\ matrix_update' = FALSE
  /\ matrix' = IF matrix_update /\ timer_passed(debounce) THEN matrix_debounce
                                                        ELSE matrix
  /\ UNCHANGED <<contacts, system_ms, debounce, matrix_debounce,
                 matrix_previous, row, col, stalled, noted, quiet, still>>

Take ==
  /\ pc = "take" /\ pc' = "process"
  /\ IF matrix_update /\ timer_passed(debounce)
       THEN matrix_update' = FALSE /\ matrix' = matrix_debounce
       ELSE UNCHANGED <<matrix_update, matrix>>
  /\ UNCHANGED <<contacts, system_ms, debounce, matrix_debounce,
                 matrix_previous, row, col, stalled, noted, quiet, still>>

\* Row by row, column by column: keymap_event(r, c, ...) for the first switch
\* that differs, after which matrix_previous agrees with matrix there.
Before(p, q) == p[1] < q[1] \/ (p[1] = q[1] /\ p[2] < q[2])

ProcessSwitch ==
  /\ pc = "process"
  /\ \E p \in SymDiff(matrix, matrix_previous) :
       /\ \A q \in SymDiff(matrix, matrix_previous) : ~Before(q, p)
       /\ matrix_previous' = SymDiff(matrix_previous, {p})
       /\ quiet' = [quiet EXCEPT ![p] = 0]
  /\ UNCHANGED <<contacts, system_ms, debounce, matrix_update, matrix,
                 matrix_debounce, pc, row, col, stalled, noted, still>>

\* Nothing differs: the pass is over and the next one begins.
ProcessDone ==
  /\ pc = "process" /\ matrix = matrix_previous
  /\ pc' = "read" /\ stalled' = 0
  /\ UNCHANGED <<contacts, system_ms, debounce, matrix_update, matrix,
                 matrix_debounce, matrix_previous, row, col, noted, quiet, still>>

Main == ReadRow \/ NoteRow \/ Take \/ ProcessSwitch \/ ProcessDone

-----------------------------------------------------------------------------
(* The world: contacts open, close and bounce; milliseconds pass, no more   *)
(* than Stall of them in one pass of the main loop.                         *)

Bounce ==
  /\ \E p \in Position : contacts' = SymDiff(contacts, {p})
  /\ still' = 0
  /\ UNCHANGED <<system_ms, code, stalled, noted, quiet>>

sys_tick_handler ==
  /\ system_ms < MaxMs /\ stalled < Stall
  /\ system_ms' = (system_ms + 1) % ClockMod
  /\ stalled' = stalled + 1
  /\ noted' = [p \in Position |-> Older(noted[p])]
  /\ quiet' = [p \in Position |-> Older(quiet[p])]
  /\ still' = Older(still)
  /\ UNCHANGED <<contacts, code>>

Next == Main \/ Bounce \/ sys_tick_handler

Spec == Init /\ [][Next]_vars /\ WF_vars(Main)

-----------------------------------------------------------------------------
(* Properties.                                                              *)

\* The comment over matrix_scan: a value is taken only after it has been
\* stable for more than MS_DEBOUNCE ms.  Of each switch whose taken value
\* changes, no scan noted another value in that time.
StableBeforeTaken ==
  [][\A p \in SymDiff(matrix, matrix') : noted[p] > MS_DEBOUNCE]_vars

\* However the contacts bounce, two events of one switch are more than
\* MS_DEBOUNCE ms apart.
NoChatter ==
  [][\A p \in SymDiff(matrix_previous, matrix_previous') :
       quiet[p] > MS_DEBOUNCE]_vars

\* Once the contacts have been still for the debounce time and four passes of
\* the main loop, every switch is reported as it is: one pass to begin anew,
\* one to note the last of them, one that comes too early for the timer, and
\* one that takes the matrix.
ReportedInTime == still > Latency => matrix_previous = contacts

-----------------------------------------------------------------------------
(* The inductive invariant behind StableBeforeTaken and NoChatter.          *)

\* The clock stops before a timer wraps: 49 days after power on.
NoWrap == MaxMs + MS_DEBOUNCE < ClockMod

\* The timer was set when the last switch was noted, or later.
TimerCovers == \A p \in Position :
  noted[p] > Latency \/ noted[p] + debounce >= system_ms + MS_DEBOUNCE

\* A switch noted anew and not yet taken has made no event since.
QuietWhileNoted == \A p \in SymDiff(matrix_debounce, matrix) :
  quiet[p] >= noted[p]

\* The events of a pass are those of the switches it took, all of them long
\* quiet; between passes there is no event left to make.
EventsOfTake ==
  /\ pc # "process" => matrix = matrix_previous
  /\ matrix # matrix_previous => matrix_debounce = matrix
  /\ \A p \in SymDiff(matrix, matrix_previous) : quiet[p] > MS_DEBOUNCE

DebounceInv ==
  /\ TypeOK /\ system_ms <= MaxMs
  /\ TimerCovers /\ QuietWhileNoted /\ EventsOfTake

-----------------------------------------------------------------------------
(* The inductive invariant behind ReportedInTime: what a pass that began n  *)
(* ms after the last change of a contact has achieved.                      *)

StillAtPass(n) == still > stalled + n

\* A pass scans all rows and then takes the matrix.
Scanned(r) == pc \in {"take", "process"} \/ r < row
RowAtEnd   == pc \in {"take", "process"} => row = 0

\* The rows that such a pass has scanned are noted as they are, and after one
\* pass all rows are.
ScansRows ==
  StillAtPass(0) =>
    /\ \A p \in Position :
         Scanned(p[1]) => (p \in matrix_debounce <=> p \in contacts)
    /\ pc = "note" => col = RowOf(contacts, row)

AllNoted == StillAtPass(Stall) => matrix_debounce = contacts

\* The timer was not set much later than the last change.
TimerEnds ==
  /\ debounce <= system_ms + MS_DEBOUNCE
  /\ debounce + still <= system_ms + MS_DEBOUNCE + 2 * Stall

\* What is noted and not taken will be.
UpdatePending == ~matrix_update => matrix = matrix_debounce

Taken ==
  pc = "process" /\ StillAtPass(MS_DEBOUNCE + 2 * Stall) => matrix = contacts

Reported ==
  StillAtPass(MS_DEBOUNCE + 3 * Stall) =>
    matrix = contacts /\ matrix_previous = contacts

LatencyInv ==
  /\ RowAtEnd /\ ScansRows /\ AllNoted
  /\ TimerEnds /\ UpdatePending
  /\ Taken /\ Reported
=============================================================================
