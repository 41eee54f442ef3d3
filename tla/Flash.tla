--------------------------------- MODULE Flash ---------------------------------
(***************************************************************************)
(* flash.c: the configuration in the user flash, its CRC, and the commands *)
(* W, R and Z on it, with power lost and flash operations failing at any   *)
(* point.                                                                  *)
(*                                                                         *)
(*   rest --W--> erase (page by page) --> write (word by word) --> crc     *)
(*     \---Z--> erase (page by page) --> rest             rest <--'        *)
(*                                                                         *)
(* W and Z run to their end in the USB interrupt, so the configuration in  *)
(* RAM does not change meanwhile.  It is a sequence of words: the keymap,  *)
(* macro_buffer, macro_len, layer and nkro_active follow one another in    *)
(* flash without a gap, and the five calls of flash_write_block write them *)
(* by ascending address.  The CRC is the last word of the last page.       *)
(***************************************************************************)
EXTENDS Integers

CONSTANTS
  FLASH_PAGE_NUM,
  PageWords,         \* FLASH_PAGE_SIZE in words
  DataWords,         \* sizeof(flashdata_t) in words
  Value,             \* what a word of the configuration may hold
  Erased,            \* what it reads in an erased page: 0xffffffff
  Torn,              \* what it reads when its programming was cut short
  crc_calculate(_),  \* the CRC unit, over the data words of the flash
  Config, Factory,   \* the configurations, and the one in the firmware
  NoConfig

VARIABLES
  ram,       \* the configuration in use
  flash,     \* the words of the user flash
  locked,    \* flash_lock, flash_unlock
  pc, cmd,   \* where the command is, and which one it is
  next,      \* the page to erase or the word to write
  returned,  \* ghost: what the last W returned, RAM being as it was then
  fault      \* ghost: a flash operation of the last command failed

vars == <<ram, flash, locked, pc, cmd, next, returned, fault>>

Data  == 1..DataWords
Crc   == FLASH_PAGE_NUM * PageWords
Word  == 1..Crc
Page  == 0..(FLASH_PAGE_NUM - 1)
WordsOf(p) == {w \in Word : p * PageWords < w /\ w <= (p + 1) * PageWords}
Image == [Data -> Value \cup {Erased, Torn}]
Cell  == Value \cup {Erased, Torn} \cup {crc_calculate(i) : i \in Image}

\* The CRC tells two images apart: that one in 2^32 pairs has equal CRCs is
\* left out.
ASSUME FlashAssumption ==
  /\ FLASH_PAGE_NUM \in Nat \ {0} /\ PageWords \in Nat \ {0}
  /\ DataWords \in Nat \ {0} /\ DataWords < Crc
  /\ Config \subseteq [Data -> Value \cup {Erased}] /\ Factory \in Config
  /\ NoConfig \notin Image
  /\ Torn \notin Value \cup {Erased}
  /\ \A i \in Image : crc_calculate(i) \notin {Erased, Torn}
  /\ \A i, j \in Image : crc_calculate(i) = crc_calculate(j) => i = j

DataOf(f) == [w \in Data |-> f[w]]

\* Mutant: any CRC will do.
CrcPresent == flash[Crc] # Erased

flash_crc_check == flash[Crc] = crc_calculate(DataOf(flash))

\* The configuration a power up finds.
Stored == IF flash_crc_check THEN DataOf(flash) ELSE NoConfig

TypeOK ==
  /\ ram \in Config
  /\ flash \in [Word -> Cell] /\ DataOf(flash) \in Image
  /\ locked \in BOOLEAN /\ fault \in BOOLEAN
  /\ pc \in {"rest", "erase", "write", "crc", "off"}
  /\ cmd \in {"W", "Z"}
  /\ (pc = "erase") => next \in Page
  /\ (pc = "write") => next \in Data
  /\ returned \in {0, 1, 2}

\* A keyboard never configured.  The ghost is 2 when no W is to speak of.
Init ==
  /\ ram = Factory /\ flash = [w \in Word |-> Erased] /\ locked = TRUE
  /\ pc = "rest" /\ cmd = "Z" /\ next = 0
  /\ returned = 2 /\ fault = FALSE

-----------------------------------------------------------------------------
(* Commands.                                                                *)

\* The keymap, the macros, the layer and the mode change in RAM.
Change ==
  /\ pc = "rest" /\ ram' \in Config /\ returned' = 2
  /\ UNCHANGED <<flash, locked, pc, cmd, next, fault>>

flash_read_config ==
  /\ pc = "rest" /\ flash_crc_check
  /\ ram' = DataOf(flash) /\ returned' = 2
  /\ UNCHANGED <<flash, locked, pc, cmd, next, fault>>

\* W or Z, up to flash_unlock in flash_erase.
Begin(c) ==
  /\ pc = "rest" /\ pc' = "erase" /\ cmd' = c /\ next' = 0
  /\ locked' = FALSE /\ returned' = 2 /\ fault' = FALSE
  /\ UNCHANGED <<ram, flash>>

\* Mutants: the erasure ends a page early, or late.
SecondLastPage == next + 1 >= FLASH_PAGE_NUM - 1
PastLastPage   == next + 1 > FLASH_PAGE_NUM

LastPage == next + 1 >= FLASH_PAGE_NUM

\* The words of a page that is being erased read as before or as erased.
ErasedIn(W) == [w \in Word |-> IF w \in W THEN Erased ELSE flash[w]]

ErasePage ==
  /\ pc = "erase" /\ ~locked
  /\ flash' = ErasedIn(WordsOf(next))
  /\ \/ ~LastPage /\ next' = next + 1 /\ UNCHANGED <<pc, locked>>
     \/ LastPage /\ cmd = "W" /\ pc' = "write" /\ next' = 1 /\ UNCHANGED locked
     \/ LastPage /\ cmd = "Z" /\ pc' = "rest" /\ next' = 0 /\ locked' = TRUE
  /\ UNCHANGED <<ram, cmd, returned, fault>>

\* flash_write_config returns without flash_lock, flash_clear_config locks.
EraseFails ==
  /\ pc = "erase"
  /\ \E W \in SUBSET WordsOf(next) : flash' = ErasedIn(W)
  /\ pc' = "rest" /\ next' = 0 /\ fault' = TRUE
  /\ IF cmd = "W" THEN returned' = 0 /\ UNCHANGED locked
                  ELSE locked' = TRUE /\ UNCHANGED returned
  /\ UNCHANGED <<ram, cmd>>

\* flash_program_word: an error if the word is not erased.
CanProgram(w) == ~locked /\ flash[w] = Erased

\* Mutant: the status is not looked at.
WriteWordUnchecked ==
  /\ pc = "write"
  /\ \/ CanProgram(next) /\ flash' = [flash EXCEPT ![next] = ram[next]]
     \/ UNCHANGED flash
  /\ IF next < DataWords THEN next' = next + 1 /\ UNCHANGED pc
                         ELSE next' = 0 /\ pc' = "crc"
  /\ UNCHANGED <<ram, locked, cmd, returned, fault>>

\* The loops of flash_write_block, block after block.
WriteWord ==
  /\ pc = "write" /\ CanProgram(next)
  /\ flash' = [flash EXCEPT ![next] = ram[next]]
  /\ IF next < DataWords THEN next' = next + 1 /\ UNCHANGED pc
                         ELSE next' = 0 /\ pc' = "crc"
  /\ UNCHANGED <<ram, locked, cmd, returned, fault>>

\* The CRC, of what the flash now holds, and flash_lock.
WriteCrc ==
  /\ pc = "crc" /\ CanProgram(Crc)
  /\ flash' = [flash EXCEPT ![Crc] = crc_calculate(DataOf(flash))]
  /\ pc' = "rest" /\ locked' = TRUE /\ returned' = 1
  /\ UNCHANGED <<ram, cmd, next, fault>>

\* The word being written, and all it may hold when that goes wrong.
Target   == IF pc = "write" THEN next ELSE Crc
Outcomes == {flash[Target], Torn,
             IF pc = "write" THEN ram[next] ELSE crc_calculate(DataOf(flash))}

\* A word cannot be programmed, or its programming fails: return 0 at once.
WriteFails ==
  /\ pc \in {"write", "crc"}
  /\ \/ ~CanProgram(Target) /\ UNCHANGED <<flash, fault>>
     \/ /\ \E v \in Outcomes : flash' = [flash EXCEPT ![Target] = v]
        /\ fault' = TRUE
  /\ pc' = "rest" /\ next' = 0 /\ returned' = 0
  /\ UNCHANGED <<ram, locked, cmd>>

-----------------------------------------------------------------------------
(* Power.                                                                   *)

PowerLoss ==
  /\ pc # "off" /\ pc' = "off" /\ next' = 0 /\ returned' = 2
  /\ \/ UNCHANGED flash
     \/ pc = "erase" /\ \E W \in SUBSET WordsOf(next) : flash' = ErasedIn(W)
     \/ pc \in {"write", "crc"}
          /\ \E v \in Outcomes : flash' = [flash EXCEPT ![Target] = v]
  /\ UNCHANGED <<ram, locked, cmd, fault>>

\* A reset loads the initialised data and main calls flash_read_config.
PowerUp ==
  /\ pc = "off" /\ pc' = "rest"
  /\ ram' = IF flash_crc_check THEN DataOf(flash) ELSE Factory
  /\ locked' = TRUE
  /\ UNCHANGED <<flash, cmd, next, returned, fault>>

Next ==
  \/ Change \/ flash_read_config \/ Begin("W") \/ Begin("Z")
  \/ ErasePage \/ EraseFails \/ WriteWord \/ WriteCrc \/ WriteFails
  \/ PowerLoss \/ PowerUp

Spec == Init /\ [][Next]_vars

-----------------------------------------------------------------------------
(* Properties.                                                              *)

\* A W that returned 1 has saved what is in RAM, and one that returned 0 met
\* a failing flash operation: it never fails for having erased too little.
WriteTells ==
  /\ returned = 1 => Stored = ram
  /\ returned = 0 => fault

Doing == CASE pc = "rest" -> "nothing"
           [] pc = "off"  -> "off"
           [] OTHER       -> IF cmd = "W" THEN "save" ELSE "clear"

Store == INSTANCE ConfigStore WITH saved <- Stored, doing <- Doing

\* Whatever a power loss or a failing flash operation leaves half erased or
\* half written, a power up and command R load a configuration that was saved
\* as a whole, or none.
KeepsConfig == Store!Spec

-----------------------------------------------------------------------------
(* The inductive invariant behind KeepsConfig and WriteTells.               *)

\* A CRC in flash is that of a configuration, of which the data words hold
\* what has not been erased since.
CrcOfConfig ==
  flash[Crc] \in {Erased, Torn} \/
    \E c \in Config : /\ flash[Crc] = crc_calculate(c)
                      /\ \A w \in Data : flash[w] \in {c[w], Erased}

\* The pages before the one being erased are.
ErasedSoFar ==
  pc = "erase" => \A w \in Word : w <= next * PageWords => flash[w] = Erased

\* The words before the one being written are as in RAM, the others erased.
WrittenSoFar ==
  /\ pc = "write" => \A w \in Word :
       flash[w] = IF w < next THEN ram[w] ELSE Erased
  /\ pc = "crc" => \A w \in Word :
       flash[w] = IF w \in Data THEN ram[w] ELSE Erased

\* A command that is under way has unlocked the flash and returned nothing.
Busy     == pc \in {"erase", "write", "crc"}
UnderWay == (Busy => ~locked) /\ (pc # "rest" => returned = 2)

FlashInv ==
  /\ TypeOK /\ UnderWay /\ CrcOfConfig /\ ErasedSoFar /\ WrittenSoFar
  /\ WriteTells
=============================================================================
