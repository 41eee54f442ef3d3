------------------------------ MODULE FlashProofs ------------------------------
(***************************************************************************)
(* Proofs about Flash, for every layout of the flash and every set of      *)
(* configurations: it implements ConfigStore, and W tells whether it saved.*)
(***************************************************************************)
EXTENDS Flash, TLAPS

\* The CRC lies behind the data, in the last word of the last page.
LEMMA Layout ==
  /\ Crc \in Nat /\ Crc \in Word /\ Crc \notin Data /\ Data \subseteq Word
  /\ 0 \in Page /\ 1 \in Data
<1>1. Crc \in Nat /\ DataWords \in Nat \ {0} /\ DataWords < Crc
  BY FlashAssumption DEF Crc
<1>2. FLASH_PAGE_NUM \in Nat \ {0}
  BY FlashAssumption
<1> QED
  BY <1>1, <1>2 DEF Word, Data, Page

LEMMA ConfigImage == Config \subseteq Image
BY FlashAssumption DEF Image

\* The CRC in flash is neither an erased nor a torn word when it matches.
LEMMA CheckedCrc ==
  ASSUME DataOf(flash) \in Image, flash_crc_check
  PROVE  flash[Crc] \notin {Erased, Torn}
BY FlashAssumption DEF flash_crc_check

\* What a power up finds is a configuration.
LEMMA StoredWhole ==
  ASSUME FlashInv
  PROVE  /\ Stored \in Config \cup {NoConfig}
         /\ flash_crc_check <=> Stored # NoConfig
<1>1. DataOf(flash) \in Image
  BY DEF FlashInv, TypeOK
<1>2. DataOf(flash) # NoConfig
  BY <1>1, FlashAssumption
<1>3. ASSUME flash_crc_check PROVE DataOf(flash) \in Config
  <2>1. PICK c \in Config : flash[Crc] = crc_calculate(c)
    BY <1>1, <1>3, CheckedCrc DEF FlashInv, CrcOfConfig
  <2>2. crc_calculate(DataOf(flash)) = crc_calculate(c)
    BY <1>3, <2>1 DEF flash_crc_check
  <2>3. DataOf(flash) = c
    BY <1>1, <2>2, ConfigImage, FlashAssumption
  <2> QED
    BY <2>3
<1> QED
  BY <1>2, <1>3 DEF Stored

\* Nothing is saved while the word of the CRC is erased.
LEMMA NoneStored ==
  ASSUME DataOf(flash) \in Image, flash[Crc] \in {Erased, Torn}
  PROVE  Stored = NoConfig
BY CheckedCrc DEF Stored

-----------------------------------------------------------------------------
(* Erasing words and writing them.                                          *)

\* Erasing any words, whenever it happens, drops the configuration or leaves
\* it as it is.
LEMMA Erasing ==
  ASSUME FlashInv, NEW W \in SUBSET Word, flash' = ErasedIn(W)
  PROVE  /\ flash' \in [Word -> Cell] /\ DataOf(flash)' \in Image
         /\ CrcOfConfig'
         /\ Stored' \in {Stored, NoConfig}
<1>1. flash \in [Word -> Cell] /\ DataOf(flash) \in Image /\ CrcOfConfig
  BY DEF FlashInv, TypeOK
<1>2. Erased \in Cell
  BY DEF Cell
<1>3. flash' \in [Word -> Cell]
  BY <1>1, <1>2 DEF ErasedIn
<1>4. \A w \in Word : flash'[w] = IF w \in W THEN Erased ELSE flash[w]
  BY DEF ErasedIn
<1>5. DataOf(flash)' \in Image
  <2>1. \A w \in Data : flash[w] \in Value \cup {Erased, Torn}
    BY <1>1 DEF DataOf, Image
  <2>2. \A w \in Data : flash'[w] \in Value \cup {Erased, Torn}
    BY <1>4, <2>1, Layout
  <2> QED
    BY <2>2 DEF DataOf, Image
<1>6. CrcOfConfig'
  <2>1. CASE flash[Crc] \in {Erased, Torn} \/ Crc \in W
    BY <1>4, <2>1, Layout DEF CrcOfConfig
  <2>2. CASE flash[Crc] \notin {Erased, Torn} /\ Crc \notin W
    <3>1. PICK c \in Config : /\ flash[Crc] = crc_calculate(c)
                              /\ \A w \in Data : flash[w] \in {c[w], Erased}
      BY <1>1, <2>2 DEF CrcOfConfig
    <3>2. flash'[Crc] = crc_calculate(c)
      BY <1>4, <2>2, <3>1, Layout
    <3>3. \A w \in Data : flash'[w] \in {c[w], Erased}
      BY <1>4, <3>1, Layout
    <3> QED
      BY <3>2, <3>3 DEF CrcOfConfig
  <2> QED
    BY <2>1, <2>2
<1>7. ASSUME flash_crc_check' PROVE flash_crc_check /\ DataOf(flash)' = DataOf(flash)
  <2>1. flash'[Crc] = crc_calculate(DataOf(flash)')
    BY <1>7 DEF flash_crc_check
  <2>2. flash'[Crc] \notin {Erased, Torn}
    BY <2>1, <1>5, FlashAssumption
  <2>3. Crc \notin W /\ flash[Crc] = flash'[Crc]
    BY <1>4, <2>2, Layout
  <2>4. PICK c \in Config : /\ flash[Crc] = crc_calculate(c)
                            /\ \A w \in Data : flash[w] \in {c[w], Erased}
    BY <1>1, <2>2, <2>3 DEF CrcOfConfig
  <2>5. crc_calculate(DataOf(flash)') = crc_calculate(c)
    BY <2>1, <2>3, <2>4
  <2>6. DataOf(flash)' = c
    BY <1>5, <2>5, <2>4, ConfigImage, FlashAssumption
  <2>7. \A w \in Data : flash'[w] = c[w]
    BY <2>6 DEF DataOf
  <2>8. \A w \in Data : flash[w] = flash'[w]
    BY <1>4, <2>4, <2>7, Layout
  <2>9. DataOf(flash)' = DataOf(flash)
    BY <2>8 DEF DataOf
  <2> QED
    BY <2>1, <2>3, <2>9 DEF flash_crc_check
<1>8. Stored' \in {Stored, NoConfig}
  BY <1>7 DEF Stored
<1> QED
  BY <1>3, <1>5, <1>6, <1>8

\* Writing a word of the data, whatever it then holds, saves nothing yet.
LEMMA WritingData ==
  ASSUME FlashInv, pc = "write",
         NEW v \in Value \cup {Erased, Torn},
         flash' = [flash EXCEPT ![next] = v]
  PROVE  /\ flash' \in [Word -> Cell] /\ DataOf(flash)' \in Image
         /\ flash'[Crc] = Erased /\ CrcOfConfig'
         /\ Stored = NoConfig /\ Stored' = NoConfig
<1>1. /\ flash \in [Word -> Cell] /\ DataOf(flash) \in Image
      /\ next \in Data /\ v \in Cell
  BY DEF FlashInv, TypeOK, Cell
<1>2. flash[Crc] = Erased
  <2>1. Crc \in Nat /\ ~(Crc < next)
    BY <1>1, Layout, FlashAssumption DEF Data, Crc
  <2> QED
    BY <2>1, Layout DEF FlashInv, WrittenSoFar
<1>3. \A w \in Word : flash'[w] = IF w = next THEN v ELSE flash[w]
  BY <1>1, Layout
<1>4. flash' \in [Word -> Cell]
  BY <1>1, Layout
<1>5. flash'[Crc] = Erased
  BY <1>1, <1>2, <1>3, Layout
<1>6. DataOf(flash)' \in Image
  <2>1. \A w \in Data : flash[w] \in Value \cup {Erased, Torn}
    BY <1>1 DEF DataOf, Image
  <2>2. \A w \in Data : flash'[w] \in Value \cup {Erased, Torn}
    BY <1>3, <2>1, Layout
  <2> QED
    BY <2>2 DEF DataOf, Image
<1>7. Stored = NoConfig
  BY <1>1, <1>2, NoneStored
<1>8. Stored' = NoConfig
  BY <1>5, <1>6, FlashAssumption DEF Stored, flash_crc_check
<1> QED
  BY <1>4, <1>5, <1>6, <1>7, <1>8 DEF CrcOfConfig

\* Writing the CRC saves what is in RAM, if it is written whole.
LEMMA WritingCrc ==
  ASSUME FlashInv, pc = "crc",
         NEW v \in {Erased, Torn, crc_calculate(DataOf(flash))},
         flash' = [flash EXCEPT ![Crc] = v]
  PROVE  /\ flash' \in [Word -> Cell] /\ DataOf(flash)' \in Image
         /\ CrcOfConfig'
         /\ Stored = NoConfig /\ Stored' \in {NoConfig, ram}
         /\ v = crc_calculate(DataOf(flash)) => Stored' = ram
<1>1. /\ flash \in [Word -> Cell] /\ DataOf(flash) \in Image
      /\ ram \in Config
  BY DEF FlashInv, TypeOK
<1>2. v \in Cell
  BY <1>1 DEF Cell
<1>3. flash[Crc] = Erased
  BY Layout DEF FlashInv, WrittenSoFar
<1>4. /\ flash' \in [Word -> Cell] /\ flash'[Crc] = v
      /\ \A w \in Data : flash'[w] = flash[w]
  BY <1>1, <1>2, Layout
<1>5. \A w \in Data : flash[w] = ram[w]
  BY Layout DEF FlashInv, WrittenSoFar
<1>6. DataOf(flash) = ram
  <2>1. ram = [w \in Data |-> ram[w]]
    BY <1>1, FlashAssumption
  <2> QED
    BY <1>5, <2>1 DEF DataOf
<1>7. DataOf(flash)' = DataOf(flash)
  BY <1>4 DEF DataOf
<1>8. Stored = NoConfig
  BY <1>1, <1>3, NoneStored
<1>9. CrcOfConfig'
  <2>1. CASE v \in {Erased, Torn}
    BY <1>4, <2>1 DEF CrcOfConfig
  <2>2. CASE v = crc_calculate(DataOf(flash))
    <3>1. flash'[Crc] = crc_calculate(ram)
      BY <1>4, <1>6, <2>2
    <3>2. \A w \in Data : flash'[w] = ram[w]
      BY <1>4, <1>5
    <3>3. ram \in Config
      BY <1>1
    <3> QED
      BY <3>1, <3>2, <3>3 DEF CrcOfConfig
  <2> QED
    BY <2>1, <2>2
<1>10. /\ Stored' \in {NoConfig, ram}
       /\ v = crc_calculate(DataOf(flash)) => Stored' = ram
  BY <1>4, <1>6, <1>7 DEF Stored, flash_crc_check
<1> QED
  BY <1>1, <1>4, <1>7, <1>8, <1>9, <1>10

-----------------------------------------------------------------------------
(* Every step keeps the invariant and is a step of ConfigStore, one lemma   *)
(* per action or two.                                                       *)

StoreStep == [Store!Next]_(Store!vars)

\* Unfolding the refinement mapping.
LEMMA StoreStepIf ==
  ASSUME \/ UNCHANGED <<ram, Stored, Doing>>
         \/ Doing = "nothing" /\ ram' \in Config /\ UNCHANGED <<Stored, Doing>>
         \/ Doing = "nothing" /\ Doing' \in {"save", "clear"}
              /\ UNCHANGED <<ram, Stored>>
         \/ Doing = "nothing" /\ Stored # NoConfig /\ ram' = Stored
              /\ UNCHANGED <<Stored, Doing>>
         \/ /\ Doing \in {"save", "clear"} /\ Doing' \in {Doing, "nothing", "off"}
            /\ UNCHANGED ram
            /\ \/ Stored' \in {Stored, NoConfig}
               \/ Doing = "save" /\ Stored' = ram
         \/ Doing = "nothing" /\ Doing' = "off" /\ UNCHANGED <<ram, Stored>>
         \/ /\ Doing = "off" /\ Doing' = "nothing" /\ UNCHANGED Stored
            /\ ram' = IF Stored = NoConfig THEN Factory ELSE Stored
  PROVE  StoreStep
BY DEF StoreStep, Store!Next, Store!vars, Store!Change, Store!Load, Store!Begin,
       Store!Proceed, Store!PowerLoss, Store!PowerUp, Store!Outcomes

\* When the flash is not touched, neither is what is stored.
LEMMA SameFlash ==
  ASSUME UNCHANGED flash
  PROVE  /\ UNCHANGED <<Stored, flash_crc_check, DataOf(flash)>>
         /\ CrcOfConfig => CrcOfConfig'
BY DEF Stored, flash_crc_check, DataOf, CrcOfConfig

LEMMA ChangeStep == FlashInv /\ Change => FlashInv' /\ StoreStep
<1> SUFFICES ASSUME FlashInv, Change PROVE FlashInv' /\ StoreStep
  OBVIOUS
<1>1. FlashInv'
  BY SameFlash DEF FlashInv, Change, TypeOK, UnderWay, Busy, ErasedSoFar,
     WrittenSoFar, WriteTells
<1>2. StoreStep
  BY StoreStepIf, SameFlash DEF Change, Doing
<1> QED
  BY <1>1, <1>2

LEMMA ReadConfigStep == FlashInv /\ flash_read_config => FlashInv' /\ StoreStep
<1> SUFFICES ASSUME FlashInv, flash_read_config PROVE FlashInv' /\ StoreStep
  OBVIOUS
<1>1. Stored \in Config /\ Stored # NoConfig /\ ram' = Stored
  BY StoredWhole, SameFlash DEF flash_read_config, Stored
<1>2. FlashInv'
  BY <1>1, SameFlash DEF FlashInv, flash_read_config, TypeOK, UnderWay, Busy,
     ErasedSoFar, WrittenSoFar, WriteTells
<1>3. StoreStep
  BY <1>1, StoreStepIf, SameFlash DEF flash_read_config, Doing
<1> QED
  BY <1>2, <1>3

LEMMA BeginStep ==
  ASSUME NEW c \in {"W", "Z"}
  PROVE  FlashInv /\ Begin(c) => FlashInv' /\ StoreStep
<1> SUFFICES ASSUME FlashInv, Begin(c) PROVE FlashInv' /\ StoreStep
  OBVIOUS
<1>1. ErasedSoFar'
  BY Layout, FlashAssumption DEF Begin, ErasedSoFar, Word
<1>2. TypeOK'
  BY SameFlash, Layout DEF FlashInv, Begin, TypeOK
<1>3. UnderWay' /\ WrittenSoFar' /\ WriteTells'
  BY DEF Begin, UnderWay, Busy, WrittenSoFar, WriteTells
<1>4. CrcOfConfig'
  BY SameFlash DEF FlashInv, Begin
<1>5. StoreStep
  BY StoreStepIf, SameFlash DEF Begin, Doing
<1> QED
  BY <1>1, <1>2, <1>3, <1>4, <1>5 DEF FlashInv

\* Erasing the last page leaves every word erased.
LEMMA ErasePageStep == FlashInv /\ ErasePage => FlashInv' /\ StoreStep
<1> SUFFICES ASSUME FlashInv, ErasePage PROVE FlashInv' /\ StoreStep
  OBVIOUS
<1>1. /\ pc = "erase" /\ next \in Page /\ cmd \in {"W", "Z"}
      /\ flash \in [Word -> Cell] /\ flash' = ErasedIn(WordsOf(next))
      /\ UNCHANGED <<ram, cmd, returned, fault>>
  BY DEF FlashInv, TypeOK, ErasePage
<1>2. WordsOf(next) \in SUBSET Word
  BY DEF WordsOf
<1>3. /\ flash' \in [Word -> Cell] /\ DataOf(flash)' \in Image
      /\ CrcOfConfig' /\ Stored' \in {Stored, NoConfig}
  BY <1>1, <1>2, Erasing
<1>4. \A w \in Word : w <= (next + 1) * PageWords => flash'[w] = Erased
  <2> SUFFICES ASSUME NEW w \in Word, w <= (next + 1) * PageWords
               PROVE  flash'[w] = Erased
    OBVIOUS
  <2>1. CASE next * PageWords < w
    BY <1>1, <2>1 DEF ErasedIn, WordsOf
  <2>2. CASE ~(next * PageWords < w)
    <3>1. w \in Nat /\ next * PageWords \in Nat
      BY <1>1, FlashAssumption DEF Word, Page
    <3>2. flash[w] = Erased
      BY <1>1, <2>2, <3>1 DEF FlashInv, ErasedSoFar
    <3> QED
      BY <1>1, <3>2 DEF ErasedIn
  <2> QED
    BY <2>1, <2>2
<1>5. ErasedSoFar'
  BY <1>1, <1>4 DEF ErasePage, ErasedSoFar
<1>6. ASSUME LastPage PROVE \A w \in Word : flash'[w] = Erased
  <2>1. next + 1 = FLASH_PAGE_NUM
    BY <1>1, <1>6, FlashAssumption DEF LastPage, Page
  <2> QED
    BY <1>4, <2>1, Layout DEF Word, Crc
<1>7. WrittenSoFar'
  <2>1. CASE ~LastPage
    BY <1>1, <2>1 DEF ErasePage, WrittenSoFar
  <2>2. CASE LastPage /\ cmd = "Z"
    BY <2>2 DEF ErasePage, WrittenSoFar
  <2>3. CASE LastPage /\ cmd = "W"
    <3>1. pc' = "write" /\ next' = 1
      BY <2>3 DEF ErasePage
    <3>2. \A w \in Word : ~(w < 1)
      BY Layout DEF Word
    <3> QED
      BY <1>6, <2>3, <3>1, <3>2 DEF WrittenSoFar
  <2> QED
    BY <1>1, <2>1, <2>2, <2>3
<1>8. TypeOK' /\ UnderWay'
  <2>1. ~LastPage => next + 1 \in Page
    BY <1>1, FlashAssumption DEF LastPage, Page
  <2>2. /\ TypeOK /\ ~locked /\ returned = 2
    BY <1>1 DEF FlashInv, ErasePage, UnderWay
  <2>3. /\ pc' \in {"rest", "erase", "write"}
        /\ pc' = "erase" => next' \in Page
        /\ pc' = "write" => next' \in Data
    BY <1>1, <2>1, Layout DEF ErasePage
  <2>4. \/ UNCHANGED locked
        \/ pc' = "rest" /\ locked' = TRUE
    BY DEF ErasePage
  <2>5. locked' \in BOOLEAN
    BY <2>2, <2>4 DEF TypeOK
  <2>6. TypeOK'
    BY <1>1, <1>3, <2>2, <2>3, <2>5 DEF TypeOK
  <2>7. UnderWay'
    <3>1. ~(pc' = "rest") => ~locked'
      BY <2>2, <2>4
    <3>2. Busy' => ~(pc' = "rest")
      BY DEF Busy
    <3> QED
      BY <1>1, <2>2, <3>1, <3>2 DEF UnderWay
  <2> QED
    BY <2>6, <2>7
<1>9. WriteTells'
  <2>1. returned = 2
    BY <1>1 DEF FlashInv, UnderWay
  <2> QED
    BY <1>1, <2>1 DEF WriteTells
<1>10. StoreStep
  <2>1. /\ Doing \in {"save", "clear"} /\ Doing' \in {Doing, "nothing"}
    BY <1>1 DEF ErasePage, Doing
  <2> QED
    BY <1>1, <1>3, <2>1, StoreStepIf
<1> QED
  BY <1>3, <1>5, <1>7, <1>8, <1>9, <1>10 DEF FlashInv

LEMMA EraseFailsStep == FlashInv /\ EraseFails => FlashInv' /\ StoreStep
<1> SUFFICES ASSUME FlashInv, EraseFails PROVE FlashInv' /\ StoreStep
  OBVIOUS
<1>1. PICK W \in SUBSET WordsOf(next) : flash' = ErasedIn(W)
  BY DEF EraseFails
<1>2. W \in SUBSET Word
  BY DEF WordsOf
<1>3. /\ flash' \in [Word -> Cell] /\ DataOf(flash)' \in Image
      /\ CrcOfConfig' /\ Stored' \in {Stored, NoConfig}
  BY <1>1, <1>2, Erasing
<1>4. /\ pc = "erase" /\ pc' = "rest" /\ next' = 0 /\ fault' = TRUE
      /\ returned = 2 /\ returned' \in {0, 2}
      /\ locked' \in BOOLEAN /\ UNCHANGED <<ram, cmd>>
  BY DEF EraseFails, FlashInv, TypeOK, UnderWay
<1>5. TypeOK'
  BY <1>3, <1>4 DEF FlashInv, TypeOK
<1>6. UnderWay' /\ ErasedSoFar' /\ WrittenSoFar' /\ WriteTells'
  BY <1>4 DEF UnderWay, Busy, ErasedSoFar, WrittenSoFar, WriteTells
<1>7. Doing \in {"save", "clear"} /\ Doing' = "nothing"
  BY <1>4 DEF Doing
<1>8. StoreStep
  BY <1>3, <1>4, <1>7, StoreStepIf
<1> QED
  BY <1>3, <1>5, <1>6, <1>8 DEF FlashInv

LEMMA WriteWordStep == FlashInv /\ WriteWord => FlashInv' /\ StoreStep
<1> SUFFICES ASSUME FlashInv, WriteWord PROVE FlashInv' /\ StoreStep
  OBVIOUS
<1>1. /\ pc = "write" /\ next \in Data /\ ram \in Config
      /\ flash \in [Word -> Cell] /\ flash' = [flash EXCEPT ![next] = ram[next]]
      /\ UNCHANGED <<ram, locked, cmd, returned, fault>>
      /\ ~locked /\ returned = 2
  BY DEF FlashInv, TypeOK, WriteWord, UnderWay, Busy
<1>2. ram[next] \in Value \cup {Erased, Torn}
  BY <1>1, FlashAssumption
<1>3. /\ flash' \in [Word -> Cell] /\ DataOf(flash)' \in Image
      /\ CrcOfConfig' /\ Stored = NoConfig /\ Stored' = NoConfig
  BY <1>1, <1>2, WritingData
<1>4. /\ next < DataWords => pc' = "write" /\ next' = next + 1
      /\ ~(next < DataWords) => pc' = "crc" /\ next' = 0
  BY <1>1 DEF WriteWord
<1>5. /\ DataWords \in Nat /\ next \in Nat /\ 1 <= next /\ next <= DataWords
  BY <1>1, FlashAssumption DEF Data
<1>6. TypeOK'
  <2>1. pc' \in {"write", "crc"} /\ (pc' = "write" => next' \in Data)
    BY <1>4, <1>5 DEF Data
  <2> QED
    BY <1>1, <1>3, <2>1 DEF FlashInv, TypeOK
<1>7. WrittenSoFar'
  <2>1. \A w \in Word : /\ w \in Nat
                        /\ flash'[w] = IF w <= next THEN ram[w] ELSE Erased
    <3> TAKE w \in Word
    <3>1. w \in Nat /\ next \in Word
      BY <1>1, Layout DEF Word
    <3>2. flash[w] = IF w < next THEN ram[w] ELSE Erased
      BY <1>1 DEF FlashInv, WrittenSoFar
    <3>3. CASE w = next
      BY <1>1, <1>5, <3>1, <3>3
    <3>4. CASE w # next
      BY <1>1, <1>5, <3>1, <3>2, <3>4
    <3> QED
      BY <3>3, <3>4
  <2>2. CASE next < DataWords
    <3>1. \A w \in Word : w < next + 1 <=> w <= next
      BY <1>5, <2>1
    <3>2. pc' = "write" /\ next' = next + 1 /\ ram' = ram
      BY <1>1, <1>4, <2>2
    <3> QED
      BY <2>1, <3>1, <3>2 DEF WrittenSoFar
  <2>3. CASE ~(next < DataWords)
    <3>1. \A w \in Word : w \in Data <=> w <= next
      BY <1>5, <2>1, <2>3 DEF Data, Word
    <3>2. pc' = "crc" /\ ram' = ram
      BY <1>1, <1>4, <2>3
    <3> QED
      BY <2>1, <3>1, <3>2 DEF WrittenSoFar
  <2> QED
    BY <2>2, <2>3
<1>8. pc' \in {"write", "crc"}
  BY <1>4
<1>9. UnderWay' /\ ErasedSoFar' /\ WriteTells'
  BY <1>1, <1>8 DEF UnderWay, Busy, ErasedSoFar, WriteTells
<1>10. StoreStep
  <2>1. UNCHANGED Doing
    BY <1>1, <1>8 DEF Doing
  <2> QED
    BY <1>1, <1>3, <2>1, StoreStepIf
<1> QED
  BY <1>3, <1>6, <1>7, <1>9, <1>10 DEF FlashInv

LEMMA WriteCrcStep ==
  FlashInv /\ cmd = "W" /\ WriteCrc => FlashInv' /\ StoreStep
<1> SUFFICES ASSUME FlashInv, cmd = "W", WriteCrc PROVE FlashInv' /\ StoreStep
  OBVIOUS
<1>1. /\ pc = "crc" /\ pc' = "rest" /\ locked' = TRUE /\ returned' = 1
      /\ flash' = [flash EXCEPT ![Crc] = crc_calculate(DataOf(flash))]
      /\ UNCHANGED <<ram, cmd, next, fault>>
  BY DEF WriteCrc
<1>2. /\ flash' \in [Word -> Cell] /\ DataOf(flash)' \in Image
      /\ CrcOfConfig' /\ Stored' = ram
  BY <1>1, WritingCrc
<1>3. TypeOK'
  BY <1>1, <1>2 DEF FlashInv, TypeOK
<1>4. UnderWay' /\ ErasedSoFar' /\ WrittenSoFar' /\ WriteTells'
  BY <1>1, <1>2 DEF UnderWay, Busy, ErasedSoFar, WrittenSoFar, WriteTells
<1>5. Doing = "save" /\ Doing' = "nothing"
  BY <1>1 DEF Doing
<1>6. StoreStep
  BY <1>1, <1>2, <1>5, StoreStepIf
<1> QED
  BY <1>2, <1>3, <1>4, <1>6 DEF FlashInv

\* Whatever a word that fails to be programmed holds.
LEMMA WritingOutcome ==
  ASSUME FlashInv, pc \in {"write", "crc"}, NEW v \in Outcomes,
         flash' = [flash EXCEPT ![Target] = v]
  PROVE  /\ flash' \in [Word -> Cell] /\ DataOf(flash)' \in Image
         /\ CrcOfConfig' /\ Stored' \in {NoConfig, ram}
<1>1. next \in Data \/ pc = "crc"
  BY DEF FlashInv, TypeOK
<1>2. CASE pc = "write"
  <2>1. next \in Data /\ ram \in Config /\ DataOf(flash) \in Image
    BY <1>2 DEF FlashInv, TypeOK
  <2>2. v \in Value \cup {Erased, Torn}
    BY <1>2, <2>1, FlashAssumption DEF Outcomes, Target, DataOf, Image
  <2> QED
    BY <1>2, <2>2, WritingData DEF Target
<1>3. CASE pc = "crc"
  <2>1. flash[Crc] = Erased
    BY <1>3, Layout DEF FlashInv, WrittenSoFar
  <2>2. v \in {Erased, Torn, crc_calculate(DataOf(flash))}
    BY <1>3, <2>1 DEF Outcomes, Target
  <2> QED
    BY <1>3, <2>2, WritingCrc DEF Target
<1> QED
  BY <1>2, <1>3

\* Every word that is to be programmed has been erased.
LEMMA TargetErased ==
  ASSUME FlashInv, pc \in {"write", "crc"}
  PROVE  CanProgram(Target)
<1>1. ~locked
  <2>1. Busy
    BY DEF Busy
  <2> QED
    BY <2>1 DEF FlashInv, UnderWay
<1>2. CASE pc = "write"
  <2>1. next \in Data
    BY <1>2 DEF FlashInv, TypeOK
  <2>2. next \in Word /\ ~(next < next)
    BY <2>1, Layout DEF Data
  <2>3. flash[next] = Erased
    BY <1>2, <2>2 DEF FlashInv, WrittenSoFar
  <2> QED
    BY <1>1, <1>2, <2>3 DEF CanProgram, Target
<1>3. CASE pc = "crc"
  <2>1. flash[Crc] = Erased
    BY <1>3, Layout DEF FlashInv, WrittenSoFar
  <2> QED
    BY <1>1, <1>3, <2>1 DEF CanProgram, Target
<1> QED
  BY <1>2, <1>3

LEMMA WriteFailsStep ==
  FlashInv /\ cmd = "W" /\ WriteFails => FlashInv' /\ StoreStep
<1> SUFFICES ASSUME FlashInv, cmd = "W", WriteFails PROVE FlashInv' /\ StoreStep
  OBVIOUS
<1>1. /\ pc \in {"write", "crc"} /\ pc' = "rest" /\ next' = 0
      /\ returned' = 0 /\ UNCHANGED <<ram, locked, cmd>>
  BY DEF WriteFails
<1>2. PICK v \in Outcomes : flash' = [flash EXCEPT ![Target] = v]
  BY <1>1, TargetErased DEF WriteFails
<1>3. fault' = TRUE
  BY <1>1, TargetErased DEF WriteFails
<1>4. /\ flash' \in [Word -> Cell] /\ DataOf(flash)' \in Image
      /\ CrcOfConfig' /\ Stored' \in {NoConfig, ram}
  BY <1>1, <1>2, WritingOutcome
<1>5. TypeOK'
  BY <1>1, <1>3, <1>4 DEF FlashInv, TypeOK
<1>6. UnderWay' /\ ErasedSoFar' /\ WrittenSoFar' /\ WriteTells'
  BY <1>1, <1>3 DEF UnderWay, Busy, ErasedSoFar, WrittenSoFar, WriteTells
<1>7. Doing = "save" /\ Doing' = "nothing"
  BY <1>1 DEF Doing
<1>8. StoreStep
  BY <1>1, <1>4, <1>7, StoreStepIf
<1> QED
  BY <1>4, <1>5, <1>6, <1>8 DEF FlashInv

\* Power lost during an erasure, during a write, or with the flash untouched.
LEMMA PowerLossStep ==
  FlashInv /\ (pc \in {"write", "crc"} => cmd = "W") /\ PowerLoss
    => FlashInv' /\ StoreStep
<1> SUFFICES ASSUME FlashInv, pc \in {"write", "crc"} => cmd = "W", PowerLoss
             PROVE  FlashInv' /\ StoreStep
  OBVIOUS
<1>1. /\ pc # "off" /\ pc' = "off" /\ next' = 0 /\ returned' = 2
      /\ UNCHANGED <<ram, locked, cmd, fault>>
  BY DEF PowerLoss
<1>2. /\ flash' \in [Word -> Cell] /\ DataOf(flash)' \in Image /\ CrcOfConfig'
      /\ \/ UNCHANGED Stored
         \/ pc = "erase" /\ Stored' \in {Stored, NoConfig}
         \/ pc \in {"write", "crc"} /\ Stored' \in {NoConfig, ram}
  <2>1. CASE UNCHANGED flash
    BY <2>1, SameFlash DEF FlashInv, TypeOK
  <2>2. ASSUME pc = "erase", NEW W \in SUBSET WordsOf(next), flash' = ErasedIn(W)
        PROVE  /\ flash' \in [Word -> Cell] /\ DataOf(flash)' \in Image
               /\ CrcOfConfig' /\ Stored' \in {Stored, NoConfig}
    <3>1. W \in SUBSET Word
      BY DEF WordsOf
    <3> QED
      BY <2>2, <3>1, Erasing
  <2>3. ASSUME pc \in {"write", "crc"}, NEW v \in Outcomes,
               flash' = [flash EXCEPT ![Target] = v]
        PROVE  /\ flash' \in [Word -> Cell] /\ DataOf(flash)' \in Image
               /\ CrcOfConfig' /\ Stored' \in {NoConfig, ram}
    BY <2>3, WritingOutcome
  <2>4. \/ UNCHANGED flash
        \/ pc = "erase" /\ \E W \in SUBSET WordsOf(next) : flash' = ErasedIn(W)
        \/ pc \in {"write", "crc"}
             /\ \E v \in Outcomes : flash' = [flash EXCEPT ![Target] = v]
    BY DEF PowerLoss
  <2> QED
    BY <2>1, <2>2, <2>3, <2>4
<1>3. TypeOK'
  BY <1>1, <1>2 DEF FlashInv, TypeOK
<1>4. UnderWay' /\ ErasedSoFar' /\ WrittenSoFar' /\ WriteTells'
  BY <1>1 DEF UnderWay, Busy, ErasedSoFar, WrittenSoFar, WriteTells
<1>5. StoreStep
  <2>1. Doing' = "off"
    BY <1>1 DEF Doing
  <2>2. CASE pc = "rest"
    <3>1. Doing = "nothing" /\ UNCHANGED <<ram, Stored>>
      BY <1>1, <1>2, <2>2 DEF Doing
    <3> QED
      BY <2>1, <3>1, StoreStepIf
  <2>3. CASE pc = "erase"
    <3>1. Doing \in {"save", "clear"} /\ Stored' \in {Stored, NoConfig}
      BY <1>2, <2>3 DEF Doing
    <3> QED
      BY <1>1, <2>1, <3>1, StoreStepIf
  <2>4. CASE pc \in {"write", "crc"}
    <3>1. Doing = "save" /\ Stored' \in {Stored, NoConfig, ram}
      BY <1>2, <2>4 DEF Doing
    <3> QED
      BY <1>1, <2>1, <3>1, StoreStepIf
  <2> QED
    BY <1>1, <2>2, <2>3, <2>4 DEF FlashInv, TypeOK
<1> QED
  BY <1>2, <1>3, <1>4, <1>5 DEF FlashInv

LEMMA PowerUpStep == FlashInv /\ PowerUp => FlashInv' /\ StoreStep
<1> SUFFICES ASSUME FlashInv, PowerUp PROVE FlashInv' /\ StoreStep
  OBVIOUS
<1>1. /\ pc = "off" /\ pc' = "rest" /\ locked' = TRUE
      /\ UNCHANGED <<flash, cmd, next, returned, fault>> /\ returned = 2
  BY DEF PowerUp, FlashInv, UnderWay
<1>2. ram' = IF Stored = NoConfig THEN Factory ELSE Stored
  BY StoredWhole DEF PowerUp, Stored
<1>3. ram' \in Config
  BY <1>2, StoredWhole, FlashAssumption
<1>4. TypeOK'
  BY <1>1, <1>3, SameFlash DEF FlashInv, TypeOK
<1>5. CrcOfConfig' /\ UnderWay' /\ ErasedSoFar' /\ WrittenSoFar' /\ WriteTells'
  BY <1>1, SameFlash DEF FlashInv, UnderWay, Busy, ErasedSoFar, WrittenSoFar,
     WriteTells
<1>6. StoreStep
  BY <1>1, <1>2, SameFlash, StoreStepIf DEF Doing
<1> QED
  BY <1>4, <1>5, <1>6 DEF FlashInv

\* Only a W gets beyond the erasure.
OnlyWWrites == pc \in {"write", "crc"} => cmd = "W"

LEMMA Steps ==
  FlashInv /\ OnlyWWrites /\ [Next]_vars => FlashInv' /\ OnlyWWrites' /\ StoreStep
<1> SUFFICES ASSUME FlashInv, OnlyWWrites, [Next]_vars
             PROVE  FlashInv' /\ OnlyWWrites' /\ StoreStep
  OBVIOUS
<1>1. OnlyWWrites'
  BY DEF Next, vars, Change, flash_read_config, Begin, ErasePage, EraseFails,
     WriteWord, WriteCrc, WriteFails, PowerLoss, PowerUp, OnlyWWrites
<1>2. CASE UNCHANGED vars
  <2>1. FlashInv'
    BY <1>2, SameFlash DEF vars, FlashInv, TypeOK, UnderWay, Busy, ErasedSoFar,
       WrittenSoFar, WriteTells
  <2>2. StoreStep
    BY <1>2, SameFlash, StoreStepIf DEF vars, Doing
  <2> QED
    BY <1>1, <2>1, <2>2
<1>3. CASE Next
  <2>1. WriteCrc \/ WriteFails => cmd = "W"
    BY DEF OnlyWWrites, WriteCrc, WriteFails
  <2>2. FlashInv' /\ StoreStep
    BY <1>3, <2>1, ChangeStep, ReadConfigStep, BeginStep, ErasePageStep,
       EraseFailsStep, WriteWordStep, WriteCrcStep, WriteFailsStep,
       PowerLossStep, PowerUpStep DEF Next, OnlyWWrites
  <2> QED
    BY <1>1, <2>2
<1> QED
  BY <1>2, <1>3

LEMMA Beginning == Init => FlashInv /\ OnlyWWrites /\ Store!Init
<1> SUFFICES ASSUME Init PROVE FlashInv /\ OnlyWWrites /\ Store!Init
  OBVIOUS
<1>1. flash \in [Word -> Cell] /\ flash[Crc] = Erased
  BY Layout DEF Init, Cell
<1>2. DataOf(flash) \in Image
  BY Layout DEF Init, DataOf, Image
<1>3. Stored = NoConfig
  BY <1>1, <1>2, NoneStored
<1>4. TypeOK
  BY <1>1, <1>2, FlashAssumption DEF Init, TypeOK
<1>5. UnderWay /\ CrcOfConfig /\ ErasedSoFar /\ WrittenSoFar /\ WriteTells
  BY <1>1 DEF Init, UnderWay, Busy, CrcOfConfig, ErasedSoFar, WrittenSoFar,
     WriteTells
<1>6. OnlyWWrites
  BY DEF Init, OnlyWWrites
<1>7. Store!Init
  BY <1>3 DEF Init, Store!Init, Doing
<1> QED
  BY <1>4, <1>5, <1>6, <1>7 DEF FlashInv

-----------------------------------------------------------------------------

LEMMA Invariance == Spec => [](FlashInv /\ OnlyWWrites)
BY Beginning, Steps, PTL DEF Spec

\* Every variable keeps its type: the flash stays a function of its words,
\* and what W, Z and R hold half way is in range.
THEOREM TypeCorrect == Spec => []TypeOK
<1>1. FlashInv => TypeOK
  BY DEF FlashInv
<1> QED
  BY <1>1, Invariance, PTL

\* A W that returned 1 saved the configuration in RAM, and one that returned
\* 0 met a failing flash operation.
THEOREM WriteTellsTruth == Spec => []WriteTells
<1>1. FlashInv => WriteTells
  BY DEF FlashInv
<1> QED
  BY <1>1, Invariance, PTL

\* Wherever power is lost and whatever flash operation fails, a power up and
\* command R load a configuration that was saved as a whole, or none.
THEOREM FlashKeepsConfig == Spec => KeepsConfig
<1>1. FlashInv /\ OnlyWWrites /\ [Next]_vars => [Store!Next]_(Store!vars)
  BY Steps DEF StoreStep
<1>2. Init => Store!Init
  BY Beginning
<1> QED
  BY <1>1, <1>2, Invariance, PTL DEF Spec, KeepsConfig, Store!Spec
=============================================================================
