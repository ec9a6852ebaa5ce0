--------------------------- MODULE BoardEnv_proof ---------------------------
(***************************************************************************)
(* Proofs about BoardEnv for every geometry, every set of environments and *)
(* every set of write requests: type correctness; that no tick interrupt   *)
(* can be taken while the chip erases; that a protected sector is not      *)
(* erased; that a call that answers ERR_OK did what it was asked for, or   *)
(* was broken off by the user; that words around a request keep their      *)
(* bytes; and that flash and environment code implement EnvStore, through  *)
(* failures and power cuts.                                                *)
(***************************************************************************)
EXTENDS BoardEnv, TLAPS

Size == start[SectorCount]

\* What is left to write ends inside of the flash; a sector waited for is one.
Room ==
  /\ fpc = "head" => src # <<>> /\ wp + l + Len(src) <= Size
  /\ fpc = "body" => wp + Len(src) <= Size
  /\ fpc \in {"wait", "verify"} => sect <= s_last
  /\ fpc \in {"word", "toggle"} => wp \in Bytes /\ (src # <<>> => wp + 4 + Len(src) <= Size)

\* While an erase is under way interrupts are off, and it switches them on
\* again only when the chip is not busy with an erase that timed out before.
Masked ==
  /\ fpc \in {"erase", "wait", "verify", "settle"} => ~intr
  /\ chip = "erasing" => ~intr
  /\ chip = "erasing" /\ fpc \in {"erase", "settle"} => ~iflag

\* The sectors an erase has yet to go through are not protected.
Unprotected ==
  fpc \in {"erase", "wait", "verify"} => \A s \in sect .. s_last : ~protect[s]

\* What is left to write belongs into the bytes of the request, as does a byte
\* at least of every word.  A word put together from bytes that were read of a
\* ready chip finds it ready, and the chip programs only while write_buff
\* waits for it.
Placed ==
  /\ fpc = "head" => wp + l .. wp + l + Len(src) - 1 \subseteq range
  /\ fpc = "body" => wp .. wp + Len(src) - 1 \subseteq range
  /\ fpc \in {"word", "toggle"} =>
       /\ \E i \in 0 .. 3 : wp + i \in range
       /\ src # <<>> => wp + 4 .. wp + 3 + Len(src) \subseteq range
  /\ fpc = "word" /\ ~misread =>
       \A i \in 0 .. 3 : wp + i \notin range => chip = "ready" /\ data[i] = cell[wp + i]
  /\ chip = "programming" => fpc = "toggle"
  /\ NeighboursKept

-----------------------------------------------------------------------------
LEMMA SizeFacts ==
  /\ Size \in Nat /\ Size % 4 = 0 /\ Size > 0
  /\ Bytes = 0 .. Size - 1 /\ 0 \in Bytes
  /\ SectorCount \in Nat /\ SectorCount > 0 /\ Sectors = 0 .. SectorCount - 1 /\ 0 \in Sectors
<1>1. SectorCount \in Nat /\ SectorCount > 0 /\ 0 \in 0 .. SectorCount /\ SectorCount \in 0 .. SectorCount
  BY SectorAssumption
<1>2. Size \in Nat /\ Size % 4 = 0 /\ start[0] = 0 /\ start[0] < Size
  BY <1>1, SectorAssumption DEF Size
<1> QED
  BY <1>1, <1>2 DEF Bytes, Sectors, Size

LEMMA Geometry ==
  ASSUME NEW s \in Sectors
  PROVE  /\ start[s] \in Bytes /\ start[s] \in Nat /\ start[s] % 4 = 0 /\ start[s] < Size
         /\ start[s + 1] \in Nat /\ start[s + 1] <= Size
         /\ start[s] < start[s + 1]
         /\ BytesOf(s) \subseteq Bytes
<1>1. /\ s \in 0 .. SectorCount /\ s + 1 \in 0 .. SectorCount /\ SectorCount \in 0 .. SectorCount
      /\ s < s + 1 /\ s < SectorCount /\ (s + 1 = SectorCount \/ s + 1 < SectorCount)
  BY SizeFacts
<1>2. /\ start[s] \in Nat /\ start[s + 1] \in Nat /\ start[s] < start[s + 1]
      /\ start[s] % 4 = 0 /\ start[s] < Size
  BY <1>1, SectorAssumption DEF Size
<1>3. start[s + 1] <= Size
  <2>1. CASE s + 1 = SectorCount
    BY <2>1, SizeFacts DEF Size
  <2>2. CASE s + 1 < SectorCount
    <3>1. start[s + 1] < start[SectorCount]
      BY <1>1, <2>2, SectorAssumption
    <3> QED
      BY <1>2, <3>1, SizeFacts DEF Size
  <2> QED
    BY <1>1, <2>1, <2>2
<1>4. BytesOf(s) \subseteq Bytes
  BY <1>2, <1>3, SizeFacts DEF BytesOf
<1> QED
  BY <1>2, <1>3, <1>4, SizeFacts

LEMMA Disjoint ==
  ASSUME NEW s \in Sectors, NEW t \in Sectors, s # t
  PROVE  BytesOf(s) \cap BytesOf(t) = {}
<1>1. ASSUME NEW a \in Sectors, NEW b \in Sectors, a < b
      PROVE  start[a + 1] <= start[b]
  <2>1. a + 1 \in 0 .. SectorCount /\ b \in 0 .. SectorCount /\ (a + 1 = b \/ a + 1 < b)
    BY <1>1, SizeFacts
  <2>2. CASE a + 1 = b
    BY <2>2, Geometry
  <2>3. CASE a + 1 < b
    <3>1. start[a + 1] < start[b]
      BY <2>1, <2>3, SectorAssumption
    <3> QED
      BY <3>1, Geometry
  <2> QED
    BY <2>1, <2>2, <2>3
<1>2. ASSUME NEW a \in Sectors, NEW b \in Sectors, a < b, NEW x \in BytesOf(a), x \in BytesOf(b)
      PROVE  FALSE
  <2>1. /\ start[a] \in Nat /\ start[a + 1] \in Nat /\ start[b] \in Nat /\ start[b + 1] \in Nat
        /\ start[a + 1] <= start[b]
    BY <1>1, <1>2, Geometry
  <2>2. x \in start[a] .. start[a + 1] - 1 /\ x \in start[b] .. start[b + 1] - 1
    BY <1>2 DEF BytesOf
  <2> QED
    BY <2>1, <2>2
<1>3. s < t \/ t < s
  BY SizeFacts
<1> QED
  BY <1>2, <1>3

LEMMA Rest ==
  ASSUME NEW s \in Seq(Bit), NEW m \in Nat, m <= Len(s)
  PROVE  SubSeq(s, m + 1, Len(s)) \in Seq(Bit) /\ Len(SubSeq(s, m + 1, Len(s))) = Len(s) - m
  OBVIOUS

LEMMA WholeWord ==
  ASSUME NEW w \in Bytes, w % 4 = 0
  PROVE  /\ w .. w + 3 \subseteq Bytes
         /\ w + 4 \in Nat /\ w + 4 <= Size /\ (w + 4) % 4 = 0
<1>1. w \in Nat /\ w < Size /\ Size \in Nat /\ Size % 4 = 0
  BY SizeFacts
<1>2. PICK p \in Nat : w = 4 * p
  BY <1>1
<1>3. PICK q \in Nat : Size = 4 * q
  BY <1>1
<1>4. p < q
  BY <1>1, <1>2, <1>3
<1>5. w + 4 <= Size /\ (w + 4) % 4 = 0
  BY <1>2, <1>3, <1>4
<1> QED
  BY <1>1, <1>5, SizeFacts

-----------------------------------------------------------------------------
(* Types                                                                   *)

TypeInv == FlashTypeOK /\ Room

LEMMA NoCallTypes ==
  ASSUME NoCall
  PROVE  /\ sect' \in 0 .. SectorCount /\ s_last' \in Sectors /\ iflag' \in BOOLEAN
         /\ wp' \in Bytes \cup {start[SectorCount]} /\ wp' % 4 = 0 /\ l' \in 0 .. 3
         /\ src' \in Seq(Bit) /\ data' \in [0 .. 3 -> Bit]
         /\ range' \in SUBSET Bytes /\ want' \in [Bytes -> Bit] /\ misread' \in BOOLEAN
<1>1. 0 \in Bytes /\ 0 \in Sectors /\ 0 \in 0 .. SectorCount
  BY SizeFacts
<1>2. want' \in [Bytes -> Bit] /\ data' \in [0 .. 3 -> Bit]
  BY DEF NoCall, Bit
<1>3. src' \in Seq(Bit)
  BY DEF NoCall
<1>4. iflag' \in BOOLEAN /\ misread' \in BOOLEAN
  BY DEF NoCall
<1>5. sect' \in 0 .. SectorCount /\ s_last' \in Sectors /\ wp' \in Bytes /\ range' \in SUBSET Bytes
  BY <1>1 DEF NoCall
<1>6. wp' % 4 = 0 /\ l' \in 0 .. 3
  BY DEF NoCall
<1> QED
  BY <1>2, <1>3, <1>4, <1>5, <1>6

LEMMA ReturnTypes ==
  ASSUME TypeInv, NEW code \in {"ok", "prog", "inval", "protected", "unknown"}, Return(code),
         cell' \in [Bytes -> Bit], chip' \in {"ready", "erasing", "programming", "error"},
         target' \in SUBSET Bytes, vendor' = vendor, protect' = protect, intr' \in BOOLEAN
  PROVE  TypeInv'
BY NoCallTypes DEF Return, TypeInv, FlashTypeOK, Room

LEMMA ChipTypes ==
  ASSUME TypeInv, ChipStep
  PROVE  TypeInv'
<1>1. CASE ChipDone
  BY <1>1 DEF ChipDone, TypeInv, FlashTypeOK, Room, eraseVars, writeVars, watchVars, Bit
<1>2. CASE ChipFails
  BY <1>2 DEF ChipFails, TypeInv, FlashTypeOK, Room, eraseVars, writeVars, watchVars
<1> QED
  BY <1>1, <1>2 DEF ChipStep

LEMMA EraseTypes ==
  ASSUME TypeInv, NEW first \in Sectors, NEW last \in Sectors, flash_erase(first, last)
  PROVE  TypeInv'
<1>1. CASE EraseRefuse(first, last)
  BY <1>1 DEF EraseRefuse, TypeInv, FlashTypeOK, Room, chipVars, eraseVars, writeVars, watchVars
<1>2. CASE EraseBegin(first, last)
  <2>1. first \in 0 .. SectorCount /\ \A s \in first .. last : s \in Sectors
    BY SizeFacts
  <2>2. range' \in SUBSET Bytes
    BY <1>2, <2>1, Geometry DEF EraseBegin
  <2>3. want' \in [Bytes -> Bit]
    BY <1>2 DEF EraseBegin, Bit
  <2> QED
    BY <1>2, <2>1, <2>2, <2>3
    DEF EraseBegin, TypeInv, FlashTypeOK, Room, chipVars, writeVars, watchVars
<1> QED
  BY <1>1, <1>2 DEF flash_erase

LEMMA WriteTypes ==
  ASSUME TypeInv, NEW addr \in Bytes, NEW s \in Seq(Bit), s # <<>>, addr + Len(s) <= Size,
         write_buff(addr, s)
  PROVE  TypeInv'
<1>1. addr \in Nat /\ addr < Size /\ Size \in Nat
  BY SizeFacts
<1>2. /\ addr % 4 \in 0 .. 3 /\ addr - (addr % 4) \in Nat
      /\ addr - (addr % 4) <= addr /\ (addr - (addr % 4)) % 4 = 0
  BY <1>1
<1>3. wp' \in Bytes /\ wp' % 4 = 0 /\ l' \in 0 .. 3 /\ wp' + l' = addr /\ src' = s
  BY <1>1, <1>2, SizeFacts DEF write_buff
<1>4. range' \in SUBSET Bytes
  <2>1. \A b \in addr .. addr + Len(s) - 1 : b \in Bytes
    BY <1>1, SizeFacts
  <2> QED
    BY <2>1 DEF write_buff
<1>5. want' \in [Bytes -> Bit]
  <2>1. ASSUME NEW b \in Bytes, b \in addr .. addr + Len(s) - 1 PROVE s[b - addr + 1] \in Bit
    <3>1. b - addr + 1 \in 1 .. Len(s)
      BY <1>1, <2>1
    <3> QED
      BY <3>1
  <2> QED
    BY <2>1 DEF write_buff, Bit
<1>6. Room'
  BY <1>1, <1>2, <1>3 DEF write_buff, Room
<1> QED
  BY <1>3, <1>4, <1>5, <1>6
  DEF write_buff, TypeInv, FlashTypeOK, chipVars, eraseVars

LEMMA WordTypes ==
  ASSUME TypeInv, wp \in Bytes, NEW word \in [0 .. 3 -> Bit], misread' \in BOOLEAN,
         NEW m \in Nat, m <= Len(src), m < Len(src) => wp + 4 + Len(src) - m <= Size,
         Assemble(word, m)
  PROVE  TypeInv'
<1>1. src' \in Seq(Bit) /\ Len(src') = Len(src) - m
  BY Rest DEF Assemble, TypeInv, FlashTypeOK
<1>2. src' # <<>> => wp + 4 + Len(src') <= Size
  <2>1. Len(src) \in Nat /\ wp \in Nat /\ Size \in Nat
    BY SizeFacts DEF TypeInv, FlashTypeOK
  <2>2. src' # <<>> => m < Len(src)
    BY <1>1, <2>1
  <2> QED
    BY <1>1, <2>1, <2>2
<1>3. /\ data' = word /\ fpc' = "word"
      /\ UNCHANGED <<cell, chip, target, vendor, protect, intr, eraseVars, wp, l, rc, range, want>>
  BY DEF Assemble, chipVars
<1> QED
  BY <1>1, <1>2, <1>3 DEF TypeInv, FlashTypeOK, Room, eraseVars

LEMMA ProgramTypes == TypeInv /\ ProgramWord => TypeInv'
<1> SUFFICES ASSUME TypeInv, ProgramWord PROVE TypeInv'
  OBVIOUS
<1>1. wp \in Bytes
  BY DEF ProgramWord, TypeInv, Room
<1>2. wp .. wp + 3 \subseteq Bytes
  BY <1>1, WholeWord DEF TypeInv, FlashTypeOK
<1>3. /\ cell' \in [Bytes -> Bit] /\ target' \in SUBSET Bytes
      /\ chip' \in {"ready", "erasing", "programming", "error"}
      /\ vendor' = vendor /\ protect' = protect /\ intr' = intr
  <2>1. CASE Command("programming", wp .. wp + 3)
    BY <1>2, <2>1 DEF ProgramWord, Command, TypeInv, FlashTypeOK
  <2>2. CASE UNCHANGED <<chip, target>>
    BY <2>2 DEF ProgramWord, TypeInv, FlashTypeOK
  <2> QED
    BY <2>1, <2>2 DEF ProgramWord
<1>4. CASE vendor = "unknown"
  <2>1. Return("unknown")
    BY <1>4 DEF ProgramWord
  <2> QED
    BY <1>3, <2>1, ReturnTypes DEF TypeInv, FlashTypeOK
<1>5. CASE vendor # "unknown"
  <2>1. fpc = "word" /\ fpc' = "toggle" /\ UNCHANGED <<eraseVars, writeVars, rc, watchVars>>
    BY <1>5 DEF ProgramWord
  <2> QED
    BY <1>3, <2>1 DEF TypeInv, FlashTypeOK, Room, eraseVars, writeVars, watchVars
<1> QED
  BY <1>4, <1>5

LEMMA WordBits ==
  ASSUME TypeInv, wp \in Bytes, NEW n \in 0 .. 3, NEW around \in Readings
  PROVE  Merge(n, around) \in [0 .. 3 -> Bit]
<1> SUFFICES ASSUME NEW i \in 0 .. 3
             PROVE  (IF i - n \in 0 .. Len(src) - 1 THEN src[i - n + 1] ELSE around[i]) \in Bit
  BY DEF Merge
<1>1. wp + i \in Bytes
  <2>1. wp \in Int
    BY SizeFacts
  <2>2. wp .. wp + 3 \subseteq Bytes
    BY WholeWord DEF TypeInv, FlashTypeOK
  <2> QED
    BY <2>1, <2>2
<1>2. around[i] \in Bit
  BY <1>1 DEF Readings, TypeInv, FlashTypeOK
<1>3. src \in Seq(Bit)
  BY DEF TypeInv, FlashTypeOK
<1> QED
  BY <1>2, <1>3

LEMMA HeadTypes == TypeInv /\ WriteHead => TypeInv'
<1> SUFFICES ASSUME TypeInv, WriteHead PROVE TypeInv'
  OBVIOUS
<1>0. PICK around \in Readings : Assemble(Merge(l, around), Least(4 - l, Len(src)))
  BY DEF WriteHead
<1> DEFINE m    == Least(4 - l, Len(src))
           word == Merge(l, around)
<1>1. /\ l \in 0 .. 3 /\ Len(src) \in Nat /\ Len(src) > 0
      /\ wp \in Nat /\ Size \in Nat /\ wp + l + Len(src) <= Size
  <2>1. src \in Seq(Bit) /\ src # <<>> /\ wp \in Bytes \cup {Size} /\ l \in 0 .. 3
    BY DEF WriteHead, TypeInv, Room, FlashTypeOK, Size
  <2>2. wp + l + Len(src) <= Size
    BY DEF WriteHead, TypeInv, Room
  <2>3. Len(src) \in Nat /\ Len(src) > 0
    BY <2>1
  <2> QED
    BY <2>1, <2>2, <2>3, SizeFacts
<1>2. wp \in Bytes
  BY <1>1, SizeFacts
<1>3. m \in Nat /\ m <= Len(src) /\ (m < Len(src) => m = 4 - l)
  BY <1>1 DEF Least
<1>4. m < Len(src) => wp + 4 + Len(src) - m <= Size
  BY <1>1, <1>3
<1>5. word \in [0 .. 3 -> Bit]
  BY <1>1, <1>2, WordBits
<1>6. Assemble(word, m) /\ misread' \in BOOLEAN
  BY <1>0 DEF WriteHead
<1> HIDE DEF m, word
<1> QED
  BY <1>2, <1>3, <1>4, <1>5, <1>6, WordTypes

LEMMA BodyTypes == TypeInv /\ (WriteAligned \/ WriteTail) => TypeInv'
<1> SUFFICES ASSUME TypeInv, WriteAligned \/ WriteTail PROVE TypeInv'
  OBVIOUS
<1>1. /\ Len(src) \in Nat /\ Len(src) > 0
      /\ wp \in Nat /\ Size \in Nat /\ wp + Len(src) <= Size
  <2>1. fpc = "body" /\ (Len(src) >= 4 \/ Len(src) \in 1 .. 3)
    BY DEF WriteAligned, WriteTail
  <2>2. src \in Seq(Bit) /\ wp \in Bytes \cup {Size}
    BY DEF TypeInv, FlashTypeOK, Size
  <2>3. wp + Len(src) <= Size
    BY <2>1 DEF TypeInv, Room
  <2>4. Size \in Nat /\ wp \in Nat
    BY <2>2, SizeFacts
  <2>5. Len(src) \in Nat
    BY <2>2
  <2>6. Len(src) > 0
    BY <2>1, <2>5
  <2> QED
    BY <2>3, <2>4, <2>5, <2>6
<1>2. wp \in Bytes
  BY <1>1, SizeFacts
<1>3. CASE WriteAligned
  <2> DEFINE word == [i \in 0 .. 3 |-> src[i + 1]]
  <2>1. word \in [0 .. 3 -> Bit]
    BY <1>3 DEF WriteAligned, TypeInv, FlashTypeOK
  <2>2. Assemble(word, 4) /\ Len(src) >= 4 /\ misread' \in BOOLEAN
    BY <1>3 DEF WriteAligned, TypeInv, FlashTypeOK
  <2>3. wp + 4 + Len(src) - 4 <= Size
    BY <1>1
  <2> HIDE DEF word
  <2> QED
    BY <1>1, <1>2, <2>1, <2>2, <2>3, WordTypes
<1>4. CASE WriteTail
  <2>0. PICK around \in Readings : Assemble(Merge(0, around), Len(src))
    BY <1>4 DEF WriteTail
  <2> DEFINE word == Merge(0, around)
  <2>1. word \in [0 .. 3 -> Bit]
    BY <1>2, WordBits
  <2>2. Assemble(word, Len(src)) /\ misread' \in BOOLEAN
    BY <1>4, <2>0 DEF WriteTail
  <2> HIDE DEF word
  <2> QED
    BY <1>1, <1>2, <2>1, <2>2, WordTypes
<1> QED
  BY <1>3, <1>4

LEMMA ReadBackTypes == TypeInv /\ ReadBack => TypeInv'
<1> SUFFICES ASSUME TypeInv, ReadBack PROVE TypeInv'
  OBVIOUS
<1>1. UNCHANGED <<cell, chip, target, vendor, protect, intr>>
  BY DEF ReadBack, chipVars
<1>2. CASE \E code \in {"ok", "prog"} : Return(code)
  BY <1>1, <1>2, ReturnTypes DEF TypeInv, FlashTypeOK
<1>3. CASE src # <<>> /\ NextWord
  <2>1. wp \in Bytes /\ wp + 4 + Len(src) <= Size
    BY <1>3 DEF ReadBack, TypeInv, Room
  <2>2. wp' = wp + 4 /\ fpc' = "body" /\ UNCHANGED <<eraseVars, l, src, data, rc, watchVars>>
    BY <1>3 DEF NextWord
  <2>3. wp + 4 \in Nat /\ wp + 4 <= Size /\ (wp + 4) % 4 = 0
    BY <2>1, WholeWord DEF TypeInv, FlashTypeOK
  <2>4. wp' \in Bytes \cup {start[SectorCount]} /\ wp' % 4 = 0
    BY <2>2, <2>3, SizeFacts DEF Size
  <2> QED
    BY <1>1, <2>1, <2>2, <2>4 DEF TypeInv, FlashTypeOK, Room, eraseVars, watchVars
<1> QED
  BY <1>2, <1>3 DEF ReadBack, NextWord

LEMMA SectorInRange ==
  ASSUME FlashTypeOK, sect <= s_last
  PROVE  sect \in Sectors /\ sect + 1 \in 0 .. SectorCount /\ sect \in sect .. s_last
<1>1. sect \in 0 .. SectorCount /\ s_last \in Sectors
  BY DEF FlashTypeOK
<1> QED
  BY <1>1, SizeFacts

LEMMA CallTypes == TypeInv /\ CallStep => TypeInv'
<1> SUFFICES ASSUME TypeInv, CallStep PROVE TypeInv'
  OBVIOUS
<1> USE DEF chipVars, eraseVars, writeVars, watchVars
<1>1. CASE EraseSector
  <2>1. sect \in Sectors
    BY <1>1, SectorInRange DEF EraseSector, TypeInv
  <2>2. target' \in SUBSET Bytes /\ chip' \in {"ready", "erasing", "programming", "error"}
    BY <1>1, <2>1, Geometry DEF EraseSector, Command, TypeInv, FlashTypeOK
  <2> QED
    BY <1>1, <2>2 DEF EraseSector, TypeInv, FlashTypeOK, Room
<1>2. CASE StatusReady
  BY <1>2 DEF StatusReady, TypeInv, FlashTypeOK, Room
<1>3. CASE VerifyOk
  <2>1. sect' \in 0 .. SectorCount
    BY <1>3, SectorInRange DEF VerifyOk, TypeInv, Room
  <2> QED
    BY <1>3, <2>1 DEF VerifyOk, TypeInv, FlashTypeOK, Room
<1>4. CASE VerifyTimeout
  BY <1>4, ReturnTypes DEF VerifyTimeout, TypeInv, FlashTypeOK
<1>5. CASE EraseBreak
  BY <1>5 DEF EraseBreak, TypeInv, FlashTypeOK, Room
<1>6. CASE EraseReturn
  BY <1>6, ReturnTypes DEF EraseReturn, TypeInv, FlashTypeOK
<1>7. CASE StatusBusy
  BY <1>7 DEF StatusBusy, flashVars, TypeInv, FlashTypeOK, Room
<1> QED
  BY <1>1, <1>2, <1>3, <1>4, <1>5, <1>6, <1>7, HeadTypes, BodyTypes, ProgramTypes, ReadBackTypes
  DEF CallStep

LEMMA CommandTypes ==
  ASSUME TypeInv, NEW q \in Requests, CommandWrite(q.addr, q.src)
  PROVE  TypeInv'
<1>1. q.addr \in Bytes /\ q.src \in Seq(Bit) /\ Len(q.src) > 0
  BY EnvAssumption
<1>2. q.src # <<>>
  BY <1>1
<1>3. q.addr + Len(q.src) <= Size
  <2>1. q.addr + Len(q.src) <= start[EnvSector]
    BY DEF CommandWrite
  <2>2. start[EnvSector] < Size /\ start[EnvSector] \in Nat /\ Size \in Nat
    BY Geometry, SizeFacts, EnvAssumption
  <2>3. q.addr \in Nat /\ Len(q.src) \in Nat
    BY <1>1, SizeFacts
  <2> QED
    BY <2>1, <2>2, <2>3
<1>4. write_buff(q.addr, q.src)
  BY DEF CommandWrite
<1> QED
  BY <1>1, <1>2, <1>3, <1>4, WriteTypes

LEMMA AsSequence ==
  ASSUME NEW n \in Nat, NEW f \in [1 .. n -> Bit]
  PROVE  f \in Seq(Bit) /\ Len(f) = n
OBVIOUS

LEMMA SaveWriteTypes == TypeInv /\ env \in Contents /\ SaveWrite => TypeInv'
<1> SUFFICES ASSUME TypeInv, env \in Contents, SaveWrite PROVE TypeInv'
  OBVIOUS
<1> DEFINE first == start[EnvSector]
           n     == start[EnvSector + 1] - first
           s     == [k \in 1 .. n |-> env[first + k - 1]]
<1>1. first \in Bytes /\ first \in Nat /\ n \in Nat /\ n > 0 /\ first + n <= Size /\ Size \in Nat
  <2>1. /\ first \in Bytes /\ first \in Nat /\ start[EnvSector + 1] \in Nat
        /\ start[EnvSector + 1] <= Size /\ first < start[EnvSector + 1] /\ Size \in Nat
    BY Geometry, SizeFacts, EnvAssumption
  <2> HIDE DEF first
  <2> QED
    BY <2>1
<1>2. s \in Seq(Bit) /\ Len(s) = n
  <2>1. \A k \in 1 .. n : first + k - 1 \in EnvBytes
    <3> SUFFICES ASSUME NEW k \in 1 .. n PROVE first + k - 1 \in EnvBytes
      OBVIOUS
    <3>1. start[EnvSector + 1] \in Nat /\ start[EnvSector] \in Nat
      BY <1>1, Geometry, EnvAssumption
    <3>2. k \in Nat /\ 1 <= k /\ k <= start[EnvSector + 1] - start[EnvSector]
      BY <3>1
    <3>3. first + k - 1 \in Nat /\ start[EnvSector] <= first + k - 1
          /\ first + k - 1 <= start[EnvSector + 1] - 1
      BY <3>1, <3>2
    <3> QED
      BY <3>1, <3>3 DEF EnvBytes, BytesOf
  <2>2. \A k \in 1 .. n : env[first + k - 1] \in Bit
    BY <2>1 DEF Contents
  <2>3. s \in [1 .. n -> Bit]
    BY <2>2
  <2> HIDE DEF n, s
  <2> QED
    BY <1>1, <2>3, AsSequence
<1>3. write_buff(first, s)
  BY DEF SaveWrite
<1> HIDE DEF first, n, s
<1>4. s # <<>> /\ first + Len(s) <= Size
  BY <1>1, <1>2
<1> QED
  BY <1>1, <1>2, <1>3, <1>4, WriteTypes

LEMMA PowerCutTypes == TypeInv /\ PowerCut => TypeInv'
<1> SUFFICES ASSUME TypeInv, PowerCut PROVE TypeInv'
  OBVIOUS
<1>1. cell' \in [Bytes -> Bit]
  BY DEF PowerCut, TypeInv, FlashTypeOK, Bit
<1> QED
  BY <1>1, NoCallTypes DEF PowerCut, TypeInv, FlashTypeOK, Room

EnvTypeOK ==
  /\ env \in Contents
  /\ loaded \in BOOLEAN
  /\ env_crc_valid \in {-1, 0, 1}
  /\ epc \in {"idle", "erase", "erased", "written"}
  /\ ret \in {"none", "ok", "error"}

IInv == TypeInv /\ EnvTypeOK

LEMMA TypeInit == Init => IInv
<1> SUFFICES ASSUME Init PROVE IInv
  OBVIOUS
<1>1. 0 \in Bytes /\ 0 \in Sectors /\ 0 \in 0 .. SectorCount
  BY SizeFacts
<1>2. cell \in [Bytes -> Bit] /\ want \in [Bytes -> Bit] /\ data \in [0 .. 3 -> Bit] /\ src \in Seq(Bit)
  BY DEF Init, FlashInit, Bit
<1>3. protect \in [Sectors -> BOOLEAN] /\ iflag \in BOOLEAN /\ intr \in BOOLEAN
  BY DEF Init, FlashInit
<1>4. wp % 4 = 0 /\ l \in 0 .. 3 /\ wp \in Bytes /\ sect \in 0 .. SectorCount /\ s_last \in Sectors
  BY <1>1 DEF Init, FlashInit
<1>5. FlashTypeOK
  BY <1>2, <1>3, <1>4 DEF Init, FlashInit, FlashTypeOK
<1>6. Room
  BY DEF Init, FlashInit, Room
<1>7. EnvTypeOK
  BY EnvAssumption DEF Init, EnvTypeOK
<1> QED
  BY <1>5, <1>6, <1>7 DEF IInv, TypeInv

LEMMA TypeStep == IInv /\ [Next]_vars => IInv'
<1> SUFFICES ASSUME IInv, [Next]_vars PROVE IInv'
  OBVIOUS
<1>1. EnvSector \in Sectors /\ \A e \in Envs : e \in Contents
  BY EnvAssumption
<1>2. ASSUME UNCHANGED flashVars PROVE TypeInv'
  BY <1>2 DEF IInv, TypeInv, FlashTypeOK, Room, flashVars, chipVars, eraseVars, writeVars, watchVars
<1>3. ASSUME protect' \in [Sectors -> BOOLEAN], KeepFlash PROVE TypeInv'
  BY <1>3 DEF IInv, TypeInv, FlashTypeOK, Room, KeepFlash, chipVars, eraseVars, writeVars, watchVars
<1>4. \A p \in BOOLEAN : SetProtect(p) => protect' \in [Sectors -> BOOLEAN]
  BY DEF SetProtect, IInv, TypeInv, FlashTypeOK
<1>5. check_crc => env_crc_valid' \in {-1, 0, 1}
  BY DEF check_crc, IInv, EnvTypeOK
<1>6. CASE EnvGet
  BY <1>2, <1>5, <1>6 DEF EnvGet, IInv, EnvTypeOK
<1>7. CASE EnvCopy
  <2>1. InFlash \in Contents
    <3>1. \A b \in EnvBytes : b \in Bytes
      BY <1>1, Geometry DEF EnvBytes
    <3> QED
      BY <3>1 DEF InFlash, Contents, IInv, TypeInv, FlashTypeOK
  <2>2. env' \in Contents
    BY <1>1, <1>7, <2>1, EnvAssumption DEF EnvCopy
  <2> QED
    BY <1>2, <1>5, <1>7, <2>2 DEF EnvCopy, IInv, EnvTypeOK
<1>8. CASE SaveUnprotect
  <2>1. protect' \in [Sectors -> BOOLEAN]
    BY <1>4, <1>8 DEF SaveUnprotect, IInv, TypeInv, FlashTypeOK
  <2> QED
    BY <1>3, <1>8, <2>1 DEF SaveUnprotect, IInv, EnvTypeOK
<1>9. CASE SaveErase
  BY <1>1, <1>9, EraseTypes DEF SaveErase, IInv, EnvTypeOK
<1>10. CASE SaveEraseFailed
  BY <1>3, <1>4, <1>10 DEF SaveEraseFailed, IInv, EnvTypeOK
<1>11. CASE SaveWrite
  BY <1>11, SaveWriteTypes DEF SaveWrite, IInv, EnvTypeOK
<1>12. CASE SaveReturn
  BY <1>3, <1>4, <1>12 DEF SaveReturn, IInv, EnvTypeOK
<1>13. CASE \E e \in Envs : SetEnv(e)
  BY <1>1, <1>2, <1>13 DEF SetEnv, IInv, EnvTypeOK
<1>14. CASE \E first, last \in Sectors : CommandErase(first, last)
  BY <1>14, EraseTypes DEF CommandErase, IInv, EnvTypeOK, envVars
<1>15. CASE \E q \in Requests : CommandWrite(q.addr, q.src)
  BY <1>15, CommandTypes DEF CommandWrite, IInv, EnvTypeOK, envVars
<1>16. CASE (CallStep \/ ChipStep) /\ UNCHANGED envVars
  BY <1>16, CallTypes, ChipTypes DEF IInv, EnvTypeOK, envVars
<1>17. CASE PowerOff
  BY <1>1, <1>17, PowerCutTypes, EnvAssumption DEF PowerOff, IInv, EnvTypeOK
<1>18. CASE UNCHANGED vars
  BY <1>2, <1>18 DEF vars, envVars, IInv, EnvTypeOK
<1> QED
  BY <1>6, <1>7, <1>8, <1>9, <1>10, <1>11, <1>12, <1>13, <1>14, <1>15, <1>16, <1>17, <1>18
  DEF Next, SaveStep

\* The types of the driver and of env.c, among them: a word is aligned, and
\* every access of write_buff is inside of the flash.
THEOREM EnvTypeCorrect == Spec => []TypeOK
<1>1. IInv => TypeOK
  BY DEF IInv, TypeInv, EnvTypeOK, TypeOK
<1> QED
  BY <1>1, TypeInit, TypeStep, PTL DEF Spec

-----------------------------------------------------------------------------
(* Interrupts and protection                                               *)

LEMMA MaskedStep == Masked /\ [Next]_vars => Masked'
<1> SUFFICES ASSUME Masked, [Next]_vars PROVE Masked'
  OBVIOUS
<1> USE DEF Masked, chipVars
<1>1. ASSUME UNCHANGED <<chip, intr, fpc, iflag>> PROVE Masked'
  BY <1>1
<1>2. ASSUME NEW first \in Sectors, NEW last \in Sectors, flash_erase(first, last) PROVE Masked'
  BY <1>2 DEF flash_erase, EraseRefuse, EraseBegin, eraseVars
<1>3. ASSUME NEW addr, NEW s, write_buff(addr, s) PROVE Masked'
  BY <1>3 DEF write_buff, eraseVars
<1>4. ASSUME KeepFlash PROVE Masked'
  BY <1>1, <1>4 DEF KeepFlash, eraseVars
<1>5. ASSUME UNCHANGED flashVars PROVE Masked'
  BY <1>1, <1>5 DEF flashVars, eraseVars
<1>6. ASSUME NEW code, Return(code), UNCHANGED <<chip, intr>> PROVE Masked'
  BY <1>6 DEF Return
<1>7. CASE EraseSector
  BY <1>7 DEF EraseSector, Command, eraseVars
<1>8. CASE StatusReady
  BY <1>8 DEF StatusReady, eraseVars
<1>9. CASE VerifyOk
  BY <1>9 DEF VerifyOk, ReadsErased
<1>10. CASE VerifyTimeout
  BY <1>6, <1>10 DEF VerifyTimeout
<1>11. CASE EraseBreak
  BY <1>11 DEF EraseBreak, eraseVars
<1>12. CASE EraseReturn
  BY <1>12 DEF EraseReturn, Return
<1>13. CASE WriteHead \/ WriteAligned \/ WriteTail \/ ProgramWord
  BY <1>13 DEF WriteHead, WriteAligned, WriteTail, Assemble, ProgramWord, Command, Return, eraseVars
<1>14. CASE ReadBack
  BY <1>14 DEF ReadBack, NextWord, Return, eraseVars
<1>15. CASE StatusBusy
  BY <1>5, <1>15 DEF StatusBusy
<1>16. CASE ChipStep
  BY <1>16 DEF ChipStep, ChipDone, ChipFails, eraseVars
<1>17. CASE PowerOff
  BY <1>17 DEF PowerOff, PowerCut
<1>18. CASE EnvGet \/ EnvCopy \/ UNCHANGED vars \/ \E e \in Envs : SetEnv(e)
  BY <1>5, <1>18 DEF EnvGet, EnvCopy, SetEnv, vars
<1>19. CASE SaveUnprotect \/ SaveEraseFailed \/ SaveReturn
  BY <1>4, <1>19 DEF SaveUnprotect, SaveEraseFailed, SaveReturn
<1>20. CASE SaveErase \/ \E first, last \in Sectors : CommandErase(first, last)
  BY <1>2, <1>20, EnvAssumption DEF SaveErase, CommandErase
<1>21. CASE SaveWrite \/ \E q \in Requests : CommandWrite(q.addr, q.src)
  BY <1>3, <1>21 DEF SaveWrite, CommandWrite
<1> QED
  BY <1>7, <1>8, <1>9, <1>10, <1>11, <1>12, <1>13, <1>14, <1>15, <1>16, <1>17, <1>18,
     <1>19, <1>20, <1>21
  DEF Next, SaveStep, CallStep

\* While the chip erases, also when flash_erase has given up waiting for it
\* and returned, no timer interrupt can go through the vectors in it.
THEOREM NoTickWhileErasing == Spec => []NoTickDuringErase
<1>1. Init => Masked
  BY DEF Init, FlashInit, Masked
<1>2. Masked => NoTickDuringErase
  BY DEF Masked, NoTickDuringErase
<1> QED
  BY <1>1, <1>2, MaskedStep, PTL DEF Spec

LEMMA UnprotectedStep == IInv /\ Unprotected /\ [Next]_vars => Unprotected'
<1> SUFFICES ASSUME IInv, Unprotected, [Next]_vars PROVE Unprotected'
  OBVIOUS
<1> USE DEF Unprotected, chipVars, eraseVars
<1>1. ASSUME NEW first \in Sectors, NEW last \in Sectors, flash_erase(first, last)
      PROVE  Unprotected'
  <2>1. CASE EraseRefuse(first, last)
    BY <2>1 DEF EraseRefuse
  <2>2. CASE EraseBegin(first, last)
    BY <2>2 DEF EraseBegin, MayErase
  <2> QED
    BY <1>1, <2>1, <2>2 DEF flash_erase
<1>2. ASSUME NEW addr, NEW s, write_buff(addr, s) PROVE Unprotected'
  BY <1>2 DEF write_buff
<1>3. ASSUME fpc = "idle", KeepFlash PROVE Unprotected'
  BY <1>3 DEF KeepFlash
<1>4. ASSUME UNCHANGED flashVars PROVE Unprotected'
  BY <1>4 DEF flashVars
<1>5. CASE VerifyOk
  <2>1. sect \in Nat /\ s_last \in Int
    BY DEF IInv, TypeInv, FlashTypeOK, Sectors
  <2>2. \A s \in sect + 1 .. s_last : s \in sect .. s_last
    BY <2>1
  <2> QED
    BY <1>5, <2>2 DEF VerifyOk
<1>6. CASE EraseSector
  BY <1>6 DEF EraseSector
<1>7. CASE StatusReady
  BY <1>7 DEF StatusReady
<1>8. CASE VerifyTimeout
  BY <1>8 DEF VerifyTimeout, Return
<1>9. CASE EraseBreak
  BY <1>9 DEF EraseBreak
<1>10. CASE EraseReturn
  BY <1>10 DEF EraseReturn, Return
<1>11. CASE WriteHead \/ WriteAligned \/ WriteTail \/ ProgramWord
  BY <1>11 DEF WriteHead, WriteAligned, WriteTail, Assemble, ProgramWord, Return
<1>12. CASE ReadBack
  BY <1>12 DEF ReadBack, NextWord, Return
<1>13. CASE StatusBusy
  BY <1>4, <1>13 DEF StatusBusy
<1>14. CASE ChipStep
  BY <1>14 DEF ChipStep, ChipDone, ChipFails
<1>15. CASE PowerOff
  BY <1>15 DEF PowerOff, PowerCut
<1>16. CASE EnvGet \/ EnvCopy \/ UNCHANGED vars \/ \E e \in Envs : SetEnv(e)
  BY <1>4, <1>16 DEF EnvGet, EnvCopy, SetEnv, vars
<1>17. CASE SaveUnprotect \/ SaveEraseFailed \/ SaveReturn
  BY <1>3, <1>17 DEF SaveUnprotect, SaveEraseFailed, SaveReturn, Idle
<1>18. CASE SaveErase \/ \E first, last \in Sectors : CommandErase(first, last)
  BY <1>1, <1>18, EnvAssumption DEF SaveErase, CommandErase
<1>19. CASE SaveWrite \/ \E q \in Requests : CommandWrite(q.addr, q.src)
  BY <1>2, <1>19 DEF SaveWrite, CommandWrite
<1> QED
  BY <1>5, <1>6, <1>7, <1>8, <1>9, <1>10, <1>11, <1>12, <1>13, <1>14, <1>15, <1>16, <1>17,
     <1>18, <1>19
  DEF Next, SaveStep, CallStep

\* Only the first step of EraseSector starts an erase.
LEMMA EraseStarts ==
  ASSUME [Next]_vars, chip # "erasing", chip' = "erasing"
  PROVE  EraseSector /\ target' = BytesOf(sect)
<1> USE DEF chipVars
<1>1. ~ UNCHANGED chip
  OBVIOUS
<1>2. CASE EraseSector
  BY <1>1, <1>2 DEF EraseSector, Command
<1>3. \A first, last : ~ flash_erase(first, last)
  BY <1>1 DEF flash_erase, EraseRefuse, EraseBegin
<1>4. \A addr, s : ~ write_buff(addr, s)
  BY <1>1 DEF write_buff
<1>5. ~KeepFlash /\ ~ UNCHANGED flashVars
  BY <1>1 DEF KeepFlash, flashVars
<1>6. ~(StatusReady \/ VerifyOk \/ VerifyTimeout \/ EraseBreak \/ EraseReturn \/ StatusBusy)
  BY <1>1, <1>5 DEF StatusReady, VerifyOk, VerifyTimeout, EraseBreak, EraseReturn, StatusBusy
<1>7. ~(WriteHead \/ WriteAligned \/ WriteTail \/ ProgramWord \/ ReadBack)
  BY <1>1 DEF WriteHead, WriteAligned, WriteTail, Assemble, ProgramWord, Command, ReadBack
<1>8. ~ChipStep
  BY <1>1 DEF ChipStep, ChipDone, ChipFails
<1>9. ~PowerOff
  BY DEF PowerOff, PowerCut
<1> QED
  BY <1>2, <1>3, <1>4, <1>5, <1>6, <1>7, <1>8, <1>9
  DEF Next, vars, EnvGet, EnvCopy, SetEnv, SaveUnprotect, SaveStep, SaveErase, SaveEraseFailed,
      SaveWrite, SaveReturn, CommandErase, CommandWrite, CallStep

\* However calls to erase are broken off or time out, and whatever the save
\* of the environment does to the protection in between, a sector that is
\* protected does not start to be erased.
THEOREM ProtectedSectorsStay == Spec => ProtectedNotErased
<1> DEFINE Kept == \A s \in Sectors : protect[s] /\ chip # "erasing" /\ chip' = "erasing"
                                     => target' \cap BytesOf(s) = {}
<1>1. IInv /\ Unprotected /\ [Next]_vars => Kept
  <2> SUFFICES ASSUME IInv, Unprotected, [Next]_vars, NEW s \in Sectors,
                      protect[s], chip # "erasing", chip' = "erasing"
               PROVE  target' \cap BytesOf(s) = {}
    OBVIOUS
  <2>1. EraseSector /\ target' = BytesOf(sect)
    BY EraseStarts
  <2>2. sect \in Sectors /\ sect \in sect .. s_last
    BY <2>1, SectorInRange DEF EraseSector, IInv, TypeInv
  <2>3. s # sect
    BY <2>1, <2>2 DEF EraseSector, Unprotected
  <2> QED
    BY <2>1, <2>2, <2>3, Disjoint
<1>2. Kept => [Kept]_flashVars
  OBVIOUS
<1>3. Init => Unprotected
  BY DEF Init, FlashInit, Unprotected
<1>4. IInv /\ Unprotected /\ [Next]_vars => [Kept]_flashVars
  BY <1>1, <1>2
<1> HIDE DEF Kept
<1>5. Spec => [][Kept]_flashVars
  BY <1>3, <1>4, TypeInit, TypeStep, UnprotectedStep, PTL DEF Spec
<1> QED
  BY <1>5 DEF ProtectedNotErased, Kept

-----------------------------------------------------------------------------
(* Neighbours of a write                                                   *)

\* A step that starts no write, and leaves the one that is under way alone
\* or ends it.
LEMMA PlacedOutside ==
  ASSUME Placed, chip' = "programming" => chip = "programming" /\ cell' = cell,
         \/ /\ UNCHANGED <<fpc, wp, l, src, range, data, misread>>
            /\ chip = "ready" => UNCHANGED <<chip, cell>>
         \/ /\ fpc' \notin {"head", "body", "word", "toggle"}
            /\ chip' # "programming"
  PROVE  Placed'
BY DEF Placed, NeighboursKept

LEMMA PlacedWord ==
  ASSUME IInv, Placed, fpc \in {"head", "body"}, NEW word, NEW m \in Nat, m <= Len(src),
         m < Len(src) => (fpc = "head" /\ m = 4 - l) \/ (fpc = "body" /\ m = 4),
         \E i \in 0 .. 3 : wp + i \in range,
         \A i \in 0 .. 3 :
           wp + i \notin range /\ ~misread' => chip = "ready" /\ word[i] = cell[wp + i],
         Assemble(word, m)
  PROVE  Placed'
<1>1. /\ data' = word /\ fpc' = "word" /\ wp' = wp /\ range' = range
      /\ src' = SubSeq(src, m + 1, Len(src)) /\ cell' = cell /\ chip' = chip
  BY DEF Assemble, chipVars
<1>2. chip' # "programming"
  BY <1>1 DEF Placed
<1>3. src \in Seq(Bit) /\ wp \in Nat /\ l \in 0 .. 3 /\ Len(src) \in Nat
  BY SizeFacts DEF IInv, TypeInv, FlashTypeOK, Size
<1>4. Len(src') = Len(src) - m /\ src' \in Seq(Bit)
  BY <1>1, <1>3, Rest
<1>5. src' # <<>> => wp' + 4 .. wp' + 3 + Len(src') \subseteq range'
  <2> SUFFICES ASSUME src' # <<>>, NEW b \in wp + 4 .. wp + 3 + Len(src') PROVE b \in range
    BY <1>1
  <2>1. m < Len(src)
    BY <1>3, <1>4
  <2>2. CASE fpc = "head" /\ m = 4 - l
    <3>1. b \in wp + l .. wp + l + Len(src) - 1
      BY <1>3, <1>4, <2>2
    <3> QED
      BY <2>2, <3>1 DEF Placed
  <2>3. CASE fpc = "body" /\ m = 4
    <3>1. b \in wp .. wp + Len(src) - 1
      BY <1>3, <1>4, <2>3
    <3> QED
      BY <2>3, <3>1 DEF Placed
  <2> QED
    BY <2>1, <2>2, <2>3
<1> QED
  BY <1>1, <1>2, <1>5 DEF Placed, NeighboursKept

LEMMA PlacedCommand == Placed /\ ProgramWord => Placed'
<1> SUFFICES ASSUME Placed, ProgramWord PROVE Placed'
  OBVIOUS
<1>1. fpc = "word" /\ chip # "programming" /\ cell' = cell
  BY DEF Placed, ProgramWord
<1>2. CASE vendor = "unknown"
  BY <1>1, <1>2 DEF ProgramWord, Return, Placed, NeighboursKept
<1>3. CASE vendor # "unknown"
  <2>1. fpc' = "toggle" /\ UNCHANGED <<wp, l, src, data, range, misread>>
        /\ Command("programming", wp .. wp + 3)
    BY <1>3 DEF ProgramWord, writeVars, watchVars
  <2> QED
    BY <1>1, <2>1 DEF Placed, NeighboursKept
<1> QED
  BY <1>2, <1>3

LEMMA PlacedWrite ==
  ASSUME IInv, Placed, NEW addr \in Bytes, NEW s, write_buff(addr, s)
  PROVE  Placed'
<1>1. addr \in Nat
  BY SizeFacts
<1>2. addr % 4 \in 0 .. 3 /\ (addr % 4 = 0 => wp' = addr) /\ wp' + l' = addr
  BY <1>1 DEF write_buff
<1>3. src' = s /\ range' = addr .. addr + Len(s) - 1 /\ chip' = chip
  BY DEF write_buff, chipVars
<1>4. fpc' \in {"head", "body"} /\ (fpc' = "body" => wp' = addr) /\ chip' # "programming"
  BY <1>2, <1>3 DEF write_buff, Placed
<1> QED
  BY <1>2, <1>3, <1>4 DEF Placed, NeighboursKept

LEMMA PlacedCall == IInv /\ Placed /\ CallStep => Placed'
<1> SUFFICES ASSUME IInv, Placed, CallStep PROVE Placed'
  OBVIOUS
<1> USE DEF chipVars, eraseVars, writeVars, watchVars
<1>1. src \in Seq(Bit) /\ wp \in Nat /\ l \in 0 .. 3 /\ Len(src) \in Nat
  BY SizeFacts DEF IInv, TypeInv, FlashTypeOK, Size
<1>2. CASE EraseSector
  BY <1>2, PlacedOutside DEF EraseSector, Command, Placed
<1>3. CASE StatusReady \/ VerifyOk \/ EraseBreak
  BY <1>3, PlacedOutside DEF StatusReady, VerifyOk, EraseBreak, Placed
<1>4. CASE VerifyTimeout \/ EraseReturn
  BY <1>4, PlacedOutside DEF VerifyTimeout, EraseReturn, Return, Placed
<1>5. CASE StatusBusy
  BY <1>5, PlacedOutside DEF StatusBusy, flashVars
<1>6. CASE WriteHead
  <2>0. PICK around \in Readings : Assemble(Merge(l, around), Least(4 - l, Len(src)))
    BY <1>6 DEF WriteHead
  <2> DEFINE m    == Least(4 - l, Len(src))
             word == Merge(l, around)
  <2>1. fpc = "head" /\ Assemble(word, m) /\ (~misread' => chip = "ready")
    BY <1>6, <2>0 DEF WriteHead
  <2>2. m \in Nat /\ m <= Len(src) /\ (m < Len(src) => m = 4 - l)
    BY <1>1 DEF Least
  <2>3. ASSUME NEW i \in 0 .. 3, wp + i \notin range, ~misread'
        PROVE  chip = "ready" /\ word[i] = cell[wp + i]
    <3>1. i - l \in 0 .. Len(src) - 1 => wp + i \in wp + l .. wp + l + Len(src) - 1
      BY <1>1
    <3>2. word[i] = around[i]
      BY <2>1, <2>3, <3>1 DEF Merge, Placed
    <3> QED
      BY <2>1, <2>3, <3>2 DEF Readings
  <2>4. wp + l \in range
    <3>1. Len(src) > 0
      BY <1>1, <2>1 DEF IInv, TypeInv, Room
    <3>2. wp + l \in wp + l .. wp + l + Len(src) - 1
      BY <1>1, <3>1
    <3> QED
      BY <2>1, <3>2 DEF Placed
  <2> HIDE DEF m, word
  <2> QED
    BY <1>1, <2>1, <2>2, <2>3, <2>4, PlacedWord
<1>7. CASE WriteAligned
  <2> DEFINE word == [i \in 0 .. 3 |-> src[i + 1]]
  <2>1. fpc = "body" /\ Len(src) >= 4 /\ Assemble(word, 4)
    BY <1>7 DEF WriteAligned
  <2>2. ASSUME NEW i \in 0 .. 3 PROVE wp + i \in range
    <3>1. wp + i \in wp .. wp + Len(src) - 1
      BY <1>1, <2>1
    <3> QED
      BY <2>1, <3>1 DEF Placed
  <2>3. 4 <= Len(src) /\ 0 \in 0 .. 3
    BY <1>1, <2>1
  <2> HIDE DEF word
  <2> QED
    BY <1>1, <2>1, <2>2, <2>3, PlacedWord
<1>8. CASE WriteTail
  <2>0. PICK around \in Readings : Assemble(Merge(0, around), Len(src))
    BY <1>8 DEF WriteTail
  <2> DEFINE word == Merge(0, around)
  <2>1. /\ fpc = "body" /\ Len(src) \in 1 .. 3 /\ Assemble(word, Len(src))
        /\ ~misread' => chip = "ready"
    BY <1>8, <2>0 DEF WriteTail
  <2>2. ASSUME NEW i \in 0 .. 3, wp + i \notin range, ~misread'
        PROVE  chip = "ready" /\ word[i] = cell[wp + i]
    <3>1. i - 0 \in 0 .. Len(src) - 1 => wp + i \in wp .. wp + Len(src) - 1
      BY <1>1
    <3>2. word[i] = around[i]
      BY <2>1, <2>2, <3>1 DEF Merge, Placed
    <3> QED
      BY <2>1, <2>2, <3>2 DEF Readings
  <2>3. wp + 0 \in range
    <3>1. wp + 0 \in wp .. wp + Len(src) - 1
      BY <1>1, <2>1
    <3> QED
      BY <2>1, <3>1 DEF Placed
  <2> HIDE DEF word
  <2> QED
    BY <1>1, <2>1, <2>2, <2>3, PlacedWord
<1>9. CASE ReadBack
  <2>1. fpc = "toggle" /\ chip' = "ready"
    BY <1>9 DEF ReadBack
  <2>2. CASE \E code : Return(code)
    BY <2>1, <2>2 DEF Return, Placed, NeighboursKept
  <2>3. CASE src # <<>> /\ NextWord
    <3>1. wp' = wp + 4 /\ fpc' = "body" /\ src' = src /\ range' = range
      BY <2>3 DEF NextWord
    <3>2. wp' + Len(src') - 1 = wp + 3 + Len(src)
      BY <1>1, <3>1
    <3> QED
      BY <2>1, <2>3, <3>1, <3>2 DEF Placed, NeighboursKept
  <2> QED
    BY <1>9, <2>2, <2>3 DEF ReadBack, NextWord
<1> QED
  BY <1>2, <1>3, <1>4, <1>5, <1>6, <1>7, <1>8, <1>9, PlacedCommand DEF CallStep

LEMMA PlacedStep == IInv /\ Placed /\ [Next]_vars => Placed'
<1> SUFFICES ASSUME IInv, Placed, [Next]_vars PROVE Placed'
  OBVIOUS
<1> USE DEF chipVars, eraseVars, writeVars, watchVars
<1>1. ASSUME NEW first \in Sectors, NEW last \in Sectors, flash_erase(first, last) PROVE Placed'
  <2>1. CASE EraseRefuse(first, last)
    BY <2>1, PlacedOutside DEF EraseRefuse
  <2>2. CASE EraseBegin(first, last)
    BY <2>2, PlacedOutside DEF EraseBegin, Placed
  <2> QED
    BY <1>1, <2>1, <2>2 DEF flash_erase
<1>2. ASSUME KeepFlash PROVE Placed'
  BY <1>2, PlacedOutside DEF KeepFlash
<1>3. ASSUME UNCHANGED flashVars PROVE Placed'
  BY <1>3, PlacedOutside DEF flashVars
<1>4. CASE ChipStep
  BY <1>4, PlacedOutside DEF ChipStep, ChipDone, ChipFails
<1>5. CASE PowerOff
  BY <1>5, PlacedOutside DEF PowerOff, PowerCut
<1>6. CASE EnvGet \/ EnvCopy \/ UNCHANGED vars \/ \E e \in Envs : SetEnv(e)
  BY <1>3, <1>6 DEF EnvGet, EnvCopy, SetEnv, vars
<1>7. CASE SaveUnprotect \/ SaveEraseFailed \/ SaveReturn
  BY <1>2, <1>7 DEF SaveUnprotect, SaveEraseFailed, SaveReturn
<1>8. CASE SaveErase \/ \E first, last \in Sectors : CommandErase(first, last)
  BY <1>1, <1>8, EnvAssumption DEF SaveErase, CommandErase
<1>9. CASE SaveWrite
  <2>1. start[EnvSector] \in Bytes
    BY Geometry, EnvAssumption
  <2> QED
    BY <1>9, <2>1, PlacedWrite DEF SaveWrite
<1>10. CASE \E q \in Requests : CommandWrite(q.addr, q.src)
  BY <1>10, PlacedWrite, EnvAssumption DEF CommandWrite
<1> QED
  BY <1>4, <1>5, <1>6, <1>7, <1>8, <1>9, <1>10, PlacedCall DEF Next, SaveStep

\* Whatever the alignment and the length of a write, the words write_buff
\* programs put back what stands around the request as it is, unless it was
\* read while the chip gave its status.
THEOREM NeighboursStay == Spec => []NeighboursKept
<1>1. Init => Placed
  BY DEF Init, FlashInit, Placed, NeighboursKept
<1>2. Placed => NeighboursKept
  BY DEF Placed
<1> QED
  BY <1>1, <1>2, TypeInit, TypeStep, PlacedStep, PTL DEF Spec

-----------------------------------------------------------------------------
(* What ERR_OK means                                                       *)

\* The chip erases whole sectors, and programs the word write_buff waits for.
Targets ==
  /\ chip = "erasing" => \E s \in Sectors : target = BytesOf(s)
  /\ chip = "programming" => fpc = "toggle" /\ target = wp .. wp + 3

\* The sectors before the current one are erased and stay so.
EraseDone ==
  /\ fpc \in {"erase", "wait", "verify"} =>
       /\ sect <= s_last + 1
       /\ \A b \in range : b < start[s_last + 1] /\ (b < start[sect] => cell[b] = 1)
  /\ fpc \in {"erase", "wait", "verify", "settle"} => \A b \in range : want[b] = 1
  /\ fpc = "settle" => \A b \in range : cell[b] = 1

\* The words before the current one hold what they were to hold, and no erase
\* that timed out earlier can still take them away; what the current and the
\* later words are to hold is in data and src.
Written(b) == cell[b] = want[b] /\ chip # "erasing"

HeadLeft == fpc = "head" =>
  \A b \in range : wp + l <= b /\ b < wp + l + Len(src) /\ want[b] = src[b - wp - l + 1]

BodyLeft == fpc = "body" =>
  \A b \in range : IF b < wp THEN Written(b)
                   ELSE b < wp + Len(src) /\ want[b] = src[b - wp + 1]

ToggleLeft == fpc \in {"word", "toggle"} =>
  \A b \in range : IF b < wp THEN Written(b)
                   ELSE IF b < wp + 4 THEN want[b] = data[b - wp]
                   ELSE b < wp + 4 + Len(src) /\ want[b] = src[b - wp - 3]

Progress == Targets /\ EraseDone /\ HeadLeft /\ BodyLeft /\ ToggleLeft

LEMMA Monotone ==
  ASSUME NEW s \in 0 .. SectorCount, NEW t \in 0 .. SectorCount, s <= t
  PROVE  start[s] \in Nat /\ start[t] \in Nat /\ start[s] <= start[t]
<1>1. start[s] \in Nat /\ start[t] \in Nat
  BY SectorAssumption
<1>2. s < t => start[s] < start[t]
  BY SectorAssumption
<1>3. s = t \/ s < t
  BY SizeFacts
<1> QED
  BY <1>1, <1>2, <1>3

\* The bytes a call is about are bytes of the flash, with numbers.
LEMMA RangeFacts ==
  ASSUME IInv, NEW b \in range
  PROVE  b \in Bytes /\ b \in Nat /\ cell[b] \in Bit
BY SizeFacts DEF IInv, TypeInv, FlashTypeOK

\* A step that leaves the call and the cells alone.
LEMMA ProgressSame ==
  ASSUME Progress, UNCHANGED <<cell, fpc, sect, s_last, wp, l, src, data, range, want>>,
         UNCHANGED <<chip, target>> \/ chip' \in {"ready", "error"}
  PROVE  Progress'
BY DEF Progress, Targets, EraseDone, HeadLeft, BodyLeft, ToggleLeft, Written

LEMMA ProgressIdle ==
  ASSUME Progress, fpc' = "idle",
         (UNCHANGED <<chip, target>> /\ chip # "programming") \/ chip' = "ready"
  PROVE  Progress'
BY DEF Progress, Targets, EraseDone, HeadLeft, BodyLeft, ToggleLeft

LEMMA ProgressChip == IInv /\ Progress /\ ChipStep => Progress'
<1> SUFFICES ASSUME IInv, Progress, ChipStep PROVE Progress'
  OBVIOUS
<1> USE DEF chipVars, eraseVars, writeVars, watchVars
<1>1. CASE ChipFails
  BY <1>1, ProgressSame DEF ChipFails
<1>2. CASE ChipDone
  <2>1. /\ UNCHANGED <<fpc, sect, s_last, wp, l, src, data, range, want>> /\ chip' = "ready"
    BY <1>2 DEF ChipDone
  <2>2. ASSUME NEW b \in range
        PROVE  /\ b \notin target => cell'[b] = cell[b]
               /\ chip = "erasing" /\ b \in target => cell'[b] = 1
    BY <1>2, RangeFacts DEF ChipDone
  <2>3. CASE chip = "erasing"
    <3>1. \A b \in range : (cell[b] = 1 => cell'[b] = 1) /\ ~ Written(b)
      BY <2>2, <2>3 DEF Written
    <3> QED
      BY <2>1, <3>1 DEF Progress, Targets, EraseDone, HeadLeft, BodyLeft, ToggleLeft
  <2>4. CASE chip = "programming"
    <3>1. fpc = "toggle" /\ target = wp .. wp + 3
      BY <2>4 DEF Progress, Targets
    <3>2. ASSUME NEW b \in range, b < wp PROVE cell'[b] = cell[b]
      <4>1. wp \in Nat /\ b \in Nat
        BY RangeFacts, SizeFacts DEF IInv, TypeInv, FlashTypeOK, Size
      <4> QED
        BY <2>2, <3>1, <3>2, <4>1
    <3> QED
      BY <2>1, <3>1, <3>2 DEF Progress, Targets, EraseDone, HeadLeft, BodyLeft, ToggleLeft, Written
  <2> QED
    BY <1>2, <2>3, <2>4 DEF ChipDone
<1> QED
  BY <1>1, <1>2 DEF ChipStep

LEMMA ProgressErase ==
  ASSUME IInv, Progress, NEW first \in Sectors, NEW last \in Sectors, flash_erase(first, last)
  PROVE  Progress'
<1> USE DEF chipVars, eraseVars, writeVars, watchVars
<1>1. CASE EraseRefuse(first, last)
  BY <1>1, ProgressSame DEF EraseRefuse
<1>2. CASE EraseBegin(first, last)
  <2>1. /\ fpc' = "erase" /\ sect' = first /\ s_last' = last /\ first <= last
        /\ range' = UNION {BytesOf(s) : s \in first .. last}
        /\ want' = [b \in Bytes |-> 1] /\ UNCHANGED <<chip, target>> /\ chip # "programming"
    BY <1>2 DEF EraseBegin, MayErase, Progress, Targets
  <2>2. first \in Nat /\ last \in Nat
    BY SizeFacts
  <2>3. ASSUME NEW b \in range'
        PROVE  b \in Bytes /\ start[first] <= b /\ b < start[last + 1]
               /\ start[first] \in Nat /\ b \in Nat
    <3>1. PICK s \in first .. last : b \in BytesOf(s)
      BY <2>1, <2>3
    <3>2. s \in Sectors /\ s + 1 \in 0 .. SectorCount /\ last + 1 \in 0 .. SectorCount
          /\ first \in 0 .. SectorCount /\ s \in 0 .. SectorCount /\ first <= s /\ s + 1 <= last + 1
      BY <2>2, <3>1, SizeFacts
    <3>3. /\ start[first] \in Nat /\ start[s] \in Nat /\ start[first] <= start[s]
          /\ start[s + 1] \in Nat /\ start[last + 1] \in Nat /\ start[s + 1] <= start[last + 1]
      BY <3>2, Monotone
    <3>4. b \in Bytes /\ b \in Nat /\ start[s] <= b /\ b < start[s + 1]
      BY <3>1, <3>2, <3>3, Geometry DEF BytesOf
    <3> QED
      BY <3>3, <3>4
  <2>4. first <= last + 1
    BY <2>1, <2>2
  <2>5. \A b \in range' : b < start[last + 1] /\ ~(b < start[first]) /\ want'[b] = 1
    BY <2>1, <2>3
  <2> QED
    BY <2>1, <2>4, <2>5 DEF Progress, Targets, EraseDone, HeadLeft, BodyLeft, ToggleLeft
<1> QED
  BY <1>1, <1>2 DEF flash_erase

LEMMA ProgressWrite ==
  ASSUME IInv, IInv', Progress, NEW addr \in Bytes, NEW s \in Seq(Bit), write_buff(addr, s)
  PROVE  Progress'
<1>1. addr \in Nat /\ Len(s) \in Nat
  BY SizeFacts
<1>2. /\ addr % 4 \in 0 .. 3 /\ wp' + l' = addr /\ wp' \in Nat /\ l' \in 0 .. 3
      /\ (addr % 4 = 0 => wp' = addr) /\ src' = s
  BY <1>1 DEF write_buff
<1>3. /\ fpc' = IF addr % 4 # 0 THEN "head" ELSE "body"
      /\ range' = addr .. addr + Len(s) - 1
      /\ UNCHANGED <<chip, target>> /\ chip # "programming"
  BY DEF write_buff, chipVars, Progress, Targets
<1>4. ASSUME NEW b \in range'
      PROVE  b \in Nat /\ addr <= b /\ b < addr + Len(s) /\ want'[b] = s[b - addr + 1]
  <2>1. b \in Bytes
    BY <1>4 DEF IInv, TypeInv, FlashTypeOK
  <2>2. b \in Nat /\ b \in addr .. addr + Len(s) - 1
    BY <1>3, <1>4, <2>1, SizeFacts
  <2> QED
    BY <1>1, <2>1, <2>2 DEF write_buff
<1>5. HeadLeft'
  <2> SUFFICES ASSUME fpc' = "head", NEW b \in range'
               PROVE  /\ wp' + l' <= b /\ b < wp' + l' + Len(src')
                      /\ want'[b] = src'[b - wp' - l' + 1]
    BY DEF HeadLeft
  <2>1. b \in Nat
    BY <1>4
  <2>2. b - wp' - l' + 1 = b - addr + 1
    <3>1. ASSUME NEW p \in Nat, NEW n \in 0 .. 3 PROVE b - p - n + 1 = b - (p + n) + 1
      BY <2>1
    <3> QED
      BY <1>2, <3>1
  <2> QED
    BY <1>1, <1>2, <1>4, <2>2
<1>6. BodyLeft'
  <2> SUFFICES ASSUME fpc' = "body", NEW b \in range'
               PROVE  ~(b < wp') /\ b < wp' + Len(src') /\ want'[b] = src'[b - wp' + 1]
    BY DEF BodyLeft
  <2>1. wp' = addr
    BY <1>2, <1>3
  <2> QED
    BY <1>1, <1>2, <1>4, <2>1
<1> QED
  BY <1>3, <1>5, <1>6 DEF Progress, Targets, EraseDone, ToggleLeft

LEMMA RestAt ==
  ASSUME NEW s \in Seq(Bit), NEW m \in Nat, NEW k \in 1 .. Len(s) - m
  PROVE  SubSeq(s, m + 1, Len(s))[k] = s[m + k]
OBVIOUS

LEMMA ProgressWord ==
  ASSUME IInv, Progress, fpc \in {"head", "body"}, NEW word, NEW m \in Nat, m <= Len(src),
         \A b \in range :
           IF b < wp THEN Written(b)
           ELSE IF b < wp + 4 THEN want[b] = word[b - wp]
           ELSE b < wp + 4 + Len(src) - m /\ want[b] = src[m + (b - wp - 3)],
         Assemble(word, m)
  PROVE  Progress'
<1>1. /\ data' = word /\ fpc' = "word" /\ wp' = wp /\ range' = range /\ want' = want
      /\ src' = SubSeq(src, m + 1, Len(src)) /\ UNCHANGED <<cell, chip, target>>
      /\ chip # "programming"
  BY DEF Assemble, chipVars, Progress, Targets
<1>2. src \in Seq(Bit) /\ wp \in Nat /\ Len(src) \in Nat
  BY SizeFacts DEF IInv, TypeInv, FlashTypeOK, Size
<1>3. Len(src') = Len(src) - m
  BY <1>1, <1>2, Rest
<1>4. ASSUME NEW b \in range
      PROVE  IF b < wp THEN Written(b)'
             ELSE IF b < wp + 4 THEN want[b] = word[b - wp]
             ELSE b < wp + 4 + Len(src') /\ want[b] = src'[b - wp - 3]
  <2>1. CASE b < wp
    BY <1>1, <1>4, <2>1 DEF Written
  <2>2. CASE ~(b < wp) /\ b < wp + 4
    BY <1>4, <2>2
  <2>3. CASE ~(b < wp) /\ ~(b < wp + 4)
    <3>1. b \in Nat /\ b < wp + 4 + Len(src) - m /\ want[b] = src[m + (b - wp - 3)]
      BY <1>4, <2>3, RangeFacts
    <3>2. b - wp - 3 \in 1 .. Len(src) - m
      BY <1>2, <2>3, <3>1
    <3>3. src'[b - wp - 3] = src[m + (b - wp - 3)]
      BY <1>1, <1>2, <3>2, RestAt
    <3>4. b < wp + 4 + Len(src')
      BY <1>2, <1>3, <3>1
    <3> QED
      BY <2>3, <3>1, <3>3, <3>4
  <2> QED
    BY <2>1, <2>2, <2>3
<1>5. ToggleLeft'
  BY <1>1, <1>4 DEF ToggleLeft
<1>6. Targets'
  BY <1>1 DEF Progress, Targets
<1> QED
  BY <1>1, <1>5, <1>6 DEF Progress, EraseDone, HeadLeft, BodyLeft

LEMMA ProgressCommand == Progress /\ ProgramWord => Progress'
<1> SUFFICES ASSUME Progress, ProgramWord PROVE Progress'
  OBVIOUS
<1>1. fpc = "word" /\ chip # "programming" /\ cell' = cell
  BY DEF ProgramWord, Progress, Targets
<1>2. CASE vendor = "unknown"
  BY <1>1, <1>2, ProgressIdle DEF ProgramWord, Return
<1>3. CASE vendor # "unknown"
  <2>1. /\ fpc' = "toggle" /\ UNCHANGED <<wp, src, data, range, want>>
        /\ Command("programming", wp .. wp + 3)
    BY <1>3 DEF ProgramWord, writeVars, watchVars
  <2>2. Targets'
    BY <1>1, <2>1 DEF Command, Progress, Targets
  <2>3. chip' = "erasing" => chip = "erasing"
    BY <2>1 DEF Command
  <2>4. ToggleLeft'
    BY <1>1, <2>1, <2>3 DEF Progress, ToggleLeft, Written
  <2> QED
    BY <2>1, <2>2, <2>4 DEF Progress, EraseDone, HeadLeft, BodyLeft
<1> QED
  BY <1>2, <1>3

LEMMA ProgressProgram == IInv /\ Progress /\ (WriteHead \/ WriteAligned \/ WriteTail) => Progress'
<1> SUFFICES ASSUME IInv, Progress, WriteHead \/ WriteAligned \/ WriteTail PROVE Progress'
  OBVIOUS
<1>1. src \in Seq(Bit) /\ wp \in Nat /\ l \in 0 .. 3 /\ Len(src) \in Nat
  BY SizeFacts DEF IInv, TypeInv, FlashTypeOK, Size
<1>2. CASE WriteHead
  <2>0. PICK around \in Readings : Assemble(Merge(l, around), Least(4 - l, Len(src)))
    BY <1>2 DEF WriteHead
  <2> DEFINE m    == Least(4 - l, Len(src))
             word == Merge(l, around)
  <2>1. fpc = "head" /\ Assemble(word, m)
    BY <1>2, <2>0 DEF WriteHead
  <2>2. m \in Nat /\ m <= Len(src) /\ (m = 4 - l \/ (m = Len(src) /\ m < 4 - l))
    BY <1>1 DEF Least
  <2>3. ASSUME NEW b \in range
        PROVE  IF b < wp THEN Written(b)
               ELSE IF b < wp + 4 THEN want[b] = word[b - wp]
               ELSE b < wp + 4 + Len(src) - m /\ want[b] = src[m + (b - wp - 3)]
    <3>1. b \in Nat /\ wp + l <= b /\ b < wp + l + Len(src) /\ want[b] = src[b - wp - l + 1]
      BY <2>1, RangeFacts DEF Progress, HeadLeft
    <3>2. ~(b < wp)
      BY <1>1, <3>1
    <3>3. CASE b < wp + 4
      <4>1. b - wp \in 0 .. 3 /\ (b - wp) - l \in 0 .. Len(src) - 1
            /\ (b - wp) - l + 1 = b - wp - l + 1
        BY <1>1, <3>1, <3>3
      <4>2. word[b - wp] = src[b - wp - l + 1]
        BY <4>1 DEF Merge
      <4> QED
        BY <3>1, <3>2, <3>3, <4>2
    <3>4. CASE ~(b < wp + 4)
      <4>1. m = 4 - l
        BY <1>1, <2>2, <3>1, <3>4
      <4>2. b \in Nat /\ b < wp + l + Len(src) /\ l \in Nat
        BY <1>1, <3>1
      <4> HIDE DEF m
      <4>3. b - wp - l + 1 = m + (b - wp - 3) /\ b < wp + 4 + Len(src) - m
        BY <1>1, <4>1, <4>2
      <4> QED
        BY <3>1, <3>2, <3>4, <4>3
    <3> QED
      BY <3>3, <3>4
  <2> HIDE DEF m, word
  <2> QED
    BY <2>1, <2>2, <2>3, ProgressWord
<1>3. ASSUME fpc = "body", NEW b \in range
      PROVE  /\ b \in Nat /\ (b < wp => Written(b))
             /\ ~(b < wp) => b < wp + Len(src) /\ want[b] = src[b - wp + 1]
  BY <1>3, RangeFacts DEF Progress, BodyLeft
<1>4. CASE WriteAligned
  <2> DEFINE word == [i \in 0 .. 3 |-> src[i + 1]]
  <2>1. fpc = "body" /\ Len(src) >= 4 /\ Assemble(word, 4)
    BY <1>4 DEF WriteAligned
  <2>2. ASSUME NEW b \in range
        PROVE  IF b < wp THEN Written(b)
               ELSE IF b < wp + 4 THEN want[b] = word[b - wp]
               ELSE b < wp + 4 + Len(src) - 4 /\ want[b] = src[4 + (b - wp - 3)]
    <3>1. CASE b < wp + 4 /\ ~(b < wp)
      <4>1. b - wp \in 0 .. 3
        BY <1>1, <1>3, <2>1, <3>1
      <4> QED
        BY <1>3, <2>1, <3>1, <4>1
    <3>2. CASE ~(b < wp + 4) /\ ~(b < wp)
      <4>1. b \in Nat
        BY <1>3, <2>1
      <4>2. b - wp + 1 = 4 + (b - wp - 3) /\ wp + Len(src) = wp + 4 + Len(src) - 4
        BY <1>1, <4>1
      <4> QED
        BY <1>3, <2>1, <3>2, <4>2
    <3> QED
      BY <1>3, <2>1, <3>1, <3>2
  <2>3. 4 <= Len(src)
    BY <1>1, <2>1
  <2> HIDE DEF word
  <2> QED
    BY <2>1, <2>2, <2>3, ProgressWord
<1>5. CASE WriteTail
  <2>0. PICK around \in Readings : Assemble(Merge(0, around), Len(src))
    BY <1>5 DEF WriteTail
  <2> DEFINE word == Merge(0, around)
  <2>1. fpc = "body" /\ Len(src) \in 1 .. 3 /\ Assemble(word, Len(src))
    BY <1>5, <2>0 DEF WriteTail
  <2>2. ASSUME NEW b \in range
        PROVE  IF b < wp THEN Written(b)
               ELSE IF b < wp + 4 THEN want[b] = word[b - wp]
               ELSE b < wp + 4 + Len(src) - Len(src) /\ want[b] = src[Len(src) + (b - wp - 3)]
    <3>1. CASE ~(b < wp)
      <4>1. b \in Nat /\ b < wp + Len(src) /\ want[b] = src[b - wp + 1]
        BY <1>3, <2>1, <3>1
      <4>2. b - wp \in 0 .. 3 /\ (b - wp) - 0 \in 0 .. Len(src) - 1 /\ b < wp + 4
            /\ (b - wp) - 0 + 1 = b - wp + 1
        BY <1>1, <2>1, <3>1, <4>1
      <4>3. word[b - wp] = src[b - wp + 1]
        BY <4>2 DEF Merge
      <4> QED
        BY <3>1, <4>1, <4>2, <4>3
    <3> QED
      BY <1>3, <2>1, <3>1
  <2> HIDE DEF word
  <2> QED
    BY <1>1, <2>1, <2>2, ProgressWord
<1> QED
  BY <1>2, <1>4, <1>5

\* A word that reads back as it was to be is what was wanted.
LEMMA WordDone ==
  ASSUME IInv, Progress, fpc = "toggle", chip = "ready", \A i \in 0 .. 3 : cell[wp + i] = data[i],
         NEW b \in range, b < wp + 4
  PROVE  Written(b)
<1>1. wp \in Nat /\ b \in Nat
  BY RangeFacts, SizeFacts DEF IInv, TypeInv, FlashTypeOK, Size
<1>2. CASE b < wp
  BY <1>2 DEF Progress, ToggleLeft
<1>3. CASE ~(b < wp)
  <2>1. b - wp \in 0 .. 3 /\ wp + (b - wp) = b
    BY <1>1, <1>3
  <2>2. want[b] = data[b - wp]
    BY <1>3 DEF Progress, ToggleLeft
  <2> QED
    BY <2>1, <2>2 DEF Written
<1> QED
  BY <1>2, <1>3

LEMMA ProgressReadBack == IInv /\ Progress /\ ReadBack => Progress'
<1> SUFFICES ASSUME IInv, Progress, ReadBack PROVE Progress'
  OBVIOUS
<1>1. fpc = "toggle" /\ chip = "ready" /\ UNCHANGED <<cell, chip, target>>
  BY DEF ReadBack, chipVars
<1>2. CASE \E code : Return(code)
  BY <1>1, <1>2, ProgressIdle DEF Return
<1>3. CASE ~(\E i \in 0 .. 3 : cell[wp + i] # data[i]) /\ src # <<>> /\ NextWord
  <2>1. wp' = wp + 4 /\ fpc' = "body" /\ UNCHANGED <<src, range, want>>
    BY <1>3 DEF NextWord, watchVars
  <2>2. wp \in Nat /\ Len(src) \in Nat
    BY SizeFacts DEF IInv, TypeInv, FlashTypeOK, Size
  <2>3. ASSUME NEW b \in range
        PROVE  IF b < wp + 4 THEN Written(b)'
               ELSE b < wp + 4 + Len(src) /\ want[b] = src[b - (wp + 4) + 1]
    <3>1. CASE b < wp + 4
      <4>1. Written(b)
        BY <1>1, <1>3, <3>1, WordDone
      <4> QED
        BY <1>1, <2>1, <3>1, <4>1 DEF Written
    <3>2. CASE ~(b < wp + 4)
      <4>1. b \in Nat /\ ~(b < wp) /\ b - (wp + 4) + 1 = b - wp - 3
        BY <2>2, <3>2, RangeFacts
      <4> QED
        BY <1>1, <3>2, <4>1 DEF Progress, ToggleLeft
    <3> QED
      BY <3>1, <3>2
  <2>4. BodyLeft'
    BY <2>1, <2>3 DEF BodyLeft
  <2> QED
    BY <1>1, <2>1, <2>4 DEF Progress, Targets, EraseDone, HeadLeft, ToggleLeft
<1> QED
  BY <1>2, <1>3 DEF ReadBack, NextWord

LEMMA ProgressCall == IInv /\ Progress /\ CallStep => Progress'
<1> SUFFICES ASSUME IInv, Progress, CallStep PROVE Progress'
  OBVIOUS
<1> USE DEF chipVars, eraseVars, writeVars, watchVars
<1>1. sect \in Nat /\ s_last \in Sectors /\ s_last \in Nat
  BY SizeFacts DEF IInv, TypeInv, FlashTypeOK
<1>2. CASE EraseSector
  <2>1. sect \in Sectors
    BY <1>2, SectorInRange DEF EraseSector, IInv, TypeInv
  <2>2. Targets'
    BY <1>2, <2>1 DEF EraseSector, Command, Progress, Targets
  <2>3. fpc = "erase" /\ fpc' \in {"wait", "verify"}
        /\ UNCHANGED <<cell, sect, s_last, range, want>>
    BY <1>2 DEF EraseSector
  <2> QED
    BY <2>2, <2>3 DEF Progress, EraseDone, HeadLeft, BodyLeft, ToggleLeft
<1>3. CASE StatusReady
  BY <1>3 DEF StatusReady, Progress, Targets, EraseDone, HeadLeft, BodyLeft, ToggleLeft
<1>4. CASE VerifyOk
  <2>1. /\ fpc = "verify" /\ fpc' = "erase" /\ sect' = sect + 1
        /\ UNCHANGED <<cell, chip, target, s_last, range, want>>
    BY <1>4 DEF VerifyOk
  <2>2. \A b \in BytesOf(sect) : cell[b] = 1
    BY <1>4 DEF VerifyOk, ReadsErased
  <2>3. sect <= s_last /\ sect \in Sectors
    BY <2>1, SectorInRange DEF IInv, TypeInv, Room
  <2>4. sect + 1 <= s_last + 1
    BY <1>1, <2>3
  <2>5. ASSUME NEW b \in range, b < start[sect + 1] PROVE cell[b] = 1
    <3>1. b \in Nat /\ start[sect] \in Nat /\ start[sect + 1] \in Nat
      BY <2>3, RangeFacts, Geometry
    <3>2. b < start[sect] \/ b \in BytesOf(sect)
      BY <2>5, <3>1 DEF BytesOf
    <3> QED
      BY <2>1, <2>2, <3>2 DEF Progress, EraseDone
  <2> QED
    BY <2>1, <2>4, <2>5 DEF Progress, Targets, EraseDone, HeadLeft, BodyLeft, ToggleLeft
<1>5. CASE EraseBreak
  <2>1. /\ fpc = "erase" /\ fpc' = "settle" /\ UNCHANGED <<cell, chip, target, want>>
        /\ range' = IF sect > s_last THEN range ELSE {b \in range : b < start[sect]}
    BY <1>5 DEF EraseBreak
  <2>2. ASSUME NEW b \in range' PROVE b \in range /\ cell[b] = 1
    <3>1. CASE sect > s_last
      <4>1. sect = s_last + 1
        BY <1>1, <2>1, <3>1 DEF Progress, EraseDone
      <4> QED
        BY <2>1, <2>2, <3>1, <4>1 DEF Progress, EraseDone
    <3>2. CASE ~(sect > s_last)
      BY <2>1, <2>2, <3>2 DEF Progress, EraseDone
    <3> QED
      BY <3>1, <3>2
  <2> QED
    BY <2>1, <2>2 DEF Progress, Targets, EraseDone, HeadLeft, BodyLeft, ToggleLeft
<1>6. CASE VerifyTimeout \/ EraseReturn
  BY <1>6, ProgressIdle DEF VerifyTimeout, EraseReturn, Return, Progress, Targets
<1>7. CASE StatusBusy
  BY <1>7, ProgressSame DEF StatusBusy, flashVars
<1> QED
  BY <1>2, <1>3, <1>4, <1>5, <1>6, <1>7, ProgressProgram, ProgressCommand, ProgressReadBack
  DEF CallStep

LEMMA ProgressStep == IInv /\ IInv' /\ Progress /\ [Next]_vars => Progress'
<1> SUFFICES ASSUME IInv, IInv', Progress, [Next]_vars PROVE Progress'
  OBVIOUS
<1> USE DEF chipVars, eraseVars, writeVars, watchVars
<1>1. ASSUME KeepFlash PROVE Progress'
  BY <1>1, ProgressSame DEF KeepFlash
<1>2. ASSUME UNCHANGED flashVars PROVE Progress'
  BY <1>2, ProgressSame DEF flashVars
<1>3. CASE PowerOff
  BY <1>3, ProgressIdle DEF PowerOff, PowerCut
<1>4. CASE EnvGet \/ EnvCopy \/ UNCHANGED vars \/ \E e \in Envs : SetEnv(e)
  BY <1>2, <1>4 DEF EnvGet, EnvCopy, SetEnv, vars
<1>5. CASE SaveUnprotect \/ SaveEraseFailed \/ SaveReturn
  BY <1>1, <1>5 DEF SaveUnprotect, SaveEraseFailed, SaveReturn
<1>6. CASE SaveErase \/ \E first, last \in Sectors : CommandErase(first, last)
  BY <1>6, ProgressErase, EnvAssumption DEF SaveErase, CommandErase
<1>7. CASE SaveWrite
  <2>1. start[EnvSector] \in Bytes
    BY Geometry, EnvAssumption
  <2>2. src' \in Seq(Bit) /\ write_buff(start[EnvSector], src')
    BY <1>7 DEF SaveWrite, write_buff, IInv, TypeInv, FlashTypeOK
  <2> QED
    BY <2>1, <2>2, ProgressWrite
<1>8. CASE \E q \in Requests : CommandWrite(q.addr, q.src)
  BY <1>8, ProgressWrite, EnvAssumption DEF CommandWrite
<1> QED
  BY <1>3, <1>4, <1>5, <1>6, <1>7, <1>8, ProgressCall, ProgressChip DEF Next, SaveStep

\* Only the last step of an erase and the reading back of the last word
\* return ERR_OK.
LEMMA OkReturns ==
  ASSUME IInv, IInv', Progress, [Next]_vars, fpc # "idle", fpc' = "idle", rc' = "ok"
  PROVE  \A b \in range : cell[b] = want[b]
<1> USE DEF chipVars, eraseVars, writeVars, watchVars
<1>1. CASE EraseReturn
  BY <1>1 DEF EraseReturn, Progress, EraseDone
<1>2. CASE ReadBack
  <2>1. /\ fpc = "toggle" /\ chip = "ready" /\ src = <<>>
        /\ \A i \in 0 .. 3 : cell[wp + i] = data[i]
    BY <1>2 DEF ReadBack, NextWord, Return
  <2>2. ASSUME NEW b \in range PROVE cell[b] = want[b]
    <3>1. wp \in Nat /\ b \in Nat /\ Len(src) = 0
      BY <2>1, RangeFacts, SizeFacts DEF IInv, TypeInv, FlashTypeOK, Size
    <3>2. b < wp + 4
      <4>1. ~(b < wp) /\ ~(b < wp + 4) => b < wp + 4 + Len(src)
        BY <2>1 DEF Progress, ToggleLeft
      <4> QED
        BY <3>1, <4>1
    <3> QED
      BY <2>1, <3>2, WordDone DEF Written
  <2> QED
    BY <2>2
<1>3. \A first, last : ~ flash_erase(first, last)
  BY DEF flash_erase, EraseRefuse, EraseBegin
<1>4. \A addr, s : ~ write_buff(addr, s)
  BY DEF write_buff
<1>5. ~KeepFlash /\ ~ UNCHANGED flashVars
  BY DEF KeepFlash, flashVars
<1>6. ~(EraseSector \/ StatusReady \/ VerifyOk \/ VerifyTimeout \/ EraseBreak \/ StatusBusy)
  BY <1>5 DEF EraseSector, StatusReady, VerifyOk, VerifyTimeout, EraseBreak, StatusBusy, Return
<1>7. ~(WriteHead \/ WriteAligned \/ WriteTail \/ ProgramWord)
  BY DEF WriteHead, WriteAligned, WriteTail, Assemble, ProgramWord, Return
<1>8. ~ChipStep /\ ~PowerOff
  BY DEF ChipStep, ChipDone, ChipFails, PowerOff, PowerCut
<1> QED
  BY <1>1, <1>2, <1>3, <1>4, <1>5, <1>6, <1>7, <1>8
  DEF Next, vars, EnvGet, EnvCopy, SetEnv, SaveUnprotect, SaveStep, SaveErase, SaveEraseFailed,
      SaveWrite, SaveReturn, CommandErase, CommandWrite, CallStep

LEMMA ProgressInit == Init => Progress
BY DEF Init, FlashInit, Progress, Targets, EraseDone, HeadLeft, BodyLeft, ToggleLeft

\* Whichever call returns ERR_OK, over failing sectors and words, erases that
\* timed out before and still go on, and breaks by the user: the bytes it was
\* to erase or to write are what it was to make them.
THEOREM OkIsDone == Spec => OkMeansDone
<1> DEFINE Told == fpc # "idle" /\ fpc' = "idle" /\ rc' = "ok" => \A b \in range : cell[b] = want[b]
<1>1. IInv /\ IInv' /\ Progress /\ [Next]_vars => Told
  BY OkReturns
<1>2. Told => [Told]_flashVars
  OBVIOUS
<1>3. IInv /\ IInv' /\ Progress /\ [Next]_vars => [Told]_flashVars
  BY <1>1, <1>2
<1> HIDE DEF Told
<1>4. Spec => [][Told]_flashVars
  BY <1>3, ProgressInit, ProgressStep, TypeInit, TypeStep, PTL DEF Spec
<1> QED
  BY <1>4 DEF OkMeansDone, Told

-----------------------------------------------------------------------------
(* The store of environments                                               *)

Writing == fpc \in {"head", "body", "word", "toggle"}

\* Before the environment is loaded nothing happens in the flash, so that the
\* CRC, once checked, stays right.
Started ==
  /\ env \in Envs
  /\ epc # "idle" => loaded
  /\ ~loaded => fpc = "idle" /\ chip = "ready"
  /\ ~loaded /\ env_crc_valid # 0 => (env_crc_valid = 1 <=> InFlash \in Envs)

\* board_env_save writes the environment and nobody else writes into its sector.
Saving ==
  /\ Writing /\ epc = "written" => range = EnvBytes /\ \A b \in EnvBytes : want[b] = env[b]
  /\ Writing /\ epc # "written" => range \cap EnvBytes = {}

LEMMA EnvFacts ==
  /\ EnvSector \in Sectors /\ EnvBytes \subseteq Bytes /\ Default \in Envs
  /\ start[EnvSector] \in Nat /\ start[EnvSector] % 4 = 0 /\ start[EnvSector] \in EnvBytes
  /\ start[EnvSector + 1] \in Nat /\ start[EnvSector + 1] % 4 = 0
  /\ EnvBytes = start[EnvSector] .. start[EnvSector + 1] - 1
<1>1. EnvSector \in Sectors /\ Default \in Envs
  BY EnvAssumption
<1>2. EnvSector + 1 \in 0 .. SectorCount
  BY <1>1, SizeFacts
<1>3. start[EnvSector + 1] % 4 = 0
  BY <1>2, SectorAssumption
<1>4. /\ EnvBytes \subseteq Bytes /\ start[EnvSector] \in Nat /\ start[EnvSector] % 4 = 0
      /\ start[EnvSector + 1] \in Nat /\ start[EnvSector] < start[EnvSector + 1]
  BY <1>1, Geometry DEF EnvBytes
<1> QED
  BY <1>1, <1>3, <1>4 DEF EnvBytes, BytesOf

LEMMA EnvWord ==
  ASSUME NEW w \in EnvBytes, w % 4 = 0
  PROVE  w .. w + 3 \subseteq EnvBytes
<1>1. /\ w \in Nat /\ start[EnvSector] <= w /\ w < start[EnvSector + 1]
      /\ start[EnvSector] \in Nat /\ start[EnvSector + 1] \in Nat /\ start[EnvSector + 1] % 4 = 0
      /\ EnvBytes = start[EnvSector] .. start[EnvSector + 1] - 1
  BY EnvFacts
<1>2. ASSUME NEW u \in Nat, u % 4 = 0, w < u PROVE w + 3 < u
  <2>1. PICK p \in Nat : w = 4 * p
    BY <1>1
  <2>2. PICK q \in Nat : u = 4 * q
    BY <1>2
  <2> QED
    BY <1>2, <2>1, <2>2
<1>3. w + 3 < start[EnvSector + 1]
  BY <1>1, <1>2
<1> QED
  BY <1>1, <1>3

LEMMA NoEnvFacts == NoEnv \notin Envs
<1>1. NoEnv[start[EnvSector]] = 2
  BY EnvFacts DEF NoEnv
<1>2. \A e \in Envs : e[start[EnvSector]] \in {0, 1}
  BY EnvFacts, EnvAssumption DEF Contents, Bit
<1> QED
  BY <1>1, <1>2

\* A sector that reads as erased in one word holds no environment.
LEMMA ErasedWord ==
  ASSUME NEW e \in Envs, NEW w \in EnvBytes, w % 4 = 0, \A b \in w .. w + 3 : e[b] = 1
  PROVE  FALSE
BY CrcAssumption

\* Steps that do not touch the bytes of the environment.
LEMMA FlashSame ==
  ASSUME \A b \in EnvBytes : cell'[b] = cell[b]
  PROVE  InFlash' = InFlash
BY DEF InFlash

\* Programming leaves the content, destroys it, or completes the environment
\* that board_env_save is writing; half programmed words never make up another.
LEMMA Programmed ==
  ASSUME IInv, Placed, Progress, Started, Saving, chip = "programming",
         \A b \in EnvBytes : cell'[b] = cell[b] \/ (b \in target /\ data[b - wp] = 0 /\ cell'[b] = 0),
         InFlash' \in Envs
  PROVE  InFlash' = InFlash \/ (epc = "written" /\ InFlash' = env)
<1>1. /\ fpc = "toggle" /\ target = wp .. wp + 3 /\ Writing
      /\ wp \in Nat /\ wp % 4 = 0 /\ env \in Envs
  BY SizeFacts DEF Progress, Targets, Writing, Started, IInv, TypeInv, FlashTypeOK, Size
<1>2. \A b \in EnvBytes : b \in Nat
  BY EnvFacts
<1>3. CASE epc # "written"
  <2>1. PICK i \in 0 .. 3 : wp + i \in range
    BY <1>1 DEF Placed
  <2>2. wp + i \notin EnvBytes /\ wp + i \in wp .. wp + 3
    <3>1. range \cap EnvBytes = {}
      BY <1>1, <1>3 DEF Saving
    <3>2. wp + i \in wp .. wp + 3
      BY <1>1, <2>1
    <3> QED
      BY <2>1, <3>1, <3>2
  <2>3. wp \notin EnvBytes
    BY <1>1, <2>2, EnvWord
  <2>4. ASSUME NEW b \in EnvBytes, b \in target PROVE FALSE
    <3>1. start[EnvSector] <= b /\ b < start[EnvSector + 1] /\ start[EnvSector] \in Nat
          /\ start[EnvSector] % 4 = 0 /\ start[EnvSector + 1] \in Nat
          /\ EnvBytes = start[EnvSector] .. start[EnvSector + 1] - 1
      BY EnvFacts
    <3>2. wp <= b /\ b < wp + 4 /\ b \in Nat
      BY <1>1, <1>2, <2>4
    <3>3. start[EnvSector] <= wp
      <4>1. PICK p \in Nat : start[EnvSector] = 4 * p
        BY <3>1
      <4>2. PICK q \in Nat : wp = 4 * q
        BY <1>1
      <4>3. p < q + 1
        BY <3>1, <3>2, <4>1, <4>2
      <4> QED
        BY <4>1, <4>2, <4>3
    <3> QED
      BY <1>1, <2>3, <3>1, <3>2, <3>3
  <2> QED
    BY <2>4, FlashSame
<1>4. CASE epc = "written"
  <2> SUFFICES ASSUME InFlash' # env PROVE InFlash' = InFlash
    BY <1>4
  <2>1. range = EnvBytes /\ \A b \in EnvBytes : want[b] = env[b]
    BY <1>1, <1>4 DEF Saving
  <2>2. \A b \in EnvBytes : InFlash'[b] = cell'[b]
    BY DEF InFlash
  <2>3. start[EnvSector] \in Nat /\ start[EnvSector] % 4 = 0 /\ start[EnvSector] \in EnvBytes
        /\ \A b \in EnvBytes : start[EnvSector] <= b
    BY EnvFacts
  <2>4. ASSUME NEW b \in CrcWord PROVE b \in EnvBytes /\ (env[b] = 1 \/ InFlash'[b] = 1)
    <3>1. b \in EnvBytes
      BY <2>3, <2>4, EnvWord DEF CrcWord
    <3> QED
      BY <1>1, <2>4, <3>1, CrcAssumption
  <2>5. CASE wp <= start[EnvSector]
    <3>1. ASSUME NEW b \in EnvBytes, b \in target, data[b - wp] = 0, cell'[b] = 0 PROVE FALSE
      <4>1. b \in CrcWord /\ ~(b < wp) /\ b < wp + 4
        BY <1>1, <1>2, <2>3, <2>5, <3>1 DEF CrcWord
      <4>2. env[b] = 0
        BY <1>1, <2>1, <3>1, <4>1 DEF Progress, ToggleLeft
      <4> QED
        BY <2>2, <2>4, <3>1, <4>1, <4>2
    <3> QED
      BY <3>1, FlashSame
  <2>6. CASE start[EnvSector] < wp
    <3>1. start[EnvSector] + 4 <= wp
      <4>1. PICK p \in Nat : start[EnvSector] = 4 * p
        BY <2>3
      <4>2. PICK q \in Nat : wp = 4 * q
        BY <1>1
      <4> QED
        BY <2>6, <4>1, <4>2
    <3>2. PICK b \in CrcWord : env[b] = 0
      BY <1>1, <2>3, CrcAssumption DEF CrcWord
    <3>3. b \in EnvBytes /\ b \in Nat /\ b < wp /\ b \notin target
      BY <1>1, <1>2, <2>3, <2>4, <3>1 DEF CrcWord
    <3>4. cell[b] = env[b]
      BY <1>1, <2>1, <3>3 DEF Progress, ToggleLeft, Written
    <3> QED
      BY <2>2, <2>4, <3>2, <3>3, <3>4
  <2> QED
    BY <1>1, <2>3, <2>5, <2>6
<1> QED
  BY <1>3, <1>4

\* Neither does an erase that is done, or stopped between two words.
LEMMA Erased ==
  ASSUME Progress, chip = "erasing", InFlash' \in Envs, ChipDone \/ PowerCut
  PROVE  InFlash' = InFlash
<1>1. \A b \in EnvBytes : b \in Bytes /\ b \in Nat /\ InFlash'[b] = cell'[b]
  <2>1. \A b \in EnvBytes : b \in Bytes
    BY EnvFacts
  <2>2. \A b \in Bytes : b \in Nat
    BY SizeFacts
  <2>3. \A b \in EnvBytes : InFlash'[b] = cell'[b]
    BY DEF InFlash
  <2> QED
    BY <2>1, <2>2, <2>3
<1>2. CASE ChipDone
  <2>1. PICK s \in Sectors : target = BytesOf(s)
    BY DEF Progress, Targets
  <2>2. CASE s = EnvSector
    <3>1. start[EnvSector] \in EnvBytes /\ start[EnvSector] % 4 = 0
      BY EnvFacts
    <3>2. \A b \in EnvBytes : InFlash'[b] = 1
      BY <1>1, <1>2, <2>1, <2>2 DEF ChipDone, EnvBytes
    <3> QED
      BY <3>1, <3>2, EnvWord, ErasedWord
  <2>3. CASE s # EnvSector
    <3>1. \A b \in EnvBytes : b \notin target
      BY <2>1, <2>3, EnvFacts, Disjoint DEF EnvBytes
    <3> QED
      BY <1>1, <1>2, <3>1, FlashSame DEF ChipDone
  <2> QED
    BY <2>2, <2>3
<1>3. CASE PowerCut
  <2>1. PICK T \in SUBSET Pieces :
          cell' = [b \in Bytes |->
            IF chip = "erasing" /\ b - (b % 4) \in T THEN 1
            ELSE IF chip = "programming" /\ b \in T /\ data[b - wp] = 0 THEN 0
            ELSE cell[b]]
    BY <1>3 DEF PowerCut
  <2>2. ASSUME NEW b \in EnvBytes PROVE b - (b % 4) \notin T
    <3> SUFFICES ASSUME b - (b % 4) \in T PROVE FALSE
      OBVIOUS
    <3> DEFINE w == b - (b % 4)
    <3>1. b \in Nat /\ start[EnvSector] \in Nat /\ start[EnvSector] % 4 = 0 /\ start[EnvSector] <= b
          /\ b < start[EnvSector + 1] /\ start[EnvSector + 1] \in Nat
          /\ EnvBytes = start[EnvSector] .. start[EnvSector + 1] - 1
      BY EnvFacts
    <3>2. PICK p \in Nat, r \in 0 .. 3 : b = 4 * p + r /\ b % 4 = r
      BY <3>1
    <3>3. PICK q \in Nat : start[EnvSector] = 4 * q
      BY <3>1
    <3>4. w = 4 * p /\ w % 4 = 0 /\ q <= p
      BY <3>1, <3>2, <3>3
    <3>5. w \in EnvBytes
      BY <3>1, <3>2, <3>3, <3>4
    <3>6. ASSUME NEW c \in w .. w + 3 PROVE InFlash'[c] = 1
      <4>1. c \in EnvBytes
        BY <3>4, <3>5, EnvWord
      <4>2. c - (c % 4) = w
        BY <3>4
      <4> QED
        BY <1>1, <2>1, <4>1, <4>2
    <3> HIDE DEF w
    <3> QED
      BY <3>4, <3>5, <3>6, ErasedWord
  <2> QED
    BY <1>1, <2>1, <2>2, FlashSame
<1> QED
  BY <1>2, <1>3

LEMMA StartedInit == Init => Started /\ Saving
BY EnvFacts DEF Init, FlashInit, Started, Saving, Writing

LEMMA StartedStep == IInv /\ Started /\ [Next]_vars => Started'
<1> SUFFICES ASSUME IInv, Started, [Next]_vars PROVE Started'
  OBVIOUS
<1> USE DEF chipVars, eraseVars, writeVars, watchVars, envVars
<1>1. ASSUME UNCHANGED <<cell, chip, fpc, env, loaded, env_crc_valid, epc>> PROVE Started'
  BY <1>1 DEF Started, InFlash
<1>2. ASSUME loaded, loaded', env' \in Envs PROVE Started'
  BY <1>2 DEF Started
<1>3. \A first, last : flash_erase(first, last) => fpc = "idle"
  BY DEF flash_erase, EraseRefuse, EraseBegin
<1>4. fpc = "idle" => ~CallStep
  BY DEF CallStep, EraseSector, StatusReady, VerifyOk, VerifyTimeout, EraseBreak, EraseReturn,
         WriteHead, WriteAligned, WriteTail, ProgramWord, ReadBack, StatusBusy
<1>5. chip = "ready" => ~ChipStep
  BY DEF ChipStep, ChipDone, ChipFails
<1>6. env \in Envs /\ (epc # "idle" => loaded)
  BY DEF Started
<1>7. CASE EnvGet
  <2>1. UNCHANGED <<cell, chip, fpc, env, loaded, epc>> /\ ~loaded
    BY <1>7 DEF EnvGet, flashVars
  <2>2. env_crc_valid' # 0 => (env_crc_valid' = 1 <=> InFlash \in Envs)
    BY <1>7, <2>1 DEF EnvGet, check_crc, Started
  <2> QED
    BY <2>1, <2>2 DEF Started, InFlash
<1>8. CASE EnvCopy
  <2>1. loaded' /\ UNCHANGED <<cell, epc>> /\ ~loaded
    BY <1>8 DEF EnvCopy, flashVars
  <2>2. env' \in Envs
    <3>1. env_crc_valid \in {-1, 0, 1}
      BY DEF IInv, EnvTypeOK
    <3>2. env_crc_valid' > 0 => InFlash \in Envs
      BY <1>8, <2>1, <3>1 DEF EnvCopy, check_crc, Started
    <3> QED
      BY <1>8, <3>2, EnvFacts DEF EnvCopy
  <2> QED
    BY <2>1, <2>2 DEF Started
<1>9. CASE SaveUnprotect \/ SaveErase \/ SaveEraseFailed \/ SaveWrite \/ SaveReturn
  <2>1. loaded /\ loaded' /\ env' = env
    BY <1>6, <1>9 DEF SaveUnprotect, SaveErase, SaveEraseFailed, SaveWrite, SaveReturn, Idle
  <2> QED
    BY <1>2, <1>6, <2>1
<1>10. CASE \E e \in Envs : SetEnv(e)
  BY <1>2, <1>10 DEF SetEnv, Idle
<1>11. CASE \/ \E first, last \in Sectors : CommandErase(first, last)
            \/ \E q \in Requests : CommandWrite(q.addr, q.src)
  BY <1>2, <1>6, <1>11 DEF CommandErase, CommandWrite, Idle
<1>12. CASE (CallStep \/ ChipStep) /\ UNCHANGED envVars
  <2>1. loaded
    BY <1>4, <1>5, <1>12 DEF Started
  <2> QED
    BY <1>2, <1>6, <1>12, <2>1
<1>13. CASE PowerOff
  BY <1>13, EnvFacts DEF PowerOff, PowerCut, Started
<1>14. CASE UNCHANGED vars
  BY <1>1, <1>14 DEF vars, flashVars
<1> QED
  BY <1>7, <1>8, <1>9, <1>10, <1>11, <1>12, <1>13, <1>14 DEF Next, SaveStep

LEMMA SavingWrite ==
  ASSUME IInv, IInv', Started, SaveWrite
  PROVE  Saving'
<1> DEFINE first == start[EnvSector]
           n     == start[EnvSector + 1] - start[EnvSector]
           s     == [k \in 1 .. n |-> env[first + k - 1]]
<1>1. first \in Nat /\ n \in Nat /\ EnvBytes = first .. start[EnvSector + 1] - 1
      /\ start[EnvSector + 1] \in Nat /\ EnvBytes \subseteq Bytes
  <2>1. start[EnvSector] < start[EnvSector + 1]
    BY EnvFacts, Geometry
  <2> QED
    BY <2>1, EnvFacts
<1>2. s \in Seq(Bit) /\ Len(s) = n
  <2>1. ASSUME NEW k \in 1 .. n PROVE env[first + k - 1] \in Bit
    <3>1. first + k - 1 \in EnvBytes
      BY <1>1
    <3> QED
      BY <3>1 DEF IInv, EnvTypeOK, Contents
  <2>2. s \in [1 .. n -> Bit]
    BY <2>1
  <2> HIDE DEF n, s
  <2> QED
    BY <1>1, <2>2, AsSequence
<1>3. /\ epc' = "written" /\ env' = env
      /\ range' = first .. first + Len(s) - 1
      /\ want' = [b \in Bytes |-> IF b \in first .. first + Len(s) - 1 THEN s[b - first + 1] ELSE 1]
  BY DEF SaveWrite, write_buff
<1>4. range' = EnvBytes
  <2>1. first + n - 1 = start[EnvSector + 1] - 1
    BY <1>1
  <2> HIDE DEF n, s
  <2> QED
    BY <1>1, <1>2, <1>3, <2>1
<1>5. ASSUME NEW b \in EnvBytes PROVE want'[b] = env'[b]
  <2>1. b \in Nat /\ b \in Bytes /\ first <= b /\ b < start[EnvSector + 1]
    BY <1>1, <1>5, SizeFacts
  <2>2. b - first + 1 \in 1 .. n /\ first + (b - first + 1) - 1 = b
    BY <1>1, <2>1
  <2>3. s[b - first + 1] = env[b]
    BY <2>2
  <2> HIDE DEF s
  <2> QED
    BY <1>3, <1>4, <1>5, <2>1, <2>3
<1> QED
  BY <1>3, <1>4, <1>5 DEF Saving

LEMMA SavingStep == IInv /\ IInv' /\ Started /\ Saving /\ [Next]_vars => Saving'
<1> SUFFICES ASSUME IInv, IInv', Started, Saving, [Next]_vars PROVE Saving'
  OBVIOUS
<1> USE DEF chipVars, eraseVars, writeVars, watchVars, envVars
<1>1. ASSUME UNCHANGED <<env, epc>>, Writing' => Writing /\ UNCHANGED <<range, want>> PROVE Saving'
  BY <1>1 DEF Saving
<1>2. ASSUME ~Writing' PROVE Saving'
  BY <1>2 DEF Saving
<1>3. \A first, last : flash_erase(first, last) => ~Writing'
  BY DEF flash_erase, EraseRefuse, EraseBegin, Writing
<1>4. ASSUME KeepFlash, fpc = "idle" PROVE ~Writing'
  BY <1>4 DEF KeepFlash, Writing
<1>5. CASE CallStep /\ UNCHANGED envVars
  <2>1. Writing' => Writing /\ UNCHANGED <<range, want>>
    <3>1. CASE EraseSector \/ StatusReady \/ VerifyOk \/ EraseBreak
      BY <3>1 DEF EraseSector, StatusReady, VerifyOk, EraseBreak, Writing
    <3>2. CASE VerifyTimeout \/ EraseReturn
      BY <3>2 DEF VerifyTimeout, EraseReturn, Return, Writing
    <3>3. CASE WriteHead \/ WriteAligned \/ WriteTail \/ ProgramWord
      BY <3>3 DEF WriteHead, WriteAligned, WriteTail, Assemble, ProgramWord, Return, Writing
    <3>4. CASE ReadBack
      BY <3>4 DEF ReadBack, NextWord, Return, Writing
    <3>5. CASE StatusBusy
      BY <3>5 DEF StatusBusy, flashVars, Writing
    <3> QED
      BY <1>5, <3>1, <3>2, <3>3, <3>4, <3>5 DEF CallStep
  <2> QED
    BY <1>1, <1>5, <2>1
<1>6. CASE ChipStep /\ UNCHANGED envVars
  BY <1>1, <1>6 DEF ChipStep, ChipDone, ChipFails, Writing
<1>7. CASE PowerOff
  BY <1>2, <1>7 DEF PowerOff, PowerCut, Writing
<1>8. CASE EnvGet \/ EnvCopy \/ \E e \in Envs : SetEnv(e)
  <2>1. ~Writing'
    BY <1>8 DEF EnvGet, EnvCopy, SetEnv, Idle, flashVars, Writing
  <2> QED
    BY <1>2, <2>1
<1>9. CASE SaveUnprotect \/ SaveEraseFailed \/ SaveReturn
  BY <1>2, <1>4, <1>9 DEF SaveUnprotect, SaveEraseFailed, SaveReturn, Idle
<1>10. CASE SaveErase \/ \E first, last \in Sectors : CommandErase(first, last)
  BY <1>2, <1>3, <1>10 DEF SaveErase, CommandErase
<1>11. CASE \E q \in Requests : CommandWrite(q.addr, q.src)
  <2>1. PICK q \in Requests : CommandWrite(q.addr, q.src)
    BY <1>11
  <2>2. /\ q.addr + Len(q.src) <= start[EnvSector] /\ epc' = "idle"
        /\ range' = q.addr .. q.addr + Len(q.src) - 1
    BY <2>1 DEF CommandWrite, Idle, write_buff
  <2>3. q.addr \in Nat /\ Len(q.src) \in Nat
    BY EnvAssumption, SizeFacts
  <2>4. ASSUME NEW b \in EnvBytes PROVE b \notin range'
    <3>1. b \in Nat /\ start[EnvSector] \in Nat /\ start[EnvSector] <= b
      BY EnvFacts
    <3> QED
      BY <2>2, <2>3, <3>1
  <2> QED
    BY <2>2, <2>4 DEF Saving
<1>12. CASE UNCHANGED vars
  BY <1>1, <1>12 DEF vars, flashVars, Writing
<1> QED
  BY <1>5, <1>6, <1>7, <1>8, <1>9, <1>10, <1>11, <1>12, SavingWrite DEF Next, SaveStep

-----------------------------------------------------------------------------
(* Every step is one of the store, or none                                 *)

StoreNext == Store!Load \/ Store!Change \/ Store!Lose \/ Store!Store \/ Store!Restart

LEMMA StoreSame ==
  ASSUME InFlash' = InFlash, UNCHANGED <<env, loaded>>
  PROVE  UNCHANGED Store!storeVars
BY DEF Store!storeVars, Stored, Memory

\* A chip that is done or gives up loses the environment, or completes it.
LEMMA StoreChip ==
  ASSUME IInv, Placed, Progress, Started, Saving, ChipStep, UNCHANGED envVars
  PROVE  [StoreNext]_(Store!storeVars)
<1>1. UNCHANGED <<env, loaded>> /\ env \in Envs /\ Memory' = Memory
  BY DEF envVars, Started, Memory
<1>2. CASE InFlash' = InFlash
  BY <1>1, <1>2, StoreSame
<1>3. CASE InFlash' # InFlash /\ InFlash' \notin Envs
  <2>1. Stored' = NoEnv
    BY <1>3 DEF Stored
  <2> QED
    BY <1>1, <2>1 DEF Store!Lose, StoreNext, NoEnv
<1>4. CASE InFlash' # InFlash /\ InFlash' \in Envs
  <2>1. ChipDone
    BY <1>4, FlashSame DEF ChipStep, ChipFails
  <2>2. chip = "programming"
    BY <1>4, <2>1, Erased DEF ChipDone
  <2>3. \A b \in EnvBytes : cell'[b] = cell[b] \/ (b \in target /\ data[b - wp] = 0 /\ cell'[b] = 0)
    <3> SUFFICES ASSUME NEW b \in EnvBytes, b \in target, cell'[b] # cell[b]
                 PROVE  data[b - wp] = 0 /\ cell'[b] = 0
      BY <2>1, EnvFacts DEF ChipDone
    <3>1. b \in Bytes /\ cell[b] \in Bit
      BY EnvFacts DEF IInv, TypeInv, FlashTypeOK
    <3>2. cell'[b] = IF cell[b] = 1 /\ data[b - wp] = 1 THEN 1 ELSE 0
      BY <2>1, <2>2, <3>1 DEF ChipDone
    <3>3. data[b - wp] \in Bit
      <4>1. target = wp .. wp + 3 /\ wp \in Nat /\ b \in Nat
        BY <2>2, EnvFacts, SizeFacts DEF Progress, Targets, IInv, TypeInv, FlashTypeOK, Size
      <4>2. b - wp \in 0 .. 3
        BY <4>1
      <4> QED
        BY <4>2 DEF IInv, TypeInv, FlashTypeOK
    <3> QED
      BY <3>1, <3>2, <3>3 DEF Bit
  <2>4. epc = "written" /\ InFlash' = env
    BY <1>4, <2>2, <2>3, Programmed
  <2>5. Memory = env /\ Memory # NoEnv /\ Stored' = Memory
    BY <1>1, <1>4, <2>4, NoEnvFacts DEF Started, Memory, Stored
  <2> QED
    BY <1>1, <2>5 DEF Store!Store, StoreNext
<1> QED
  BY <1>2, <1>3, <1>4

LEMMA StorePower ==
  ASSUME IInv, Placed, Progress, Started, Saving, PowerOff
  PROVE  Store!Restart
<1>1. Memory' = NoEnv
  BY DEF PowerOff, Memory
<1>2. PowerCut
  BY DEF PowerOff
<1>3. CASE InFlash' = InFlash
  BY <1>1, <1>3 DEF Store!Restart, Stored
<1>4. CASE InFlash' \notin Envs
  BY <1>1, <1>4 DEF Store!Restart, Stored
<1>5. CASE InFlash' # InFlash /\ InFlash' \in Envs
  <2>1. PICK T \in SUBSET Pieces :
          cell' = [b \in Bytes |->
            IF chip = "erasing" /\ b - (b % 4) \in T THEN 1
            ELSE IF chip = "programming" /\ b \in T /\ data[b - wp] = 0 THEN 0
            ELSE cell[b]]
    BY <1>2 DEF PowerCut
  <2>2. chip # "erasing"
    BY <1>2, <1>5, Erased
  <2>3. chip = "programming"
    BY <1>5, <2>1, <2>2, EnvFacts, FlashSame
  <2>4. T \subseteq target
    BY <2>3 DEF Pieces
  <2>5. \A b \in EnvBytes : cell'[b] = cell[b] \/ (b \in target /\ data[b - wp] = 0 /\ cell'[b] = 0)
    BY <2>1, <2>3, <2>4, EnvFacts
  <2>6. epc = "written" /\ InFlash' = env
    BY <1>5, <2>3, <2>5, Programmed
  <2>7. Memory = env /\ Memory # NoEnv /\ Stored' = Memory
    BY <1>5, <2>6, NoEnvFacts DEF Started, Memory, Stored
  <2> QED
    BY <1>1, <2>7 DEF Store!Restart
<1> QED
  BY <1>3, <1>4, <1>5

LEMMA StoreCopy ==
  ASSUME IInv, Started, EnvCopy
  PROVE  Store!Load
<1>1. ~loaded /\ loaded' /\ cell' = cell /\ env_crc_valid \in {-1, 0, 1}
  BY DEF EnvCopy, flashVars, chipVars, IInv, EnvTypeOK
<1>2. env_crc_valid' > 0 <=> InFlash \in Envs
  BY <1>1 DEF EnvCopy, check_crc, Started
<1>3. Memory = NoEnv /\ Memory' = env' /\ env' = IF InFlash \in Envs THEN InFlash ELSE Default
  BY <1>1, <1>2 DEF EnvCopy, Memory
<1>4. Stored' = Stored
  BY <1>1 DEF Stored, InFlash
<1>5. Stored = NoEnv <=> InFlash \notin Envs
  BY NoEnvFacts DEF Stored
<1> QED
  BY <1>3, <1>4, <1>5 DEF Store!Load, Stored

LEMMA StoreStep ==
  IInv /\ Placed /\ Progress /\ Started /\ Saving /\ [Next]_vars => [StoreNext]_(Store!storeVars)
<1> SUFFICES ASSUME IInv, Placed, Progress, Started, Saving, [Next]_vars
             PROVE  [StoreNext]_(Store!storeVars)
  OBVIOUS
<1> USE DEF chipVars, eraseVars, writeVars, watchVars, envVars
<1>1. ASSUME UNCHANGED <<cell, env, loaded>> PROVE UNCHANGED Store!storeVars
  BY <1>1, StoreSame DEF InFlash
<1>2. \A first, last : flash_erase(first, last) => cell' = cell
  BY DEF flash_erase, EraseRefuse, EraseBegin
<1>3. \A addr, s : write_buff(addr, s) => cell' = cell
  BY DEF write_buff
<1>4. CallStep => cell' = cell
  BY DEF CallStep, EraseSector, StatusReady, VerifyOk, VerifyTimeout, EraseBreak, EraseReturn,
         WriteHead, WriteAligned, WriteTail, Assemble, ProgramWord, ReadBack, StatusBusy, flashVars
<1>5. CASE EnvGet \/ UNCHANGED vars
  BY <1>1, <1>5 DEF EnvGet, vars, flashVars
<1>6. CASE EnvCopy
  BY <1>6, StoreCopy DEF StoreNext
<1>7. CASE SaveUnprotect \/ SaveEraseFailed \/ SaveReturn
  BY <1>1, <1>7 DEF SaveUnprotect, SaveEraseFailed, SaveReturn, KeepFlash
<1>8. CASE SaveErase \/ SaveWrite
  BY <1>1, <1>2, <1>3, <1>8 DEF SaveErase, SaveWrite
<1>9. CASE \E e \in Envs : SetEnv(e)
  <2>1. loaded /\ loaded' /\ cell' = cell /\ env \in Envs /\ env' \in Envs
    BY <1>9 DEF SetEnv, Idle, flashVars, Started
  <2>2. Stored' = Stored /\ Memory = env /\ Memory' = env' /\ Memory # NoEnv
    BY <2>1, NoEnvFacts DEF Stored, InFlash, Memory
  <2> QED
    BY <2>1, <2>2 DEF Store!Change, StoreNext
<1>10. CASE \/ \E first, last \in Sectors : CommandErase(first, last)
            \/ \E q \in Requests : CommandWrite(q.addr, q.src)
  BY <1>1, <1>2, <1>3, <1>10 DEF CommandErase, CommandWrite
<1>11. CASE CallStep /\ UNCHANGED envVars
  BY <1>1, <1>4, <1>11
<1>12. CASE ChipStep /\ UNCHANGED envVars
  BY <1>12, StoreChip
<1>13. CASE PowerOff
  BY <1>13, StorePower DEF StoreNext
<1> QED
  BY <1>5, <1>6, <1>7, <1>8, <1>9, <1>10, <1>11, <1>12, <1>13 DEF Next, SaveStep

LEMMA StoreInit == Init => Store!StoreInit
<1> SUFFICES ASSUME Init PROVE Store!StoreInit
  OBVIOUS
<1>1. \A b \in EnvBytes : InFlash[b] = 1
  BY EnvFacts DEF Init, FlashInit, InFlash
<1>2. start[EnvSector] \in EnvBytes /\ start[EnvSector] % 4 = 0
  BY EnvFacts
<1>3. InFlash \notin Envs
  BY <1>1, <1>2, EnvWord, ErasedWord
<1> QED
  BY <1>3 DEF Store!StoreInit, Stored, Memory, Init

\* Whatever the geometry, the environments, the writes of the user, the
\* sectors and words that fail, the erases that are broken off or time out,
\* and the moment the power goes: the flash holds an environment that was in
\* memory when it was written, or none, and that one is loaded at start.
THEOREM StoreImplemented == Spec => ImplementsStore
<1>1. Init => Placed
  BY DEF Init, FlashInit, Placed, NeighboursKept
<1>2. Spec => [][StoreNext]_(Store!storeVars)
  BY <1>1, TypeInit, TypeStep, PlacedStep, ProgressInit, ProgressStep, StartedInit, StartedStep,
     SavingStep, StoreStep, PTL DEF Spec
<1>3. Spec => Store!StoreInit
  BY StoreInit DEF Spec
<1> QED
  BY <1>2, <1>3, PTL DEF ImplementsStore, Store!StoreSpec, StoreNext
=============================================================================
