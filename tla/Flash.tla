-------------------------------- MODULE Flash --------------------------------
(***************************************************************************)
(* The NOR flash driver of the boot loader: flash_erase, write_buff and    *)
(* write_word (andestech/board/AndesTech/common/flash.c) with the chip     *)
(* commands they use (flib_flash.c, four chips on a 32-bit bus), a chip    *)
(* that takes its time and may fail, a user who may break off an erase,    *)
(* and the power, which may go at any moment.                              *)
(*                                                                         *)
(* A byte is abstracted to one bit: programming can only clear it, erasing *)
(* sets the bits of a sector.  Interrupts stand also for the instruction   *)
(* cache, which is switched at the same places.                            *)
(*                                                                         *)
(* Definitions named Mut_... are plausible bugs, each in place of the      *)
(* definition that follows it; the specification never uses them.          *)
(***************************************************************************)
EXTENDS Integers, Sequences

CONSTANTS
  SectorCount,
  start,      \* first byte of each sector; start[SectorCount] is the size
  Vendors     \* chips flash_init may find

ASSUME SectorAssumption ==
  /\ SectorCount \in Nat \ {0}
  /\ start \in [0 .. SectorCount -> Nat] /\ start[0] = 0
  /\ \A s \in 0 .. SectorCount : start[s] % 4 = 0
  /\ \A s, t \in 0 .. SectorCount : s < t => start[s] < start[t]
ASSUME VendorAssumption == Vendors \subseteq {"MX", "SST", "Intel", "unknown"}

Sectors  == 0 .. SectorCount - 1
Bytes    == 0 .. start[SectorCount] - 1
BytesOf(s) == start[s] .. start[s + 1] - 1
Bit      == {0, 1}

VARIABLES
  cell,       \* the bytes of the flash
  chip,       \* ready, erasing, programming, or (Intel) stopped with an error
  target,     \* the bytes it is erasing or programming
  vendor,     \* info->flash_id
  protect,    \* info->protect
  intr,       \* interrupts are enabled
  fpc,        \* where in flash_erase, write_buff or write_word; "idle" outside
  sect, s_last, iflag,        \* locals of flash_erase
  wp, l, src, data,           \* locals of write_buff; src as far as not written
  rc                          \* what the last call returned

VARIABLES     \* observing only: what the last call was to do
  range,      \* the bytes it concerns
  want,       \* and what they are to be
  misread     \* a byte around them was read while the chip gave its status

chipVars  == <<cell, chip, target, vendor>>
eraseVars == <<sect, s_last, iflag>>
writeVars == <<wp, l, src, data>>
watchVars == <<range, want, misread>>
flashVars == <<chipVars, protect, intr, fpc, eraseVars, writeVars, rc, watchVars>>

FlashTypeOK ==
  /\ cell \in [Bytes -> Bit]
  /\ chip \in {"ready", "erasing", "programming", "error"}
  /\ target \in SUBSET Bytes
  /\ vendor \in Vendors
  /\ protect \in [Sectors -> BOOLEAN]
  /\ intr \in BOOLEAN /\ iflag \in BOOLEAN
  /\ fpc \in {"idle", "erase", "wait", "verify", "settle", "head", "body", "word",
              "toggle"}
  /\ sect \in 0 .. SectorCount /\ s_last \in Sectors
  /\ wp \in Bytes \cup {start[SectorCount]} /\ wp % 4 = 0 /\ l \in 0 .. 3
  /\ src \in Seq(Bit)
  /\ data \in [0 .. 3 -> Bit]
  /\ rc \in {"none", "ok", "prog", "inval", "protected", "unknown"}
  /\ range \in SUBSET Bytes
  /\ want \in [Bytes -> Bit] /\ misread \in BOOLEAN

FlashInit ==      \* flash_init; the locals of the calls to come
  /\ cell = [b \in Bytes |-> 1]
  /\ vendor \in Vendors
  /\ chip = "ready" /\ target = {}
  /\ protect = [s \in Sectors |-> FALSE]
  /\ intr = TRUE
  /\ fpc = "idle" /\ rc = "none"
  /\ sect = 0 /\ s_last = 0 /\ iflag = FALSE
  /\ wp = 0 /\ l = 0 /\ src = <<>> /\ data = [i \in 0 .. 3 |-> 1]
  /\ range = {} /\ want = [b \in Bytes |-> 1] /\ misread = FALSE

\* The locals do not outlive the call
NoCall ==
  /\ sect' = 0 /\ s_last' = 0 /\ iflag' = FALSE
  /\ wp' = 0 /\ l' = 0 /\ src' = <<>> /\ data' = [i \in 0 .. 3 |-> 1]
  /\ range' = {} /\ want' = [b \in Bytes |-> 1] /\ misread' = FALSE

Return(code) == rc' = code /\ fpc' = "idle" /\ NoCall

-----------------------------------------------------------------------------
(* The chip (external)                                                     *)

ChipDone ==
  /\ chip \in {"erasing", "programming"}
  /\ cell' = [b \in Bytes |->
       IF b \notin target THEN cell[b]
       ELSE IF chip = "erasing" \/ (cell[b] = 1 /\ data[b - wp] = 1) THEN 1 ELSE 0]
  /\ chip' = "ready" /\ target' = {}
  /\ UNCHANGED <<vendor, protect, intr, fpc, eraseVars, writeVars, rc, watchVars>>

\* a worn sector or word keeps its bits; an Intel chip waits for the error
\* bits of its status to be cleared
ChipFails ==
  /\ chip \in {"erasing", "programming"}
  /\ chip' = IF vendor = "Intel" THEN "error" ELSE "ready"
  /\ target' = {}
  /\ UNCHANGED <<cell, vendor, protect, intr, fpc, eraseVars, writeVars, rc, watchVars>>

\* a chip that is not ready takes no command
Command(operation, bytes) ==
  IF chip = "ready" THEN chip' = operation /\ target' = bytes
                    ELSE UNCHANGED <<chip, target>>

\* the words of a sector, the bytes of a word that the chip changes one by one
Pieces == IF chip = "erasing" THEN {b \in target : b % 4 = 0} ELSE target

\* the power goes and comes back when the chip has changed those pieces
PowerCut ==
  /\ \E T \in SUBSET Pieces :
       cell' = [b \in Bytes |->
         IF chip = "erasing" /\ b - (b % 4) \in T THEN 1
         ELSE IF chip = "programming" /\ b \in T /\ data[b - wp] = 0 THEN 0
         ELSE cell[b]]
  /\ chip' = "ready" /\ target' = {}
  /\ protect' = [s \in Sectors |-> FALSE]
  /\ intr' = TRUE
  /\ fpc' = "idle" /\ rc' = "none"
  /\ NoCall
  /\ UNCHANGED vendor

-----------------------------------------------------------------------------
(* flash_erase                                                             *)

\* does not look at the protection
Mut_MayErase(first, last) == vendor # "unknown" /\ first <= last

MayErase(first, last) ==
  vendor # "unknown" /\ first <= last /\ \A s \in first .. last : ~protect[s]

EraseRefuse(first, last) ==
  /\ fpc = "idle" /\ ~MayErase(first, last)
  /\ rc' = IF first > last THEN "inval"
           ELSE IF vendor = "unknown" THEN "unknown" ELSE "protected"
  /\ UNCHANGED <<chipVars, protect, intr, fpc, eraseVars, writeVars, watchVars>>

EraseBegin(first, last) ==
  /\ fpc = "idle" /\ MayErase(first, last)
  /\ iflag' = intr /\ intr' = FALSE
  /\ sect' = first /\ s_last' = last
  /\ fpc' = "erase"
  /\ range' = UNION {BytesOf(s) : s \in first .. last}
  /\ want' = [b \in Bytes |-> 1]
  /\ UNCHANGED <<chipVars, protect, writeVars, rc, misread>>

flash_erase(first, last) == EraseRefuse(first, last) \/ EraseBegin(first, last)

(* fLib_Flash_SectorErase returns at once; the Intel branch, ChipErase,    *)
(* erases one sector too and waits *)
EraseSector ==
  /\ fpc = "erase" /\ sect <= s_last
  /\ Command("erasing", BytesOf(sect))
  /\ fpc' = IF vendor = "Intel" THEN "wait" ELSE "verify"
  /\ UNCHANGED <<cell, vendor, protect, intr, eraseVars, writeVars, rc, watchVars>>

(* the status read is ready and without error *)
StatusReady ==
  /\ fpc = "wait" /\ chip = "ready"
  /\ fpc' = "verify"
  /\ UNCHANGED <<chipVars, protect, intr, eraseVars, writeVars, rc, watchVars>>

\* while it erases, the chip answers reads with its status
ReadsErased == chip # "erasing" /\ \A b \in BytesOf(sect) : cell[b] = 1

\* looks at the first word only
Mut_VerifyOk ==
  /\ fpc = "verify" /\ chip # "erasing" /\ cell[start[sect]] = 1
  /\ sect' = sect + 1
  /\ fpc' = "erase"
  /\ UNCHANGED <<chipVars, protect, intr, s_last, iflag, writeVars, rc, watchVars>>

VerifyOk ==
  /\ fpc = "verify" /\ ReadsErased
  /\ sect' = sect + 1
  /\ fpc' = "erase"
  /\ UNCHANGED <<chipVars, protect, intr, s_last, iflag, writeVars, rc, watchVars>>

\* restores interrupts on its way out
Mut_VerifyTimeout ==
  /\ fpc = "verify" /\ ~ReadsErased
  /\ Return("prog")
  /\ intr' = iflag
  /\ UNCHANGED <<chipVars, protect>>

(* a word is not erased in time: return from inside the loop *)
VerifyTimeout ==
  /\ fpc = "verify" /\ ~ReadsErased
  /\ Return("prog")
  /\ UNCHANGED <<chipVars, protect, intr>>

(* all erased, or ctrlc() before the next sector: then what was to be     *)
(* erased counts as far as the call says it got *)
EraseBreak ==
  /\ fpc = "erase"
  /\ fpc' = "settle"
  /\ range' = IF sect > s_last THEN range ELSE {b \in range : b < start[sect]}
  /\ UNCHANGED <<chipVars, protect, intr, eraseVars, writeVars, rc, want, misread>>

(* restore interrupts; return ERR_OK, also when the user broke off *)
EraseReturn ==
  /\ fpc = "settle"
  /\ intr' = (intr \/ iflag)
  /\ Return("ok")
  /\ UNCHANGED <<chipVars, protect>>

-----------------------------------------------------------------------------
(* write_buff, word by word                                                *)

write_buff(addr, s) ==
  /\ fpc = "idle"
  /\ wp' = addr - (addr % 4) /\ l' = addr % 4 /\ src' = s
  /\ fpc' = IF addr % 4 # 0 THEN "head" ELSE "body"
  /\ range' = addr .. addr + Len(s) - 1
  /\ want' = [b \in Bytes |->
                IF b \in addr .. addr + Len(s) - 1 THEN s[b - addr + 1] ELSE 1]
  /\ UNCHANGED <<chipVars, protect, intr, eraseVars, data, rc, misread>>

(* data is put together, of m bytes of the source among them *)
Assemble(word, m) ==
  /\ data' = word /\ src' = SubSeq(src, m + 1, Len(src))
  /\ fpc' = "word"
  /\ UNCHANGED <<chipVars, protect, intr, eraseVars, wp, l, rc, range, want>>

Least(m, n) == IF m < n THEN m ELSE n

\* What the four bytes at wp read as: while it is busy the chip answers with
\* its status, and an erase that timed out may end between two of the reads.
Readings == IF chip = "ready" THEN {[i \in 0 .. 3 |-> cell[wp + i]]} ELSE [0 .. 3 -> Bit]

\* fills the word up with zeroes
Mut_Merge(first, around) == [i \in 0 .. 3 |->
  IF i - first \in 0 .. Len(src) - 1 THEN src[i - first + 1] ELSE 0]

\* the source from byte first of the word on, what was read around it
Merge(first, around) == [i \in 0 .. 3 |->
  IF i - first \in 0 .. Len(src) - 1 THEN src[i - first + 1] ELSE around[i]]

WriteHead ==
  /\ fpc = "head"
  /\ \E around \in Readings : Assemble(Merge(l, around), Least(4 - l, Len(src)))
  /\ misread' = (chip # "ready")

WriteAligned ==
  /\ fpc = "body" /\ Len(src) >= 4
  /\ Assemble([i \in 0 .. 3 |-> src[i + 1]], 4)
  /\ UNCHANGED misread

WriteTail ==
  /\ fpc = "body" /\ Len(src) \in 1 .. 3
  /\ \E around \in Readings : Assemble(Merge(0, around), Len(src))
  /\ misread' = (chip # "ready")

(* write_word, up to the command.  Only the known vendors have one.  An    *)
(* erase that timed out may have ended since the bytes were read *)
ProgramWord ==
  /\ fpc = "word"
  /\ IF vendor = "unknown"
       THEN Return("unknown") /\ UNCHANGED <<chip, target>>
       ELSE /\ Command("programming", wp .. wp + 3)
            /\ fpc' = "toggle"
            /\ UNCHANGED <<eraseVars, writeVars, rc, watchVars>>
  /\ UNCHANGED <<cell, vendor, protect, intr>>

\* counts bytes instead of words
Mut_NextWord ==
  IF src = <<>> THEN Return("ok")
  ELSE /\ wp' = wp + 1 /\ fpc' = "body"
       /\ UNCHANGED <<eraseVars, l, src, data, rc, watchVars>>

NextWord ==
  IF src = <<>> THEN Return("ok")
  ELSE /\ wp' = wp + 4 /\ fpc' = "body"
       /\ UNCHANGED <<eraseVars, l, src, data, rc, watchVars>>

\* does not read the word back
Mut_ReadBack ==
  /\ fpc = "toggle" /\ chip = "ready"
  /\ NextWord
  /\ UNCHANGED <<chipVars, protect, intr>>

(* the bits no longer toggle (Intel: the status is ready): read back and   *)
(* compare; on with the next word, or ERR_OK at the end *)
ReadBack ==
  /\ fpc = "toggle" /\ chip = "ready"
  /\ IF \E i \in 0 .. 3 : cell[wp + i] # data[i] THEN Return("prog") ELSE NextWord
  /\ UNCHANGED <<chipVars, protect, intr>>

(* either waiting loop, which has no limit, once more *)
StatusBusy ==
  /\ fpc \in {"wait", "toggle"} /\ chip # "ready"
  /\ UNCHANGED flashVars

-----------------------------------------------------------------------------
CallStep ==
  \/ EraseSector \/ StatusReady \/ VerifyOk \/ VerifyTimeout \/ EraseBreak \/ EraseReturn
  \/ WriteHead \/ WriteAligned \/ WriteTail \/ ProgramWord
  \/ ReadBack \/ StatusBusy

ChipStep == ChipDone \/ ChipFails

-----------------------------------------------------------------------------
(* Properties                                                              *)

\* Lines 566-621, 535: whatever the alignment, the words that are programmed
\* change bytes of the request only: what stands around them is written as
\* it is.  The exception is a byte that was read while the chip gave its
\* status: nothing waits for an erase that timed out earlier, and when it
\* ends before the command, that status is programmed over the neighbours.
NeighboursKept ==
  chip = "programming" /\ ~misread =>
    \A i \in 0 .. 3 : wp + i \notin range => data[i] = cell[wp + i]

\* Lines 511-516 and 548-553: "ERR_OK ==> without error".  When a call
\* returns so, the bytes are what was asked for.  (For an erase that the user
\* broke off: as far as it says it got.)
OkMeansDone ==
  [][fpc # "idle" /\ fpc' = "idle" /\ rc' = "ok" => \A b \in range : cell[b] = want[b]]_flashVars

\* Lines 439-445: "we don't want a (ticker) exception to happen while the
\* flash chip is in programming mode": the vectors are in the flash.  (Said
\* of erasing: write_word, lines 516-545, programs with interrupts as they
\* are.)
NoTickDuringErase == chip = "erasing" => ~intr

\* Lines 428-437: "if there exist any sector was protected ... return
\* error": no sector that is protected is ever erased.
ProtectedNotErased ==
  [][\A s \in Sectors : protect[s] /\ chip # "erasing" /\ chip' = "erasing"
       => target' \cap BytesOf(s) = {}]_flashVars
==============================================================================
