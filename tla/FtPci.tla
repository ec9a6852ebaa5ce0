-------------------------------- MODULE FtPci --------------------------------
(***************************************************************************)
(* The PCI host bridge code of the boot loader                             *)
(* (andestech/board/AndesTech/common/ftpci100.c): pci_init_board walks     *)
(* over buses, devices and functions, sizes the base address registers     *)
(* (BARs) of whatever answers, gives each a window of I/O or memory space, *)
(* and switches the function on.                                           *)
(*                                                                         *)
(* What is plugged in is a board: which function answers at which number,  *)
(* and what its BARs are.  A device with one function may answer at all    *)
(* function numbers.  The processor may be reset at any moment; the PCI    *)
(* functions keep their registers.  A window is in bytes; addresses are    *)
(* taken modulo Word, as the code does in UINT32.                          *)
(*                                                                         *)
(* Definitions named Mut_... are plausible bugs, each in place of the      *)
(* definition that follows it; the specification never uses them.          *)
(***************************************************************************)
EXTENDS Integers

CONSTANTS
  PCI_MAX_BUS_NUM, PCI_MAX_DEVICE_NUM, PCI_MAX_FUNCTION_NUM, PCI_MAX_BAR_NUM,
  Functions,            \* the functions that may be plugged in
  NoFunction,           \* nothing answers: the vendor ID reads 0 or 0xFFFF
  Boards,               \* what may be plugged in
  Base, Size,           \* the windows of the bridge, for each of Spaces
  Alignment,            \* PCI_MEM_SPACE_ALIGNMENT and PCI_IO_SPACE_ALIGNMENT
  Word                  \* 2^32

Spaces == {"mem", "io"}
Ids    == (0 .. PCI_MAX_BUS_NUM - 1) \X (0 .. PCI_MAX_DEVICE_NUM - 1)
            \X (0 .. PCI_MAX_FUNCTION_NUM - 1)
BarNos == 0 .. PCI_MAX_BAR_NUM - 1

\* "none": not implemented, reads 0; "high": the upper half of a memory BAR
\* of 64 bits, which keeps all the ones written to it
BarKind == [kind : Spaces \cup {"none", "high"}, size : Nat]
Board   == [answers : [Ids -> Functions \cup {NoFunction}],
            bars : [Functions -> [BarNos -> BarKind]]]

ASSUME MaxAssumption ==
  /\ PCI_MAX_BUS_NUM \in Nat \ {0} /\ PCI_MAX_DEVICE_NUM \in Nat \ {0, 1}
  /\ PCI_MAX_FUNCTION_NUM \in Nat \ {0} /\ PCI_MAX_BAR_NUM \in Nat \ {0}
ASSUME FunctionAssumption == NoFunction \notin Functions
ASSUME WindowAssumption ==
  /\ Base \in [Spaces -> Nat] /\ Size \in [Spaces -> Nat]
  /\ Alignment \in [Spaces -> Nat \ {0}]
  /\ Word \in Nat \ {0}
  /\ \A s \in Spaces : Base[s] + Size[s] < Word
\* The PCI specification: no BAR is smaller than 16 bytes of memory or 4 of I/O.
ASSUME BoardAssumption ==
  /\ Boards \subseteq Board
  /\ \A b \in Boards, f \in Functions, i \in BarNos :
       b.bars[f][i].kind \in Spaces =>
         b.bars[f][i].size >= Alignment[b.bars[f][i].kind]

VARIABLES
  board,        \* what is plugged in
  bar,          \* the value in each BAR
  cmd,          \* the bits set in each command register
  pc,           \* where pci_init_board is
  id,           \* CurrDevID_st: bus, device and function number
  i,            \* of flib_AssignPCIResource
  next          \* sg_PCIRscMap_s: PciMem0Addr and PciIOAddr

VARIABLES       \* observing only
  fresh,        \* the BARs that got their window since the processor started
  overrun       \* the spaces in which a window was given out that is not there

vars == <<board, bar, cmd, pc, id, i, next, fresh, overrun>>

Ones   == -1                       \* 0xFFFFFFFF
Decode == {"io", "mem"}            \* PCI_CMD_IO_ENABLE, PCI_CMD_MEM_ENABLE

f             == board.answers[id]     \* who answers the configuration access
Kind(g, k)    == board.bars[g][k].kind
BarSize(g, k) == board.bars[g][k].size
Windows   == {w \in Functions \X BarNos : Kind(w[1], w[2]) \in Spaces}

TypeOK ==
  /\ board \in Boards
  /\ bar \in [Functions -> [BarNos -> Nat \cup {Ones}]]
  /\ cmd \in [Functions -> SUBSET (Decode \cup {"master"})]
  /\ pc \in {"start", "look", "size", "assign", "master", "done"}
  /\ id \in Ids
  /\ i \in 0 .. PCI_MAX_BAR_NUM
  /\ pc \in {"size", "assign", "master"} => f \in Functions
  /\ pc = "assign" => i \in BarNos /\ Kind(f, i) \in Spaces
  /\ next \in [Spaces -> 0 .. Word - 1]
  /\ fresh \subseteq Windows
  /\ overrun \subseteq Spaces

(* after a power-on reset of the PCI bus *)
Init ==
  /\ board \in Boards
  /\ bar = [g \in Functions |-> [k \in BarNos |-> 0]]
  /\ cmd = [g \in Functions |-> {}]
  /\ pc = "start" /\ id = <<0, 1, 0>> /\ i = 0
  /\ next = Base
  /\ fresh = {} /\ overrun = {}

-----------------------------------------------------------------------------
(* flib_PCI_InitPCIDevice: the windows begin at their bases *)
Start ==
  /\ pc = "start"
  /\ pc' = "look" /\ id' = <<0, 1, 0>>
  /\ next' = Base
  /\ UNCHANGED <<board, bar, cmd, i, fresh, overrun>>

\* forgets to start again with function 0 on the next device
Mut_Advance ==
  LET b == id[1] d == id[2] n == id[3] IN
  \/ /\ n + 1 < PCI_MAX_FUNCTION_NUM
     /\ id' = <<b, d, n + 1>> /\ pc' = "look"
  \/ /\ n + 1 = PCI_MAX_FUNCTION_NUM /\ d + 1 < PCI_MAX_DEVICE_NUM
     /\ id' = <<b, d + 1, n>> /\ pc' = "look"
  \/ /\ n + 1 = PCI_MAX_FUNCTION_NUM /\ d + 1 = PCI_MAX_DEVICE_NUM
     /\ b + 1 < PCI_MAX_BUS_NUM
     /\ id' = <<b + 1, 0, 0>> /\ pc' = "look"
  \/ /\ n + 1 = PCI_MAX_FUNCTION_NUM /\ d + 1 = PCI_MAX_DEVICE_NUM
     /\ b + 1 = PCI_MAX_BUS_NUM
     /\ pc' = "done" /\ UNCHANGED id

(* the three loops of flib_AssignPCIResource_hill, from one number to the  *)
(* next; at the end pci_init_board tells the generic code and returns      *)
Advance ==
  LET b == id[1] d == id[2] n == id[3] IN
  \/ /\ n + 1 < PCI_MAX_FUNCTION_NUM
     /\ id' = <<b, d, n + 1>> /\ pc' = "look"
  \/ /\ n + 1 = PCI_MAX_FUNCTION_NUM /\ d + 1 < PCI_MAX_DEVICE_NUM
     /\ id' = <<b, d + 1, 0>> /\ pc' = "look"
  \/ /\ n + 1 = PCI_MAX_FUNCTION_NUM /\ d + 1 = PCI_MAX_DEVICE_NUM
     /\ b + 1 < PCI_MAX_BUS_NUM
     /\ id' = <<b + 1, 0, 0>> /\ pc' = "look"
  \/ /\ n + 1 = PCI_MAX_FUNCTION_NUM /\ d + 1 = PCI_MAX_DEVICE_NUM
     /\ b + 1 = PCI_MAX_BUS_NUM
     /\ pc' = "done" /\ UNCHANGED id

(* no vendor ID: nobody there *)
Skip ==
  /\ pc = "look" /\ f = NoFunction
  /\ Advance
  /\ UNCHANGED <<board, bar, cmd, i, next, fresh, overrun>>

(* the command byte is read and written with its whole word; what that does *)
(* to the status half of the word is left out *)
ReadCommand(g)        == cmd[g]
WriteCommand(g, bits) == cmd' = [cmd EXCEPT ![g] = bits]

flib_DisablePCIDevice(g) == WriteCommand(g, ReadCommand(g) \ Decode)
flib_EnablePCIDevice(g)  == WriteCommand(g, ReadCommand(g) \cup Decode)
flib_SetPCIMaster(g)     == WriteCommand(g, ReadCommand(g) \cup {"master"})

WriteBar(g, k, value) == bar' = [bar EXCEPT ![g][k] = value]

\* leaves the function on while its BARs are changed
Mut_Found ==
  /\ pc = "look" /\ f # NoFunction
  /\ i' = 0 /\ pc' = "size"
  /\ UNCHANGED <<board, bar, cmd, id, next, fresh, overrun>>

(* somebody there: it stops decoding *)
Found ==
  /\ pc = "look" /\ f # NoFunction
  /\ flib_DisablePCIDevice(f)
  /\ i' = 0 /\ pc' = "size"
  /\ UNCHANGED <<board, bar, id, next, fresh, overrun>>

\* takes the upper half of a BAR of 64 bits for a BAR
Mut_SizeBar ==
  /\ pc = "size" /\ i \in BarNos
  /\ WriteBar(f, i, IF Kind(f, i) = "none" THEN bar[f][i] ELSE Ones)
  /\ fresh' = fresh \ {<<f, i>>}
  /\ IF Kind(f, i) # "none" THEN pc' = "assign" /\ UNCHANGED i
                            ELSE i' = i + 1 /\ UNCHANGED pc
  /\ UNCHANGED <<board, cmd, id, next, overrun>>

(* write 0xFFFFFFFF, read back: 0 if there is no BAR, all ones if it is    *)
(* the upper half of one *)
SizeBar ==
  /\ pc = "size" /\ i \in BarNos
  /\ WriteBar(f, i, IF Kind(f, i) = "none" THEN bar[f][i] ELSE Ones)
  /\ fresh' = fresh \ {<<f, i>>}
  /\ IF Kind(f, i) \in Spaces THEN pc' = "assign" /\ UNCHANGED i
                              ELSE i' = i + 1 /\ UNCHANGED pc
  /\ UNCHANGED <<board, cmd, id, next, overrun>>

\* p, or the next multiple of a
AlignUp(p, a) == IF p % a # 0 THEN ((p \div a) + 1) * a ELSE p

dwAlignmentSize(s, size) == IF size >= Alignment[s] THEN size ELSE Alignment[s]

\* the next window starts where this one did, aligned or not
Mut_Assign(s) ==
  LET at == AlignUp(next[s], dwAlignmentSize(s, BarSize(f, i))) IN
  /\ pc = "assign" /\ Kind(f, i) = s
  /\ WriteBar(f, i, at % Word)
  /\ next' = [next EXCEPT ![s] = (@ + BarSize(f, i)) % Word]
  /\ fresh' = fresh \cup {<<f, i>>}
  /\ overrun' = IF at + BarSize(f, i) <= Base[s] + Size[s] THEN overrun
                                                       ELSE overrun \cup {s}
  /\ i' = i + 1 /\ pc' = "size"
  /\ UNCHANGED <<board, cmd, id>>

(* the BAR gets the next aligned address of its space.  Nobody looks where *)
(* the window of the bridge ends *)
Assign(s) ==
  LET at == AlignUp(next[s], dwAlignmentSize(s, BarSize(f, i))) IN
  /\ pc = "assign" /\ Kind(f, i) = s
  /\ WriteBar(f, i, at % Word)
  /\ next' = [next EXCEPT ![s] = (at + BarSize(f, i)) % Word]
  /\ fresh' = fresh \cup {<<f, i>>}
  /\ overrun' = IF at + BarSize(f, i) <= Base[s] + Size[s] THEN overrun
                                                       ELSE overrun \cup {s}
  /\ i' = i + 1 /\ pc' = "size"
  /\ UNCHANGED <<board, cmd, id>>

AssignIo  == Assign("io")
AssignMem == Assign("mem")

(* all BARs done *)
Enable ==
  /\ pc = "size" /\ i = PCI_MAX_BAR_NUM
  /\ flib_EnablePCIDevice(f)
  /\ pc' = "master"
  /\ UNCHANGED <<board, bar, id, i, next, fresh, overrun>>

Master ==
  /\ pc = "master"
  /\ flib_SetPCIMaster(f)
  /\ Advance
  /\ UNCHANGED <<board, bar, i, next, fresh, overrun>>

(* the processor is reset, the PCI functions are not (external) *)
Reset ==
  /\ pc' = "start"
  /\ fresh' = {} /\ overrun' = {}
  /\ UNCHANGED <<board, bar, cmd, id, i, next>>

Next == Start \/ Skip \/ Found \/ SizeBar \/ AssignIo \/ AssignMem \/ Enable
        \/ Master \/ Reset

Spec == Init /\ [][Next]_vars

-----------------------------------------------------------------------------
(* Properties *)

Apart(v, w) ==
  LET a == bar[v[1]][v[2]] b == bar[w[1]][w[2]] IN
  a + BarSize(v[1], v[2]) <= b \/ b + BarSize(w[1], w[2]) <= a

\* Lines 214-278: as long as a space is large enough, every BAR of it has a
\* window of its own: inside of the space, at a multiple of its size, and
\* apart from all others, also from those an aliased device got before.  Of a
\* BAR of 64 bits this is the lower half; OnesOnlyInUpperHalves has the other.
WindowsApart ==
  \A w \in fresh :
    LET s == Kind(w[1], w[2]) a == bar[w[1]][w[2]] IN
    s \notin overrun =>
      /\ Base[s] <= a /\ a + BarSize(w[1], w[2]) <= Base[s] + Size[s]
      /\ a % BarSize(w[1], w[2]) = 0
      /\ \A v \in fresh \ {w} : Kind(v[1], v[2]) = s => Apart(v, w)

Scanned == Ids \ ({0} \X {0} \X (0 .. PCI_MAX_FUNCTION_NUM - 1))

\* Lines 217-226 and 355-369: where the ones of the sizing stay.  A function
\* that decodes addresses, be the processor reset in the middle of a walk, has
\* them in the upper half of each BAR of 64 bits and in no other register: its
\* BARs of 32 bits have the address of a window, those of 64 bits decode at
\* the top of their space, and not in the window set aside for them.  When the
\* walk is over everything it saw decodes so, as a bus master, with the lower
\* halves of this walk.
OnesOnlyInUpperHalves ==
  /\ \A g \in Functions : cmd[g] \cap Decode # {} =>
       \A k \in BarNos : bar[g][k] = Ones <=> Kind(g, k) = "high"
  /\ pc = "done" =>
       \A n \in Scanned : LET g == board.answers[n] IN
         g # NoFunction =>
           /\ cmd[g] = Decode \cup {"master"}
           /\ \A k \in BarNos : Kind(g, k) \in Spaces => <<g, k>> \in fresh
=============================================================================
