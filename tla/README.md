# Models of the BMC network and boot code

Formal models of the programs in this repository: the Linux FTGMAC100 gigabit
Ethernet driver (`src/faraday-tech/drivers/net`) and the U-Boot board support of
AndesTech (`src/andestech/board/AndesTech`). The modules are TLA+, checked with TLC
on small instances; the main safety results are proved with TLAPS for every value
of the constants.

## The system

| Part | State | Operations | Talks to |
|---|---|---|---|
| Linux FTGMAC100, transmit (`ftgmac100.c` 494-704, 1136-1163) | `txdes[]`, `tx_pointer`, `tx_clean_pointer`, `tx_pending`, queue stopped | `hard_start_xmit`, `xmit`, `tx_complete` | stack (calls, skbs), DMA engine (descriptors, NPTXPD), poll |
| Linux FTGMAC100, receive (198-492, 706-798) | `rxdes[]`, `rx_pointer`, pages | `rx_packet` and its helpers, `alloc_buffers`, `free_buffers` | DMA engine, page allocator, stack |
| Linux FTGMAC100, control (800-828, 978-1134) | `IER`, `ISR`, `MACCR`, NAPI state, `old_speed` | `interrupt`, `poll`, `adjust_link`, `open`, `stop` | all of the above, PHY state machine, network core |
| Linux FTGMAC100, MDIO, probe, remove (107-185, 830-976, 1165-1335) | PHYCR, PHYDATA, the resources held, the PHYs found, the station address | `mdiobus_read/write`, `reset_hw`, `probe`, `remove`, ethtool and ioctl | PHY library, platform bus, users |
| U-Boot FTMAC100 (`ftmac100.c`) | two rings, `rx_idx`, `tx_idx`, `initialized` | `eth_init`, `eth_send`, `eth_rx`, `eth_halt` | DMA engine, network loop |
| U-Boot flash (`flash.c`, `flib_flash.c`) | sectors, protection, chip command state | `flash_erase`, `write_buff` | chip, environment |
| U-Boot environment (`env.c`) | copy in RAM, `env_crc_valid` | `check_crc`, `board_env_save`, `env_copy`, `board_env_getchar` | flash |
| U-Boot PCI bridge (`ftpci100.c`) | the numbers of the walk, window pointers; BARs and command registers of the PCI functions | `pci_init_board`: enumeration, sizing, windows | PCI bus |
| U-Boot serial (`serial.c`, `flib_serial.c`) | UART registers | put, get, set up | UART |

What is hard in it:

* **Three parties on one ring.** `xmit`, `tx_complete` and the DMA engine share
  descriptors and a count. The lock covers the count and OWN but not the tests of
  `tx_complete_packet`, and the wake of the queue comes after the unlock.
* **A ring in which the engine writes while the driver replaces pages**, with frames of
  several descriptors, frames the engine gave up, and an allocator that may fail.
* **One mask register, five writers.** `IER` is written by the handler, the poll,
  `adjust_link`, `open` and `stop`, and no lock orders them.
* **Acknowledge, then serve, within a budget.** What was acknowledged and not served has
  to be found again.
* **Restart under way.** `adjust_link` stops and restarts the MAC with rings in any state;
  `stop` tears down while all of this runs.
* **An MDIO bus that gives up.** A call that timed out leaves its command under way and the next one
  writes over it; the scan in `probe`, the PHY state machine and users share the bus, and `probe` unwinds
  from seven failures.
* **A walk that cuts in.** BARs hold ones while they are sized, of functions that may be on from before.
* In the boot code: waits without a limit, errors that leave interrupts or caches off,
  power loss between erase and write.

`PROJECT.json` lists these one by one, at their lines, under `hazards`.

## Modules

| Module | What it is |
|---|---|
| `FtgmacTx` | transmit ring with xmit, completion, engine, link change, open and stop |
| `TxFifo` | what the stack is promised of it: a bounded line, first in, first out |
| `FtgmacRx` | receive ring with `rx_packet`, refill, engine, link change, open and stop |
| `RxLine` | what the stack is promised of it: segments taken once and in order, whole frames |
| `FtgmacNapi` | `IER`, `ISR`, handler, poll, link change, open and stop; rings as counters |
| `Ftmac100` | the polled U-Boot driver on both rings, with the engine; its reception implements `RxLine` too |
| `Flash` | `flash_erase`, `write_buff`, `write_word`, the chip and the power |
| `FtgmacDev` | `probe`, `remove`, MDIO calls and their callers, reset of the MAC, the station address |
| `FtPci` | `pci_init_board`: the walk over buses, devices and functions; sizing and windows |
| `BoardEnv` | `env.c` over `Flash`, with the commands of the user |
| `EnvStore` | what the environment code promises: a whole environment that was in memory, or none |
| `MCFtgmacTx`, `MCFtgmacRx`, `MCFtgmacNapi`, `MCFtmac100`, `MCFtgmacDev`, `MCFtPci`, `MCBoardEnv` | instances for TLC |
| `FtgmacTx_proof`, `FtgmacTxSafety_proof`, `FtgmacRx_proof`, `FtgmacNapi_proof`, `Ftmac100_proof`, `FtgmacDev_proof`, `FtPci_proof`, `BoardEnv_proof` | theorems and proofs |

The refinement mappings stand in the last section of `FtgmacTx`, `FtgmacRx`, `Ftmac100` and `BoardEnv`, where TLC
and the proofs both find them.

Definitions named `Mut_...` are plausible bugs. The specifications never use them; put in
place of the definition after them they make a property fail, which shows that the
property depends on that line of the code.

### FtgmacTx

A step ends where another party can observe or interfere. `xmit` is four steps:
`HardStartXmit` (lines 660-690: take the descriptor, advance, fill), `XmitPend` (693-695,
in the lock), `XmitOwn` (698), `XmitKick` (701). `tx_complete_packet` is `CompNone` or
`CompCheck` (624-630, no lock), `CompFree` (632-644), `CompDec` (646-648), `CompWake` (649).
`adjust_link` is `AdjustStop`, `AdjustStart`, `AdjustInit`. `SMP = FALSE` lets `xmit` and the
poll exclude each other, as softirqs of one processor do; `SMP = TRUE` orders them only by
`tx_lock`. The line changes speed whenever it likes. `HwRestart` says what the engine
makes of a rewritten ring base: that is hardware, and the driver does not say.
Line 822 starts the queue whatever the ring holds. A history variable, `reopened`, remembers that it has done so
over a full ring; each property but `FilledOverOwn` claims what holds until then.
A descriptor is its OWN and end-of-ring bits, `txdes2` (the skb) and the mapped buffer
(`txdes3` with size, first, last and interrupt bits, written together); lengths and checksum
offload are left out.

### FtgmacRx

`rx_packet` is `LocateSkip`/`LocateNone` (332-347), `RxStart` or `RxRefuse` (error, or no skb),
`DropSegment` (one turn of 408-415), `TakeSegment` (459-470), `Refill` or `RefillFails`
(716-732), `OwnSegment` (733, 472-479) and `Deliver` (481-491). The error bits are one bit; the
functions that test them (349-397) decide only whether there is one. The engine makes a frame
visible as a whole: the loop at 458-479 relies on it, and nothing in the driver would survive
otherwise. With `HwFaults` it also leaves frames without an end and segments without a start.
`Allocates` is the choice of the page allocator, a parameter because pages are all alike: TLC
takes the first free one, the proofs admit any. `AllocMayFail` says where allocation may fail.
What a page holds is kept only while the ring or an assembled packet names it. The history variable `short`
remembers that line 475 has ignored a failed refill; each property but `PagesGoUpOnce` claims what holds until then, and
`RxLine` has a step for it (`Lose`).

### FtgmacNapi

Every register access of `interrupt` (981-993), `poll` (998-1067), `adjust_link` (803-828),
`open` (1072-1108) and `stop` (1118-1134) is a step of its own, in any order with the others.
`IER` is all or nothing, as in the code; `ISR` is two causes, since `poll` tests each pair
(RPKT_BUF/NO_RXBUF, XPKT_ETH/XPKT_LOST) as one. NAPI is modelled from its use: scheduled at most
once, `napi_disable` announces itself, waits, and keeps it. `rxq` and `txdone` are how much the
rings hold. A poll that uses up its budget (1023) walks away from what is left, with the cause acknowledged: the history variable
`left` counts these packets. Another, `deaf`, says that `adjust_link` has put back a 0 it had read from `IER`. No step looks at either.

### Ftmac100

The calls of the network loop follow one another; the engine works at the same time. `pc` says where in
which call the processor is: `ftmac100_rcv` is `RcvStart`, a turn of its first loop (`ScanStop`, `ScanError`,
`ScanSeg`, 522-536), a turn of its second loop (`CopySeg`, `ReturnSeg`, 544-549) and `Deliver`;
`ftmac100_send_packet` is `SendWait` (416-420), `SendFill`, `SendOwn` (436), `SendKick` (437-438).
`eth_init` is `EthInit` (allocation, and `SW_RST` written, which turns the engine off) and `EthOpened`, when the wait for the end of the reset
(303) is over, if it ever is. Beside it are its two failures: out of memory
returns 0 like success, and the next call goes through a null pointer (`NullPriv`); a ring that
cannot be allocated is a `BUG`. `PowerCycle` ends both, and a reset that does not end. A frame is its pieces, a piece fills a buffer, lengths
count buffers. `ErrSegs` is how many buffers a frame with an error may take.

### FtgmacDev

Three state machines share the bus. `pc` and `step` are `probe` and `remove`: `Acquire` and `AcquireFails` take
the seven resources one by one, `Fail` is the label of `probe` a failure goes to, `Release` gives back from there
downwards (1296-1311, 1322-1333). `net` is the interface: `Open` goes up to the write of `SW_RST` in
`reset_hw` (117-134), `ResetLook` looks at it and gives up at last, `init_hw` loads the address and
starts the PHY state machine, `Stop` waits for it. `mpc` is the one MDIO call there can be, under `mdio_lock`: `MdioData` writes
PHYDATA, `MdioCmd` writes PHYCR, `MdioLook` is a turn of the loop (886-896, 926-933). `by` says whose call it is: the
scan of `mdiobus_register`, the PHY state machine (`PhyCall`; an error halts it) or a user
(`UserCall`, for ethtool and ioctl, under rtnl). `TestAddress` and `random_ether_addr` are 1288-1289, after
the interface is registered.

The MAC finishes a command (`HwMdio`) and its reset (`HwReset`) when it likes, or never. It is taken to clear its
registers when `SW_RST` is written, and to latch the data of a write when PHYCR is written; a reset that
completes after `open` gave up clears nothing more. `BusyWrite` is what it makes of a command written during another: the driver
does not say. The register number goes with the PHY address, and the scan reads one ID register of each
address where the PHY library reads two. What the resources are is left out; that `ioremap` maps one byte less than
the region (1239), and that `release_resource` answers `request_mem_region`, changes nothing in their order.

### FtPci

`Start` sets the windows to their bases. Each turn of the innermost loop of `flib_AssignPCIResource_hill` (341-377) is `Skip`, or `Found`
(decoding off), then for each BAR `SizeBar` (217-224: ones are written, the answer tells what it is) and
`AssignIo` or `AssignMem` (226-278), then `Enable` and `Master`; `Advance` is the step of the three loops. `Reset`
restarts the processor at any moment, the PCI functions keeping their registers. A board (`Boards`) says who answers at which number
and with which BARs; the same function may answer at several. `overrun` and `fresh` only observe: whether a window was given out
that does not lie in its space, which nothing in the code looks at, and which BARs this walk has served.

The upper half of a BAR of 64 bits answers the sizing with ones, is passed over (221-224), and keeps them, as in the code:
once the function is enabled such a BAR decodes at the top of the 64-bit space. `WindowsApart` is about the window set aside for
it, which is in the lower half; `OnesOnlyInUpperHalves` says where the ones stay. Left out: the registers of the bridge
itself and the bits its set-up leaves uninitialised; what the read-modify-write of the command word does to the status
half; bridges behind the bridge (header type 1), which the code does not treat apart; a BAR of 2^32 bytes; and the `flib_write_*`
functions for the commands of the user, which write what they are told.

### Flash and BoardEnv

A byte is one bit, since programming only clears and erasing only sets. The chip takes its time
(`ChipDone`), fails (`ChipFails`: a worn sector keeps its bits, an Intel chip also stays in an
error state), and takes no command meanwhile. `flash_erase` is `EraseBegin` (after the tests, `MayErase`), then for
each sector `EraseSector`, on Intel `StatusReady`, and `VerifyOk` or `VerifyTimeout`; `EraseBreak` ends the loop, for the user
or for want of sectors, and `EraseReturn` restores the interrupts. `write_buff` goes word by word: `WriteHead`,
`WriteAligned` or `WriteTail` put a word together, reading what stands around the source in it; `ProgramWord` gives the command, `ReadBack`
waits for the chip and compares. Between the reads and the command an erase that timed out in an earlier call may end; while it has not,
the bytes read are the chip's status, which may be anything (`Readings`).
`StatusBusy` is a turn of the waits that have no limit. `range`, `want` and `misread` only observe: what a call is to do, and
that a byte was read so.
The power may go at any moment (`PowerCut`), when the chip has changed any part of what it was changing.
`BoardEnv` adds `check_crc` with its cached result, the functions used before the environment is in memory, the
steps of `board_env_save` around the driver calls, and a user who changes the environment, erases and writes.
An environment is a content of the sector with the right CRC (`Envs`). The CRC is the first word of the sector (`CrcWord`). That it fits nothing
but its environment becomes, with a byte being one bit, `CrcAssumption`: no byte of the CRC word is programmed in two
environments, and no whole word of one reads as erased. That a mixture of two environments is not an environment would not be
enough: with that alone TLC refutes `ImplementsStore`. A CRC word has four bytes here, so the assumption
admits up to four environments; the text behind the CRC may be as long as the sector.

The generic flash code of U-Boot (`flash_sect_protect`, `flash_sect_erase`, `flash_write`) is not in the repository.
It is taken to pass on what the driver returns, with errors negative as the comments in `flash.c` (516, 554) have it.
If its header defines them positive, the tests `rc < 0` in `env.c` never succeed, and a failed erase is handled
like one the user broke off: that case the model contains.

## Runs

| Run | Result | Shows |
|---|---|---|
| `tx_up` | passes | The ring of 2 with 3 skbs fills, wraps, is stopped and woken, closed, and meets changes of speed at any moment; all safety properties, both liveness properties, and the refinement of `TxFifo`, until the queue of a full ring is started |
| `tx_link` | `FilledOverOwn` violated | line 822 opens a full ring to `xmit` |
| `rx` | passes | ring of 2, 4 pages, frames of up to 2 pages, engine faults, pages that run out in `open` and in the poll, link changes; each call of `rx_packet` ends; refinement of `RxLine` |
| `rx_nomem` | `PagesGoUpOnce` violated | line 475 ignores a failed refill |
| `irq` | passes | every interleaving of handler, poll, link change, open, stop, with a ring larger than the budget; nothing forgotten but what the budget leaves, deaf by nothing but a relink, torn down in order, both rings served |
| `irq_relink` | `InterruptsComeBack` violated | `adjust_link` restores a mask that was temporary |
| `probe` | passes | every failure of `probe`, `remove`, opens whose reset fails, users, the PHY state machine, a MAC that answers late or never: nothing used outside of its life, answers belong to their calls, an address while open, everything comes to an end |
| `umac` | passes | ring of 3 and 2, frames of up to 2 buffers, errors in frames of 1; order, ownership, liveness of both rings through init, failed init and halt; refinement of `RxLine` |
| `umac_err` | `ReturnedToHardware` violated | line 526 returns one descriptor of a frame with several |
| `pci` | passes | 125 boards, functions that answer twice, spaces that are used up, resets at any moment: windows apart, aligned and inside; what decodes has the ones of the sizing in upper halves only |
| `env` | passes | two sectors of two words, two environments, aligned and unaligned user writes, three kinds of chip, power cuts; refinement of `EnvStore` |
| `env_err` | `SavedMeansStored` violated | `board_env_save` returns 0 whatever `flash_write` said |

**Bounds.** The code works modulo the ring size and never depends on it otherwise, so a ring of
two has every relation of the pointers (equal and empty, equal and full, apart, wrapped); three
skbs are one more than it holds. Two pages more than the ring let a page come back from the stack
while another is there; a frame of two pages fills the ring and wraps. A ring of three with five
pages satisfies the safety properties of `rx` too (16.9 million states, not kept as a run for its
time). The ring of `FtgmacNapi` holds two packets and the budget is one, since the code has 256 and 64: a poll may leave packets. The line has two speeds: 10, at which the MAC starts, and another. `PollComplete` allows
one write of `IER` outstanding. A receive ring of three lets `Ftmac100` hold a frame of two and one more, and a
transmit ring of two fills and wraps. Two sectors are one to protect and one to leave alone; words of four bytes at
two offsets give head, tail, both at once and neither; the environment is two words, so that power can go between
them. Two PHY addresses make the scan go on after one that fails or answers; two looks at PHYCR and MACCR are one that
finds a command under way and one that gives up; the code looks ten and five times and does nothing else in between. Two values tell
the data of one write from another's. Two buses, devices, functions and BARs each make every loop of the walk turn and end;
spaces of 80 and 24 bytes, of which a board asks for up to 96 and 24, are enough on some boards and not on others, and the I/O space
begins at an address that is no multiple of its larger BAR. A `Word` of 256 is above both, as 2^32 is in the code, and a board
that asks for more wraps round it; a walk can be restarted without bound.

One run has a state constraint: `rx` does not go beyond the step that sets `short` (`MCOnTrack`). No property of that run claims
anything after that step, so that none is weakened: the step itself is still checked, the invariants and action properties hold of
every later state by their form, and a behaviour that comes there meets `PacketEnds` and, through `Lose`, the line.

**Deadlock** is checked in every run but those of `FtgmacTx`. There a full ring that line 822 opened may lead completion to free a null skb
(640): the kernel oopses, and the model stops (`ppc = "oops"`). No other state without a successor is reachable.

**Fairness.** `Flash` and `BoardEnv` assume none: nothing promises that a wait for the chip ends. `FtPci` states no liveness, since a board may be reset for ever. Elsewhere, code that was entered runs on (weak fairness of the steps inside a function). The
engine serves the descriptors it owns; with a line that may change speed for ever this is strong fairness: speed does not change faster than the
engine takes a descriptor. An interrupt asserted again and again is taken (strong, as
the mask comes and goes). `stop` obtains what it waits for (strong: `napi_disable` against polls
that come and go, `phy_stop` against link changes and the calls of the PHY state machine). `FtgmacDev` assumes nothing of the MAC: that every call
returns is due to the driver's own counting. Nobody is obliged to send, to receive, to change
the line or to close the interface. The network loop of U-Boot calls `eth_rx` again and again (strong, as it is elsewhere in
between). `FtgmacNapi` needs one assumption about the line:
`SomeFramesAreGood`, frames are not all bad for ever. Without it the loop 1019-1021 need not end,
because dropped frames are not charged to the budget; this is listed as a hazard. `FtgmacRx` assumes
that the stack frees pages.

## What the violations say

* **tx_link.** A change of speed stops and starts the queue (819, 822). If all descriptors are taken, `xmit` runs on a descriptor the engine
  owns and writes skb, buffer and size under it, against 513-516.
* **rx_nomem.** The page goes up twice. The same unchecked failure has a second consequence, found with
  the same model: if the refill of the descriptor the engine is waiting at fails again, `rx_pointer`
  passes it, and driver and engine wait for each other.
* **irq_relink.** `adjust_link` reads `IER` while the handler has it masked, the poll enables it, and the 0 is
  written back last: the interface stays deaf.
* **umac_err.** The other descriptors of a bad frame stay with software. The engine reaches one a lap
  later and waits there; the driver, which waits elsewhere, does not notice.
* **env_err.** The caller of `board_env_save` is told 0 with the old environment gone and the new one not written.

The models show two more departures, which are not kept as runs; each is one constant away from a passing run:

* `SMP = TRUE` in `tx_up.cfg`: a poll on another processor reads a count that includes the descriptor and an OWN bit
  that is not set yet (624-630 against 693-698), frees its skb and zeroes it, and `xmit` gives the zeroed descriptor to the engine (`OwnHasBuffer`).
  No passing run covers two processors on the transmit ring.
* `BusyWrite = "ignore"` in `probe.cfg`: a call that follows one that timed out takes the end of the former command
  for its own and returns data of another PHY (`AnswersFit`).

Others are steps of a passing run, and its properties say no more than is true. In `FtgmacNapi` packets beyond an exhausted budget wait for the next
frame to raise RPKT_BUF (1007, 1023): `RestMeansDone` and `RingsServed` allow just what `left` counts. A poll or a link change
under way enables interrupts again after `stop` has masked them (1123), when the handler no longer masks. `old_speed`
survives `stop`, so that after down and up on a line of unchanged speed the MAC stays at the 10 Mbps `open` starts it with. In
`FtgmacDev` an address a user sets between the test and `random_ether_addr` (1288-1289) is overwritten, even under
an interface that is open by then: `AddressWhileUp` excepts exactly that. In `Flash` an
unaligned write after an erase that timed out may read the chip's status for the bytes around the request and program it over them, if
the erase ends before the command: `NeighboursKept` excepts what `misread` marks, and is violated in nine steps without. In `FtPci`
a function with a BAR of 64 bits is enabled with ones in its upper half (217-226, 366): `OnesOnlyInUpperHalves` says that this happens to every such BAR.

## Proofs

| Theorem | For every | Assuming |
|---|---|---|
| `TypeCorrect` | ring, skbs, SMP, link, engine restart | nothing |
| `RingCorrect`, `OwnedDescriptorsAreFilled`, `FreedAfterTransmission`, `SkbsAreTracked`, `QueueProtectsRing`, `OwnedDescriptorsAreFrozen` | ring size, skbs, link, engine restart | `SMP = FALSE`; they hold until `reopened` |
| `RingIsFifo` | ring size, skbs, link | the same, and the engine goes on where it was after a restart |
| `NapiTypeCorrect`, `StopIsOrderly`, `NothingIsForgotten` | ring, budget, speeds | nothing |
| `RxTypeCorrect` | ring, pages, frame length, allocator, faults, restart | nothing |
| `PagesAreTracked` | the same | nothing; it holds until `short` |
| `WholeFramesGoUp`, `DmaStaysInRing` | the same | frames fit a page; they hold until `short` |
| `LongFramesGoUp`, `LongFramesStayInRing`, `RingIsLine` | ring, pages, frames of any length, allocator, faults | the engine goes on where it was after a restart; they hold until `short` |
| `DevTypeCorrect`, `DevLifetimes`, `AddressIsValid` | addresses, values, looks, whatever the MAC does | nothing |
| `MdioAnswersFit` | the same | `BusyWrite = "restart"` |
| `PciTypeCorrect`, `PciWindowsApart`, `PciOnesOnlyInUpperHalves` | numbers, boards, spaces, alignments | what the constants assume: spaces below `Word`, no BAR below the alignment |
| `UbootTypeCorrect`, `PacketsLeaveInOrder`, `PacketsGoOutInOrder` | rings, packets, frame length, errors | nothing |
| `DescriptorsReturn`, `RingIsLine` | rings, packets, frame length | a frame with an error takes one descriptor |
| `EnvTypeCorrect`, `NoTickWhileErasing`, `ProtectedSectorsStay`, `NeighboursStay`, `OkIsDone`, `StoreImplemented` | geometry, chips, environments, requests | nothing beyond the constants' assumptions |

The assumptions, and the two history variables, are what the violation runs and the departures above drop: `reopened` and `short` are set
by one line of the code each, 822 over a full ring and 475 after a failed allocation, and the theorems say that nothing else
breaks the rings.

*Transmit.* The invariant is `RingInv`: `RingSound`, or `reopened`. The window of `InRing` slots from `tx_clean_pointer` holds skbs,
everything outside is reset; `tx_pointer` is its end; OWN says that the engine has not sent the skb, except
in the slot being filled; a full ring is a stopped queue; each skb the driver holds is in the window once.
`InRing` is `tx_pending` corrected by what `xmit` has taken and not counted and what completion has freed and
not uncounted: the three properties about OWN, freeing and tracking are not inductive without it. The
lemmas on `Dist` say how the window moves when it grows at the end and shrinks at the start.
For `RingIsFifo` the window is the line: `EngineInv` says that the engine stands behind the first `m` of its skbs and that
exactly these are sent. `m` is then the length of `done`, the rest is `waiting`; `XmitOwn` changes neither,
`HardStartXmit` is the step that accepts, `HwTransmit` moves one skb over, `CompFree` releases the first.

*Receive.* The invariant relates pages, descriptors and program counter: mapped pages and descriptors
correspond one to one, with the exception of the page just put into the skb; pages in the skb are distinct
and not in the ring; what a ready descriptor says is what its page holds.
For frames of several pages this says too little: the rest of a frame must stand behind its first page. `LongInv` adds that
the ready descriptors are a window from `rx_pointer` to the engine (`WindowInv`), that in it each good segment is
followed by the next one of its frame (`SegsInv`), and that skb and window together hold the segments of one frame
in order (`PacketInv`). The segments of the window are the line of `RxLine`, the descriptor the poll has emptied
and not yet given back being out of it already (`Looked`). `RxInv` alone holds for any restart of the engine, the window does not.

*Control.* `StopIsOrderly` needs which of the teardown steps implies which party has gone: after `napi_disable`
no poll, after `phy_stop` no link change, after `free_irq` no handler. `NothingIsForgotten` needs, for each
cause and each point of the poll, where the obligation is: in `ISR`, in `status`, in the loop, or among the `left`.

*Probe and MDIO.* `DevInv` says, for each point of `probe` and `remove`, which resources are held (all below `step`, in
order) and who may use them. `AddressInv` adds that an interface in use has an address. `CmdInv`
follows one command from PHYCR to the answer: while a call looks, the command the MAC shows is the call's own, or it is done.

*PCI.* `PlaceInv`: every window of this walk ends at or below the next address of its space as long as the space suffices, and
the next address only grows; so a new window is apart from all others, and alignment is that of `AlignUp`, for which `AlignUp` is
shown to return the next multiple. A function sized again loses its old windows first. `DecodeInv`: a function whose command register is
on has ones in its upper halves and nowhere else, because only the function the walk stands at is being sized, that one is off, and by the
time it is switched on the loop has passed each register.
`WalkInv`: all numbers before the present one that answer are served; `Advance` goes to the next number of the order.

*U-Boot Ethernet.* `TxRun` is inductive with types and the fact that the descriptor being filled is the driver's: the run of
owned descriptors grows at its end and shrinks at its start, and the full ring is the case in which the two ends meet. `PacketsGoOutInOrder` reads the packets off
that run and shows for each step what it does to the queue. On the receive side (`RxInv`)
software owns a window that begins at the first descriptor not given back, in the middle of a call `start_idx`, and ends where the engine is;
it is made of whole frames but for what was given back of the first; and the two loops stay inside of it. Only a frame with an
error that takes one descriptor leaves it whole. `RingIsLine` adds that the pieces of a frame bear its name
(`FrameNames`), and that what the second loop has copied and has yet to copy are the pieces of one good frame (`CopyInv`).

*Flash.* `NoTickWhileErasing` needs that an erase under way when a call begins (one that timed out before) has left
interrupts off, so that the call saves them as off and does not switch them on (`Masked`). `ProtectedSectorsStay` needs
that the sectors the loop has yet to go through are unprotected: the protection changes only between calls.
`NeighboursStay` needs where the rest of the source belongs (`Placed`), and that a word put together while the chip was ready
stays what it is until the command, the chip having nothing to do; and type correctness that it ends inside of the flash (`Room`).
`OkIsDone` needs, at each point of a call, which bytes are already as asked for and where the others are to come from (`Progress`):
below the sector of the loop all protected ones aside, below `wp` in a write, and that what is done
is not changed again, because an unaligned head or tail repeats what it finds.

*Environment.* The abstract environment in the flash is the content of the sector if that is one, and none else, so the steps of the
driver on that sector must be shown to store the one in memory, to lose what was there, or to change nothing of the two. An erase
loses it whatever it leaves. A programmed byte can only make up the
environment in memory: nobody but the save writes there (`Saving`), and as two environments share no programmed byte of the CRC, one such
byte, on its way or already there, rules all others out. For the cut of the power the same is said of what the chip had done so far.

**Only model-checked.** Liveness is out of the provers' reach: `SkbsComeBack`, `QueueRestarts`, `DeafOnlyByRelink`, `RingsServed`,
`PacketEnds` (the end of `rx_packet`), `SendEnds` and `EveryCallReturns` (MDIO, reset and `remove` among them). So is the fairness that
`ImplementsFifo` and both `ImplementsLine` state beside the steps: their safety parts `FifoSpec` and `LineSpec` are what is proved;
`EnvStore` has no fairness, and `StoreImplemented` is the whole of `ImplementsStore`. What the recursive functions and `CHOOSE`
in the mappings return is proved where the refinements need it and nowhere else.

## Not modelled

* The serial port (`serial.c`, `flib_serial.c`): each function writes one register, or waits without limit for one status bit and
  moves one byte; it keeps no state between calls. (The modem functions measure their time-outs with a clock that always reads 0,
  and are not called.)
* The set-up of the PCI bridge's own registers and the commands of the user on it; flash commands of the 8 and 16-bit
  bus and other library functions that are not called; the USB stub, which is empty; constants in headers.
* Statistics, logging, checksum offload, the texts ethtool reports.
* Memory ordering: each module writes in program order (line 733 has no barrier where the transmit side has one), and store
  order of the two processors in `SMP = TRUE` goes no further than the interleaving of whole steps.
* The U-Boot and Linux code around these files, which is external: network core, PHY library, generic flash commands.

## Plan

1. Store ordering of `alloc_rx_page` (733) as a model of its own, with the engine reading descriptor words one by one.
2. The transmit ring on two processors (`SMP = TRUE`): what is left of the ring properties when a poll elsewhere takes a counted descriptor
   for a transmitted one, said in the way `reopened` says it of line 822.
