------------------------------ MODULE FtgmacTx ------------------------------
(***************************************************************************)
(* The transmit half of the Linux FTGMAC100 driver                         *)
(* (faraday-tech/drivers/net/ftgmac100.c): the descriptor ring shared by   *)
(* three parties that never wait for each other,                           *)
(*                                                                         *)
(*   - ftgmac100_hard_start_xmit / ftgmac100_xmit, called by the stack,    *)
(*   - ftgmac100_tx_complete, called from the NAPI poll,                   *)
(*   - the MAC's transmit DMA engine (external hardware),                  *)
(*                                                                         *)
(* and disturbed by ftgmac100_adjust_link (PHY work), ftgmac100_open and   *)
(* ftgmac100_stop.                                                         *)
(*                                                                         *)
(* Every program counter value stands for a point of the C function that   *)
(* another party can observe.  On a uniprocessor (SMP = FALSE) xmit and    *)
(* poll both run with bottom halves off and exclude each other; the        *)
(* process context of adjust_link, open and stop can be interrupted by     *)
(* either.  With SMP = TRUE only the driver's own spinlock orders them.    *)
(***************************************************************************)
EXTENDS Integers, FiniteSets, Sequences

CONSTANTS
  N,            \* TX_QUEUE_ENTRIES
  Skbs,         \* socket buffers of the stack
  NoSkb,        \* a zero txdes2 / txdes3
  SMP,          \* xmit and poll may run on two processors
  HwRestart     \* what init_hw/start_hw may do to the DMA engine (external)

ASSUME NAssumption == N \in Nat \ {0}
ASSUME SkbAssumption == NoSkb \notin Skbs
ASSUME SmpAssumption == SMP \in BOOLEAN
ASSUME HwAssumption ==
  HwRestart \subseteq {"keep", "rewind", "forget"} /\ HwRestart # {}

VARIABLES
  txdes,             \* priv->descs->txdes
  tx_pointer,        \* next descriptor to fill
  tx_clean_pointer,  \* next descriptor to complete
  tx_pending,        \* descriptors handed over and not completed
  xoff,              \* netif_stop_queue is in effect
  netif,             \* "up", "stopping" (in ftgmac100_stop) or "down"
  xpc, xdes,         \* ftgmac100_xmit: where it is, the descriptor it fills
  ppc,               \* ftgmac100_tx_complete_packet: where it is
  apc,               \* ftgmac100_adjust_link: where it is
  hwPtr,             \* descriptor the DMA engine looks at; N is off the ring
  hwActive,          \* the engine polls (NPTXPD was written)
  hwOn,              \* MACCR has TXDMA_EN
  isr,               \* XPKT_ETH or XPKT_LOST is set in ISR
  owner,             \* who holds each skb; "freed" ones may be reused
  reopened           \* history: line 822 has started the queue over a full ring

vars == <<txdes, tx_pointer, tx_clean_pointer, tx_pending, xoff, netif, xpc,
          xdes, ppc, apc, hwPtr, hwActive, hwOn, isr, owner, reopened>>
swRing == <<txdes, tx_pointer, tx_clean_pointer, tx_pending>>
hw     == <<hwPtr, hwActive, hwOn>>

Slots == 0 .. N - 1
Desc  == [own   : BOOLEAN,               \* TXDES0_TXDMA_OWN
          edotr : BOOLEAN,               \* TXDES0_EDOTR
          skb   : Skbs \cup {NoSkb},     \* txdes2
          map   : Skbs \cup {NoSkb}]     \* txdes3, size, FTS, LTS, TXIC, checksum

\* The type invariant.  tx_pending is unsigned in the code: that it never
\* wraps below zero is part of it (line 647 decrements without a test).
TypeOK ==
  /\ txdes \in [Slots -> Desc]
  /\ tx_pointer \in Slots
  /\ tx_clean_pointer \in Slots
  /\ tx_pending \in Nat
  /\ xoff \in BOOLEAN
  /\ netif \in {"up", "stopping", "down"}
  /\ xpc \in {"idle", "lock", "own", "kick"}
  /\ xdes \in Slots
  /\ ppc \in {"idle", "check", "free", "dec", "wake", "oops"}
  /\ apc \in {"idle", "start", "init"}
  /\ hwPtr \in 0 .. N
  /\ hwActive \in BOOLEAN
  /\ hwOn \in BOOLEAN
  /\ isr \in BOOLEAN
  /\ owner \in [Skbs -> {"stack", "driver", "sent", "freed"}]
  /\ reopened \in BOOLEAN

-----------------------------------------------------------------------------
(* Descriptor helpers                                                      *)

\* Definitions named Mut... are plausible bugs, each in place of the
\* definition that follows it; the specification never uses them.
Mut_next_tx_pointer(p) == p + 1
next_tx_pointer(p) == (p + 1) % N      \* & (TX_QUEUE_ENTRIES - 1)

\* memset by alloc_buffers, end of ring set on the last descriptor
FreshDesc(i) == [own |-> FALSE, edotr |-> i = N - 1, skb |-> NoSkb, map |-> NoSkb]

Mut_reset_keeps_skb(d) == [d EXCEPT !.own = FALSE, !.map = NoSkb]
Mut_reset_all(d) == [own |-> FALSE, edotr |-> FALSE, skb |-> NoSkb, map |-> NoSkb]

txdes_reset(d) == [own |-> FALSE, edotr |-> d.edotr, skb |-> NoSkb, map |-> NoSkb]

\* the descriptor the engine looks at after d at position p
HwNext(d, p) == IF d.edotr THEN 0 ELSE p + 1

SetOwner(S, w) == [s \in Skbs |-> IF s \in S THEN w ELSE owner[s]]

XmitMayRun == SMP \/ ppc = "idle"                     \* bottom halves are off
PollMayRun == SMP \/ xpc = "idle"
TaskMayRun == SMP \/ (ppc = "idle" /\ xpc = "idle")   \* process context

-----------------------------------------------------------------------------
Init ==
  /\ txdes = [i \in Slots |-> FreshDesc(i)]
  /\ tx_pointer = 0 /\ tx_clean_pointer = 0 /\ tx_pending = 0
  /\ xoff = FALSE /\ netif = "up"
  /\ xpc = "idle" /\ xdes = 0 /\ ppc = "idle" /\ apc = "idle"
  /\ hwPtr = 0 /\ hwActive = FALSE /\ hwOn = TRUE
  /\ isr = FALSE
  /\ owner = [s \in Skbs |-> "freed"]
  /\ reopened = FALSE

(* The stack (external): allocate a buffer. *)
Alloc(s) ==
  /\ owner[s] = "freed"
  /\ owner' = SetOwner({s}, "stack")
  /\ UNCHANGED <<swRing, xoff, netif, xpc, xdes, ppc, apc, reopened, hw, isr>>

\* dev_queue_xmit: the stack calls the driver while the queue is started
MayTransmit(s) ==
  /\ owner[s] = "stack"
  /\ netif = "up" /\ ~xoff
  /\ xpc = "idle" /\ XmitMayRun

(* hard_start_xmit: oversized, or dma_map_single fails. *)
HardStartXmitDrop(s) ==
  /\ MayTransmit(s)
  /\ owner' = SetOwner({s}, "freed")
  /\ UNCHANGED <<swRing, xoff, netif, xpc, xdes, ppc, apc, reopened, hw, isr>>

\* the pointer does not move on
Mut_HardStartXmit(s) ==
  /\ MayTransmit(s)
  /\ xdes' = tx_pointer
  /\ txdes' = [txdes EXCEPT ![tx_pointer].skb = s, ![tx_pointer].map = s]
  /\ owner' = SetOwner({s}, "driver")
  /\ xpc' = "lock"
  /\ UNCHANGED <<tx_pointer, tx_clean_pointer, tx_pending, xoff, netif, ppc,
                 apc, reopened, hw, isr>>

(* hard_start_xmit and xmit up to the lock: take the descriptor, advance,  *)
(* write every field but OWN.                                              *)
HardStartXmit(s) ==
  /\ MayTransmit(s)
  /\ xdes' = tx_pointer
  /\ tx_pointer' = next_tx_pointer(tx_pointer)
  /\ txdes' = [txdes EXCEPT ![tx_pointer].skb = s, ![tx_pointer].map = s]
  /\ owner' = SetOwner({s}, "driver")
  /\ xpc' = "lock"
  /\ UNCHANGED <<tx_clean_pointer, tx_pending, xoff, netif, ppc, apc,
                 reopened, hw, isr>>

\* compares the count before the increment
Mut_XmitPend ==
  /\ xpc = "lock"
  /\ tx_pending' = tx_pending + 1
  /\ xoff' = (xoff \/ tx_pending = N)
  /\ xpc' = "own"
  /\ UNCHANGED <<txdes, tx_pointer, tx_clean_pointer, netif, xdes, ppc, apc,
                 reopened, hw, isr, owner>>

(* xmit under tx_lock: count the descriptor, stop the queue at the last.   *)
XmitPend ==
  /\ xpc = "lock"
  /\ tx_pending' = tx_pending + 1
  /\ xoff' = (xoff \/ tx_pending + 1 = N)
  /\ xpc' = "own"
  /\ UNCHANGED <<txdes, tx_pointer, tx_clean_pointer, netif, xdes, ppc, apc,
                 reopened, hw, isr, owner>>

\* takes the descriptor of the advanced pointer
Mut_XmitOwn ==
  /\ xpc = "own"
  /\ txdes' = [txdes EXCEPT ![tx_pointer].own = TRUE]
  /\ xpc' = "kick"
  /\ UNCHANGED <<tx_pointer, tx_clean_pointer, tx_pending, xoff, netif, xdes,
                 ppc, apc, reopened, hw, isr, owner>>

(* xmit, still under tx_lock: wmb, then OWN. *)
XmitOwn ==
  /\ xpc = "own"
  /\ txdes' = [txdes EXCEPT ![xdes].own = TRUE]
  /\ xpc' = "kick"
  /\ UNCHANGED <<tx_pointer, tx_clean_pointer, tx_pending, xoff, netif, xdes,
                 ppc, apc, reopened, hw, isr, owner>>

\* only for the first descriptor, the engine being busy otherwise
Mut_XmitKick ==
  /\ xpc = "kick"
  /\ hwActive' = (hwActive \/ tx_pending = 1)
  /\ xpc' = "idle"
  /\ UNCHANGED <<swRing, xoff, netif, xdes, ppc, apc, reopened, hwPtr, hwOn,
                 isr, owner>>

(* xmit after the unlock: write NPTXPD. *)
XmitKick ==
  /\ xpc = "kick"
  /\ hwActive' = TRUE
  /\ xpc' = "idle"
  /\ UNCHANGED <<swRing, xoff, netif, xdes, ppc, apc, reopened, hwPtr, hwOn,
                 isr, owner>>

-----------------------------------------------------------------------------
(* The transmit DMA engine (external)                                      *)

HwSend ==
  /\ hwOn /\ hwActive /\ hwPtr \in Slots
  /\ LET d == txdes[hwPtr] IN
     /\ d.own
     /\ txdes' = [txdes EXCEPT ![hwPtr].own = FALSE]
     /\ owner' = SetOwner({s \in Skbs : s = d.map /\ owner[s] = "driver"}, "sent")
     /\ hwPtr' = HwNext(d, hwPtr)
  /\ isr' = TRUE
  /\ UNCHANGED <<tx_pointer, tx_clean_pointer, tx_pending, xoff, netif, xpc,
                 xdes, ppc, apc, reopened, hwActive, hwOn>>

\* a descriptor it does not own ends the polling until the next NPTXPD
HwIdle ==
  /\ hwOn /\ hwActive
  /\ hwPtr \in Slots => ~txdes[hwPtr].own
  /\ hwActive' = FALSE
  /\ UNCHANGED <<swRing, xoff, netif, xpc, xdes, ppc, apc, reopened, hwPtr,
                 hwOn, isr, owner>>

-----------------------------------------------------------------------------
(* The NAPI poll: acknowledge, then complete packets until one is not done *)

PollStart ==
  /\ netif # "down" /\ PollMayRun
  /\ ppc = "idle"
  /\ isr
  /\ isr' = FALSE
  /\ ppc' = "check"
  /\ UNCHANGED <<swRing, xoff, netif, xpc, xdes, apc, reopened, hw, owner>>

CleanDesc == txdes[tx_clean_pointer]

(* tx_complete_packet: nothing pending, or the oldest is the engine's *)
CompNone ==
  /\ ppc = "check" /\ PollMayRun
  /\ tx_pending = 0 \/ CleanDesc.own
  /\ ppc' = "idle"
  /\ UNCHANGED <<swRing, xoff, netif, xpc, xdes, apc, reopened, hw, isr, owner>>

\* does not ask who owns the descriptor
Mut_CompCheck ==
  /\ ppc = "check" /\ PollMayRun
  /\ tx_pending # 0
  /\ ppc' = "free"
  /\ UNCHANGED <<swRing, xoff, netif, xpc, xdes, apc, reopened, hw, isr, owner>>

(* tx_complete_packet: the oldest is done.  Both tests read without the lock. *)
CompCheck ==
  /\ ppc = "check" /\ PollMayRun
  /\ tx_pending # 0 /\ ~CleanDesc.own
  /\ ppc' = "free"
  /\ UNCHANGED <<swRing, xoff, netif, xpc, xdes, apc, reopened, hw, isr, owner>>

(* tx_complete_packet: unmap and free the skb, reset the descriptor and    *)
(* advance.  skb->len of a null txdes2 is a kernel oops.                   *)
CompFree ==
  /\ ppc = "free" /\ PollMayRun
  /\ owner' = SetOwner({CleanDesc.skb}, "freed")
  /\ txdes' = [txdes EXCEPT ![tx_clean_pointer] = txdes_reset(CleanDesc)]
  /\ tx_clean_pointer' = next_tx_pointer(tx_clean_pointer)
  /\ ppc' = IF CleanDesc.skb = NoSkb THEN "oops" ELSE "dec"
  /\ UNCHANGED <<tx_pointer, tx_pending, xoff, netif, xpc, xdes, apc,
                 reopened, hw, isr>>

(* tx_complete_packet: the decrement under tx_lock. *)
CompDec ==
  /\ ppc = "dec" /\ PollMayRun
  /\ xpc # "own"                                  \* tx_lock is free
  /\ tx_pending' = tx_pending - 1
  /\ ppc' = "wake"
  /\ UNCHANGED <<txdes, tx_pointer, tx_clean_pointer, xoff, netif, xpc, xdes,
                 apc, reopened, hw, isr, owner>>

(* tx_complete_packet: netif_wake_queue, outside the lock; the loop of     *)
(* tx_complete calls it again.                                             *)
CompWake ==
  /\ ppc = "wake" /\ PollMayRun
  /\ xoff' = FALSE
  /\ ppc' = "check"
  /\ UNCHANGED <<swRing, netif, xpc, xdes, apc, reopened, hw, isr, owner>>

-----------------------------------------------------------------------------
(* ftgmac100_adjust_link (phydev->speed differs from old_speed): at any    *)
(* moment of the ring's life.  Its IER accesses are in FtgmacNapi.         *)

(* netif_stop_queue and stop_hw *)
AdjustStop ==
  /\ TaskMayRun
  /\ netif # "down" /\ apc = "idle"
  /\ xoff' = TRUE
  /\ hwOn' = FALSE
  /\ apc' = "start"
  /\ UNCHANGED <<swRing, netif, xpc, xdes, ppc, hwPtr, hwActive, isr, owner,
                 reopened>>

\* forgets netif_start_queue
Mut_AdjustStart ==
  /\ apc = "start" /\ TaskMayRun
  /\ apc' = "init"
  /\ UNCHANGED <<swRing, xoff, netif, xpc, xdes, ppc, hw, isr, owner, reopened>>

(* netif_start_queue: xmit may run again from here, whatever the ring      *)
(* holds.  reopened only remembers that it held everything it can.         *)
AdjustStart ==
  /\ apc = "start" /\ TaskMayRun
  /\ xoff' = FALSE
  /\ apc' = "init"
  /\ reopened' = (reopened \/ tx_pending >= N)
  /\ UNCHANGED <<swRing, netif, xpc, xdes, ppc, hw, isr, owner>>

(* init_hw writes the ring base, start_hw enables the engine.  What the    *)
(* engine then makes of its position and of a pending NPTXPD is external.  *)
AdjustInit ==
  /\ apc = "init" /\ TaskMayRun
  /\ hwOn' = TRUE
  /\ \E r \in HwRestart :
       /\ hwPtr' = IF r = "rewind" THEN 0 ELSE hwPtr
       /\ hwActive' = (hwActive /\ r # "forget")
  /\ apc' = "idle"
  /\ UNCHANGED <<swRing, xoff, netif, xpc, xdes, ppc, isr, owner, reopened>>

-----------------------------------------------------------------------------
(* ftgmac100_stop: IER off and netif_stop_queue.  The core deactivated the *)
(* queue before the call, so xmit is not running.                          *)
StopQueue ==
  /\ netif = "up" /\ xpc = "idle" /\ TaskMayRun
  /\ netif' = "stopping"
  /\ xoff' = TRUE
  /\ UNCHANGED <<swRing, xpc, xdes, ppc, apc, reopened, hw, isr, owner>>

(* napi_disable waits for the poll, phy_stop for adjust_link; then stop_hw *)
(* and free_buffers, which frees every skb a descriptor still names.       *)
StopFree ==
  /\ netif = "stopping"
  /\ ppc = "idle" /\ apc = "idle"
  /\ netif' = "down"
  /\ hwOn' = FALSE
  /\ owner' = SetOwner({txdes[i].skb : i \in Slots}, "freed")
  /\ UNCHANGED <<swRing, xoff, xpc, xdes, ppc, apc, reopened, hwPtr, hwActive,
                 isr>>

(* ftgmac100_open: alloc_buffers, pointers, reset_hw (which clears all     *)
(* registers), init_hw, start_hw and netif_start_queue.                    *)
Open ==
  /\ netif = "down"
  /\ txdes' = [i \in Slots |-> FreshDesc(i)]
  /\ tx_pointer' = 0 /\ tx_clean_pointer' = 0 /\ tx_pending' = 0
  /\ hwPtr' = 0 /\ hwActive' = FALSE /\ hwOn' = TRUE
  /\ isr' = FALSE
  /\ xoff' = FALSE
  /\ netif' = "up"
  /\ UNCHANGED <<xpc, xdes, ppc, apc, reopened, owner>>

-----------------------------------------------------------------------------
XmitStep == XmitPend \/ XmitOwn \/ XmitKick
CompStep == CompNone \/ CompCheck \/ CompFree \/ CompDec \/ CompWake
HwStep   == HwSend \/ HwIdle
LinkStep == AdjustStart \/ AdjustInit

Next ==
  \/ \E s \in Skbs : Alloc(s) \/ HardStartXmitDrop(s) \/ HardStartXmit(s)
  \/ XmitStep
  \/ HwStep
  \/ PollStart \/ CompStep
  \/ AdjustStop \/ LinkStep
  \/ StopQueue \/ StopFree \/ Open

Spec == Init /\ [][Next]_vars

(* Code that has been entered runs on and a raised interrupt gets its      *)
(* poll.  The engine serves its ring whenever it is on: the line may       *)
(* change speed again and again, but not faster than the engine takes one  *)
(* descriptor (strong fairness).  Nobody is obliged to send, to change the *)
(* link or to close the interface.                                         *)
Fairness ==
  /\ WF_vars(XmitStep)
  /\ SF_vars(HwStep)
  /\ WF_vars(PollStart)
  /\ WF_vars(CompStep)
  /\ WF_vars(LinkStep)
  /\ SF_vars(StopFree)     \* phy_stop obtains the lock adjust_link runs under

FairSpec == Spec /\ Fairness

-----------------------------------------------------------------------------
(* Properties.  adjust_link starts the queue whatever the ring holds       *)
(* (line 822): over a full ring nothing that follows is true any more, as  *)
(* FilledOverOwn shows.  The other properties say that this is the only    *)
(* way to break the ring: each holds, whatever the link does, as long as   *)
(* line 822 has not met a full ring ("reopened").                          *)

\* Descriptors taken from tx_clean_pointer on that still hold an skb: those
\* counted in tx_pending, the one xmit has not counted yet, less the one the
\* completion has freed and not uncounted.
InRing == tx_pending + (IF xpc = "lock" THEN 1 ELSE 0)
                     - (IF ppc = "dec" THEN 1 ELSE 0)

\* Lines 513-516: "Make sure dma own bit will not be set before any other
\* descriptor fields."  Whatever the engine owns names a buffer to send, and
\* the same one in txdes2 as in txdes3.  (A closed interface has no ring.)
OwnHasBuffer ==
  netif # "down" /\ ~reopened =>
    \A i \in Slots :
      txdes[i].own => txdes[i].skb # NoSkb /\ txdes[i].map = txdes[i].skb

\* no step of the driver changes a descriptor that is the engine's; only the
\* engine hands it back (open starts from a new ring)
FreezesDesc ==
  netif # "down" =>
    \A i \in Slots : txdes[i].own =>
      txdes'[i] \in {txdes[i], [txdes[i] EXCEPT !.own = FALSE]}

\* The other half of lines 513-516: while the engine owns a descriptor, its
\* fields are final.  The link may change speed with any number of
\* descriptors in flight; only the queue of a full ring must not be started.
OwnFreezesDesc == [][~reopened => FreezesDesc]_vars

\* Lines 513-516 to the letter: the own bit is never set before another
\* field, whatever happened before.  Line 822 breaks it.
FilledOverOwn == [][FreezesDesc]_vars

\* Line 640 frees an skb only after the engine transmitted it: the two
\* unlocked tests at 624 and 629 never mistake a descriptor that is being
\* filled, or a zeroed one, for a transmitted one.
NoEarlyFree ==
  ppc = "free" /\ ~reopened =>
    CleanDesc.skb # NoSkb /\ owner[CleanDesc.skb] = "sent"

\* Line 574: txdes2 keeps track of the socket buffer.  Every skb the driver
\* took from the stack and did not free is named by exactly one descriptor,
\* so completion and free_buffers reach it, once.
TxSkbTracked ==
  netif # "down" /\ ~reopened =>
    /\ \A s \in Skbs : owner[s] \in {"driver", "sent"}
         => \E i \in Slots : txdes[i].skb = s
    /\ \A i, j \in Slots : txdes[i].skb = txdes[j].skb /\ txdes[i].skb # NoSkb => i = j
    /\ \A i \in Slots : txdes[i].skb # NoSkb => owner[txdes[i].skb] \in {"driver", "sent"}

\* Lines 693-695 and 646-649: the stack may call xmit only while the
\* descriptor at tx_pointer is free.  Lines 819-822 do not break it by
\* stopping and starting the queue of a ring that is partly filled.
NextDescFree ==
  netif = "up" /\ ~xoff /\ xpc = "idle" /\ ppc = "idle" /\ ~reopened =>
    /\ tx_pending < N
    /\ txdes[tx_pointer] = FreshDesc(tx_pointer)

\* An skb the driver accepted is freed: transmitted and completed, or
\* dropped by stop.  Depends on OWN before NPTXPD, on the completion loop and
\* on the acknowledgement before it, and on the engine going on after a
\* change of speed in the middle of its work.
SkbsComeBack ==
  \A s \in Skbs : owner[s] = "driver" ~> owner[s] = "freed" \/ reopened

\* A queue that xmit or adjust_link stopped is started again, or the
\* interface is closed.
QueueRestarts ==
  xoff /\ netif = "up" ~> ~xoff \/ netif # "up" \/ reopened

-----------------------------------------------------------------------------
(* The inductive invariant behind the safety properties, for SMP = FALSE.  *)

\* how far slot i lies behind the oldest one
Dist(i) == IF i >= tx_clean_pointer THEN i - tx_clean_pointer
                                    ELSE i - tx_clean_pointer + N

Occupied(i) == Dist(i) < InRing

Filling(i) == xpc \in {"lock", "own"} /\ i = xdes

\* who can be where: bottom halves exclude each other, stop waits for all
ControlInv ==
  /\ xpc = "idle" \/ ppc = "idle"
  /\ ppc # "oops"
  /\ netif # "up" => xpc = "idle"
  /\ netif = "down" => ppc = "idle" /\ apc = "idle"

\* the three pointers and the count agree
PointerInv ==
  /\ InRing \in 0 .. N
  /\ tx_pointer = IF tx_clean_pointer + InRing < N
                  THEN tx_clean_pointer + InRing
                  ELSE tx_clean_pointer + InRing - N
  /\ xpc \in {"lock", "own"} => InRing > 0 /\ Dist(xdes) = InRing - 1
  /\ ppc = "free" => InRing > 0

\* a full ring stops the queue, and completion leaves room before it wakes it
QueueInv ==
  /\ InRing = N /\ xpc # "lock" => xoff
  /\ ppc \in {"dec", "wake"} => InRing < N

\* descriptors outside the window are clean, those inside name an skb of ours
WindowInv ==
  \A i \in Slots :
    IF Occupied(i)
    THEN /\ txdes[i].edotr = (i = N - 1)
         /\ txdes[i].skb \in Skbs /\ txdes[i].map = txdes[i].skb
         /\ owner[txdes[i].skb] \in {"driver", "sent"}
    ELSE txdes[i] = FreshDesc(i)

\* OWN says exactly that the engine has not sent the skb yet
OwnInv ==
  /\ \A i \in Slots : Occupied(i) =>
       (owner[txdes[i].skb] = "driver" <=> txdes[i].own \/ Filling(i))
  /\ \A i \in Slots : Filling(i) => ~txdes[i].own
  /\ ppc = "free" => ~CleanDesc.own

\* each skb the driver holds is in the window once
TrackInv ==
  /\ \A s \in Skbs : owner[s] \in {"driver", "sent"}
       => \E i \in Slots : Occupied(i) /\ txdes[i].skb = s
  /\ \A i, j \in Slots :
       Occupied(i) /\ Occupied(j) /\ txdes[i].skb = txdes[j].skb => i = j

RingSound ==
  /\ ControlInv
  /\ netif # "down" => PointerInv /\ QueueInv /\ WindowInv /\ OwnInv /\ TrackInv
  /\ netif = "down" => \A s \in Skbs : owner[s] \notin {"driver", "sent"}

\* Pointers, count, window, OWN bits, owners and the state of the queue agree
\* until line 822 starts the queue of a full ring.
RingInv == reopened \/ RingSound

-----------------------------------------------------------------------------
(* The ring as the line of TxFifo                                          *)

\* the slot k places behind the oldest one, and the skb there
SlotAt(k) == IF tx_clean_pointer + k < N THEN tx_clean_pointer + k
                                         ELSE tx_clean_pointer + k - N
SkbAt(k)  == txdes[SlotAt(k)].skb

IsSent(k) == SkbAt(k) \in Skbs /\ owner[SkbAt(k)] = "sent"

\* how many skbs, counted from the oldest, the engine has sent
SentCount == CHOOSE m \in 0 .. InRing :
               /\ \A k \in 0 .. m - 1 : IsSent(k)
               /\ m < InRing => ~IsSent(m)

\* the skbs at distances a to b - 1, as a sequence
RingPart(a, b) == [k \in 1 .. b - a |-> SkbAt(a + k - 1)]

\* there is a line while the interface is open, and no longer than line 822
\* leaves a full ring closed: the step that opens it flushes the line
NoLine  == netif = "down" \/ reopened
Waiting == IF NoLine THEN <<>> ELSE RingPart(SentCount, InRing)
Done    == IF NoLine THEN <<>> ELSE RingPart(0, SentCount)

Fifo == INSTANCE TxFifo WITH
  Capacity <- N,
  Buffers  <- Skbs,
  waiting  <- Waiting,
  done     <- Done

\* The ring with its three pointers, OWN bits and locks implements the line:
\* xmit accepts (lines 667-690), the engine transmits, line 640 releases,
\* stop flushes, and a change of speed leaves the line as it is.
ImplementsFifo == Fifo!FifoFairSpec

\* Where the DMA engine stands: m skbs from the oldest on are sent, and no
\* other; it looks at the descriptor behind them.
EngineAt(m) ==
  /\ \A k \in 0 .. InRing - 1 : owner[SkbAt(k)] = "sent" <=> k < m
  /\ hwPtr = IF m = N THEN tx_clean_pointer ELSE SlotAt(m)

\* Inductive with RingInv when no restart moves the engine.
EngineInv == ~NoLine => \E m \in 0 .. InRing : EngineAt(m)
=============================================================================
