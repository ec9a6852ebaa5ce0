------------------------------ MODULE FtgmacRx ------------------------------
(***************************************************************************)
(* The receive half of the Linux FTGMAC100 driver                          *)
(* (faraday-tech/drivers/net/ftgmac100.c): the ring of page-sized buffers  *)
(* the MAC fills while ftgmac100_rx_packet, called from the poll, hands    *)
(* full pages to the stack and puts fresh ones in their place, and while   *)
(* ftgmac100_adjust_link restarts the MAC under it.                        *)
(*                                                                         *)
(* A frame is known by the descriptor it starts in (no two frames in the   *)
(* ring share it), its segments by their number; what the page allocator   *)
(* has is a finite set of pages.                                           *)
(*                                                                         *)
(* Definitions named Mut_... are plausible bugs, each in place of the      *)
(* definition that follows it; the specification never uses them.          *)
(***************************************************************************)
EXTENDS Integers, Sequences, FiniteSets

CONSTANTS
  N,             \* RX_QUEUE_ENTRIES
  Pages, NoPage, \* pages of the machine; a zero rxdes2
  MaxSegs,       \* pages the longest frame takes (bound)
  Allocates(_, _),  \* may the allocator return this page of that set?
  AllocMayFail,  \* where alloc_page or dma_map_page may fail: "open", "poll"
  HwFaults,      \* the MAC may abandon a frame, or report a piece of one
  HwRestart      \* what init_hw does to the DMA engine: "keep", "rewind"

ASSUME NAssumption == N \in Nat \ {0} /\ MaxSegs \in Nat \ {0}
ASSUME PageAssumption == NoPage \notin Pages
ASSUME FailAssumption == AllocMayFail \subseteq {"open", "poll"}
ASSUME HwAssumption ==
  HwFaults \in BOOLEAN /\ HwRestart \subseteq {"keep", "rewind"} /\ HwRestart # {}

VARIABLES
  rxdes0,      \* status bits of each descriptor, as a set
  rxdes2,      \* page (and bus address) of each descriptor
  rx_pointer,  \* next descriptor the driver looks at
  rpc,         \* where ftgmac100_rx_packet is
  skb,         \* pages put into the packet being assembled
  netif,       \* life cycle
  apc,         \* ftgmac100_adjust_link: "idle" or "hw", the MAC is off
  short,       \* history: line 475 has ignored a failed refill
  hwPtr,       \* next descriptor the DMA engine fills; N is off the ring
  hwOn,        \* MACCR has RXDMA_EN
  holder,      \* who holds each page: free, ring (mapped), skb or stack
  content      \* what the DMA engine wrote into each page, while it matters

drv  == <<rx_pointer, rpc, skb>>
hw   == <<hwPtr, hwOn>>
ctl  == <<netif, apc, short>>
vars == <<rxdes0, rxdes2, drv, ctl, hw, holder, content>>

Slots == 0 .. N - 1
Bits  == {"RDY", "FRS", "LRS", "ERR", "EDORR"}
Segs  == [frame : Slots, n : 1 .. MaxSegs, last : BOOLEAN, good : BOOLEAN]
NoSeg == [frame |-> N]

TypeOK ==
  /\ rxdes0 \in [Slots -> SUBSET Bits]
  /\ rxdes2 \in [Slots -> Pages \cup {NoPage}]
  /\ rx_pointer \in Slots
  /\ rpc \in {"idle", "locate", "drop", "take", "refill", "own", "deliver"}
  /\ skb \in Seq(Pages)
  /\ netif \in {"down", "opening", "up", "stopping", "stopped"}
  /\ apc \in {"idle", "hw"}
  /\ short \in BOOLEAN
  /\ hwPtr \in Slots
  /\ hwOn \in BOOLEAN
  /\ holder \in [Pages -> {"free", "ring", "skb", "stack"}]
  /\ content \in [Pages -> Segs \cup {NoSeg}]

Init ==
  /\ rxdes0 = [i \in Slots |-> {}]
  /\ rxdes2 = [i \in Slots |-> NoPage]
  /\ rx_pointer = 0 /\ rpc = "idle" /\ skb = <<>>
  /\ netif = "down" /\ apc = "idle" /\ short = FALSE
  /\ hwPtr = 0 /\ hwOn = FALSE
  /\ holder = [p \in Pages |-> "free"]
  /\ content = [p \in Pages |-> NoSeg]

-----------------------------------------------------------------------------
(* Descriptor and pointer helpers                                          *)

Ready(i) == "RDY" \in rxdes0[i]
First(i) == "FRS" \in rxdes0[i]
Last(i)  == "LRS" \in rxdes0[i]
RxError(i) == "ERR" \in rxdes0[i]

\* forgets to keep EDORR
Mut_set_dma_own(bits) == {}

(* keep EDORR, clear the rest: the descriptor is the engine's *)
set_dma_own(bits) == bits \cap {"EDORR"}

next_rx_pointer(i) == (i + 1) % N

-----------------------------------------------------------------------------
(* The receive DMA engine (external).  It fills the descriptors it owns,   *)
(* in order, and a frame becomes visible as a whole: the driver counts on  *)
(* that when it takes segment after segment without looking at RXPKT_RDY.  *)

\* the k-th descriptor from hwPtr on; EDORR in the last one leads back to the
\* first, and anywhere else off the ring
HwSlot(k) == IF hwPtr + k < N THEN hwPtr + k ELSE hwPtr + k - N

\* what the engine reports: a whole frame, or with HwFaults one it gave up
\* (with an error) and the last segment of one it lost the start of
Reported(a, b, n, good) ==
  \/ a = 1 /\ b = n
  \/ HwFaults /\ a = 1 /\ b < n /\ ~good
  \/ HwFaults /\ a = n /\ b = n /\ good

HwFilled(m)  == {HwSlot(k) : k \in 0 .. m - 1}
SegNumber(a, i) == a + (IF i >= hwPtr THEN i - hwPtr ELSE i - hwPtr + N)

\* status of segment k of n, and what is in its page
Status(old, k, n, good) ==
  (old \cap {"EDORR"}) \cup {"RDY"} \cup (IF k = 1 THEN {"FRS"} ELSE {})
    \cup (IF k = n THEN {"LRS"} ELSE {}) \cup (IF good THEN {} ELSE {"ERR"})
Segment(k, n, good) ==
  [frame |-> hwPtr, n |-> k, last |-> k = n, good |-> good]

\* segments a to b of a frame of n arrive
HwReceive(a, b, n, good) ==
  LET filled == HwFilled(b - a + 1)
  IN
  /\ hwOn /\ hwPtr < N /\ b - a < N
  /\ Reported(a, b, n, good)
  /\ \A i \in filled : ~Ready(i)
  /\ rxdes0' = [i \in Slots |->
       IF i \in filled THEN Status(rxdes0[i], SegNumber(a, i), n, good)
                       ELSE rxdes0[i]]
  /\ content' = [p \in Pages |->
       IF \E i \in filled : rxdes2[i] = p
         THEN Segment(SegNumber(a, CHOOSE i \in filled : rxdes2[i] = p), n, good)
         ELSE content[p]]
  /\ hwPtr' = IF \A i \in filled : "EDORR" \in rxdes0[i] <=> i = N - 1
                THEN HwSlot(b - a + 1) ELSE N
  /\ UNCHANGED <<rxdes2, drv, ctl, hwOn, holder>>

-----------------------------------------------------------------------------
(* ftgmac100_rx_packet                                                     *)

Outside == UNCHANGED <<ctl, hw>>
Inside  == Outside /\ UNCHANGED content

\* the poll calls it; it starts with ftgmac100_rx_locate_first_segment
RxPoll ==
  /\ netif = "up" /\ rpc = "idle"
  /\ rpc' = "locate"
  /\ UNCHANGED <<rxdes0, rxdes2, rx_pointer, skb, holder>> /\ Inside

(* set_dma_own, rx_pointer_advance; what is in the page then concerns      *)
(* nobody until the engine has filled it again *)
GiveBack ==
  /\ rxdes0' = [rxdes0 EXCEPT ![rx_pointer] = set_dma_own(@)]
  /\ rx_pointer' = next_rx_pointer(rx_pointer)
  /\ content' = [content EXCEPT ![rxdes2[rx_pointer]] = NoSeg]
  /\ Outside

(* a segment that does not start a frame goes back *)
LocateSkip ==
  /\ rpc = "locate" /\ Ready(rx_pointer) /\ ~First(rx_pointer)
  /\ GiveBack
  /\ UNCHANGED <<rxdes2, rpc, skb, holder>>

LocateNone ==
  /\ rpc = "locate" /\ ~Ready(rx_pointer)
  /\ rpc' = "idle"
  /\ UNCHANGED <<rxdes0, rxdes2, rx_pointer, skb, holder>> /\ Inside

\* starts at whatever descriptor is ready
Mut_RxStart ==
  /\ rpc = "locate" /\ Ready(rx_pointer)
  /\ ~RxError(rx_pointer)
  /\ rpc' = "take"
  /\ UNCHANGED <<rxdes0, rxdes2, rx_pointer, skb, holder>> /\ Inside

(* an skb was allocated *)
RxStart ==
  /\ rpc = "locate" /\ Ready(rx_pointer) /\ First(rx_pointer)
  /\ ~RxError(rx_pointer)
  /\ rpc' = "take"
  /\ UNCHANGED <<rxdes0, rxdes2, rx_pointer, skb, holder>> /\ Inside

(* the frame has an error, or there is no skb for it *)
RxRefuse ==
  /\ rpc = "locate" /\ Ready(rx_pointer) /\ First(rx_pointer)
  /\ rpc' = "drop"
  /\ UNCHANGED <<rxdes0, rxdes2, rx_pointer, skb, holder>> /\ Inside

\* goes on as long as there is something to drop
Mut_DropSegment ==
  /\ rpc = "drop"
  /\ GiveBack
  /\ rpc' = IF Ready(rx_pointer)' THEN "drop" ELSE "idle"
  /\ UNCHANGED <<rxdes2, skb, holder>>

(* ftgmac100_rx_drop_packet, one descriptor *)
DropSegment ==
  /\ rpc = "drop"
  /\ GiveBack
  /\ rpc' = IF ~Last(rx_pointer) /\ Ready(rx_pointer)'
              THEN "drop" ELSE "idle"
  /\ UNCHANGED <<rxdes2, skb, holder>>

(* dma_unmap_page, skb_fill_page_desc *)
TakeSegment ==
  /\ rpc = "take"
  /\ skb' = Append(skb, rxdes2[rx_pointer])
  /\ holder' = [holder EXCEPT ![rxdes2[rx_pointer]] = "skb"]
  /\ rpc' = "refill"
  /\ UNCHANGED <<rxdes0, rxdes2, rx_pointer>> /\ Inside

AfterSegment == IF Last(rx_pointer) THEN "deliver" ELSE "take"

Available(p) == holder[p] = "free" /\ Allocates(p, {q \in Pages : holder[q] = "free"})

(* alloc_rx_page: a page is found and mapped, set_page, set_dma_addr *)
Refill(p) ==
  /\ rpc = "refill" /\ Available(p)
  /\ rxdes2' = [rxdes2 EXCEPT ![rx_pointer] = p]
  /\ holder' = [holder EXCEPT ![p] = "ring"]
  /\ rpc' = "own"
  /\ UNCHANGED <<rxdes0, rx_pointer, skb>> /\ Inside

(* alloc_rx_page failed and its result is not looked at *)
RefillFails ==
  /\ rpc = "refill" /\ "poll" \in AllocMayFail
  /\ rx_pointer' = next_rx_pointer(rx_pointer)
  /\ rpc' = AfterSegment
  /\ short' = TRUE
  /\ UNCHANGED <<rxdes0, rxdes2, skb, holder, netif, apc, hw, content>>

\* does not advance after a segment that is not the last
Mut_OwnSegment ==
  /\ rpc = "own"
  /\ rxdes0' = [rxdes0 EXCEPT ![rx_pointer] = set_dma_own(@)]
  /\ rx_pointer' = IF Last(rx_pointer) THEN next_rx_pointer(rx_pointer) ELSE rx_pointer
  /\ rpc' = AfterSegment
  /\ UNCHANGED <<rxdes2, skb, holder>> /\ Inside

(* alloc_rx_page ends with set_dma_own; the loop advances *)
OwnSegment ==
  /\ rpc = "own"
  /\ GiveBack
  /\ rpc' = AfterSegment
  /\ UNCHANGED <<rxdes2, skb, holder>>

HeldBySkb == {skb[k] : k \in 1 .. Len(skb)}

(* netif_receive_skb *)
Deliver ==
  /\ rpc = "deliver"
  /\ holder' = [p \in Pages |-> IF p \in HeldBySkb THEN "stack" ELSE holder[p]]
  /\ skb' = <<>>
  /\ rpc' = "idle"
  /\ UNCHANGED <<rxdes0, rxdes2, rx_pointer>> /\ Inside

\* (external) what is in a free page concerns nobody
StackFrees(p) ==
  /\ holder[p] = "stack"
  /\ holder' = [holder EXCEPT ![p] = "free"]
  /\ content' = [content EXCEPT ![p] = NoSeg]
  /\ UNCHANGED <<rxdes0, rxdes2, drv, ctl, hw>>

-----------------------------------------------------------------------------
(* ftgmac100_alloc_buffers, ftgmac100_free_buffers and their callers       *)

(* dma_alloc_coherent, memset, end of ring *)
AllocDescs ==
  /\ netif = "down"
  /\ rxdes0' = [i \in Slots |-> IF i = N - 1 THEN {"EDORR"} ELSE {}]
  /\ rxdes2' = [i \in Slots |-> NoPage]
  /\ netif' = "opening"
  /\ UNCHANGED <<drv, apc, short, hw, holder, content>>

(* alloc_rx_page for the descriptors in turn *)
AllocPage(i, p) ==
  /\ netif = "opening"
  /\ rxdes2[i] = NoPage /\ \A j \in 0 .. i - 1 : rxdes2[j] # NoPage
  /\ Available(p)
  /\ rxdes2' = [rxdes2 EXCEPT ![i] = p]
  /\ rxdes0' = [rxdes0 EXCEPT ![i] = set_dma_own(@)]
  /\ holder' = [holder EXCEPT ![p] = "ring"]
  /\ UNCHANGED <<drv, ctl, hw, content>>

\* frees the pages of every descriptor but the last
Mut_free_buffers ==
  /\ holder' = [p \in Pages |->
       IF \E i \in Slots : rxdes2[i] = p /\ i # N - 1 THEN "free" ELSE holder[p]]
  /\ content' = [p \in Pages |-> IF holder'[p] = "free" THEN NoSeg ELSE content[p]]

(* every descriptor that has a page; what the freed descriptors say is no  *)
(* longer looked at *)
free_buffers ==
  /\ holder' = [p \in Pages |->
       IF \E i \in Slots : rxdes2[i] = p THEN "free" ELSE holder[p]]
  /\ content' = [p \in Pages |-> IF holder'[p] = "free" THEN NoSeg ELSE content[p]]

Filled == \A i \in Slots : rxdes2[i] # NoPage

(* alloc_rx_page, or with the ring filled request_irq or reset_hw, failed *)
OpenFails ==
  /\ netif = "opening"
  /\ Filled \/ "open" \in AllocMayFail
  /\ free_buffers
  /\ netif' = "down"
  /\ UNCHANGED <<rxdes0, rxdes2, drv, apc, short, hw>>

(* rx_pointer, reset_hw, init_hw, start_hw, and the poll is enabled *)
OpenDone ==
  /\ netif = "opening" /\ Filled
  /\ rx_pointer' = 0
  /\ hwPtr' = 0 /\ hwOn' = TRUE
  /\ netif' = "up"
  /\ UNCHANGED <<rxdes0, rxdes2, rpc, skb, apc, short, holder, content>>

(* ftgmac100_stop: napi_disable waits until no poll runs *)
StopPoll ==
  /\ netif = "up" /\ rpc = "idle"
  /\ netif' = "stopping"
  /\ UNCHANGED <<rxdes0, rxdes2, drv, apc, short, hw, holder, content>>

\* leaves the engine on
Mut_StopHw ==
  /\ netif = "stopping" /\ apc = "idle"
  /\ netif' = "stopped"
  /\ UNCHANGED <<rxdes0, rxdes2, drv, apc, short, hw, holder, content>>

(* phy_stop waits for adjust_link; stop_hw *)
StopHw ==
  /\ netif = "stopping" /\ apc = "idle"
  /\ hwOn' = FALSE
  /\ netif' = "stopped"
  /\ UNCHANGED <<rxdes0, rxdes2, drv, apc, short, hwPtr, holder, content>>

StopFree ==
  /\ netif = "stopped"
  /\ free_buffers
  /\ netif' = "down"
  /\ UNCHANGED <<rxdes0, rxdes2, drv, apc, short, hw>>

(* ftgmac100_adjust_link: stop_hw *)
RelinkStop ==
  /\ netif \in {"up", "stopping"} /\ apc = "idle"
  /\ hwOn' = FALSE
  /\ apc' = "hw"
  /\ UNCHANGED <<rxdes0, rxdes2, drv, netif, short, hwPtr, holder, content>>

(* init_hw writes the ring base once more; start_hw *)
RelinkStart ==
  /\ apc = "hw"
  /\ hwPtr' \in {IF r = "rewind" THEN 0 ELSE hwPtr : r \in HwRestart}
  /\ hwOn' = TRUE
  /\ apc' = "idle"
  /\ UNCHANGED <<rxdes0, rxdes2, drv, netif, short, holder, content>>

-----------------------------------------------------------------------------
PacketStep ==
  \/ LocateSkip \/ LocateNone \/ RxStart \/ RxRefuse \/ DropSegment
  \/ TakeSegment \/ (\E p \in Pages : Refill(p)) \/ RefillFails
  \/ OwnSegment \/ Deliver

LifeStep ==
  \/ AllocDescs \/ (\E i \in Slots, p \in Pages : AllocPage(i, p))
  \/ OpenFails \/ OpenDone
  \/ StopPoll \/ StopHw \/ StopFree
  \/ RelinkStop \/ RelinkStart

HwStep ==
  \E n \in 1 .. MaxSegs, good \in BOOLEAN :
    \E a \in 1 .. n : \E b \in a .. n : HwReceive(a, b, n, good)

Next ==
  \/ HwStep
  \/ RxPoll \/ PacketStep
  \/ \E p \in Pages : StackFrees(p)
  \/ LifeStep

Spec == Init /\ [][Next]_vars

(* The poll comes for what is in the ring (RingsServed in FtgmacNapi) and  *)
(* runs on; the stack gives pages back, so that the allocator has one.     *)
FairSpec ==
  /\ Spec
  /\ WF_vars(RxPoll) /\ WF_vars(PacketStep)
  /\ \A p \in Pages : WF_vars(StackFrees(p))

-----------------------------------------------------------------------------
(* Properties.  Line 475 ignores a failed refill and leaves a page that is *)
(* the stack's in a ready descriptor: nothing that follows is true after   *)
(* that, as PagesGoUpOnce shows.  The other properties say that it is the  *)
(* only way to lose track: each holds until then ("short").                *)

\* The descriptor whose page is in the skb and has not been replaced yet.
Lent(i) == rpc = "refill" /\ i = rx_pointer

\* The pages mapped for the engine are those the descriptors name, one each.
Tracked ==
  netif # "down" =>
  /\ \A i \in Slots : rxdes2[i] # NoPage =>
       holder[rxdes2[i]] = IF Lent(i) THEN "skb" ELSE "ring"
  /\ \A i, j \in Slots : rxdes2[i] # NoPage /\ rxdes2[i] = rxdes2[j] => i = j
  /\ \A p \in Pages : holder[p] = "ring" => \E i \in Slots : rxdes2[i] = p

\* Lines 300-301: "We use it to keep track of page".  Through failing opens,
\* polls, link changes and stops no page is filled, delivered or freed twice
\* and none is lost.
PagesTracked == short \/ Tracked

Whole(s) ==
  \A k \in 1 .. Len(s) :
    /\ s[k].frame = s[1].frame /\ s[k].n = k /\ s[k].good
    /\ s[k].last <=> k = Len(s)

\* Lines 458-489: what goes up to the stack is one whole frame without
\* error, its segments in order, whatever the engine left in the ring.
PacketsAreWhole ==
  rpc = "deliver" /\ ~short =>
    skb # <<>> /\ Whole([k \in 1 .. Len(skb) |-> content[skb[k]]])

\* A page that gets new content is mapped for the engine.
IntoRing ==
  \A p \in Pages : content'[p] # content[p] /\ content'[p] # NoSeg
    => holder[p] = "ring"

\* Lines 462, 757 and 1129-1131: the engine writes only into pages that are
\* mapped for it, never into one that the stack has or that was freed.
DmaOnlyIntoRing == [][~short => IntoRing]_vars

\* The engine reports a piece of a frame: one without its end, or an end
\* without its start.
ReportsPiece ==
  \E n \in 1 .. MaxSegs, good \in BOOLEAN :
    \E a \in 1 .. n : \E b \in a .. n :
      b - a + 1 < n /\ HwReceive(a, b, n, good)

\* Lines 337-344, 408-415 and 458-479: a call of rx_packet comes to its end,
\* however fast the engine refills what the three loops give back; only an
\* engine that never stops reporting pieces of frames can keep it.  (The
\* last loop never looks at RXPKT_RDY: it ends because each run of
\* descriptors it enters has its last segment in it.)
PacketEnds ==
  \/ []<><<ReportsPiece>>_vars
  \/ rpc # "idle" ~> rpc = "idle" \/ short

\* Lines 300-301 again, as the stack sees it: a page goes up only once for
\* each time it was mapped for the engine.
PagesGoUpOnce ==
  [][\A p \in Pages : holder[p] # "skb" /\ holder'[p] = "skb"
       => holder[p] = "ring"]_vars

-----------------------------------------------------------------------------
(* The ring as the line of RxLine                                          *)

\* the way from i to j round the ring, and the slot k further than b
Way(i, j) == IF j >= i THEN j - i ELSE j - i + N
At(b, k)  == IF b + k < N THEN b + k ELSE b + k - N

\* how many descriptors from rx_pointer on are ready, and how many of them
\* are already in the skb
RunLength == CHOOSE w \in 0 .. N :
               /\ \A k \in 0 .. w - 1 : Ready(At(rx_pointer, k))
               /\ w < N => ~Ready(At(rx_pointer, w))
Looked    == IF rpc \in {"refill", "own"} THEN 1 ELSE 0
RingSegs  == [i \in Slots |-> content[rxdes2[i]]]

\* what the driver has still to look at, oldest first, and what it has taken
RingLine ==
  IF netif = "up"
    THEN [k \in 1 .. RunLength - Looked |-> RingSegs[At(rx_pointer, Looked + k - 1)]]
    ELSE <<>>
Packet   == [k \in 1 .. Len(skb) |-> content[skb[k]]]
Waiting  == IF short THEN <<>> ELSE RingLine
Assembly == IF short THEN <<>> ELSE Packet

Line == INSTANCE RxLine WITH
          Capacity <- N, line <- Waiting, packet <- Assembly, lost <- short

\* The ring is a line from which each segment is taken once and in order,
\* and only whole frames go up, until line 475 loses it.
ImplementsLine == Line!LineFairSpec
=============================================================================
