------------------------------ MODULE Ftmac100 ------------------------------
(***************************************************************************)
(* The polled driver of the FTMAC100 Ethernet controller in the boot       *)
(* loader (andestech/board/AndesTech/common/ftmac100.c): eth_init,         *)
(* eth_send, eth_rx and eth_halt, called one after the other by the        *)
(* network loop, against a DMA engine that works on both rings at the same *)
(* time.                                                                   *)
(*                                                                         *)
(* A received frame spans several small buffers; it is known by the        *)
(* descriptor it starts in, its pieces by their number, and lengths count  *)
(* buffers.  Since one call never overlaps another, pc says where in which *)
(* call the processor is.                                                  *)
(*                                                                         *)
(* Definitions named Mut_... are plausible bugs, each in place of the      *)
(* definition that follows it; the specification never uses them.          *)
(***************************************************************************)
EXTENDS Integers, Sequences

CONSTANTS
  RXDES_NUM, TXDES_NUM,
  Packets,      \* what the network loop sends
  MaxSegs,      \* buffers the longest frame takes (bound)
  ErrSegs       \* how many buffers a frame with an error may take

ASSUME RingAssumption == RXDES_NUM \in Nat \ {0} /\ TXDES_NUM \in Nat \ {0}
\* 1518 bytes in buffers of 128, in a ring of 64
ASSUME FrameAssumption == MaxSegs \in 1 .. RXDES_NUM - 1 /\ ErrSegs \subseteq 1 .. MaxSegs

VARIABLES
  initialized,    \* eth_init has been entered
  priv,           \* dev_eth0.priv and its rings are allocated
  pc,             \* where the processor is; "idle" is the network loop
  rxown,          \* RXDMA_OWN of each receive descriptor: the engine's
  rxseg,          \* its other bits and its buffer: the piece of frame there
  rx_idx,
  start_idx, packet_length, data,    \* locals of ftmac100_rcv; data is in pieces
  txown,          \* TXDMA_OWN of each transmit descriptor
  txbuf,          \* what is in its buffer
  tx_idx,
  packet,         \* argument of ftmac100_send_packet
  hwOn,           \* MACCR has the receiver, transmitter and both DMAs on
  hwRx, hwTx,     \* next descriptor of either ring the engine looks at
  hwActive        \* the engine polls the transmit ring (TXPD was written)

dev   == <<initialized, priv>>
rcv   == <<start_idx, packet_length, data>>
rx    == <<rxown, rxseg, rx_idx, rcv>>
tx    == <<txown, txbuf, tx_idx, packet>>
hw    == <<hwOn, hwRx, hwTx, hwActive>>
vars  == <<dev, pc, rx, tx, hw>>

RxSlots == 0 .. RXDES_NUM - 1
TxSlots == 0 .. TXDES_NUM - 1

\* n-th piece of the frame of len pieces that starts in descriptor frame
Segs  == [frame : RxSlots, n : 1 .. MaxSegs, len : 1 .. MaxSegs,
          last : BOOLEAN, good : BOOLEAN]
NoSeg == [frame |-> RXDES_NUM]
NoPacket == "none"
ASSUME PacketAssumption == NoPacket \notin Packets

TypeOK ==
  /\ initialized \in BOOLEAN /\ priv \in BOOLEAN
  /\ pc \in {"idle", "reset", "scan", "copy", "return", "send", "own", "kick",
            "hang", "crash"}
  /\ rxown \in [RxSlots -> BOOLEAN]
  /\ rxseg \in [RxSlots -> Segs \cup {NoSeg}]
  /\ rx_idx \in RxSlots /\ start_idx \in RxSlots
  /\ packet_length \in 0 .. MaxSegs
  /\ data \in Seq(Segs \cup {NoSeg})
  /\ txown \in [TxSlots -> BOOLEAN]
  /\ txbuf \in [TxSlots -> Packets \cup {NoPacket}]
  /\ tx_idx \in TxSlots
  /\ packet \in Packets \cup {NoPacket}
  /\ hwOn \in BOOLEAN /\ hwActive \in BOOLEAN
  /\ hwRx \in RxSlots /\ hwTx \in TxSlots

Init ==
  /\ initialized = FALSE /\ priv = FALSE
  /\ pc = "idle"
  /\ rxown = [i \in RxSlots |-> FALSE]
  /\ rxseg = [i \in RxSlots |-> NoSeg]
  /\ rx_idx = 0 /\ start_idx = 0 /\ packet_length = 0 /\ data = <<>>
  /\ txown = [i \in TxSlots |-> FALSE]
  /\ txbuf = [i \in TxSlots |-> NoPacket]
  /\ tx_idx = 0 /\ packet = NoPacket
  /\ hwOn = FALSE /\ hwRx = 0 /\ hwTx = 0 /\ hwActive = FALSE

NextRx(i) == (i + 1) % RXDES_NUM

\* forgets to wrap
Mut_NextTx(i) == i + 1
NextTx(i) == (i + 1) % TXDES_NUM

-----------------------------------------------------------------------------
(* The DMA engine (external).  A frame becomes visible as a whole: its     *)
(* length stands in its first descriptor.  The engine wraps at EDOTR,      *)
(* which ftmac100_ringbuf_alloc sets for good in the last descriptor.      *)

Fills(n)  == {(hwRx + k) % RXDES_NUM : k \in 0 .. n - 1}
Number(i) == 1 + (IF i >= hwRx THEN i - hwRx ELSE i - hwRx + RXDES_NUM)

HwReceive(n, good) ==
  /\ hwOn
  /\ \A i \in Fills(n) : rxown[i]
  /\ rxown' = [i \in RxSlots |-> rxown[i] /\ i \notin Fills(n)]
  /\ rxseg' = [i \in RxSlots |->
       IF i \in Fills(n)
         THEN [frame |-> hwRx, n |-> Number(i), len |-> n,
               last |-> Number(i) = n, good |-> good]
         ELSE rxseg[i]]
  /\ hwRx' = (hwRx + n) % RXDES_NUM
  /\ UNCHANGED <<dev, pc, rx_idx, rcv, tx, hwOn, hwTx, hwActive>>

HwSend ==
  /\ hwOn /\ hwActive /\ txown[hwTx]
  /\ txown' = [txown EXCEPT ![hwTx] = FALSE]
  /\ hwTx' = NextTx(hwTx)
  /\ UNCHANGED <<dev, pc, rx, txbuf, tx_idx, packet, hwOn, hwRx, hwActive>>

\* stops polling at a descriptor it does not own
HwIdle ==
  /\ hwOn /\ hwActive /\ ~txown[hwTx]
  /\ hwActive' = FALSE
  /\ UNCHANGED <<dev, pc, rx, tx, hwOn, hwRx, hwTx>>

-----------------------------------------------------------------------------
(* eth_init and eth_halt                                                   *)

\* without it the engine goes on where it was
Mut_ftmac100_reset == UNCHANGED <<hwRx, hwTx, hwActive>>

(* SW_RST: the engine has forgotten where it was *)
ftmac100_reset == hwRx' = 0 /\ hwTx' = 0 /\ hwActive' = FALSE

\* leaves the transmit descriptors as they are
Mut_ftmac100_enable ==
  /\ rxown' = [i \in RxSlots |-> TRUE]
  /\ rxseg' = [i \in RxSlots |-> NoSeg]
  /\ rx_idx' = 0
  /\ tx_idx' = 0
  /\ hwOn' = TRUE
  /\ UNCHANGED txown

(* both rings as they are at the start, then MACCR.  What is in a buffer   *)
(* of the engine concerns nobody until the engine has filled it *)
ftmac100_enable ==
  /\ rxown' = [i \in RxSlots |-> TRUE]
  /\ rxseg' = [i \in RxSlots |-> NoSeg]
  /\ rx_idx' = 0
  /\ txown' = [i \in TxSlots |-> FALSE]
  /\ tx_idx' = 0
  /\ hwOn' = TRUE

(* malloc and ftmac100_ringbuf_alloc the first time; ftmac100_open begins: *)
(* SW_RST is all that is left in MACCR *)
EthInit ==
  /\ pc = "idle" /\ (initialized => priv)
  /\ initialized' = TRUE /\ priv' = TRUE
  /\ hwOn' = FALSE
  /\ pc' = "reset"
  /\ UNCHANGED <<rx, tx, hwRx, hwTx, hwActive>>

(* the loop that waits, without limit, for the MAC to clear SW_RST has     *)
(* ended *)
EthOpened ==
  /\ pc = "reset"
  /\ ftmac100_reset
  /\ ftmac100_enable
  /\ pc' = "idle"
  /\ UNCHANGED <<dev, rcv, txbuf, packet>>

(* malloc failed; eth_init returns 0 as always *)
EthInitNoMemory ==
  /\ pc = "idle" /\ ~initialized
  /\ initialized' = TRUE
  /\ UNCHANGED <<priv, pc, rx, tx, hw>>

(* ftmac100_ringbuf_alloc failed: BUG() *)
EthInitBug ==
  /\ pc = "idle" /\ ~initialized
  /\ initialized' = TRUE
  /\ pc' = "hang"
  /\ UNCHANGED <<priv, rx, tx, hw>>

(* any other call goes through the null pointer dev_eth0.priv *)
NullPriv ==
  /\ pc = "idle" /\ initialized /\ ~priv
  /\ pc' = "crash"
  /\ UNCHANGED <<dev, rx, tx, hw>>

\* (external) the operator switches the board off and on, also when the MAC
\* never ends its reset; what was in the rings eth_init writes anew
PowerCycle ==
  /\ pc \in {"hang", "crash", "reset"}
  /\ initialized' = FALSE /\ priv' = FALSE /\ pc' = "idle"
  /\ UNCHANGED <<rx, tx, hw>>

(* ftmac100_shutdown *)
EthHalt ==
  /\ pc = "idle" /\ initialized
  /\ hwOn' = FALSE
  /\ UNCHANGED <<dev, pc, rx, tx, hwRx, hwTx, hwActive>>

-----------------------------------------------------------------------------
(* eth_rx: ftmac100_rcv                                                    *)

Frs(i) == rxseg[i] # NoSeg /\ rxseg[i].n = 1
Lrs(i) == rxseg[i] # NoSeg /\ rxseg[i].last
RxErr(i) == rxseg[i] # NoSeg /\ ~rxseg[i].good

\* the network loop calls it in every round between eth_init and eth_halt
RcvStart ==
  /\ pc = "idle" /\ hwOn
  /\ start_idx' = rx_idx
  /\ packet_length' = 0
  /\ pc' = "scan"
  /\ UNCHANGED <<dev, rxown, rxseg, rx_idx, data, tx, hw>>

AfterScan(length) == IF length > 0 THEN "copy" ELSE "idle"

(* the first loop meets a descriptor of the engine *)
ScanStop ==
  /\ pc = "scan" /\ rxown[rx_idx]
  /\ pc' = AfterScan(packet_length)
  /\ UNCHANGED <<dev, rx, tx, hw>>

\* forgets to give the descriptor back
Mut_ScanError ==
  /\ pc = "scan" /\ ~rxown[rx_idx] /\ Frs(rx_idx) /\ RxErr(rx_idx)
  /\ rx_idx' = NextRx(rx_idx)
  /\ pc' = "idle"
  /\ UNCHANGED <<dev, rxown, rxseg, rcv, tx, hw>>

(* a frame with an error: this one descriptor goes back to the engine *)
ScanError ==
  /\ pc = "scan" /\ ~rxown[rx_idx] /\ Frs(rx_idx) /\ RxErr(rx_idx)
  /\ rxown' = [rxown EXCEPT ![rx_idx] = TRUE]
  /\ rxseg' = [rxseg EXCEPT ![rx_idx] = NoSeg]
  /\ rx_idx' = NextRx(rx_idx)
  /\ pc' = "idle"
  /\ UNCHANGED <<dev, rcv, tx, hw>>

\* does not stop at the end of a frame
Mut_ScanSeg ==
  /\ pc = "scan" /\ ~rxown[rx_idx] /\ ~(Frs(rx_idx) /\ RxErr(rx_idx))
  /\ rx_idx' = NextRx(rx_idx)
  /\ packet_length' = IF Frs(rx_idx) THEN rxseg[rx_idx].len ELSE packet_length
  /\ UNCHANGED <<dev, pc, rxown, rxseg, start_idx, data, tx, hw>>

ScanSeg ==
  /\ pc = "scan" /\ ~rxown[rx_idx] /\ ~(Frs(rx_idx) /\ RxErr(rx_idx))
  /\ rx_idx' = NextRx(rx_idx)
  /\ packet_length' = IF Frs(rx_idx) THEN rxseg[rx_idx].len ELSE packet_length
  /\ pc' = IF Lrs(rx_idx) THEN AfterScan(packet_length') ELSE "scan"
  /\ UNCHANGED <<dev, rxown, rxseg, start_idx, data, tx, hw>>

(* memcpy of min(packet_length - cpy_length, RX_BUF_SIZE) bytes *)
CopySeg ==
  /\ pc = "copy" /\ start_idx # rx_idx
  /\ data' = IF Len(data) < packet_length THEN Append(data, rxseg[start_idx]) ELSE data
  /\ pc' = "return"
  /\ UNCHANGED <<dev, rxown, rxseg, rx_idx, start_idx, packet_length, tx, hw>>

ReturnSeg ==
  /\ pc = "return"
  /\ rxown' = [rxown EXCEPT ![start_idx] = TRUE]
  /\ rxseg' = [rxseg EXCEPT ![start_idx] = NoSeg]
  /\ start_idx' = NextRx(start_idx)
  /\ pc' = "copy"
  /\ UNCHANGED <<dev, rx_idx, packet_length, data, tx, hw>>

(* NetReceive; ftmac100_rcv does nothing more, so that a call made by the  *)
(* protocol handler is the next one *)
Deliver ==
  /\ pc = "copy" /\ start_idx = rx_idx
  /\ data' = <<>>
  /\ pc' = "idle"
  /\ UNCHANGED <<dev, rxown, rxseg, rx_idx, start_idx, packet_length, tx, hw>>

-----------------------------------------------------------------------------
(* eth_send: ftmac100_send_packet                                          *)

EthSend(p) ==
  /\ pc = "idle" /\ hwOn
  /\ packet' = p
  /\ pc' = "send"
  /\ UNCHANGED <<dev, rx, txown, txbuf, tx_idx, hw>>

(* the loop that waits for TXDMA_OWN, once more *)
SendWait ==
  /\ pc = "send" /\ txown[tx_idx]
  /\ UNCHANGED vars

(* the loop ends; memcpy, size, LTS and FTS *)
SendFill ==
  /\ pc = "send" /\ ~txown[tx_idx]
  /\ txbuf' = [txbuf EXCEPT ![tx_idx] = packet]
  /\ pc' = "own"
  /\ UNCHANGED <<dev, rx, txown, tx_idx, packet, hw>>

SendOwn ==
  /\ pc = "own"
  /\ txown' = [txown EXCEPT ![tx_idx] = TRUE]
  /\ pc' = "kick"
  /\ UNCHANGED <<dev, rx, txbuf, tx_idx, packet, hw>>

\* does not write TXPD
Mut_SendKick ==
  /\ pc = "kick"
  /\ tx_idx' = NextTx(tx_idx)
  /\ packet' = NoPacket
  /\ pc' = "idle"
  /\ UNCHANGED <<dev, rx, txown, txbuf, hw>>

(* TXPD_REG; tx_idx *)
SendKick ==
  /\ pc = "kick"
  /\ hwActive' = TRUE
  /\ tx_idx' = NextTx(tx_idx)
  /\ packet' = NoPacket
  /\ pc' = "idle"
  /\ UNCHANGED <<dev, rx, txown, txbuf, hwOn, hwRx, hwTx>>

-----------------------------------------------------------------------------
RcvStep  == ScanStop \/ ScanError \/ ScanSeg \/ CopySeg \/ ReturnSeg \/ Deliver
SendStep == SendWait \/ SendFill \/ SendOwn \/ SendKick
HwFrame  ==
  \E n \in 1 .. MaxSegs, good \in BOOLEAN : (good \/ n \in ErrSegs) /\ HwReceive(n, good)

Next ==
  \/ HwFrame \/ HwSend \/ HwIdle
  \/ EthInit \/ EthOpened \/ EthInitNoMemory \/ EthInitBug \/ NullPriv \/ PowerCycle \/ EthHalt
  \/ RcvStart \/ RcvStep
  \/ (\E p \in Packets : EthSend(p)) \/ SendStep

Spec == Init /\ [][Next]_vars

(* A call of eth_send or eth_rx that was made runs on; the engine sends     *)
(* what it owns while it is on, but nothing says that it ever ends a reset *)
(* (EthOpened); the network loop calls eth_rx in every round (strong, since between *)
(* two rounds it is not in the loop).                                      *)
FairSpec ==
  /\ Spec
  /\ WF_vars(RcvStep) /\ WF_vars(SendStep)
  /\ WF_vars(HwSend) /\ SF_vars(RcvStart)

-----------------------------------------------------------------------------
(* Properties                                                              *)

RxDist(i, j) == (j - i) % RXDES_NUM

\* Lines 526 and 548: "this frame has been processed, return this to
\* hardware".  Between calls, the descriptors the engine does not own are
\* those it has filled and the driver has still to look at: they follow
\* rx_idx without a gap, and none is left behind.
ReturnedToHardware ==
  hwOn /\ pc \notin {"scan", "copy", "return"} =>
    \A i \in RxSlots : ~rxown[i] =>
      \A k \in 0 .. RxDist(rx_idx, i) : ~rxown[(rx_idx + k) % RXDES_NUM]

TxDist(i) == IF i >= hwTx THEN i - hwTx ELSE i - hwTx + TXDES_NUM
TxEnd     == IF pc = "kick" THEN NextTx(tx_idx) ELSE tx_idx

\* Lines 416-438: the descriptors the engine owns are those from its own
\* position up to the driver's, without a gap, so that the packets leave in
\* the order of the calls, and a ring that is full is not taken for empty.
TxRun ==
  \/ \A i \in TxSlots : txown[i] <=> TxDist(i) < TxDist(TxEnd)
  \/ TxEnd = hwTx /\ pc # "own" /\ \A i \in TxSlots : txown[i]

\* what the engine still has to send, oldest first: the descriptors it owns
\* from its position on
TxAt(k) == IF hwTx + k < TXDES_NUM THEN hwTx + k ELSE hwTx + k - TXDES_NUM
QueueLength == CHOOSE w \in 0 .. TXDES_NUM :
                 /\ \A k \in 0 .. w - 1 : txown[TxAt(k)]
                 /\ w < TXDES_NUM => ~txown[TxAt(w)]
Queue == [k \in 1 .. QueueLength |-> txbuf[TxAt(k - 1)]]

\* Lines 301-351 and 416-438: every packet goes out as it was given to
\* eth_send, and in the order of the calls.  What waits changes in three
\* ways only: the packet of the call comes to its end, the engine sends the
\* first, and a reset, with the engine off, drops them all.
QueueStep ==
  \/ Queue' = Queue
  \/ pc = "own" /\ Queue' = Append(Queue, packet)
  \/ hwOn /\ Queue # <<>> /\ Queue' = Tail(Queue)
  \/ ~hwOn /\ Queue' = <<>>
SentInOrder == [][QueueStep]_vars

\* Lines 416-420 wait without limit: the engine lets every call of eth_send
\* come to its end, and nothing that was queued stays (unless the driver is
\* halted first).
SendEnds ==
  /\ pc = "send" ~> pc = "idle"
  /\ \A i \in TxSlots : txown[i] ~> ~txown[i] \/ ~hwOn

-----------------------------------------------------------------------------
(* The receive ring as the line of RxLine                                  *)

\* the way from i to j round the ring, and the slot w further than b
Way(i, j) == IF j >= i THEN j - i ELSE j - i + RXDES_NUM
At(b, w)  == IF b + w < RXDES_NUM THEN b + w ELSE b + w - RXDES_NUM

\* the first descriptor the driver has not given back
Receiving == {"scan", "copy", "return"}
First     == IF pc \in Receiving THEN start_idx ELSE rx_idx

\* how many descriptors from there on the engine does not own, and how many
\* of them hold a piece that is copied
RunLength == CHOOSE w \in 0 .. RXDES_NUM :
               /\ \A k \in 0 .. w - 1 : ~rxown[At(First, k)]
               /\ w < RXDES_NUM => rxown[At(First, w)]
Copied    == IF pc = "return" THEN 1 ELSE 0
LineSeg(k) == rxseg[At(First, k)]

\* what is received and not copied yet, oldest first
RingLine ==
  IF hwOn THEN [k \in 1 .. RunLength - Copied |-> LineSeg(Copied + k - 1)] ELSE <<>>

Line == INSTANCE RxLine WITH
          Capacity <- RXDES_NUM, line <- RingLine, packet <- data,
          lost <- FALSE

\* Whole frames go up, each piece once and in order, and none stays.
ImplementsLine == Line!LineFairSpec
=============================================================================
