--------------------------- MODULE Ftmac100_proof ---------------------------
(***************************************************************************)
(* Types, transmit ring and receive ring of Ftmac100, for rings and frames *)
(* of any size; that the receive ring is the line of RxLine, and that what *)
(* the engine has still to send is a queue.                                *)
(***************************************************************************)
EXTENDS Ftmac100, SequenceTheorems, TLAPS

\* The next slot of a ring of any size.
LEMMA NextSlot ==
  ASSUME NEW N \in Nat \ {0}, NEW i \in 0 .. N - 1
  PROVE  (i + 1) % N = IF i = N - 1 THEN 0 ELSE i + 1
<1>1. CASE i = N - 1
  <2>1. N % N = 0
    OBVIOUS
  <2> QED
    BY <1>1, <2>1
<1>2. CASE i # N - 1
  <2>1. i + 1 \in 0 .. N - 1
    BY <1>2
  <2> QED
    BY <1>2, <2>1
<1> QED
  BY <1>1, <1>2

LEMMA NextRxSlot ==
  ASSUME NEW i \in RxSlots
  PROVE  NextRx(i) = (IF i = RXDES_NUM - 1 THEN 0 ELSE i + 1) /\ NextRx(i) \in RxSlots
BY NextSlot, RingAssumption DEF RxSlots, NextRx

LEMMA NextTxSlot ==
  ASSUME NEW i \in TxSlots
  PROVE  NextTx(i) = (IF i = TXDES_NUM - 1 THEN 0 ELSE i + 1) /\ NextTx(i) \in TxSlots
BY NextSlot, RingAssumption DEF TxSlots, NextTx

\* Beside the types: the descriptor being filled is the driver's and holds
\* the packet of the call, and the engine is off while it is reset.
TypeInv ==
  /\ TypeOK
  /\ pc = "own" => ~txown[tx_idx] /\ txbuf[tx_idx] = packet
  /\ pc \in {"send", "own"} => packet \in Packets
  /\ pc = "reset" => ~hwOn

\* The engine writes a frame into descriptors it owns.
LEMMA ReceiveType ==
  ASSUME TypeInv, NEW n \in 1 .. MaxSegs, NEW good \in BOOLEAN, HwReceive(n, good)
  PROVE  TypeInv'
<1>1. RXDES_NUM \in Nat \ {0} /\ MaxSegs \in 1 .. RXDES_NUM - 1 /\ hwRx \in RxSlots
  BY RingAssumption, FrameAssumption DEF TypeInv, TypeOK
<1>2. (hwRx + n) % RXDES_NUM \in RxSlots
  BY <1>1 DEF RxSlots
<1>3. \A i \in Fills(n) : i \in RxSlots /\ Number(i) \in 1 .. n
  <2> SUFFICES ASSUME NEW k \in 0 .. n - 1
               PROVE  /\ (hwRx + k) % RXDES_NUM \in RxSlots
                      /\ Number((hwRx + k) % RXDES_NUM) = k + 1
    BY DEF Fills
  <2>1. CASE hwRx + k < RXDES_NUM
    <3>1. (hwRx + k) % RXDES_NUM = hwRx + k
      BY <1>1, <2>1 DEF RxSlots
    <3> QED
      BY <1>1, <2>1, <3>1 DEF RxSlots, Number
  <2>2. CASE hwRx + k >= RXDES_NUM
    <3>1. (hwRx + k) % RXDES_NUM = hwRx + k - RXDES_NUM
      BY <1>1, <2>2 DEF RxSlots
    <3> QED
      BY <1>1, <2>2, <3>1 DEF RxSlots, Number
  <2> QED
    BY <1>1, <2>1, <2>2 DEF RxSlots
<1>4. \A i \in Fills(n) :
        [frame |-> hwRx, n |-> Number(i), len |-> n,
         last |-> Number(i) = n, good |-> good] \in Segs
  BY <1>1, <1>3 DEF Segs
<1>5. rxseg' \in [RxSlots -> Segs \cup {NoSeg}]
  BY <1>4 DEF HwReceive, TypeInv, TypeOK
<1> QED
  BY <1>2, <1>5 DEF HwReceive, TypeInv, TypeOK, dev, rcv, tx

LEMMA TypeStep == TypeInv /\ [Next]_vars => TypeInv'
<1> SUFFICES ASSUME TypeInv, [Next]_vars PROVE TypeInv'
  OBVIOUS
<1> USE DEF TypeInv, TypeOK, dev, rcv, rx, tx, hw
<1>1. 0 \in RxSlots /\ 0 \in TxSlots /\ 0 \in 0 .. MaxSegs
  BY RingAssumption, FrameAssumption DEF RxSlots, TxSlots
<1>2. CASE HwFrame
  BY <1>2, ReceiveType DEF HwFrame
<1>3. CASE HwSend
  BY <1>3, NextTxSlot DEF HwSend
<1>4. CASE HwIdle
  BY <1>4 DEF HwIdle
<1>5. CASE EthInit
  BY <1>5 DEF EthInit
<1>17. CASE EthOpened
  BY <1>17, <1>1 DEF EthOpened, ftmac100_reset, ftmac100_enable
<1>6. CASE EthInitNoMemory \/ EthInitBug \/ NullPriv \/ PowerCycle \/ EthHalt
  BY <1>6 DEF EthInitNoMemory, EthInitBug, NullPriv, PowerCycle, EthHalt
<1>7. CASE RcvStart \/ ScanStop
  BY <1>7, <1>1 DEF RcvStart, ScanStop, AfterScan
<1>8. CASE ScanError
  BY <1>8, NextRxSlot DEF ScanError
<1>9. CASE ScanSeg
  <2>1. Frs(rx_idx) => rxseg[rx_idx].len \in 0 .. MaxSegs
    BY FrameAssumption DEF Frs, Segs
  <2>2. packet_length' \in 0 .. MaxSegs
    BY <1>9, <2>1 DEF ScanSeg
  <2> QED
    BY <1>9, <2>2, NextRxSlot DEF ScanSeg, AfterScan
<1>10. CASE CopySeg
  BY <1>10 DEF CopySeg
<1>11. CASE ReturnSeg
  BY <1>11, NextRxSlot DEF ReturnSeg
<1>12. CASE Deliver
  BY <1>12 DEF Deliver
<1>13. CASE \E p \in Packets : EthSend(p)
  BY <1>13 DEF EthSend
<1>14. CASE SendWait \/ UNCHANGED vars
  BY <1>14 DEF SendWait, vars
<1>15. CASE SendFill \/ SendOwn
  BY <1>15 DEF SendFill, SendOwn
<1>16. CASE SendKick
  BY <1>16, NextTxSlot DEF SendKick
<1> QED
  BY <1>2, <1>3, <1>4, <1>5, <1>6, <1>7, <1>8, <1>9, <1>10, <1>11, <1>12, <1>13,
     <1>14, <1>15, <1>16, <1>17 DEF Next, RcvStep, SendStep

LEMMA TypeInit == Init => TypeInv
BY RingAssumption, FrameAssumption DEF Init, TypeInv, TypeOK, RxSlots, TxSlots

\* In every state of every configuration the variables have their types: no
\* index leaves its ring, no length the longest frame.
THEOREM UbootTypeCorrect == Spec => []TypeOK
<1>1. TypeInv => TypeOK
  BY DEF TypeInv
<1> QED
  BY <1>1, TypeInit, TypeStep, PTL DEF Spec

-----------------------------------------------------------------------------
(* The transmit ring                                                       *)

LEMMA TxRunStep == TypeInv /\ TypeInv' /\ TxRun /\ [Next]_vars => TxRun'
<1> SUFFICES ASSUME TypeInv, TypeInv', TxRun, [Next]_vars PROVE TxRun'
  OBVIOUS
<1>0. /\ TXDES_NUM \in Nat \ {0} /\ TxSlots = 0 .. TXDES_NUM - 1
      /\ hwTx \in TxSlots /\ tx_idx \in TxSlots
      /\ NextTx(tx_idx) = IF tx_idx = TXDES_NUM - 1 THEN 0 ELSE tx_idx + 1
      /\ NextTx(hwTx) = IF hwTx = TXDES_NUM - 1 THEN 0 ELSE hwTx + 1
  BY RingAssumption, NextTxSlot DEF TypeInv, TypeOK, TxSlots
<1>1. ASSUME UNCHANGED <<txown, hwTx, tx_idx>>, pc # "kick", pc' \notin {"own", "kick"}
      PROVE  TxRun'
  BY <1>1 DEF TxRun, TxDist, TxEnd
<1>2. CASE HwFrame \/ HwIdle
  BY <1>2 DEF HwFrame, HwReceive, HwIdle, tx, TxRun, TxDist, TxEnd, NextTx
<1>3. CASE HwSend
  <2>1. \A i \in TxSlots : txown'[i] <=> txown[i] /\ i # hwTx
    BY <1>3 DEF HwSend, TypeInv, TypeOK
  <2>2. hwTx' = NextTx(hwTx) /\ TxEnd' = TxEnd /\ TxEnd \in TxSlots
    BY <1>3, NextTxSlot, <1>0 DEF HwSend, TxEnd, NextTx, tx
  <2>3. txown[hwTx]
    BY <1>3 DEF HwSend
  <2>4. \A i \in TxSlots :
          TxDist(i)' = IF i = hwTx THEN TXDES_NUM - 1 ELSE TxDist(i) - 1
    BY <1>0, <2>2 DEF TxDist
  <2>5. \A i \in TxSlots : TxDist(i) \in 0 .. TXDES_NUM - 1 /\ (TxDist(i) = 0 <=> i = hwTx)
    BY <1>0 DEF TxDist
  <2>6. TxDist(TxEnd)' = IF TxEnd = hwTx THEN TXDES_NUM - 1 ELSE TxDist(TxEnd) - 1
    BY <2>2, <2>4 DEF TxDist
  <2>7. \A i \in TxSlots : txown'[i] <=> TxDist(i)' < TxDist(TxEnd)'
    <3>1. CASE \A i \in TxSlots : txown[i] <=> TxDist(i) < TxDist(TxEnd)
      <4>1. TxEnd # hwTx
        <5>1. TxDist(hwTx) = 0 /\ hwTx \in TxSlots
          BY <1>0, <2>5
        <5> QED
          BY <2>3, <3>1, <5>1
      <4>2. TxDist(TxEnd) \in 1 .. TXDES_NUM - 1
        BY <4>1, <2>2, <2>5, <1>0
      <4>3. TxDist(TxEnd)' = TxDist(TxEnd) - 1
        BY <4>1, <2>6
      <4> SUFFICES ASSUME NEW i \in TxSlots
                   PROVE  txown'[i] <=> TxDist(i)' < TxDist(TxEnd) - 1
        BY <4>3
      <4>4. CASE i = hwTx
        BY <4>2, <4>4, <2>1, <2>4, <1>0
      <4>5. CASE i # hwTx
        <5>1. TxDist(i)' = TxDist(i) - 1 /\ TxDist(i) \in 0 .. TXDES_NUM - 1
          BY <4>5, <2>4, <2>5
        <5>2. txown'[i] <=> TxDist(i) < TxDist(TxEnd)
          BY <4>5, <2>1, <3>1
        <5> QED
          BY <5>1, <5>2, <4>2, <1>0
      <4> QED
        BY <4>4, <4>5
    <3>2. CASE TxEnd = hwTx /\ \A i \in TxSlots : txown[i]
      <4>1. TxDist(TxEnd)' = TXDES_NUM - 1
        BY <3>2, <2>6
      <4> SUFFICES ASSUME NEW i \in TxSlots
                   PROVE  txown'[i] <=> TxDist(i)' < TXDES_NUM - 1
        BY <4>1
      <4>2. txown'[i] <=> i # hwTx
        BY <3>2, <2>1
      <4>3. TxDist(i)' = IF i = hwTx THEN TXDES_NUM - 1 ELSE TxDist(i) - 1
        BY <2>4
      <4>4. TxDist(i) \in 0 .. TXDES_NUM - 1
        BY <2>5
      <4> QED
        BY <4>2, <4>3, <4>4, <1>0
    <3> QED
      BY <3>1, <3>2 DEF TxRun
  <2> QED
    BY <2>7 DEF TxRun
<1>4. CASE EthOpened
  <2>1. pc' = "idle" /\ tx_idx' = 0 /\ hwTx' = 0 /\ \A i \in TxSlots : ~txown'[i]
    BY <1>4 DEF EthOpened, ftmac100_reset, ftmac100_enable
  <2>2. TxEnd' = 0 /\ \A i \in TxSlots : TxDist(i)' = i
    BY <2>1, <1>0 DEF TxEnd, TxDist
  <2> QED
    BY <2>1, <2>2, <1>0 DEF TxRun
<1>5. CASE EthInit \/ EthInitNoMemory \/ EthInitBug \/ NullPriv \/ PowerCycle \/ EthHalt
  BY <1>5, <1>1 DEF EthInit, EthInitNoMemory, EthInitBug, NullPriv, PowerCycle, EthHalt, tx, hw
<1>6. CASE RcvStart \/ RcvStep
  BY <1>6, <1>1 DEF RcvStart, RcvStep, ScanStop, ScanError, ScanSeg, AfterScan, CopySeg,
                    ReturnSeg, Deliver, tx, hw, rx
<1>7. CASE \E p \in Packets : EthSend(p)
  BY <1>7, <1>1 DEF EthSend, hw
<1>8. CASE SendWait \/ UNCHANGED vars
  BY <1>8 DEF SendWait, vars, tx, hw, TxRun, TxDist, TxEnd, NextTx
<1>9. CASE SendFill
  <2>1. ~txown[tx_idx] /\ TxEnd = tx_idx /\ TxEnd' = tx_idx /\ UNCHANGED <<txown, hwTx>>
    BY <1>9 DEF SendFill, TxEnd, hw
  <2>2. \A i \in TxSlots : txown[i] <=> TxDist(i) < TxDist(tx_idx)
    BY <2>1, <1>0 DEF TxRun
  <2> QED
    BY <2>1, <2>2, <1>9 DEF TxRun, TxDist, SendFill
<1>10. CASE SendOwn
  <2>1. /\ \A i \in TxSlots : txown'[i] <=> txown[i] \/ i = tx_idx
        /\ TxEnd = tx_idx /\ TxEnd' = NextTx(tx_idx) /\ UNCHANGED <<hwTx, tx_idx>>
        /\ pc' = "kick"
    BY <1>10 DEF SendOwn, TxEnd, hw, TypeInv, TypeOK, NextTx
  <2>2. \A i \in TxSlots : txown[i] <=> TxDist(i) < TxDist(tx_idx)
    BY <2>1, <1>10 DEF TxRun, SendOwn
  <2>3. \A i \in TxSlots : TxDist(i)' = TxDist(i) /\ TxDist(i) \in 0 .. TXDES_NUM - 1
    BY <2>1, <1>0 DEF TxDist
  <2>4. \A i, j \in TxSlots : TxDist(i) = TxDist(j) => i = j
    BY <1>0 DEF TxDist
  <2>5. TxDist(TxEnd)' = IF TxEnd' = hwTx THEN 0 ELSE TxDist(tx_idx) + 1
    BY <2>1, <1>0 DEF TxDist
  <2>6. TxEnd' = hwTx => TxDist(tx_idx) = TXDES_NUM - 1
    BY <2>1, <1>0 DEF TxDist
  <2>7. CASE TxEnd' = hwTx
    <3>1. \A i \in TxSlots : txown'[i]
      BY <2>7, <2>1, <2>2, <2>3, <2>4, <2>6, <1>0
    <3> QED
      BY <2>7, <2>1, <3>1 DEF TxRun
  <2>8. CASE TxEnd' # hwTx
    <3>1. \A i \in TxSlots : txown'[i] <=> TxDist(i)' < TxDist(TxEnd)'
      <4> SUFFICES ASSUME NEW i \in TxSlots
                   PROVE  txown'[i] <=> TxDist(i) < TxDist(tx_idx) + 1
        BY <2>8, <2>3, <2>5
      <4>1. TxDist(i) = TxDist(tx_idx) <=> i = tx_idx
        BY <2>4, <1>0
      <4>2. TxDist(i) \in Int /\ TxDist(tx_idx) \in Int
        BY <2>3, <1>0
      <4>3. txown'[i] <=> TxDist(i) < TxDist(tx_idx) \/ i = tx_idx
        BY <2>1, <2>2
      <4> QED
        BY <4>1, <4>2, <4>3
    <3> QED
      BY <3>1 DEF TxRun
  <2> QED
    BY <2>7, <2>8
<1>11. CASE SendKick
  BY <1>11 DEF SendKick, TxRun, TxDist, TxEnd, NextTx
<1> QED
  BY <1>2, <1>3, <1>4, <1>5, <1>6, <1>7, <1>8, <1>9, <1>10, <1>11 DEF Next, SendStep

\* What the engine owns of the transmit ring is one run, from its position
\* to the driver's: packets leave in the order of the calls of eth_send.
THEOREM PacketsLeaveInOrder == Spec => []TxRun
<1>1. Init => TxRun
  BY DEF Init, TxRun, TxDist, TxEnd
<1> QED
  BY <1>1, TypeInit, TypeStep, TxRunStep, PTL DEF Spec

-----------------------------------------------------------------------------
(* The receive ring.  Beginning at the first descriptor the driver has not *)
(* given back, software owns a window that ends where the engine is        *)
(* (RunAt); the window is made of whole frames, but for what the driver    *)
(* has given back of its first (FrameInv); and the two loops of            *)
(* ftmac100_rcv move inside of it (CallInv).                               *)

RunAt(b) == \E w \in 0 .. RXDES_NUM :
  /\ hwRx = At(b, w)
  /\ \A i \in RxSlots : ~rxown[i] <=> Way(b, i) < w

WholeSeg(i) ==
  /\ rxseg[i] \in Segs
  /\ rxseg[i].n <= rxseg[i].len
  /\ rxseg[i].last <=> rxseg[i].n = rxseg[i].len
  /\ ~rxseg[i].good => rxseg[i].len = 1
Follows(i) ==
  LET next == NextRx(i) IN
  /\ next = hwRx => rxseg[i].last
  /\ next # hwRx =>
       /\ ~rxown[next]
       /\ rxseg[next].n = IF rxseg[i].last THEN 1 ELSE rxseg[i].n + 1
       /\ ~rxseg[i].last => rxseg[next].len = rxseg[i].len
FrameInv == \A i \in RxSlots : ~rxown[i] => WholeSeg(i) /\ Follows(i)

Starts(i) == ~rxown[i] => rxseg[i].n = 1
CallInv ==
  /\ pc = "scan" =>
       \/ rx_idx = start_idx /\ packet_length = 0 /\ Starts(rx_idx)
       \/ /\ ~rxown[rx_idx] /\ packet_length > 0
          /\ rxseg[rx_idx].n > 1 /\ Way(start_idx, rx_idx) = rxseg[rx_idx].n - 1
  /\ pc # "scan" => Starts(rx_idx)
  /\ pc \in {"copy", "return"} =>
       \A i \in RxSlots : Way(start_idx, i) < Way(start_idx, rx_idx) => ~rxown[i]
  /\ pc = "return" => start_idx # rx_idx

RxInv == hwOn => RunAt(First) /\ FrameInv /\ CallInv
RxIInv == TypeInv /\ (pc \in Receiving => hwOn) /\ RxInv

LEMMA RxRing ==
  /\ RXDES_NUM \in Nat \ {0, 1} /\ RxSlots = 0 .. RXDES_NUM - 1
  /\ MaxSegs \in 1 .. RXDES_NUM - 1
BY RingAssumption, FrameAssumption DEF RxSlots

LEMMA WayRound ==
  ASSUME NEW i \in RxSlots, NEW j \in RxSlots
  PROVE  /\ Way(i, j) \in RxSlots
         /\ Way(i, j) = 0 <=> i = j
         /\ At(i, Way(i, j)) = j
BY RxRing DEF Way, At

LEMMA AtSlot ==
  ASSUME NEW i \in RxSlots, NEW w \in RxSlots
  PROVE  At(i, w) \in RxSlots /\ Way(i, At(i, w)) = w
BY RxRing DEF Way, At

LEMMA AtFull == ASSUME NEW i \in RxSlots PROVE At(i, RXDES_NUM) = i
BY RxRing DEF At

LEMMA WayOn ==
  ASSUME NEW i \in RxSlots, NEW j \in RxSlots
  PROVE  /\ NextRx(j) \in RxSlots /\ NextRx(j) # j
         /\ Way(i, NextRx(j)) = IF NextRx(j) = i THEN 0 ELSE Way(i, j) + 1
         /\ NextRx(j) = i <=> Way(i, j) = RXDES_NUM - 1
         /\ Way(NextRx(i), j) = IF j = i THEN RXDES_NUM - 1 ELSE Way(i, j) - 1
<1>1. /\ NextRx(i) = IF i = RXDES_NUM - 1 THEN 0 ELSE i + 1
      /\ NextRx(j) = IF j = RXDES_NUM - 1 THEN 0 ELSE j + 1
  BY NextRxSlot
<1>2. NextRx(j) \in RxSlots /\ NextRx(j) # j
  BY <1>1, RxRing
<1>3. Way(i, NextRx(j)) = IF NextRx(j) = i THEN 0 ELSE Way(i, j) + 1
  BY <1>1, RxRing DEF Way
<1>4. NextRx(j) = i <=> Way(i, j) = RXDES_NUM - 1
  BY <1>1, RxRing DEF Way
<1>5. Way(NextRx(i), j) = IF j = i THEN RXDES_NUM - 1 ELSE Way(i, j) - 1
  BY <1>1, RxRing DEF Way
<1> QED
  BY <1>2, <1>3, <1>4, <1>5

\* The size of the window says where the engine is, and the engine the size
\* of the window, but for empty and full.
LEMMA WindowSize ==
  ASSUME NEW b \in RxSlots, NEW w \in 0 .. RXDES_NUM, hwRx = At(b, w)
  PROVE  /\ w < RXDES_NUM => hwRx \in RxSlots /\ Way(b, hwRx) = w
         /\ w = RXDES_NUM => hwRx = b
<1>1. w < RXDES_NUM => w \in RxSlots
  BY RxRing
<1> QED
  BY <1>1, AtSlot, AtFull

\* A slot inside of the window or at its end that the engine owns is where
\* the engine is.
LEMMA EndOfRun ==
  ASSUME NEW b \in RxSlots, NEW i \in RxSlots, RunAt(b), rxown[i],
         \A j \in RxSlots : Way(b, j) < Way(b, i) => ~rxown[j]
  PROVE  i = hwRx
<1>1. PICK w \in 0 .. RXDES_NUM :
        hwRx = At(b, w) /\ \A j \in RxSlots : ~rxown[j] <=> Way(b, j) < w
  BY DEF RunAt
<1>2. Way(b, i) \in RxSlots /\ ~(Way(b, i) < w)
  BY <1>1, WayRound
<1>3. w < RXDES_NUM
  BY <1>2, RxRing
<1>4. hwRx \in RxSlots /\ Way(b, hwRx) = w
  BY <1>1, <1>3, WindowSize
<1>5. rxown[hwRx]
  BY <1>1, <1>4
<1>6. Way(b, i) = w
  BY <1>2, <1>4, <1>5, RxRing
<1> QED
  BY <1>4, <1>6, WayRound

\* After the last piece of a frame comes the first of another, until the
\* window comes round.
LEMMA FrameEnds ==
  ASSUME NEW b \in RxSlots, NEW i \in RxSlots, RunAt(b), FrameInv,
         ~rxown[i], rxseg[i].last, NextRx(i) # b
  PROVE  Starts(NextRx(i))
<1> DEFINE next == NextRx(i)
<1> SUFFICES ASSUME ~rxown[next] PROVE rxseg[next].n = 1
  BY DEF Starts
<1>1. PICK w \in 0 .. RXDES_NUM :
        hwRx = At(b, w) /\ \A j \in RxSlots : ~rxown[j] <=> Way(b, j) < w
  BY DEF RunAt
<1>2. next \in RxSlots
  BY WayOn
<1>3. next # hwRx
  <2>1. Way(b, next) < w /\ Way(b, next) \in RxSlots
    BY <1>1, <1>2, WayRound
  <2> QED
    BY <2>1, <1>1, WindowSize, RxRing
<1> QED
  BY <1>3 DEF FrameInv, Follows

\* The first descriptor of the window goes back to the engine.
LEMMA ReleaseShrinks ==
  ASSUME NEW b \in RxSlots, TypeInv, NEW w \in 0 .. RXDES_NUM, hwRx = At(b, w),
         \A i \in RxSlots : ~rxown[i] <=> Way(b, i) < w, ~rxown[b], hwRx' = hwRx,
         rxown' = [rxown EXCEPT ![b] = TRUE]
  PROVE  /\ w - 1 \in 0 .. RXDES_NUM /\ hwRx' = At(NextRx(b), w - 1)
         /\ \A i \in RxSlots : ~rxown'[i] <=> Way(NextRx(b), i) < w - 1
<1>1. w >= 1
  <2>1. Way(b, b) = 0 /\ Way(b, b) < w
    BY WayRound
  <2> QED
    BY <2>1
<1>2. hwRx' = At(NextRx(b), w - 1)
  <2>1. NextRx(b) = IF b = RXDES_NUM - 1 THEN 0 ELSE b + 1
    BY NextRxSlot
  <2> QED
    BY <1>1, <2>1, RxRing DEF At
<1>3. ASSUME NEW i \in RxSlots PROVE ~rxown'[i] <=> Way(NextRx(b), i) < w - 1
  <2>1. Way(NextRx(b), i) = IF i = b THEN RXDES_NUM - 1 ELSE Way(b, i) - 1
    BY WayOn
  <2>2. Way(b, i) \in RxSlots
    BY WayRound
  <2>3. ~rxown'[i] <=> i # b /\ Way(b, i) < w
    BY DEF TypeInv, TypeOK
  <2> QED
    BY <2>1, <2>2, <2>3, <1>1, RxRing
<1> QED
  BY <1>1, <1>2, <1>3, RxRing

LEMMA Release ==
  ASSUME NEW b \in RxSlots, TypeInv, RunAt(b), FrameInv, ~rxown[b], hwRx' = hwRx,
         rxown' = [rxown EXCEPT ![b] = TRUE], rxseg' = [rxseg EXCEPT ![b] = NoSeg]
  PROVE  /\ FrameInv'
         /\ \E w \in 0 .. RXDES_NUM :
              /\ hwRx' = At(NextRx(b), w)
              /\ \A i \in RxSlots : ~rxown'[i] <=> Way(NextRx(b), i) < w
<1>1. PICK w \in 0 .. RXDES_NUM :
        hwRx = At(b, w) /\ \A i \in RxSlots : ~rxown[i] <=> Way(b, i) < w
  BY DEF RunAt
<1>2. \A i \in RxSlots : rxown'[i] = (rxown[i] \/ i = b) /\ (i # b => rxseg'[i] = rxseg[i])
  BY DEF TypeInv, TypeOK
<1>3. /\ w - 1 \in 0 .. RXDES_NUM /\ hwRx' = At(NextRx(b), w - 1)
      /\ \A i \in RxSlots : ~rxown'[i] <=> Way(NextRx(b), i) < w - 1
  BY <1>1, ReleaseShrinks
<1>6. ASSUME NEW i \in RxSlots, ~rxown'[i] PROVE WholeSeg(i)' /\ Follows(i)'
  <2>1. i # b /\ ~rxown[i] /\ rxseg'[i] = rxseg[i]
    BY <1>2, <1>6
  <2>2. WholeSeg(i) /\ Follows(i)
    BY <2>1 DEF FrameInv
  <2>3. CASE NextRx(i) = b
    <3>1. Way(b, i) = RXDES_NUM - 1 /\ Way(b, i) < w
      BY <2>1, <2>3, <1>1, WayOn
    <3>2. hwRx = b
      BY <3>1, <1>1, WindowSize, RxRing
    <3> QED
      BY <2>1, <2>2, <2>3, <3>2 DEF WholeSeg, Follows, NextRx
  <2>4. CASE NextRx(i) # b
    <3>1. NextRx(i) \in RxSlots
      BY WayOn
    <3>2. rxown'[NextRx(i)] = rxown[NextRx(i)] /\ rxseg'[NextRx(i)] = rxseg[NextRx(i)]
      BY <3>1, <2>4, <1>2
    <3> QED
      BY <2>1, <2>2, <3>2 DEF WholeSeg, Follows, NextRx
  <2> QED
    BY <2>3, <2>4
<1> QED
  BY <1>3, <1>6 DEF FrameInv

Piece(h, k, len, good) ==
  [frame |-> h, n |-> k, len |-> len, last |-> k = len, good |-> good]

LEMMA PieceFields ==
  ASSUME NEW h, NEW k, NEW len, NEW good \in BOOLEAN
  PROVE  LET r == Piece(h, k, len, good) IN
           /\ r.n = k
           /\ r.len = len
           /\ r.last <=> k = len
           /\ r.good <=> good
<1> DEFINE r == Piece(h, k, len, good)
<1>1. r.n = k /\ r.len = len
  BY DEF Piece
<1>2. r.last = (k = len)
  BY Zenon DEF Piece
<1>3. r.good = good
  BY Zenon DEF Piece
<1> QED
  BY <1>1, <1>2, <1>3

\* A frame of n pieces from the engine's position on.
LEMMA ReceiveFills ==
  ASSUME TypeInv, NEW n \in 1 .. MaxSegs, NEW good \in BOOLEAN, HwReceive(n, good)
  PROVE  /\ \A i \in RxSlots : /\ ~rxown'[i] <=> ~rxown[i] \/ Way(hwRx, i) < n
                               /\ Way(hwRx, i) < n => rxown[i]
         /\ \A i \in RxSlots :
              rxseg'[i] = IF Way(hwRx, i) < n
                            THEN Piece(hwRx, Way(hwRx, i) + 1, n, good)
                            ELSE rxseg[i]
         /\ hwRx' = At(hwRx, n) /\ hwRx' \in RxSlots /\ Way(hwRx, hwRx') = n
<1>1. hwRx \in RxSlots /\ n \in Nat /\ n < RXDES_NUM /\ n >= 1
  BY RxRing DEF TypeInv, TypeOK
<1>2. \A i \in RxSlots : i \in Fills(n) <=> Way(hwRx, i) < n
  <2>1. ASSUME NEW k \in 0 .. n - 1 PROVE (hwRx + k) % RXDES_NUM = At(hwRx, k)
    <3>1. CASE hwRx + k < RXDES_NUM
      BY <1>1, <3>1, RxRing DEF At
    <3>2. CASE hwRx + k >= RXDES_NUM
      BY <1>1, <3>2, RxRing DEF At
    <3> QED
      BY <1>1, <3>1, <3>2, RxRing
  <2>2. ASSUME NEW i \in RxSlots, i \in Fills(n) PROVE Way(hwRx, i) < n
    <3>1. PICK k \in 0 .. n - 1 : i = At(hwRx, k)
      BY <2>1, <2>2 DEF Fills
    <3>2. k \in RxSlots /\ k < n
      BY <1>1, RxRing
    <3> QED
      BY <1>1, <3>1, <3>2, AtSlot
  <2>3. ASSUME NEW i \in RxSlots, Way(hwRx, i) < n PROVE i \in Fills(n)
    <3>1. Way(hwRx, i) \in RxSlots /\ At(hwRx, Way(hwRx, i)) = i
      BY <1>1, WayRound
    <3>2. Way(hwRx, i) \in 0 .. n - 1
      BY <1>1, <2>3, <3>1, RxRing
    <3> QED
      BY <2>1, <3>1, <3>2 DEF Fills
  <2> QED
    BY <2>2, <2>3
<1>3. \A i \in RxSlots : /\ ~rxown'[i] <=> ~rxown[i] \/ Way(hwRx, i) < n
                         /\ Way(hwRx, i) < n => rxown[i]
  BY <1>2 DEF HwReceive
<1>4. \A i \in RxSlots :
        rxseg'[i] = IF Way(hwRx, i) < n THEN Piece(hwRx, Way(hwRx, i) + 1, n, good)
                                      ELSE rxseg[i]
  <2>1. \A i \in RxSlots : Number(i) = Way(hwRx, i) + 1
    BY <1>1, RxRing DEF Number, Way
  <2> QED
    BY <1>2, <2>1 DEF HwReceive, Piece
<1>5. hwRx' = At(hwRx, n) /\ hwRx' \in RxSlots /\ Way(hwRx, hwRx') = n
  <2>1. (hwRx + n) % RXDES_NUM = At(hwRx, n)
    <3>1. CASE hwRx + n < RXDES_NUM
      BY <1>1, <3>1, RxRing DEF At
    <3>2. CASE hwRx + n >= RXDES_NUM
      BY <1>1, <3>2, RxRing DEF At
    <3> QED
      BY <1>1, <3>1, <3>2, RxRing
  <2>2. n \in RxSlots
    BY <1>1, RxRing
  <2>3. At(hwRx, n) \in RxSlots /\ Way(hwRx, At(hwRx, n)) = n
    BY <1>1, <2>2, AtSlot
  <2>4. hwRx' = At(hwRx, n)
    BY <2>1 DEF HwReceive
  <2> QED
    BY <2>3, <2>4
<1> QED
  BY <1>3, <1>4, <1>5

\* It lengthens the window by its pieces, for which there was room.
LEMMA ReceiveGrows ==
  ASSUME TypeInv, NEW n \in 1 .. MaxSegs, NEW good \in BOOLEAN, HwReceive(n, good),
         NEW w \in 0 .. RXDES_NUM, hwRx = At(First, w),
         \A i \in RxSlots : ~rxown[i] <=> Way(First, i) < w
  PROVE  /\ w + n \in 0 .. RXDES_NUM /\ hwRx' = At(First, w + n)
         /\ \A i \in RxSlots : ~rxown'[i] <=> Way(First, i) < w + n
<1>1. /\ hwRx \in RxSlots /\ First \in RxSlots /\ n \in Nat /\ n < RXDES_NUM /\ n >= 1
  BY RxRing DEF TypeInv, TypeOK, First
<1>3. \A i \in RxSlots : /\ ~rxown'[i] <=> ~rxown[i] \/ Way(hwRx, i) < n
                         /\ Way(hwRx, i) < n => rxown[i]
  BY ReceiveFills
<1>5. hwRx' = At(hwRx, n)
  BY ReceiveFills
<1>6. hwRx = At(First, w) /\ \A i \in RxSlots : ~rxown[i] <=> Way(First, i) < w
  OBVIOUS
<1>12. w < RXDES_NUM
  <2>1. CASE w = RXDES_NUM
    <3>1. rxown[hwRx]
      BY <1>1, <1>3, WayRound
    <3>2. Way(First, hwRx) \in RxSlots
      BY <1>1, WayRound
    <3> QED
      BY <1>1, <1>6, <2>1, <3>1, <3>2, RxRing
  <2> QED
    BY <2>1, RxRing
<1>13. Way(First, hwRx) = w
  BY <1>1, <1>6, <1>12, WindowSize
<1>14. \A i \in RxSlots :
        Way(hwRx, i) = IF Way(First, i) >= w THEN Way(First, i) - w
                                             ELSE Way(First, i) - w + RXDES_NUM
  <2>1. CASE First <= hwRx
    BY <1>1, <1>13, <2>1, RxRing DEF Way
  <2>2. CASE hwRx < First
    BY <1>1, <1>13, <2>2, RxRing DEF Way
  <2> QED
    BY <1>1, <2>1, <2>2, RxRing
<1>15. w + n <= RXDES_NUM
  <2>1. CASE w = 0
    BY <1>1, <2>1, RxRing
  <2>2. CASE w > 0
    <3>1. ~rxown[First] /\ Way(First, First) = 0
      BY <1>1, <1>6, <2>2, WayRound
    <3>2. Way(hwRx, First) = RXDES_NUM - w
      BY <1>1, <1>14, <2>2, <3>1, RxRing
    <3>3. ~(Way(hwRx, First) < n)
      BY <1>1, <1>3, <3>1
    <3> QED
      BY <1>1, <3>2, <3>3, RxRing
  <2> QED
    BY <2>1, <2>2
<1>16. hwRx' = At(First, w + n)
  BY <1>1, <1>5, <1>6, <1>12, <1>15, RxRing DEF At
<1>17. ASSUME NEW i \in RxSlots PROVE ~rxown'[i] <=> Way(First, i) < w + n
  <2>1. Way(First, i) \in RxSlots
    BY <1>1, WayRound
  <2>2. ~rxown'[i] <=> Way(First, i) < w \/ Way(hwRx, i) < n
    BY <1>3, <1>6
  <2> QED
    BY <1>1, <1>12, <1>14, <1>15, <2>1, <2>2, RxRing
<1>18. w + n \in 0 .. RXDES_NUM
  BY <1>1, <1>15, RxRing
<1> QED
  BY <1>16, <1>17, <1>18

\* The engine puts a frame behind the window.
LEMMA ReceiveRun ==
  ASSUME RxIInv, NEW n \in 1 .. MaxSegs, NEW good \in BOOLEAN, HwReceive(n, good),
         good \/ n = 1
  PROVE  RunAt(First)' /\ FrameInv' /\ CallInv'
<1>1. /\ RunAt(First) /\ FrameInv /\ CallInv /\ TypeInv
      /\ hwRx \in RxSlots /\ First \in RxSlots /\ rx_idx \in RxSlots /\ start_idx \in RxSlots
      /\ First' = First /\ UNCHANGED <<pc, rx_idx, start_idx, packet_length>>
      /\ n \in Nat /\ n < RXDES_NUM /\ n >= 1
  BY RxRing DEF HwReceive, RxIInv, RxInv, TypeInv, TypeOK, First, rcv
<1>3. \A i \in RxSlots : /\ ~rxown'[i] <=> ~rxown[i] \/ Way(hwRx, i) < n
                         /\ Way(hwRx, i) < n => rxown[i]
  BY <1>1, ReceiveFills
<1>4. \A i \in RxSlots :
        rxseg'[i] = IF Way(hwRx, i) < n THEN Piece(hwRx, Way(hwRx, i) + 1, n, good)
                                      ELSE rxseg[i]
  BY <1>1, ReceiveFills
<1>5. hwRx' = At(hwRx, n) /\ hwRx' \in RxSlots /\ Way(hwRx, hwRx') = n
  BY <1>1, ReceiveFills
<1>6. ~rxown'[hwRx] /\ rxseg'[hwRx].n = 1
  <2>1. Way(hwRx, hwRx) = 0
    BY <1>1, WayRound
  <2>2. ~rxown'[hwRx] /\ rxseg'[hwRx] = Piece(hwRx, 1, n, good)
    BY <1>1, <1>3, <1>4, <2>1
  <2> QED
    BY <2>2, PieceFields
<1>7. RunAt(First)'
  <2>1. PICK w \in 0 .. RXDES_NUM :
          hwRx = At(First, w) /\ \A i \in RxSlots : ~rxown[i] <=> Way(First, i) < w
    BY <1>1 DEF RunAt
  <2>2. /\ w + n \in 0 .. RXDES_NUM /\ hwRx' = At(First, w + n)
        /\ \A i \in RxSlots : ~rxown'[i] <=> Way(First, i) < w + n
    BY <1>1, <2>1, ReceiveGrows
  <2> QED
    BY <1>1, <2>2 DEF RunAt, At, Way
<1>8. FrameInv'
  <2> SUFFICES ASSUME NEW i \in RxSlots, ~rxown'[i] PROVE WholeSeg(i)' /\ Follows(i)'
    BY DEF FrameInv
  <2> DEFINE next == NextRx(i)
  <2>1. /\ next \in RxSlots /\ Way(hwRx, i) \in RxSlots
        /\ Way(hwRx, next) = IF next = hwRx THEN 0 ELSE Way(hwRx, i) + 1
        /\ NextRx(i)' = next
    BY <1>1, WayOn, WayRound DEF NextRx
  <2>2. hwRx' # hwRx
    BY <1>1, <1>5, WayRound, RxRing
  <2>3. CASE Way(hwRx, i) < n
    <3> DEFINE k == Way(hwRx, i) + 1
    <3>0. k \in 1 .. MaxSegs /\ k <= n /\ rxseg'[i] = Piece(hwRx, k, n, good)
      BY <1>1, <1>4, <2>1, <2>3, RxRing
    <3> HIDE DEF k
    <3>1. /\ rxseg'[i].n = k /\ rxseg'[i].len = n
          /\ rxseg'[i].last <=> k = n
          /\ rxseg'[i].good <=> good
      BY <3>0, PieceFields
    <3>2. rxseg'[i] \in Segs
      BY <1>1, <3>0 DEF Segs, Piece
    <3>3. WholeSeg(i)'
      BY <3>0, <3>1, <3>2 DEF WholeSeg
    <3> USE DEF k
    <3>4. next # hwRx /\ Way(hwRx, next) = Way(hwRx, i) + 1
      <4>1. next = hwRx => Way(hwRx, i) = RXDES_NUM - 1
        BY <1>1, WayOn
      <4>2. next # hwRx
        BY <1>1, <2>1, <2>3, <4>1, RxRing
      <4> QED
        BY <2>1, <4>2
    <3>5. CASE next = hwRx'
      <4>1. k = n
        BY <1>5, <3>4, <3>5
      <4>2. rxseg'[i].last
        BY <4>1, <3>1
      <4> QED
        BY <2>1, <3>3, <3>5, <4>2 DEF Follows
    <3>6. CASE next # hwRx'
      <4>1. Way(hwRx, next) # n
        BY <1>1, <1>5, <2>1, <3>6, WayRound
      <4>2. Way(hwRx, next) < n
        BY <1>1, <2>1, <2>3, <3>4, <4>1, RxRing
      <4>3. /\ ~rxown'[next] /\ rxseg'[next].n = Way(hwRx, i) + 2 /\ rxseg'[next].len = n
            /\ ~rxseg'[i].last
        <5>1. ~rxown'[next] /\ rxseg'[next].len = n
              /\ rxseg'[next].n = Way(hwRx, next) + 1
          <6>1. rxseg'[next] = Piece(hwRx, Way(hwRx, next) + 1, n, good)
            BY <1>4, <2>1, <4>2
          <6>2. ~rxown'[next]
            BY <1>3, <2>1, <4>2
          <6> QED
            BY <6>1, <6>2, PieceFields
        <5>2. ~(Way(hwRx, i) + 1 = n)
          BY <3>4, <4>1
        <5> QED
          BY <5>1, <5>2, <3>1, <3>4, <2>1, RxRing
      <4> QED
        BY <2>1, <3>1, <3>3, <3>6, <4>3, RxRing DEF Follows
    <3> QED
      BY <3>3, <3>5, <3>6, <2>1 DEF Follows
  <2>4. CASE ~(Way(hwRx, i) < n)
    <3>1. ~rxown[i] /\ rxseg'[i] = rxseg[i] /\ WholeSeg(i) /\ Follows(i)
      BY <1>1, <1>3, <1>4, <2>4 DEF FrameInv
    <3>2. next # hwRx'
      <4>1. Way(hwRx, next) # n
        BY <1>1, <2>1, <2>4, RxRing
      <4> QED
        BY <1>5, <4>1
    <3>3. CASE next = hwRx
      <4>1. rxseg'[i].last
        BY <3>1, <3>3 DEF Follows
      <4> QED
        BY <1>6, <2>1, <3>1, <3>2, <3>3, <4>1 DEF Follows, WholeSeg
    <3>4. CASE next # hwRx
      <4>1. ~rxown[next]
        BY <3>1, <3>4 DEF Follows
      <4>2. ~rxown'[next] /\ rxseg'[next] = rxseg[next]
        BY <1>3, <1>4, <2>1, <4>1
      <4> QED
        BY <2>1, <3>1, <3>2, <3>4, <4>2 DEF Follows, WholeSeg
    <3> QED
      BY <3>3, <3>4
  <2> QED
    BY <2>3, <2>4
<1>9. CallInv'
  <2>1. \A i \in RxSlots : ~rxown[i] => ~rxown'[i] /\ rxseg'[i] = rxseg[i]
    BY <1>3, <1>4
  <2>2. ASSUME Starts(rx_idx), rxown[rx_idx] => rx_idx = hwRx PROVE Starts(rx_idx)'
    <3>1. CASE rxown[rx_idx]
      BY <1>1, <1>6, <2>2, <3>1 DEF Starts
    <3> QED
      BY <1>1, <2>1, <2>2, <3>1 DEF Starts
  <2>3. ASSUME \A j \in RxSlots : Way(First, j) < Way(First, rx_idx) => ~rxown[j],
               rxown[rx_idx]
        PROVE  rx_idx = hwRx
    BY <1>1, <2>3, EndOfRun
  <2>4. ASSUME First = rx_idx
        PROVE  \A j \in RxSlots : Way(First, j) < Way(First, rx_idx) => ~rxown[j]
    <3>1. Way(rx_idx, rx_idx) = 0
      BY <1>1, WayRound
    <3>2. ASSUME NEW j \in RxSlots PROVE ~(Way(rx_idx, j) < 0)
      <4>1. Way(rx_idx, j) \in RxSlots
        BY <1>1, WayRound
      <4> QED
        BY <4>1, RxRing
    <3> QED
      BY <2>4, <3>1, <3>2
  <2>5. CASE pc = "scan"
    <3>1. CASE rx_idx = start_idx /\ packet_length = 0 /\ Starts(rx_idx)
      <4>1. Starts(rx_idx)'
        BY <2>2, <2>3, <2>4, <2>5, <3>1 DEF First, Receiving
      <4> QED
        BY <1>1, <2>5, <3>1, <4>1 DEF CallInv
    <3>2. CASE /\ ~rxown[rx_idx] /\ packet_length > 0
               /\ rxseg[rx_idx].n > 1 /\ Way(start_idx, rx_idx) = rxseg[rx_idx].n - 1
      BY <1>1, <2>1, <2>5, <3>2 DEF CallInv, Way
    <3> QED
      BY <1>1, <2>5, <3>1, <3>2 DEF CallInv
  <2>6. CASE pc \in {"copy", "return"}
    <3>1. First = start_idx
      BY <2>6 DEF First, Receiving
    <3>2. \A i \in RxSlots : Way(start_idx, i) < Way(start_idx, rx_idx) => ~rxown[i]
      BY <1>1, <2>6 DEF CallInv
    <3>3. Starts(rx_idx)'
      BY <1>1, <2>2, <2>3, <2>6, <3>1, <3>2 DEF CallInv
    <3>4. \A i \in RxSlots : Way(start_idx, i) < Way(start_idx, rx_idx) => ~rxown'[i]
      BY <2>1, <3>2
    <3> QED
      BY <1>1, <2>6, <3>3, <3>4 DEF CallInv, Way
  <2>7. CASE pc \notin Receiving
    <3>1. Starts(rx_idx)'
      BY <1>1, <2>2, <2>3, <2>4, <2>7 DEF First, Receiving, CallInv
    <3> QED
      BY <1>1, <2>7, <3>1 DEF CallInv, Receiving
  <2> QED
    BY <2>5, <2>6, <2>7 DEF Receiving
<1> QED
  BY <1>7, <1>8, <1>9

\* What the calls of the driver do to it.
LEMMA ScanErrorRun ==
  ASSUME RxIInv, ScanError
  PROVE  RxInv'
<1>1. /\ RunAt(First) /\ FrameInv /\ CallInv /\ TypeInv /\ pc = "scan" /\ pc' = "idle"
      /\ rx_idx \in RxSlots /\ start_idx \in RxSlots /\ First = start_idx
      /\ ~rxown[rx_idx] /\ rxseg[rx_idx].n = 1 /\ ~rxseg[rx_idx].good
      /\ hwRx' = hwRx /\ rx_idx' = NextRx(rx_idx)
      /\ rxown' = [rxown EXCEPT ![rx_idx] = TRUE] /\ rxseg' = [rxseg EXCEPT ![rx_idx] = NoSeg]
  BY DEF ScanError, RxIInv, RxInv, TypeInv, TypeOK, First, Receiving, Frs, RxErr, hw
<1>2. rx_idx = start_idx
  <2>1. ~(rxseg[rx_idx].n > 1)
    BY <1>1
  <2> QED
    BY <1>1, <2>1 DEF CallInv
<1>3. FrameInv' /\ \E w \in 0 .. RXDES_NUM :
                     /\ hwRx' = At(NextRx(rx_idx), w)
                     /\ \A i \in RxSlots : ~rxown'[i] <=> Way(NextRx(rx_idx), i) < w
  BY <1>1, <1>2, Release
<1>4. RunAt(First)'
  BY <1>1, <1>3 DEF RunAt, First, Receiving, At, Way
<1>5. rxseg[rx_idx].last
  BY <1>1 DEF FrameInv, WholeSeg
<1>6. NextRx(rx_idx) \in RxSlots /\ NextRx(rx_idx) # rx_idx
  BY <1>1, WayOn
<1>7. Starts(NextRx(rx_idx))
  BY <1>1, <1>2, <1>5, <1>6, FrameEnds
<1>8. Starts(rx_idx)'
  <2>1. rxown'[rx_idx'] = rxown[rx_idx'] /\ rxseg'[rx_idx'] = rxseg[rx_idx']
    BY <1>1, <1>6 DEF TypeInv, TypeOK
  <2> QED
    BY <1>1, <1>7, <2>1 DEF Starts
<1> QED
  BY <1>1, <1>3, <1>4, <1>8 DEF RxInv, CallInv

LEMMA ScanSegRun ==
  ASSUME RxIInv, ScanSeg
  PROVE  RxInv'
<1>1. /\ RunAt(First) /\ FrameInv /\ CallInv /\ TypeInv /\ pc = "scan"
      /\ rx_idx \in RxSlots /\ start_idx \in RxSlots /\ First = start_idx
      /\ ~rxown[rx_idx] /\ hwRx \in RxSlots
      /\ rx_idx' = NextRx(rx_idx) /\ UNCHANGED <<rxown, rxseg, start_idx, hwRx, hwOn>>
      /\ rxseg[rx_idx] \in Segs
      /\ pc' = IF Lrs(rx_idx) THEN AfterScan(packet_length') ELSE "scan"
      /\ packet_length' = IF Frs(rx_idx) THEN rxseg[rx_idx].len ELSE packet_length
  BY DEF ScanSeg, RxIInv, RxInv, TypeInv, TypeOK, First, Receiving, hw, FrameInv, WholeSeg
<1>2. rxseg[rx_idx] # NoSeg
  <2>1. RXDES_NUM \notin RxSlots
    BY RxRing
  <2> QED
    BY <1>1, <2>1 DEF Segs, NoSeg
<1> DEFINE piece == rxseg[rx_idx]
           next  == NextRx(rx_idx)
<1>3. /\ piece.n \in 1 .. MaxSegs /\ piece.len \in 1 .. MaxSegs /\ piece.n <= piece.len
      /\ piece.last <=> piece.n = piece.len
      /\ Follows(rx_idx)
  BY <1>1 DEF FrameInv, WholeSeg, Segs
<1>4. Way(start_idx, rx_idx) = piece.n - 1
  <2>1. CASE rx_idx = start_idx /\ packet_length = 0 /\ Starts(rx_idx)
    BY <1>1, <2>1, WayRound DEF Starts
  <2>2. CASE Way(start_idx, rx_idx) = rxseg[rx_idx].n - 1
    BY <2>2
  <2> QED
    BY <1>1, <2>1, <2>2 DEF CallInv
<1>5. packet_length' > 0
  <2>1. CASE piece.n = 1
    BY <1>1, <1>2, <1>3, <2>1, RxRing DEF Frs
  <2>2. CASE piece.n # 1
    <3>1. packet_length > 0
      BY <1>1, <2>2 DEF CallInv, Starts
    <3> QED
      BY <1>1, <2>2, <3>1 DEF Frs
  <2> QED
    BY <2>1, <2>2
<1>6. /\ next \in RxSlots /\ next # start_idx
      /\ Way(start_idx, next) = piece.n
  <2>1. Way(start_idx, rx_idx) # RXDES_NUM - 1
    BY <1>3, <1>4, RxRing
  <2>2. next # start_idx /\ next \in RxSlots
    BY <1>1, <2>1, WayOn
  <2>3. Way(start_idx, next) = Way(start_idx, rx_idx) + 1
    BY <1>1, <2>2, WayOn
  <2> QED
    BY <1>3, <1>4, <2>2, <2>3, RxRing
<1>7. RunAt(First)' /\ FrameInv'
  <2>1. First' = First
    BY <1>1, <1>5 DEF First, Receiving, AfterScan
  <2> QED
    BY <1>1, <2>1 DEF RunAt, FrameInv, WholeSeg, Follows, At, Way, NextRx
<1>8. CASE ~piece.last
  <2>1. next # hwRx
    BY <1>3, <1>8 DEF Follows
  <2>2. ~rxown[next] /\ rxseg[next].n = piece.n + 1
    BY <1>3, <1>8, <2>1 DEF Follows
  <2>3. pc' = "scan"
    BY <1>1, <1>8 DEF Lrs
  <2>4. rxseg[next].n > 1 /\ Way(start_idx, next) = rxseg[next].n - 1
    BY <1>3, <1>6, <2>2, RxRing
  <2>5. /\ ~rxown'[rx_idx'] /\ packet_length' > 0 /\ rxseg'[rx_idx'].n > 1
        /\ Way(start_idx', rx_idx') = rxseg'[rx_idx'].n - 1
    BY <1>1, <1>5, <2>2, <2>4
  <2>6. CallInv'
    BY <2>3, <2>5 DEF CallInv, Way
  <2> QED
    BY <1>7, <2>6 DEF RxInv
<1>9. CASE piece.last
  <2>1. pc' = "copy"
    BY <1>1, <1>2, <1>5, <1>9 DEF Lrs, AfterScan
  <2>2. Starts(next)
    BY <1>1, <1>6, <1>9, FrameEnds
  <2>3. ASSUME NEW i \in RxSlots, Way(start_idx, i) < Way(start_idx, next) PROVE ~rxown[i]
    <3>1. PICK w \in 0 .. RXDES_NUM :
            hwRx = At(start_idx, w) /\ \A j \in RxSlots : ~rxown[j] <=> Way(start_idx, j) < w
      BY <1>1 DEF RunAt
    <3>2. Way(start_idx, rx_idx) < w
      BY <1>1, <3>1
    <3>3. Way(start_idx, i) \in RxSlots
      BY <1>1, WayRound
    <3>4. Way(start_idx, i) < w
      BY <1>3, <1>4, <1>6, <2>3, <3>2, <3>3, RxRing
    <3> QED
      BY <3>1, <3>4
  <2>4. Starts(rx_idx)'
    BY <1>1, <2>2 DEF Starts
  <2>5. \A i \in RxSlots : Way(start_idx', i) < Way(start_idx', rx_idx') => ~rxown'[i]
    BY <1>1, <2>3
  <2>6. CallInv'
    BY <2>1, <2>4, <2>5 DEF CallInv, Way
  <2> QED
    BY <1>7, <2>6 DEF RxInv
<1> QED
  BY <1>8, <1>9

LEMMA ReturnSegRun ==
  ASSUME RxIInv, ReturnSeg
  PROVE  RxInv'
<1>1. /\ RunAt(start_idx) /\ FrameInv /\ CallInv /\ TypeInv /\ pc = "return" /\ pc' = "copy"
      /\ rx_idx \in RxSlots /\ start_idx \in RxSlots /\ start_idx # rx_idx
      /\ hwRx' = hwRx /\ rx_idx' = rx_idx /\ start_idx' = NextRx(start_idx)
      /\ rxown' = [rxown EXCEPT ![start_idx] = TRUE]
      /\ rxseg' = [rxseg EXCEPT ![start_idx] = NoSeg]
  BY DEF ReturnSeg, RxIInv, RxInv, CallInv, TypeInv, TypeOK, First, Receiving, hw
<1>2. \A i \in RxSlots : Way(start_idx, i) < Way(start_idx, rx_idx) => ~rxown[i]
  BY <1>1 DEF CallInv
<1>3. ~rxown[start_idx]
  <2>1. Way(start_idx, start_idx) = 0 /\ Way(start_idx, rx_idx) # 0
        /\ Way(start_idx, rx_idx) \in RxSlots
    BY <1>1, WayRound
  <2>2. Way(start_idx, start_idx) < Way(start_idx, rx_idx)
    BY <2>1, RxRing
  <2> QED
    BY <1>1, <1>2, <2>2
<1>4. FrameInv' /\ \E w \in 0 .. RXDES_NUM :
                     /\ hwRx' = At(NextRx(start_idx), w)
                     /\ \A i \in RxSlots : ~rxown'[i] <=> Way(NextRx(start_idx), i) < w
  BY <1>1, <1>3, Release
<1>5. RunAt(First)'
  BY <1>1, <1>4 DEF RunAt, First, Receiving, At, Way
<1>6. Starts(rx_idx)'
  <2>1. rxown'[rx_idx] = rxown[rx_idx] /\ rxseg'[rx_idx] = rxseg[rx_idx]
    BY <1>1 DEF TypeInv, TypeOK
  <2>2. Starts(rx_idx)
    BY <1>1 DEF CallInv
  <2> QED
    BY <1>1, <2>1, <2>2 DEF Starts
<1>7. ASSUME NEW i \in RxSlots, Way(start_idx', i) < Way(start_idx', rx_idx)
      PROVE  ~rxown'[i]
  <2>1. /\ Way(start_idx', i) = IF i = start_idx THEN RXDES_NUM - 1 ELSE Way(start_idx, i) - 1
        /\ Way(start_idx', rx_idx) = Way(start_idx, rx_idx) - 1
    BY <1>1, WayOn
  <2>2. Way(start_idx, i) \in RxSlots /\ Way(start_idx, rx_idx) \in RxSlots
    BY <1>1, WayRound
  <2>3. i # start_idx
    BY <1>7, <2>1, <2>2, RxRing
  <2>4. Way(start_idx, i) < Way(start_idx, rx_idx)
    BY <1>7, <2>1, <2>2, <2>3, RxRing
  <2>5. ~rxown[i]
    BY <1>2, <2>4
  <2> QED
    BY <1>1, <2>3, <2>5 DEF TypeInv, TypeOK
<1>8. CallInv'
  BY <1>1, <1>6, <1>7 DEF CallInv, Way
<1> QED
  BY <1>4, <1>5, <1>8 DEF RxInv

LEMMA RxInvStep ==
  ASSUME ErrSegs \subseteq {1}, RxIInv, [Next]_vars
  PROVE  RxIInv'
<1>1. TypeInv' /\ TypeInv /\ RxInv /\ (pc \in Receiving => hwOn)
  BY TypeStep DEF RxIInv
<1>2. ASSUME UNCHANGED <<rxown, rxseg, rx_idx, hwRx, hwOn>>,
             pc \notin Receiving, pc' \notin Receiving
      PROVE  RxIInv'
  BY <1>1, <1>2 DEF RxIInv, RxInv, First, RunAt, FrameInv, WholeSeg, Follows, CallInv,
     Starts, At, Way, NextRx, Receiving
<1>3. CASE HwFrame
  <2>1. PICK n \in 1 .. MaxSegs, good \in BOOLEAN : (good \/ n \in ErrSegs) /\ HwReceive(n, good)
    BY <1>3 DEF HwFrame
  <2>2. good \/ n = 1
    BY <2>1
  <2>3. RunAt(First)' /\ FrameInv' /\ CallInv'
    BY <2>1, <2>2, ReceiveRun
  <2>4. UNCHANGED <<pc, hwOn>>
    BY <2>1 DEF HwReceive
  <2> QED
    BY <1>1, <2>3, <2>4 DEF RxIInv, RxInv
<1>4. CASE HwSend \/ HwIdle \/ UNCHANGED vars \/ SendWait
  <2>1. UNCHANGED <<rxown, rxseg, rx_idx, start_idx, packet_length, hwRx, hwOn, pc>>
    BY <1>4 DEF HwSend, HwIdle, SendWait, vars, rx, rcv, hw
  <2> QED
    BY <1>1, <2>1 DEF RxIInv, RxInv, First, RunAt, FrameInv, WholeSeg, Follows, CallInv,
       Starts, At, Way, NextRx, Receiving
<1>5. CASE EthOpened
  <2>1. /\ pc' = "idle" /\ rx_idx' = 0 /\ hwRx' = 0 /\ \A i \in RxSlots : rxown'[i]
    BY <1>5 DEF EthOpened, ftmac100_reset, ftmac100_enable
  <2>2. 0 \in RxSlots
    BY RxRing
  <2>3. \E w \in 0 .. RXDES_NUM : 0 = At(0, w) /\ \A i \in RxSlots : ~(Way(0, i) < w)
    <3>1. 0 \in 0 .. RXDES_NUM /\ 0 = At(0, 0)
      BY RxRing DEF At
    <3>2. \A i \in RxSlots : ~(Way(0, i) < 0)
      BY RxRing DEF Way
    <3> QED
      BY <3>1, <3>2
  <2>4. RunAt(First)'
    BY <2>1, <2>3 DEF RunAt, First, Receiving, At, Way
  <2>5. FrameInv' /\ CallInv' /\ pc' \notin Receiving
    BY <2>1, <2>2 DEF FrameInv, CallInv, Starts, Receiving
  <2> QED
    BY <1>1, <2>4, <2>5 DEF RxIInv, RxInv
<1>6. CASE EthInitNoMemory \/ EthInitBug \/ NullPriv \/ PowerCycle
  BY <1>6, <1>2 DEF EthInitNoMemory, EthInitBug, NullPriv, PowerCycle, rx, hw, Receiving
<1>7. CASE EthInit \/ EthHalt
  BY <1>7, <1>1 DEF EthInit, EthHalt, RxIInv, RxInv, Receiving
<1>8. CASE RcvStart
  <2>1. /\ pc = "idle" /\ pc' = "scan" /\ start_idx' = rx_idx /\ packet_length' = 0 /\ hwOn
        /\ UNCHANGED <<rxown, rxseg, rx_idx, hwRx, hwOn>>
    BY <1>8 DEF RcvStart, hw
  <2>2. First' = First /\ RunAt(First) /\ FrameInv /\ Starts(rx_idx)
    BY <1>1, <2>1 DEF First, Receiving, RxInv, CallInv
  <2>3. RunAt(First)' /\ FrameInv' /\ CallInv'
    BY <2>1, <2>2 DEF RunAt, FrameInv, WholeSeg, Follows, CallInv, Starts, At, Way, NextRx
  <2> QED
    BY <1>1, <2>1, <2>3 DEF RxIInv, RxInv
<1>9. CASE ScanStop
  <2>1. /\ pc = "scan" /\ rxown[rx_idx] /\ pc' = AfterScan(packet_length) /\ hwOn
        /\ UNCHANGED <<rxown, rxseg, rx_idx, start_idx, packet_length, hwRx, hwOn>>
    BY <1>1, <1>9 DEF ScanStop, rx, rcv, hw, Receiving
  <2>2. rx_idx = start_idx /\ packet_length = 0
    BY <1>1, <2>1 DEF RxInv, CallInv
  <2>3. pc' = "idle"
    BY <2>1, <2>2 DEF AfterScan
  <2>4. First' = First /\ RunAt(First) /\ FrameInv
    BY <1>1, <2>1, <2>2, <2>3 DEF First, Receiving, RxInv
  <2>5. RunAt(First)' /\ FrameInv' /\ CallInv'
    BY <2>1, <2>3, <2>4 DEF RunAt, FrameInv, WholeSeg, Follows, CallInv, Starts, At, Way, NextRx
  <2> QED
    BY <1>1, <2>1, <2>5 DEF RxIInv, RxInv
<1>10. CASE ScanError
  <2>1. hwOn' = hwOn /\ pc = "scan"
    BY <1>10 DEF ScanError, hw
  <2> QED
    BY <1>1, <1>10, <2>1, ScanErrorRun DEF RxIInv, Receiving
<1>11. CASE ScanSeg
  <2>1. hwOn' = hwOn /\ pc = "scan"
    BY <1>11 DEF ScanSeg, hw
  <2> QED
    BY <1>1, <1>11, <2>1, ScanSegRun DEF RxIInv, Receiving
<1>12. CASE CopySeg
  <2>1. /\ pc = "copy" /\ pc' = "return" /\ start_idx # rx_idx /\ hwOn
        /\ UNCHANGED <<rxown, rxseg, rx_idx, start_idx, packet_length, hwRx, hwOn>>
    BY <1>1, <1>12 DEF CopySeg, hw, Receiving
  <2>2. First' = First /\ RunAt(First) /\ FrameInv /\ CallInv
    BY <1>1, <2>1 DEF First, Receiving, RxInv
  <2>3. RunAt(First)' /\ FrameInv' /\ CallInv'
    BY <2>1, <2>2 DEF RunAt, FrameInv, WholeSeg, Follows, CallInv, Starts, At, Way, NextRx
  <2> QED
    BY <1>1, <2>1, <2>3 DEF RxIInv, RxInv
<1>13. CASE ReturnSeg
  <2>1. hwOn' = hwOn /\ pc = "return"
    BY <1>13 DEF ReturnSeg, hw
  <2> QED
    BY <1>1, <1>13, <2>1, ReturnSegRun DEF RxIInv, Receiving
<1>14. CASE Deliver
  <2>1. /\ pc = "copy" /\ pc' = "idle" /\ start_idx = rx_idx /\ hwOn
        /\ UNCHANGED <<rxown, rxseg, rx_idx, start_idx, packet_length, hwRx, hwOn>>
    BY <1>1, <1>14 DEF Deliver, hw, Receiving
  <2>2. First' = First /\ RunAt(First) /\ FrameInv /\ CallInv
    BY <1>1, <2>1 DEF First, Receiving, RxInv
  <2>3. RunAt(First)' /\ FrameInv' /\ CallInv'
    BY <2>1, <2>2 DEF RunAt, FrameInv, WholeSeg, Follows, CallInv, Starts, At, Way, NextRx
  <2> QED
    BY <1>1, <2>1, <2>3 DEF RxIInv, RxInv
<1>15. CASE \E p \in Packets : EthSend(p)
  BY <1>15, <1>2 DEF EthSend, rx, hw, Receiving
<1>16. CASE SendFill \/ SendOwn \/ SendKick
  BY <1>16, <1>2 DEF SendFill, SendOwn, SendKick, rx, hw, Receiving
<1> QED
  BY <1>3, <1>4, <1>5, <1>6, <1>7, <1>8, <1>9, <1>10, <1>11, <1>12, <1>13, <1>14,
     <1>15, <1>16 DEF Next, RcvStep, SendStep

\* Lines 514-549: if a frame with an error takes one descriptor, then between
\* calls everything the engine does not own follows rx_idx without a gap,
\* for rings and frames of any size.  The run umac_err drops the assumption.
THEOREM DescriptorsReturn ==
  ASSUME ErrSegs \subseteq {1}
  PROVE  Spec => []ReturnedToHardware
<1>1. Init => RxIInv
  BY TypeInit DEF Init, RxIInv, RxInv, Receiving
<1>2. RxIInv /\ [Next]_vars => RxIInv'
  BY RxInvStep
<1>3. ASSUME RxIInv PROVE ReturnedToHardware
  <2> SUFFICES ASSUME hwOn, pc \notin Receiving, NEW i \in RxSlots, ~rxown[i],
                      NEW k \in 0 .. RxDist(rx_idx, i)
               PROVE  ~rxown[(rx_idx + k) % RXDES_NUM]
    BY DEF ReturnedToHardware, Receiving
  <2>1. RunAt(rx_idx) /\ rx_idx \in RxSlots
    BY <1>3 DEF RxIInv, RxInv, First, TypeInv, TypeOK
  <2>2. PICK w \in 0 .. RXDES_NUM : \A j \in RxSlots : ~rxown[j] <=> Way(rx_idx, j) < w
    BY <2>1 DEF RunAt
  <2>3. RxDist(rx_idx, i) = Way(rx_idx, i) /\ Way(rx_idx, i) \in RxSlots
    <3>1. CASE i >= rx_idx
      BY <2>1, <3>1, RxRing DEF RxDist, Way
    <3>2. CASE i < rx_idx
      <4>1. i - rx_idx + RXDES_NUM \in 0 .. RXDES_NUM - 1
        BY <2>1, <3>2, RxRing
      <4>2. (i - rx_idx) % RXDES_NUM = i - rx_idx + RXDES_NUM
        BY <2>1, <3>2, <4>1, RxRing
      <4> QED
        BY <2>1, <3>2, <4>1, <4>2, RxRing DEF RxDist, Way
    <3> QED
      BY <2>1, <3>1, <3>2, RxRing
  <2>4. k \in RxSlots /\ k <= Way(rx_idx, i)
    BY <2>3, RxRing
  <2>5. (rx_idx + k) % RXDES_NUM = At(rx_idx, k)
    <3>1. CASE rx_idx + k < RXDES_NUM
      BY <2>1, <2>4, <3>1, RxRing DEF At
    <3>2. CASE rx_idx + k >= RXDES_NUM
      BY <2>1, <2>4, <3>2, RxRing DEF At
    <3> QED
      BY <2>1, <2>4, <3>1, <3>2, RxRing
  <2>6. At(rx_idx, k) \in RxSlots /\ Way(rx_idx, At(rx_idx, k)) = k
    BY <2>1, <2>4, AtSlot
  <2>7. k < w
    BY <2>2, <2>3, <2>4, RxRing
  <2> QED
    BY <2>2, <2>5, <2>6, <2>7
<1> QED
  BY <1>1, <1>2, <1>3, PTL DEF Spec

-----------------------------------------------------------------------------
(* The receive ring implements the line of RxLine.  Beside RxInv this      *)
(* needs that the pieces of a frame name the same frame (FrameNames), and  *)
(* that what eth_rx has copied and what it has yet to copy are the pieces  *)
(* of one good frame (CopyInv).                                            *)

FrameNames ==
  \A i \in RxSlots : ~rxown[i] /\ ~rxseg[i].last /\ ~rxown[NextRx(i)]
    => rxseg[NextRx(i)].frame = rxseg[i].frame

\* s is the n-th of the len pieces of the good frame f
PieceOf(s, f, n, len) ==
  /\ s \in Segs /\ s.frame = f /\ s.n = n /\ s.len = len
  /\ s.good /\ (s.last <=> n = len)

ScanPieces(f) ==
  \A i \in RxSlots : Way(start_idx, i) <= Way(start_idx, rx_idx)
    => PieceOf(rxseg[i], f, Way(start_idx, i) + 1, packet_length)

CopyPieces(f) ==
  /\ Len(data) - Copied + Way(start_idx, rx_idx) = packet_length
  /\ packet_length > 0
  /\ \A k \in 1 .. Len(data) : PieceOf(data[k], f, k, packet_length)
  /\ \A i \in RxSlots : Way(start_idx, i) < Way(start_idx, rx_idx)
       => PieceOf(rxseg[i], f, Len(data) - Copied + Way(start_idx, i) + 1, packet_length)

CopyInv ==
  /\ pc \notin {"copy", "return"} => data = <<>>
  /\ pc = "scan" /\ rx_idx # start_idx => \E f \in RxSlots : ScanPieces(f)
  /\ pc \in {"copy", "return"} => \E f \in RxSlots : CopyPieces(f)

LEMMA PieceFrame ==
  ASSUME NEW h, NEW k, NEW len, NEW good \in BOOLEAN
  PROVE  Piece(h, k, len, good).frame = h
BY DEF Piece

LEMMA NamesReceive ==
  ASSUME RxIInv, hwOn, FrameNames, NEW n \in 1 .. MaxSegs, NEW good \in BOOLEAN,
         HwReceive(n, good)
  PROVE  FrameNames'
<1> SUFFICES ASSUME NEW i \in RxSlots, ~rxown'[i], ~rxseg'[i].last, ~rxown'[NextRx(i)]
             PROVE  rxseg'[NextRx(i)].frame = rxseg'[i].frame
  BY DEF FrameNames, NextRx
<1> DEFINE next == NextRx(i)
<1>1. /\ TypeInv /\ FrameInv /\ hwRx \in RxSlots /\ n \in Nat /\ n < RXDES_NUM /\ n >= 1
  BY RxRing DEF RxIInv, RxInv, TypeInv, TypeOK
<1>2. \A j \in RxSlots : /\ ~rxown'[j] <=> ~rxown[j] \/ Way(hwRx, j) < n
                         /\ Way(hwRx, j) < n => rxown[j]
                         /\ rxseg'[j] = IF Way(hwRx, j) < n
                                          THEN Piece(hwRx, Way(hwRx, j) + 1, n, good)
                                          ELSE rxseg[j]
  BY <1>1, ReceiveFills
<1>3. /\ next \in RxSlots /\ Way(hwRx, i) \in RxSlots
      /\ Way(hwRx, next) = IF next = hwRx THEN 0 ELSE Way(hwRx, i) + 1
      /\ next = hwRx <=> Way(hwRx, i) = RXDES_NUM - 1
  BY <1>1, WayOn, WayRound
<1>4. CASE Way(hwRx, i) < n
  <2>1. rxseg'[i] = Piece(hwRx, Way(hwRx, i) + 1, n, good)
    BY <1>2, <1>4
  <2>2. Way(hwRx, i) + 1 # n
    BY <2>1, PieceFields
  <2>3. Way(hwRx, next) < n
    BY <1>1, <1>3, <1>4, <2>2, RxRing
  <2>4. rxseg'[next] = Piece(hwRx, Way(hwRx, next) + 1, n, good)
    BY <1>2, <1>3, <2>3
  <2> QED
    BY <2>1, <2>4, PieceFrame
<1>5. CASE ~(Way(hwRx, i) < n)
  <2>1. ~rxown[i] /\ rxseg'[i] = rxseg[i] /\ Follows(i)
    BY <1>1, <1>2, <1>5 DEF FrameInv
  <2>2. ~rxown[next]
    BY <2>1 DEF Follows
  <2>3. rxseg'[next] = rxseg[next]
    BY <1>2, <1>3, <2>2
  <2> QED
    BY <2>1, <2>2, <2>3 DEF FrameNames
<1> QED
  BY <1>4, <1>5

\* A descriptor goes back to the engine.
LEMMA NamesRelease ==
  ASSUME TypeInv, FrameNames, NEW b \in RxSlots,
         rxown' = [rxown EXCEPT ![b] = TRUE], rxseg' = [rxseg EXCEPT ![b] = NoSeg]
  PROVE  FrameNames'
<1> SUFFICES ASSUME NEW i \in RxSlots, ~rxown'[i], ~rxseg'[i].last, ~rxown'[NextRx(i)]
             PROVE  rxseg'[NextRx(i)].frame = rxseg'[i].frame
  BY DEF FrameNames, NextRx
<1>1. \A j \in RxSlots : ~rxown'[j] => ~rxown[j] /\ rxseg'[j] = rxseg[j]
  BY DEF TypeInv, TypeOK
<1>2. NextRx(i) \in RxSlots
  BY WayOn
<1> QED
  BY <1>1, <1>2 DEF FrameNames

\* Pieces that lie in descriptors software owns are safe from the engine.
LEMMA CopyReceive ==
  ASSUME RxIInv, hwOn, CopyInv, NEW n \in 1 .. MaxSegs, NEW good \in BOOLEAN,
         HwReceive(n, good)
  PROVE  CopyInv'
<1>1. /\ TypeInv /\ CallInv /\ RunAt(First) /\ rx_idx \in RxSlots /\ start_idx \in RxSlots
      /\ UNCHANGED <<pc, rx_idx, start_idx, packet_length, data>>
  BY DEF RxIInv, RxInv, TypeInv, TypeOK, HwReceive, rcv
<1>2. \A i \in RxSlots : ~rxown[i] => rxseg'[i] = rxseg[i]
  BY <1>1, ReceiveFills
<1>3. ASSUME pc = "scan", rx_idx # start_idx PROVE \E f \in RxSlots : ScanPieces(f)'
  <2>1. PICK f \in RxSlots : ScanPieces(f)
    BY <1>3 DEF CopyInv
  <2>2. ~rxown[rx_idx]
    BY <1>1, <1>3 DEF CallInv
  <2>3. PICK w \in 0 .. RXDES_NUM : \A i \in RxSlots : ~rxown[i] <=> Way(start_idx, i) < w
    BY <1>1, <1>3 DEF RunAt, First, Receiving
  <2>4. ASSUME NEW i \in RxSlots, Way(start_idx, i) <= Way(start_idx, rx_idx)
        PROVE  rxseg'[i] = rxseg[i]
    <3>1. Way(start_idx, i) \in RxSlots /\ Way(start_idx, rx_idx) \in RxSlots
      BY <1>1, WayRound
    <3>2. Way(start_idx, i) < w
      BY <1>1, <2>2, <2>3, <2>4, <3>1, RxRing
    <3> QED
      BY <1>2, <2>3, <3>2
  <2>5. ScanPieces(f)'
    BY <1>1, <2>1, <2>4 DEF ScanPieces, PieceOf, Way
  <2> QED
    BY <2>5
<1>4. ASSUME pc \in {"copy", "return"} PROVE \E f \in RxSlots : CopyPieces(f)'
  <2>1. PICK f \in RxSlots : CopyPieces(f)
    BY <1>4 DEF CopyInv
  <2>2. \A i \in RxSlots : Way(start_idx, i) < Way(start_idx, rx_idx) => rxseg'[i] = rxseg[i]
    BY <1>1, <1>2, <1>4 DEF CallInv
  <2>3. CopyPieces(f)'
    BY <1>1, <2>1, <2>2 DEF CopyPieces, PieceOf, Way, Copied
  <2> QED
    BY <2>3
<1> QED
  BY <1>1, <1>3, <1>4 DEF CopyInv

\* The first loop of ftmac100_rcv goes on to the next piece of the frame, or
\* has seen them all.
LEMMA CopyScanSeg ==
  ASSUME RxIInv, FrameNames, CopyInv, ScanSeg
  PROVE  CopyInv'
<1> DEFINE piece == rxseg[rx_idx]
           next  == NextRx(rx_idx)
           len   == packet_length'
<1>1. /\ TypeInv /\ FrameInv /\ CallInv /\ pc = "scan" /\ data = <<>>
      /\ rx_idx \in RxSlots /\ start_idx \in RxSlots /\ ~rxown[rx_idx]
      /\ rx_idx' = next /\ UNCHANGED <<rxown, rxseg, start_idx, data>>
      /\ pc' = IF Lrs(rx_idx) THEN AfterScan(packet_length') ELSE "scan"
      /\ len = IF Frs(rx_idx) THEN piece.len ELSE packet_length
      /\ ~(Frs(rx_idx) /\ RxErr(rx_idx))
  BY DEF ScanSeg, RxIInv, RxInv, TypeInv, TypeOK, Receiving, CopyInv
<1>2. /\ piece \in Segs /\ piece.n \in 1 .. MaxSegs /\ piece.len \in 1 .. MaxSegs
      /\ piece.n <= piece.len /\ (piece.last <=> piece.n = piece.len)
      /\ piece # NoSeg
  <2>1. RXDES_NUM \notin RxSlots
    BY RxRing
  <2> QED
    BY <1>1, <2>1 DEF FrameInv, WholeSeg, Segs, NoSeg
<1>3. \E f \in RxSlots : \A i \in RxSlots :
        Way(start_idx, i) <= Way(start_idx, rx_idx)
          => PieceOf(rxseg[i], f, Way(start_idx, i) + 1, len)
  <2>1. CASE rx_idx = start_idx
    <3>1. piece.n = 1
      <4>1. Way(start_idx, rx_idx) = 0
        BY <1>1, <2>1, WayRound
      <4> QED
        BY <1>1, <1>2, <2>1, <4>1 DEF CallInv, Starts
    <3>2. piece.good /\ len = piece.len
      BY <1>1, <1>2, <3>1 DEF Frs, RxErr
    <3>3. \A i \in RxSlots : /\ Way(start_idx, i) \in RxSlots
                             /\ Way(start_idx, i) = 0 <=> start_idx = i
      BY <1>1, WayRound
    <3>4. \A i \in RxSlots : Way(start_idx, i) <= Way(start_idx, rx_idx)
            => i = rx_idx /\ Way(start_idx, i) = 0
      BY <1>1, <2>1, <3>3, RxRing
    <3>5. piece.frame \in RxSlots
      BY <1>2 DEF Segs
    <3> QED
      BY <1>2, <3>1, <3>2, <3>4, <3>5 DEF PieceOf
  <2>2. CASE rx_idx # start_idx
    <3>1. PICK f \in RxSlots : ScanPieces(f)
      BY <1>1, <2>2 DEF CopyInv
    <3>2. piece.n # 1
      BY <1>1, <2>2 DEF CallInv
    <3>3. len = packet_length
      BY <1>1, <3>2 DEF Frs
    <3> QED
      BY <3>1, <3>3 DEF ScanPieces
  <2> QED
    BY <2>1, <2>2
<1>4. PICK f \in RxSlots : \A i \in RxSlots :
        Way(start_idx, i) <= Way(start_idx, rx_idx)
          => PieceOf(rxseg[i], f, Way(start_idx, i) + 1, len)
  BY <1>3
<1>5. /\ Way(start_idx, rx_idx) \in RxSlots
      /\ piece.frame = f /\ piece.n = Way(start_idx, rx_idx) + 1 /\ piece.len = len
      /\ len \in 1 .. MaxSegs
  <2>1. Way(start_idx, rx_idx) \in RxSlots
    BY <1>1, WayRound
  <2>2. Way(start_idx, rx_idx) <= Way(start_idx, rx_idx)
    BY <2>1, RxRing
  <2> QED
    BY <1>1, <1>2, <1>4, <2>1, <2>2 DEF PieceOf
<1>6. next \in RxSlots /\ next # start_idx /\ Way(start_idx, next) = piece.n
  <2>1. Way(start_idx, rx_idx) # RXDES_NUM - 1
    BY <1>2, <1>5, RxRing
  <2>2. next # start_idx /\ next \in RxSlots
    BY <1>1, <2>1, WayOn
  <2>3. Way(start_idx, next) = Way(start_idx, rx_idx) + 1
    BY <1>1, <2>2, WayOn
  <2> QED
    BY <1>5, <2>2, <2>3
<1>7. \A i \in RxSlots : Way(start_idx, i) \in RxSlots
  BY <1>1, WayRound
<1> HIDE DEF len
<1>8. CASE piece.last
  <2>1. pc' = "copy" /\ Copied' = 0
    BY <1>1, <1>2, <1>5, <1>8 DEF Lrs, AfterScan, len, Copied
  <2>2. Way(start_idx, next) = len
    BY <1>2, <1>5, <1>6, <1>8
  <2>3. \A i \in RxSlots : Way(start_idx, i) < Way(start_idx, next)
          => Way(start_idx, i) <= Way(start_idx, rx_idx)
    BY <1>2, <1>5, <1>6, <1>7, RxRing
  <2>4. Len(data') = 0 /\ Len(data') - Copied' + Way(start_idx, next) = len /\ len > 0
    <3>1. Len(data') = 0
      BY <1>1
    <3> QED
      BY <1>5, <2>1, <2>2, <3>1, RxRing
  <2>5. ASSUME NEW i \in RxSlots, Way(start_idx, i) < Way(start_idx, next)
        PROVE  PieceOf(rxseg[i], f, Len(data') - Copied' + Way(start_idx, i) + 1, len)
    <3>1. Len(data') - Copied' + Way(start_idx, i) + 1 = Way(start_idx, i) + 1
      BY <1>7, <2>1, <2>4, RxRing
    <3> QED
      BY <1>4, <2>3, <2>5, <3>1
  <2>6. \A k \in 1 .. Len(data') : FALSE
    BY <2>4
  <2>7. CopyPieces(f)'
    BY <1>1, <2>4, <2>5, <2>6 DEF CopyPieces, Way, len
  <2> QED
    BY <2>1, <2>7 DEF CopyInv
<1>9. CASE ~piece.last
  <2>1. pc' = "scan"
    BY <1>1, <1>9 DEF Lrs
  <2>2. /\ ~rxown[next] /\ rxseg[next].n = piece.n + 1 /\ rxseg[next].len = piece.len
        /\ WholeSeg(next)
    BY <1>1, <1>6, <1>9 DEF FrameInv, Follows
  <2>3. rxseg[next].frame = f
    BY <1>1, <1>5, <1>9, <2>2 DEF FrameNames
  <2>4. rxseg[next].good
    BY <1>2, <1>9, <2>2, RxRing DEF WholeSeg
  <2>5. ASSUME NEW i \in RxSlots, Way(start_idx, i) <= Way(start_idx, next)
        PROVE  PieceOf(rxseg[i], f, Way(start_idx, i) + 1, len)
    <3>1. CASE i = next
      <4>1. Way(start_idx, i) + 1 = rxseg[next].n
        BY <1>6, <2>2, <3>1
      <4>2. /\ rxseg[i] \in Segs /\ rxseg[i].frame = f /\ rxseg[i].len = len
            /\ rxseg[i].good
        BY <1>5, <2>2, <2>3, <2>4, <3>1 DEF WholeSeg
      <4>3. rxseg[i].last <=> rxseg[i].n = rxseg[i].len
        BY <2>2, <3>1 DEF WholeSeg
      <4> QED
        BY <2>2, <3>1, <4>1, <4>2, <4>3 DEF PieceOf
    <3>2. CASE i # next
      <4>1. Way(start_idx, i) # Way(start_idx, next)
        <5>1. At(start_idx, Way(start_idx, i)) = i
          BY <1>1, WayRound
        <5>2. At(start_idx, Way(start_idx, next)) = next
          BY <1>1, <1>6, WayRound
        <5> QED
          BY <3>2, <5>1, <5>2
      <4>2. Way(start_idx, i) <= Way(start_idx, rx_idx)
        BY <1>2, <1>5, <1>6, <1>7, <2>5, <4>1, RxRing
      <4> QED
        BY <1>4, <4>2
    <3> QED
      BY <3>1, <3>2
  <2>6. ScanPieces(f)'
    BY <1>1, <2>5 DEF ScanPieces, Way, len
  <2> QED
    BY <1>1, <2>1, <2>6 DEF CopyInv
<1> QED
  BY <1>8, <1>9

LEMMA CopyCopySeg ==
  ASSUME RxIInv, CopyInv, CopySeg
  PROVE  CopyInv' /\ data' = Append(data, rxseg[start_idx])
<1>1. /\ pc = "copy" /\ pc' = "return" /\ Copied = 0 /\ Copied' = 1
      /\ start_idx \in RxSlots /\ rx_idx \in RxSlots /\ start_idx # rx_idx
      /\ UNCHANGED <<rxseg, rx_idx, start_idx, packet_length>>
      /\ data' = IF Len(data) < packet_length THEN Append(data, rxseg[start_idx]) ELSE data
      /\ data \in Seq(Segs \cup {NoSeg}) /\ rxseg[start_idx] \in Segs \cup {NoSeg}
      /\ packet_length \in Nat
  BY RxRing DEF CopySeg, RxIInv, TypeInv, TypeOK, Copied
<1>2. PICK f \in RxSlots : CopyPieces(f)
  BY <1>1 DEF CopyInv
<1>3. /\ Way(start_idx, start_idx) = 0
      /\ Way(start_idx, rx_idx) \in RxSlots /\ Way(start_idx, rx_idx) # 0
  BY <1>1, WayRound
<1>4. Len(data) \in Nat /\ Len(data) + Way(start_idx, rx_idx) = packet_length
  BY <1>1, <1>2, <1>3, RxRing DEF CopyPieces
<1>5. Len(data) < packet_length
  BY <1>3, <1>4, RxRing
<1>6. data' = Append(data, rxseg[start_idx])
  BY <1>1, <1>5
<1>7. /\ Len(data') = Len(data) + 1
      /\ \A k \in 1 .. Len(data) : data'[k] = data[k]
      /\ data'[Len(data) + 1] = rxseg[start_idx]
  BY <1>1, <1>6
<1>8. PieceOf(rxseg[start_idx], f, Len(data) + 1, packet_length)
  <2>1. Way(start_idx, start_idx) < Way(start_idx, rx_idx)
    BY <1>3, RxRing
  <2>2. PieceOf(rxseg[start_idx], f, Len(data) - Copied + Way(start_idx, start_idx) + 1,
                packet_length)
    BY <1>1, <1>2, <2>1 DEF CopyPieces
  <2>3. Len(data) - Copied + Way(start_idx, start_idx) + 1 = Len(data) + 1
    BY <1>1, <1>3, <1>4
  <2> QED
    BY <2>2, <2>3
<1>9. ASSUME NEW k \in 1 .. Len(data') PROVE PieceOf(data'[k], f, k, packet_length)
  <2>1. CASE k = Len(data) + 1
    BY <1>7, <1>8, <2>1
  <2>2. CASE k # Len(data) + 1
    <3>1. k \in 1 .. Len(data)
      BY <1>4, <1>7, <2>2
    <3> QED
      BY <1>2, <1>7, <3>1 DEF CopyPieces
  <2> QED
    BY <2>1, <2>2
<1>10. Len(data') - Copied' = Len(data) - Copied
  BY <1>1, <1>4, <1>7
<1>11. CopyPieces(f)'
  BY <1>1, <1>2, <1>9, <1>10 DEF CopyPieces, Way
<1> QED
  BY <1>1, <1>6, <1>11 DEF CopyInv

LEMMA CopyReturnSeg ==
  ASSUME RxIInv, CopyInv, ReturnSeg
  PROVE  CopyInv'
<1>1. /\ pc = "return" /\ pc' = "copy" /\ Copied = 1 /\ Copied' = 0
      /\ start_idx \in RxSlots /\ rx_idx \in RxSlots
      /\ start_idx' = NextRx(start_idx)
      /\ UNCHANGED <<rx_idx, packet_length, data>>
      /\ rxseg' = [rxseg EXCEPT ![start_idx] = NoSeg]
      /\ \A i \in RxSlots : i # start_idx => rxseg'[i] = rxseg[i]
      /\ Len(data) \in Nat
  BY DEF ReturnSeg, RxIInv, TypeInv, TypeOK, Copied
<1>2. PICK f \in RxSlots : CopyPieces(f)
  BY <1>1 DEF CopyInv
<1>3. start_idx # rx_idx
  BY <1>1 DEF RxIInv, RxInv, CallInv, Receiving
<1>4. \A i \in RxSlots :
        /\ Way(start_idx, i) \in RxSlots
        /\ Way(start_idx', i) = IF i = start_idx THEN RXDES_NUM - 1 ELSE Way(start_idx, i) - 1
  BY <1>1, WayOn, WayRound
<1>5. Len(data) - Copied' + Way(start_idx', rx_idx) = packet_length
  BY <1>1, <1>2, <1>3, <1>4, RxRing DEF CopyPieces
<1>6. ASSUME NEW i \in RxSlots, Way(start_idx', i) < Way(start_idx', rx_idx)
      PROVE  PieceOf(rxseg'[i], f, Len(data) - Copied' + Way(start_idx', i) + 1, packet_length)
  <2>0. /\ Way(start_idx', rx_idx) = Way(start_idx, rx_idx) - 1
        /\ Way(start_idx, rx_idx) \in RxSlots /\ Way(start_idx, i) \in RxSlots
    BY <1>1, <1>3, <1>4
  <2>1. i # start_idx /\ Way(start_idx, i) < Way(start_idx, rx_idx)
    <3>1. CASE i = start_idx
      <4>1. Way(start_idx', i) = RXDES_NUM - 1
        BY <1>4, <3>1
      <4> QED
        BY <1>6, <2>0, <4>1, RxRing
    <3>2. CASE i # start_idx
      <4>1. Way(start_idx', i) = Way(start_idx, i) - 1
        BY <1>4, <3>2
      <4> QED
        BY <1>6, <2>0, <3>2, <4>1, RxRing
    <3> QED
      BY <3>1, <3>2
  <2>2. Len(data) - Copied' + Way(start_idx', i) + 1 = Len(data) - Copied + Way(start_idx, i) + 1
    BY <1>1, <1>4, <2>1, RxRing
  <2>3. PieceOf(rxseg[i], f, Len(data) - Copied + Way(start_idx, i) + 1, packet_length)
    BY <1>2, <2>1 DEF CopyPieces
  <2> QED
    BY <1>1, <2>1, <2>2, <2>3
<1>7. CopyPieces(f)'
  BY <1>1, <1>2, <1>5, <1>6 DEF CopyPieces, Way
<1> QED
  BY <1>1, <1>7 DEF CopyInv

LEMMA CopyStep ==
  ASSUME RxIInv, hwOn => FrameNames, CopyInv, [Next]_vars
  PROVE  (hwOn => FrameNames)' /\ CopyInv'
<1>0. pc \in Receiving => hwOn
  BY DEF RxIInv
<1>1. ASSUME UNCHANGED <<rxown, rxseg, hwOn>> PROVE (hwOn => FrameNames)'
  BY <1>1 DEF FrameNames, NextRx
<1>2. ASSUME UNCHANGED data, pc \notin Receiving, pc' \notin Receiving PROVE CopyInv'
  BY <1>2 DEF CopyInv, Receiving
<1>3. CASE HwFrame
  <2>1. PICK n \in 1 .. MaxSegs, good \in BOOLEAN : HwReceive(n, good)
    BY <1>3 DEF HwFrame
  <2>2. hwOn
    BY <2>1 DEF HwReceive
  <2> QED
    BY <2>1, <2>2, NamesReceive, CopyReceive
<1>4. CASE HwSend \/ HwIdle \/ UNCHANGED vars \/ SendWait
  <2>1. UNCHANGED <<rxown, rxseg, rx_idx, start_idx, packet_length, data, hwOn, pc>>
    BY <1>4 DEF HwSend, HwIdle, SendWait, vars, rx, rcv, hw
  <2> QED
    BY <1>1, <2>1 DEF CopyInv, ScanPieces, CopyPieces, Copied, Way
<1>5. CASE EthOpened
  <2>1. /\ pc = "reset" /\ pc' = "idle" /\ UNCHANGED data /\ \A i \in RxSlots : rxown'[i]
    BY <1>5 DEF EthOpened, ftmac100_enable, rcv
  <2> QED
    BY <1>2, <2>1 DEF FrameNames, Receiving
<1>6. CASE EthInitNoMemory \/ EthInitBug \/ NullPriv \/ PowerCycle
           \/ (\E p \in Packets : EthSend(p)) \/ SendFill \/ SendOwn \/ SendKick
  BY <1>6, <1>1, <1>2 DEF EthInitNoMemory, EthInitBug, NullPriv, PowerCycle,
     EthSend, SendFill, SendOwn, SendKick, rx, rcv, hw, Receiving
<1>7. CASE EthInit \/ EthHalt
  BY <1>7, <1>2 DEF EthInit, EthHalt, rx, rcv, Receiving
<1>8. CASE RcvStart
  BY <1>8, <1>1 DEF RcvStart, CopyInv, hw
<1>9. CASE ScanStop
  <2>1. /\ pc = "scan" /\ rxown[rx_idx] /\ pc' = AfterScan(packet_length)
        /\ UNCHANGED <<rxown, rxseg, hwOn, data>>
    BY <1>9 DEF ScanStop, rx, rcv, hw
  <2>2. packet_length = 0
    BY <1>0, <2>1 DEF RxIInv, RxInv, CallInv, Receiving
  <2> QED
    BY <1>1, <2>1, <2>2 DEF AfterScan, CopyInv
<1>10. CASE ScanError
  <2>1. /\ pc = "scan" /\ pc' = "idle" /\ UNCHANGED <<hwOn, data>> /\ rx_idx \in RxSlots
        /\ rxown' = [rxown EXCEPT ![rx_idx] = TRUE]
        /\ rxseg' = [rxseg EXCEPT ![rx_idx] = NoSeg] /\ TypeInv
    BY <1>10 DEF ScanError, rcv, hw, RxIInv, TypeInv, TypeOK
  <2> QED
    BY <1>0, <2>1, NamesRelease DEF CopyInv, Receiving
<1>11. CASE ScanSeg
  <2>1. hwOn /\ UNCHANGED <<rxown, rxseg, hwOn>>
    BY <1>0, <1>11 DEF ScanSeg, hw, Receiving
  <2> QED
    BY <1>1, <1>11, <2>1, CopyScanSeg
<1>12. CASE CopySeg
  <2>1. UNCHANGED <<rxown, rxseg, hwOn>>
    BY <1>12 DEF CopySeg, hw
  <2> QED
    BY <1>1, <1>12, <2>1, CopyCopySeg
<1>13. CASE ReturnSeg
  <2>1. /\ hwOn /\ UNCHANGED hwOn /\ start_idx \in RxSlots /\ TypeInv
        /\ rxown' = [rxown EXCEPT ![start_idx] = TRUE]
        /\ rxseg' = [rxseg EXCEPT ![start_idx] = NoSeg]
    BY <1>0, <1>13 DEF ReturnSeg, hw, RxIInv, TypeInv, TypeOK, Receiving
  <2> QED
    BY <1>13, <2>1, NamesRelease, CopyReturnSeg
<1>14. CASE Deliver
  BY <1>14, <1>1 DEF Deliver, hw, CopyInv
<1> QED
  BY <1>3, <1>4, <1>5, <1>6, <1>7, <1>8, <1>9, <1>10, <1>11, <1>12, <1>13, <1>14
  DEF Next, RcvStep, SendStep

\* A function on 1 .. n is a sequence; what Append, Tail and SubSeq make of it.
LEMMA FunctionIsSeq ==
  ASSUME NEW S, NEW n \in Nat, NEW f \in [1 .. n -> S]
  PROVE  f \in Seq(S) /\ Len(f) = n
OBVIOUS

LEMMA TailIs ==
  ASSUME NEW S, NEW n \in Nat \ {0}, NEW f \in [1 .. n -> S],
         NEW g \in [1 .. n - 1 -> S], \A k \in 1 .. n - 1 : g[k] = f[k + 1]
  PROVE  f # <<>> /\ g = Tail(f) /\ Head(f) = f[1]
<1>1. f \in Seq(S) /\ Len(f) = n /\ g \in Seq(S) /\ Len(g) = n - 1 /\ f # <<>>
  BY FunctionIsSeq
<1>2. /\ Tail(f) \in Seq(S) /\ Len(Tail(f)) = n - 1
      /\ \A k \in 1 .. n - 1 : Tail(f)[k] = f[k + 1]
  BY <1>1, HeadTailProperties
<1>3. g = Tail(f)
  BY <1>1, <1>2, SeqEqual
<1> QED
  BY <1>1, <1>3

LEMMA PrefixIs ==
  ASSUME NEW S, NEW n \in Nat, NEW m \in Nat, n <= m,
         NEW f \in [1 .. n -> S], NEW g \in [1 .. m -> S],
         \A k \in 1 .. n : g[k] = f[k]
  PROVE  Len(f) = n /\ Len(g) = m /\ SubSeq(g, 1, Len(f)) = f
<1>1. f \in Seq(S) /\ Len(f) = n /\ g \in Seq(S) /\ Len(g) = m
  BY FunctionIsSeq
<1>2. /\ SubSeq(g, 1, n) \in Seq(S) /\ Len(SubSeq(g, 1, n)) = n
      /\ \A k \in 1 .. n : SubSeq(g, 1, n)[k] = g[k]
  BY <1>1
<1>3. SubSeq(g, 1, n) = f
  BY <1>1, <1>2, SeqEqual
<1> QED
  BY <1>1, <1>3

\* Software has the w descriptors from b on, up to the engine's position h.
Window(own, h, b, w) == h = At(b, w) /\ \A i \in RxSlots : ~own[i] <=> Way(b, i) < w

\* The line is what segs holds in a window of w at b, but for the c copied.
LineOf(ring, segs, b, c, w) ==
  /\ w - c \in Nat
  /\ ring \in [1 .. w - c -> Segs]
  /\ \A k \in 1 .. w - c : ring[k] = segs[At(b, c + k - 1)]

LineFacts ==
  hwOn => \A w \in 0 .. RXDES_NUM :
    Window(rxown, hwRx, First, w) => LineOf(RingLine, rxseg, First, Copied, w)

LEMMA WindowIsLine == RxIInv => LineFacts
<1> SUFFICES ASSUME RxIInv, hwOn, NEW w \in 0 .. RXDES_NUM, Window(rxown, hwRx, First, w)
             PROVE  LineOf(RingLine, rxseg, First, Copied, w)
  BY DEF LineFacts
<1>1. /\ First \in RxSlots /\ start_idx \in RxSlots /\ rx_idx \in RxSlots
      /\ FrameInv /\ CallInv
  BY DEF RxIInv, RxInv, TypeInv, TypeOK, First
<1>2. \A k \in RxSlots : At(First, k) \in RxSlots /\ (~rxown[At(First, k)] <=> k < w)
  <2> SUFFICES ASSUME NEW k \in RxSlots
               PROVE  At(First, k) \in RxSlots /\ (~rxown[At(First, k)] <=> k < w)
    OBVIOUS
  <2>1. At(First, k) \in RxSlots /\ Way(First, At(First, k)) = k
    BY <1>1, AtSlot
  <2> QED
    BY <2>1 DEF Window
<1>3. RunLength = w
  <2> DEFINE Run(n) == /\ \A k \in 0 .. n - 1 : ~rxown[At(First, k)]
                       /\ n < RXDES_NUM => rxown[At(First, n)]
  <2>1. Run(w)
    BY <1>2, RxRing
  <2>2. ASSUME NEW n \in 0 .. RXDES_NUM, Run(n) PROVE n = w
    <3>1. CASE n < w
      <4>1. n \in RxSlots
        BY <3>1, RxRing
      <4> QED
        BY <1>2, <2>2, <3>1, <4>1, RxRing
    <3>2. CASE n > w
      <4>1. w \in 0 .. n - 1 /\ w \in RxSlots
        BY <3>2, RxRing
      <4> QED
        BY <1>2, <2>2, <4>1, RxRing
    <3> QED
      BY <3>1, <3>2, RxRing
  <2>3. RunLength = CHOOSE n \in 0 .. RXDES_NUM : Run(n)
    BY DEF RunLength
  <2> HIDE DEF Run
  <2> QED
    BY <2>1, <2>2, <2>3
<1>4. Copied \in {0, 1} /\ Copied <= w
  <2>1. CASE pc = "return"
    <3>1. First = start_idx /\ start_idx # rx_idx
      BY <1>1, <2>1 DEF First, Receiving, CallInv
    <3>2. /\ Way(start_idx, start_idx) = 0
          /\ Way(start_idx, rx_idx) \in RxSlots /\ Way(start_idx, rx_idx) # 0
      BY <1>1, <3>1, WayRound
    <3>3. ~rxown[start_idx]
      BY <1>1, <2>1, <3>2, RxRing DEF CallInv
    <3>4. 0 < w
      BY <1>1, <3>1, <3>2, <3>3 DEF Window
    <3> QED
      BY <2>1, <3>4, RxRing DEF Copied
  <2>2. CASE pc # "return"
    BY <2>2, RxRing DEF Copied
  <2> QED
    BY <2>1, <2>2
<1>5. w - Copied \in Nat
  BY <1>4, RxRing
<1>6. \A k \in 1 .. w - Copied : LineSeg(Copied + k - 1) \in Segs
  <2> SUFFICES ASSUME NEW k \in 1 .. w - Copied
               PROVE  LineSeg(Copied + k - 1) \in Segs
    OBVIOUS
  <2>1. Copied + k - 1 \in RxSlots /\ Copied + k - 1 < w
    BY <1>4, RxRing
  <2> QED
    BY <1>1, <1>2, <2>1 DEF LineSeg, FrameInv, WholeSeg
<1>7. RingLine = [k \in 1 .. w - Copied |-> LineSeg(Copied + k - 1)]
  BY <1>3 DEF RingLine
<1> QED
  BY <1>5, <1>6, <1>7 DEF LineOf, LineSeg

\* Steps that leave the descriptors and their first one alone.
LEMMA LineKept ==
  ASSUME UNCHANGED <<rxown, rxseg, hwOn>>, First' = First, Copied' = Copied
  PROVE  UNCHANGED RingLine
BY DEF RingLine, RunLength, LineSeg

\* The window and the line after a step.
LEMMA LineThen ==
  ASSUME LineFacts', hwOn', NEW w \in 0 .. RXDES_NUM, Window(rxown', hwRx', First', w)
  PROVE  LineOf(RingLine', rxseg', First', Copied', w)
BY DEF LineFacts

\* A frame arrives at the end of the line.
LEMMA LineArrive ==
  ASSUME RxIInv, LineFacts, LineFacts', NEW n \in 1 .. MaxSegs,
         NEW good \in BOOLEAN, HwReceive(n, good)
  PROVE  Line!Arrive
<1>1. /\ TypeInv /\ RunAt(First) /\ hwOn /\ hwOn' /\ First' = First /\ Copied' = Copied
      /\ data' = data /\ First \in RxSlots
  BY DEF HwReceive, RxIInv, RxInv, TypeInv, TypeOK, First, Copied, rcv
<1>2. PICK w \in 0 .. RXDES_NUM : Window(rxown, hwRx, First, w)
  BY <1>1 DEF RunAt, Window
<1>3. w + n \in 0 .. RXDES_NUM /\ Window(rxown', hwRx', First, w + n)
  BY <1>1, <1>2, ReceiveGrows DEF Window
<1> DEFINE m == w - Copied
           v == (w + n) - Copied
<1>4. /\ m \in Nat /\ RingLine \in [1 .. m -> Segs]
      /\ \A k \in 1 .. m : RingLine[k] = rxseg[At(First, Copied + k - 1)]
  <2>1. LineOf(RingLine, rxseg, First, Copied, w)
    BY <1>1, <1>2 DEF LineFacts
  <2> QED
    BY <2>1 DEF LineOf
<1>5. /\ v \in Nat /\ RingLine' \in [1 .. v -> Segs]
      /\ \A k \in 1 .. v : RingLine'[k] = rxseg'[At(First, Copied + k - 1)]
  <2>1. LineOf(RingLine', rxseg', First, Copied, w + n)
    BY <1>1, <1>3, LineThen
  <2> QED
    BY <2>1 DEF LineOf
<1>6. Copied \in {0, 1} /\ v \in m + 1 .. RXDES_NUM
  BY <1>3, <1>4, RxRing DEF Copied
<1>7. \A k \in 1 .. m : RingLine'[k] = RingLine[k]
  <2> SUFFICES ASSUME NEW k \in 1 .. m
               PROVE  rxseg'[At(First, Copied + k - 1)] = rxseg[At(First, Copied + k - 1)]
    <3>1. \A k \in 1 .. m : k \in 1 .. v
      BY <1>4, <1>6, RxRing
    <3> HIDE DEF m, v
    <3> QED
      BY <1>4, <1>5, <3>1
  <2>1. Copied + k - 1 \in RxSlots /\ Copied + k - 1 < w
    BY <1>6, RxRing
  <2>2. At(First, Copied + k - 1) \in RxSlots
        /\ Way(First, At(First, Copied + k - 1)) = Copied + k - 1
    BY <1>1, <2>1, AtSlot
  <2>3. ~rxown[At(First, Copied + k - 1)]
    BY <1>2, <2>1, <2>2 DEF Window
  <2> QED
    BY <1>1, <2>2, <2>3, ReceiveFills
<1> HIDE DEF m, v
<1>9. /\ Len(RingLine) = m /\ Len(RingLine') = v
      /\ SubSeq(RingLine', 1, Len(RingLine)) = RingLine
  BY <1>4, <1>5, <1>6, <1>7, PrefixIs, RxRing
<1> QED
  BY <1>1, <1>5, <1>6, <1>9 DEF Line!Arrive

\* Its second descriptor becomes the first.
LEMMA AtNext ==
  ASSUME NEW b \in RxSlots, NEW k \in RxSlots, k >= 1
  PROVE  At(NextRx(b), k - 1) = At(b, k) /\ At(b, k) # b /\ At(b, k) \in RxSlots
<1>1. NextRx(b) = IF b = RXDES_NUM - 1 THEN 0 ELSE b + 1
  BY NextRxSlot
<1> QED
  BY <1>1, RxRing DEF At

\* A piece leaves the front of the line when it is copied, and so does one
\* that goes back to the engine uncopied; one that is copied is gone.
LEMMA LineCopied ==
  ASSUME NEW L, NEW M, NEW s, NEW b \in RxSlots, NEW w \in 0 .. RXDES_NUM,
         LineOf(L, s, b, 0, w), LineOf(M, s, b, 1, w)
  PROVE  L # <<>> /\ M = Tail(L) /\ Head(L) = s[b]
<1>1. w \in Nat \ {0} /\ L \in [1 .. w -> Segs] /\ M \in [1 .. w - 1 -> Segs]
  BY RxRing DEF LineOf
<1>2. \A k \in 1 .. w - 1 : M[k] = L[k + 1]
  <2> SUFFICES ASSUME NEW k \in 1 .. w - 1 PROVE M[k] = L[k + 1]
    OBVIOUS
  <2>1. k + 1 \in 1 .. w /\ 0 + (k + 1) - 1 = k /\ 1 + k - 1 = k
    BY <1>1
  <2>2. M[k] = s[At(b, 1 + k - 1)] /\ L[k + 1] = s[At(b, 0 + (k + 1) - 1)]
    BY <2>1 DEF LineOf
  <2> QED
    BY <2>1, <2>2
<1>3. L[1] = s[b]
  <2>1. 1 \in 1 .. w - 0 /\ 0 + 1 - 1 = 0
    BY <1>1
  <2>2. L[1] = s[At(b, 0 + 1 - 1)]
    BY <2>1 DEF LineOf
  <2> QED
    BY <2>1, <2>2, RxRing DEF At
<1> QED
  BY <1>1, <1>2, <1>3, TailIs

LEMMA LineDropped ==
  ASSUME NEW L, NEW M, NEW s, NEW t, NEW b \in RxSlots, NEW w \in 1 .. RXDES_NUM,
         LineOf(L, s, b, 0, w), LineOf(M, t, NextRx(b), 0, w - 1),
         \A i \in RxSlots : i # b => t[i] = s[i]
  PROVE  L # <<>> /\ M = Tail(L)
<1>1. w \in Nat \ {0} /\ L \in [1 .. w -> Segs] /\ M \in [1 .. w - 1 -> Segs]
  BY RxRing DEF LineOf
<1>2. \A k \in 1 .. w - 1 : M[k] = L[k + 1]
  <2> SUFFICES ASSUME NEW k \in 1 .. w - 1 PROVE M[k] = L[k + 1]
    OBVIOUS
  <2>1. /\ k + 1 \in 1 .. w - 0 /\ k \in 1 .. (w - 1) - 0 /\ k \in RxSlots /\ k >= 1
        /\ 0 + (k + 1) - 1 = k /\ 0 + k - 1 = k - 1
    BY <1>1, RxRing
  <2>2. M[k] = t[At(NextRx(b), 0 + k - 1)] /\ L[k + 1] = s[At(b, 0 + (k + 1) - 1)]
    BY <2>1 DEF LineOf
  <2>3. At(NextRx(b), k - 1) = At(b, k) /\ At(b, k) # b /\ At(b, k) \in RxSlots
    BY <2>1, AtNext
  <2>4. t[At(b, k)] = s[At(b, k)]
    BY <2>3
  <2> QED
    BY <2>1, <2>2, <2>3, <2>4
<1> QED
  BY <1>1, <1>2, TailIs

LEMMA LineReturned ==
  ASSUME NEW L, NEW M, NEW s, NEW t, NEW b \in RxSlots, NEW w \in 1 .. RXDES_NUM,
         LineOf(L, s, b, 1, w), LineOf(M, t, NextRx(b), 0, w - 1),
         \A i \in RxSlots : i # b => t[i] = s[i]
  PROVE  M = L
<1>1. w \in Nat \ {0} /\ L \in [1 .. w - 1 -> Segs] /\ M \in [1 .. w - 1 -> Segs]
  BY RxRing DEF LineOf
<1>2. \A k \in 1 .. w - 1 : M[k] = L[k]
  <2> SUFFICES ASSUME NEW k \in 1 .. w - 1 PROVE M[k] = L[k]
    OBVIOUS
  <2>1. /\ k \in 1 .. (w - 1) - 0 /\ k \in RxSlots /\ k >= 1
        /\ 1 + k - 1 = k /\ 0 + k - 1 = k - 1
    BY <1>1, RxRing
  <2>2. M[k] = t[At(NextRx(b), 0 + k - 1)] /\ L[k] = s[At(b, 1 + k - 1)]
    BY <2>1 DEF LineOf
  <2>3. At(NextRx(b), k - 1) = At(b, k) /\ At(b, k) # b /\ At(b, k) \in RxSlots
    BY <2>1, AtNext
  <2>4. t[At(b, k)] = s[At(b, k)]
    BY <2>3
  <2> QED
    BY <2>1, <2>2, <2>3, <2>4
<1> QED
  BY <1>1, <1>2

\* The window of a call that has not copied a piece yet.
LEMMA FrontWindow ==
  ASSUME RxIInv, hwOn
  PROVE  /\ TypeInv /\ First \in RxSlots /\ start_idx \in RxSlots /\ rx_idx \in RxSlots
         /\ FrameInv /\ CallInv
         /\ \E w \in 0 .. RXDES_NUM : Window(rxown, hwRx, First, w)
BY DEF RxIInv, RxInv, RunAt, Window, TypeInv, TypeOK, First

LEMMA LineDiscard ==
  ASSUME RxIInv, CopyInv, LineFacts, LineFacts', ScanError
  PROVE  Line!Discard
<1>1. /\ pc = "scan" /\ pc' = "idle" /\ hwOn /\ hwOn' /\ hwRx' = hwRx /\ ~rxown[rx_idx]
      /\ rxown' = [rxown EXCEPT ![rx_idx] = TRUE]
      /\ rxseg' = [rxseg EXCEPT ![rx_idx] = NoSeg]
      /\ rx_idx' = NextRx(rx_idx) /\ data' = data /\ rxseg[rx_idx].n = 1
  BY DEF ScanError, hw, rcv, Frs, RxIInv, Receiving
<1>2. rx_idx = start_idx
  BY <1>1, FrontWindow DEF CallInv
<1>3. PICK b \in RxSlots : b = rx_idx
  BY <1>1, FrontWindow
<1>4. /\ First = b /\ First' = NextRx(b) /\ Copied = 0 /\ Copied' = 0 /\ data = <<>>
  BY <1>1, <1>2, <1>3 DEF First, Copied, Receiving, CopyInv
<1>5. PICK w \in 0 .. RXDES_NUM : Window(rxown, hwRx, b, w)
  BY <1>1, <1>4, FrontWindow
<1>6. w - 1 \in 0 .. RXDES_NUM /\ Window(rxown', hwRx', NextRx(b), w - 1)
  BY <1>1, <1>3, <1>5, FrontWindow, ReleaseShrinks DEF Window
<1>7. LineOf(RingLine, rxseg, b, 0, w)
  BY <1>1, <1>4, <1>5 DEF LineFacts
<1>8. LineOf(RingLine', rxseg', NextRx(b), 0, w - 1)
  BY <1>1, <1>4, <1>6, LineThen
<1>9. \A i \in RxSlots : i # b => rxseg'[i] = rxseg[i]
  BY <1>1, <1>3, FrontWindow DEF TypeInv, TypeOK
<1>10. w \in 1 .. RXDES_NUM
  BY <1>5, <1>6, RxRing
<1>11. RingLine # <<>> /\ RingLine' = Tail(RingLine)
  BY <1>7, <1>8, <1>9, <1>10, LineDropped
<1> QED
  BY <1>1, <1>4, <1>11 DEF Line!Discard

LEMMA LineTake ==
  ASSUME RxIInv, CopyInv, LineFacts, LineFacts', CopySeg
  PROVE  Line!Take
<1>1. /\ pc = "copy" /\ pc' = "return" /\ hwOn /\ hwOn'
      /\ UNCHANGED <<rxown, rxseg, hwRx, start_idx>>
  BY DEF CopySeg, hw, RxIInv, Receiving
<1>2. PICK b \in RxSlots : b = start_idx
  BY <1>1, FrontWindow
<1>3. First = b /\ First' = b /\ Copied = 0 /\ Copied' = 1
  BY <1>1, <1>2 DEF First, Copied, Receiving
<1>4. PICK w \in 0 .. RXDES_NUM : Window(rxown, hwRx, b, w)
  BY <1>1, <1>3, FrontWindow
<1>5. LineOf(RingLine, rxseg, b, 0, w)
  BY <1>1, <1>3, <1>4 DEF LineFacts
<1>6. LineOf(RingLine', rxseg, b, 1, w)
  BY <1>1, <1>3, <1>4, LineThen
<1>7. RingLine # <<>> /\ RingLine' = Tail(RingLine) /\ Head(RingLine) = rxseg[b]
  BY <1>5, <1>6, LineCopied
<1>8. data' = Append(data, rxseg[b])
  BY <1>2, CopyCopySeg
<1> QED
  BY <1>7, <1>8 DEF Line!Take

LEMMA LineReturn ==
  ASSUME RxIInv, LineFacts, LineFacts', ReturnSeg
  PROVE  UNCHANGED <<RingLine, data>>
<1>1. /\ pc = "return" /\ pc' = "copy" /\ hwOn /\ hwOn' /\ hwRx' = hwRx
      /\ rxown' = [rxown EXCEPT ![start_idx] = TRUE]
      /\ rxseg' = [rxseg EXCEPT ![start_idx] = NoSeg]
      /\ start_idx' = NextRx(start_idx) /\ data' = data
  BY DEF ReturnSeg, hw, RxIInv, Receiving
<1>2. PICK b \in RxSlots : b = start_idx
  BY <1>1, FrontWindow
<1>3. First = b /\ First' = NextRx(b) /\ Copied = 1 /\ Copied' = 0
  BY <1>1, <1>2 DEF First, Copied, Receiving
<1>4. PICK w \in 0 .. RXDES_NUM : Window(rxown, hwRx, b, w)
  BY <1>1, <1>3, FrontWindow
<1>5. LineOf(RingLine, rxseg, b, 1, w)
  BY <1>1, <1>3, <1>4 DEF LineFacts
<1>6. w \in 1 .. RXDES_NUM
  BY <1>5, RxRing DEF LineOf
<1>7. ~rxown[b]
  <2>1. Way(b, b) = 0
    BY WayRound
  <2> QED
    BY <1>4, <1>6, <2>1 DEF Window
<1>8. w - 1 \in 0 .. RXDES_NUM /\ Window(rxown', hwRx', NextRx(b), w - 1)
  BY <1>1, <1>2, <1>4, <1>7, FrontWindow, ReleaseShrinks DEF Window
<1>9. LineOf(RingLine', rxseg', NextRx(b), 0, w - 1)
  BY <1>1, <1>3, <1>8, LineThen
<1>10. \A i \in RxSlots : i # b => rxseg'[i] = rxseg[i]
  BY <1>1, <1>2, FrontWindow DEF TypeInv, TypeOK
<1> QED
  BY <1>1, <1>5, <1>6, <1>9, <1>10, LineReturned

LEMMA LineDeliver ==
  ASSUME RxIInv, CopyInv, Deliver
  PROVE  Line!Deliver
<1>1. /\ pc = "copy" /\ pc' = "idle" /\ start_idx = rx_idx /\ data' = <<>>
      /\ UNCHANGED <<rxown, rxseg, rx_idx, start_idx, hwOn>>
      /\ data \in Seq(Segs \cup {NoSeg}) /\ start_idx \in RxSlots
  BY DEF Deliver, hw, RxIInv, TypeInv, TypeOK
<1>2. PICK f \in RxSlots : CopyPieces(f)
  BY <1>1 DEF CopyInv
<1>3. /\ Len(data) \in Nat /\ Len(data) = packet_length /\ packet_length > 0
      /\ \A k \in 1 .. Len(data) : PieceOf(data[k], f, k, packet_length)
  <2>1. Way(start_idx, rx_idx) = 0 /\ Copied = 0 /\ Len(data) \in Nat
    BY <1>1, WayRound DEF Copied
  <2>2. /\ Len(data) - Copied + Way(start_idx, rx_idx) = packet_length /\ packet_length > 0
        /\ \A k \in 1 .. Len(data) : PieceOf(data[k], f, k, packet_length)
    BY <1>2 DEF CopyPieces
  <2> QED
    BY <2>1, <2>2
<1>4. 1 \in 1 .. Len(data) /\ data # <<>>
  BY <1>3
<1>5. Line!Whole(data)
  BY <1>3, <1>4 DEF Line!Whole, PieceOf
<1>6. UNCHANGED RingLine
  BY <1>1, LineKept DEF First, Copied, Receiving
<1> QED
  BY <1>1, <1>5, <1>6 DEF Line!Deliver

\* eth_init and eth_halt leave nothing in the line.
LEMMA LineClose ==
  ASSUME CopyInv, LineFacts', EthInit \/ EthOpened \/ EthHalt
  PROVE  Line!Close
<1>1. data = <<>> /\ data' = <<>>
  BY DEF EthInit, EthOpened, EthHalt, rx, rcv, CopyInv
<1>2. CASE EthOpened
  <2>1. /\ First' = 0 /\ Copied' = 0 /\ hwRx' = 0 /\ hwOn'
        /\ \A i \in RxSlots : rxown'[i]
    BY <1>2 DEF EthOpened, ftmac100_reset, ftmac100_enable, First, Copied, Receiving
  <2>2. Window(rxown', hwRx', 0, 0) /\ 0 \in 0 .. RXDES_NUM
    BY <2>1, RxRing DEF Window, At, Way
  <2>3. LineOf(RingLine', rxseg', 0, 0, 0)
    BY <2>1, <2>2, LineThen
  <2>4. RingLine' = <<>>
    BY <2>3 DEF LineOf
  <2> QED
    BY <1>1, <2>4 DEF Line!Close
<1>3. CASE EthInit \/ EthHalt
  <2>1. RingLine' = <<>>
    BY <1>3 DEF EthInit, EthHalt, RingLine
  <2> QED
    BY <1>1, <2>1 DEF Line!Close
<1> QED
  BY <1>2, <1>3

LEMMA LineStep ==
  ASSUME RxIInv, CopyInv, LineFacts, LineFacts', [Next]_vars
  PROVE  [Line!LineNext]_<<RingLine, data, FALSE>>
<1>1. CASE HwFrame
  <2>1. PICK n \in 1 .. MaxSegs, good \in BOOLEAN : HwReceive(n, good)
    BY <1>1 DEF HwFrame
  <2> QED
    BY <2>1, LineArrive DEF Line!LineNext
<1>2. CASE ScanError
  BY <1>2, LineDiscard DEF Line!LineNext
<1>3. CASE CopySeg
  BY <1>3, LineTake DEF Line!LineNext
<1>4. CASE ReturnSeg
  BY <1>4, LineReturn
<1>5. CASE Deliver
  BY <1>5, LineDeliver DEF Line!LineNext
<1>6. CASE EthInit \/ EthOpened \/ EthHalt
  BY <1>6, LineClose DEF Line!LineNext
<1>7. ASSUME UNCHANGED <<rxown, rxseg, rx_idx, data, hwOn>>,
             pc \notin Receiving, pc' \notin Receiving
      PROVE  UNCHANGED <<RingLine, data>>
  BY <1>7, LineKept DEF First, Copied, Receiving
<1>8. CASE EthInitNoMemory \/ EthInitBug \/ NullPriv \/ PowerCycle
           \/ (\E p \in Packets : EthSend(p)) \/ SendFill \/ SendOwn \/ SendKick
  BY <1>7, <1>8 DEF EthInitNoMemory, EthInitBug, NullPriv, PowerCycle,
     EthSend, SendFill, SendOwn, SendKick, rx, rcv, hw, Receiving
<1>9. CASE HwSend \/ HwIdle \/ UNCHANGED vars \/ SendWait
  <2>1. UNCHANGED <<rxown, rxseg, rx_idx, start_idx, data, hwOn, pc>>
    BY <1>9 DEF HwSend, HwIdle, SendWait, vars, rx, rcv, hw
  <2> QED
    BY <2>1, LineKept DEF First, Copied
<1>10. CASE RcvStart
  <2>1. UNCHANGED <<rxown, rxseg, hwOn, data>> /\ First' = First /\ Copied' = Copied
    BY <1>10 DEF RcvStart, hw, First, Copied, Receiving
  <2> QED
    BY <2>1, LineKept
<1>11. CASE ScanStop
  <2>1. /\ pc = "scan" /\ rxown[rx_idx] /\ pc' = AfterScan(packet_length)
        /\ UNCHANGED <<rxown, rxseg, rx_idx, hwOn, data>>
    BY <1>11 DEF ScanStop, rx, rcv, hw
  <2>2. rx_idx = start_idx /\ packet_length = 0
    BY <2>1 DEF RxIInv, RxInv, CallInv, Receiving
  <2>3. First' = First /\ Copied' = Copied
    BY <2>1, <2>2 DEF First, Copied, Receiving, AfterScan
  <2> QED
    BY <2>1, <2>3, LineKept
<1>12. CASE ScanSeg
  <2>1. /\ pc = "scan" /\ UNCHANGED <<rxown, rxseg, start_idx, hwOn, data>> /\ hwOn
        /\ rx_idx \in RxSlots /\ packet_length \in Nat /\ ~rxown[rx_idx]
        /\ pc' = IF Lrs(rx_idx) THEN AfterScan(packet_length') ELSE "scan"
        /\ packet_length' = IF Frs(rx_idx) THEN rxseg[rx_idx].len ELSE packet_length
    BY <1>12, FrontWindow, RxRing DEF ScanSeg, hw, RxIInv, Receiving, TypeInv, TypeOK
  <2>2. WholeSeg(rx_idx) /\ (Starts(rx_idx) \/ packet_length > 0)
    BY <2>1, FrontWindow DEF FrameInv, CallInv
  <2>3. packet_length' > 0
    BY <2>1, <2>2, RxRing DEF WholeSeg, Segs, Frs, Starts, NoSeg
  <2>4. pc' \in {"scan", "copy"}
    BY <2>1, <2>3 DEF AfterScan
  <2>5. First' = First /\ Copied' = Copied
    BY <2>1, <2>4 DEF First, Copied, Receiving
  <2> QED
    BY <2>1, <2>5, LineKept
<1> QED
  BY <1>1, <1>2, <1>3, <1>4, <1>5, <1>6, <1>8, <1>9, <1>10, <1>11, <1>12
  DEF Next, RcvStep, SendStep

\* Lines 507-556: whatever the engine receives and whenever the boot loader
\* opens and halts the device, the receive path is the line of RxLine: every
\* piece leaves the ring once and in order, one with an error is thrown away,
\* and NetReceive (line 550) gets one whole good frame at a time; for rings
\* and frames of any size, if a frame with an error takes one descriptor.
THEOREM RingIsLine ==
  ASSUME ErrSegs \subseteq {1}
  PROVE  Spec => Line!LineSpec
<1> DEFINE Inv  == RxIInv /\ (hwOn => FrameNames) /\ CopyInv
           Step == [Line!LineNext]_<<RingLine, data, FALSE>>
<1>1. Init => Inv /\ Line!LineInit
  BY TypeInit DEF Init, RxIInv, RxInv, Receiving, CopyInv, Line!LineInit, RingLine
<1>2. Inv /\ [Next]_vars => Inv'
  BY RxInvStep, CopyStep
<1>3. Inv => LineFacts
  BY WindowIsLine
<1>4. Inv /\ LineFacts /\ LineFacts' /\ [Next]_vars => Step
  BY LineStep
<1> HIDE DEF Inv
<1> QED
  BY <1>1, <1>2, <1>3, <1>4, PTL DEF Spec, Line!LineSpec, Line!lineVars

-----------------------------------------------------------------------------
(* What the engine has still to send is a queue.                           *)

LEMMA TxRing ==
  TXDES_NUM \in Nat \ {0} /\ TxSlots = 0 .. TXDES_NUM - 1
BY RingAssumption DEF TxSlots

\* The engine's run of m descriptors is the queue.
Run(m) == \A i \in TxSlots : txown[i] <=> TxDist(i) < m

LEMMA TxAtSlot ==
  ASSUME hwTx \in TxSlots, NEW k \in TxSlots
  PROVE  TxAt(k) \in TxSlots /\ TxDist(TxAt(k)) = k
BY TxRing DEF TxAt, TxDist

Buffers == Packets \cup {NoPacket}

QueueFacts ==
  \A m \in 0 .. TXDES_NUM : Run(m) =>
    Queue \in [1 .. m -> Buffers] /\ \A k \in 1 .. m : Queue[k] = txbuf[TxAt(k - 1)]

LEMMA QueueIs == TypeInv => QueueFacts
<1> SUFFICES ASSUME TypeInv, NEW m \in 0 .. TXDES_NUM, Run(m)
             PROVE  Queue \in [1 .. m -> Buffers] /\ \A k \in 1 .. m : Queue[k] = txbuf[TxAt(k - 1)]
  BY DEF QueueFacts
<1> DEFINE Is(w) == /\ \A k \in 0 .. w - 1 : txown[TxAt(k)]
                    /\ w < TXDES_NUM => ~txown[TxAt(w)]
<1>0. hwTx \in TxSlots /\ txbuf \in [TxSlots -> Buffers]
  BY DEF TypeInv, TypeOK, Buffers
<1>1. ASSUME NEW k \in TxSlots PROVE TxAt(k) \in TxSlots /\ (txown[TxAt(k)] <=> k < m)
  <2>1. TxAt(k) \in TxSlots /\ TxDist(TxAt(k)) = k
    BY <1>0, TxAtSlot
  <2> QED
    BY <2>1 DEF Run
<1>2. Is(m)
  <2>1. ASSUME NEW k \in 0 .. m - 1 PROVE txown[TxAt(k)]
    <3>1. k \in TxSlots /\ k < m
      BY TxRing
    <3> QED
      BY <1>1, <3>1
  <2>2. m < TXDES_NUM => m \in TxSlots /\ ~(m < m)
    BY TxRing
  <2> QED
    BY <1>1, <2>1, <2>2
<1>3. ASSUME NEW w \in 0 .. TXDES_NUM, Is(w) PROVE w = m
  <2>1. CASE w < m
    <3>1. w \in TxSlots /\ w < TXDES_NUM
      BY <2>1, TxRing
    <3> QED
      BY <1>1, <1>3, <2>1, <3>1
  <2>2. CASE w > m
    <3>1. m \in 0 .. w - 1 /\ m \in TxSlots /\ ~(m < m)
      BY <2>2, TxRing
    <3> QED
      BY <1>1, <1>3, <3>1
  <2> QED
    BY <2>1, <2>2, TxRing
<1>4. QueueLength = CHOOSE w \in 0 .. TXDES_NUM : Is(w)
  BY DEF QueueLength
<1> HIDE DEF Is
<1>5. QueueLength = m
  BY <1>2, <1>3, <1>4
<1>6. Queue = [k \in 1 .. m |-> txbuf[TxAt(k - 1)]]
  BY <1>5 DEF Queue
<1>7. ASSUME NEW k \in 1 .. m PROVE txbuf[TxAt(k - 1)] \in Buffers
  <2>1. k - 1 \in TxSlots
    BY TxRing
  <2> QED
    BY <1>0, <1>1, <2>1
<1> QED
  BY <1>6, <1>7

\* How long it is.
LEMMA RunOf ==
  ASSUME TypeInv, TxRun
  PROVE  \E m \in 0 .. TXDES_NUM :
           /\ Run(m)
           /\ IF m = TXDES_NUM THEN TxEnd = hwTx /\ pc # "own" ELSE m = TxDist(TxEnd)
<1>1. hwTx \in TxSlots /\ TxEnd \in TxSlots
  BY NextTxSlot DEF TypeInv, TypeOK, TxEnd
<1>2. \A i \in TxSlots : TxDist(i) \in 0 .. TXDES_NUM - 1
  BY <1>1, TxRing DEF TxDist
<1>3. CASE \A i \in TxSlots : txown[i] <=> TxDist(i) < TxDist(TxEnd)
  <2>1. TxDist(TxEnd) \in 0 .. TXDES_NUM /\ TxDist(TxEnd) # TXDES_NUM
    BY <1>1, <1>2, TxRing
  <2> QED
    BY <1>3, <2>1 DEF Run
<1>4. CASE TxEnd = hwTx /\ pc # "own" /\ \A i \in TxSlots : txown[i]
  <2>1. Run(TXDES_NUM) /\ TXDES_NUM \in 0 .. TXDES_NUM
    BY <1>2, <1>4, TxRing DEF Run
  <2> QED
    BY <1>4, <2>1
<1> QED
  BY <1>3, <1>4 DEF TxRun

\* A packet is added at the end.
LEMMA AppendIs ==
  ASSUME NEW S, NEW n \in Nat, NEW f \in [1 .. n -> S], NEW g \in [1 .. n + 1 -> S],
         \A k \in 1 .. n : g[k] = f[k]
  PROVE  g = Append(f, g[n + 1])
<1>1. f \in Seq(S) /\ Len(f) = n
  BY FunctionIsSeq
<1>2. n + 1 \in Nat /\ n + 1 \in 1 .. n + 1
  OBVIOUS
<1>3. g \in Seq(S) /\ Len(g) = n + 1
  BY <1>2, FunctionIsSeq
<1>4. g[n + 1] \in S
  BY <1>2
<1>5. /\ Append(f, g[n + 1]) \in Seq(S) /\ Len(Append(f, g[n + 1])) = n + 1
      /\ \A k \in 1 .. n : Append(f, g[n + 1])[k] = f[k]
      /\ Append(f, g[n + 1])[n + 1] = g[n + 1]
  BY <1>1, <1>4, AppendProperties
<1>6. \A k \in 1 .. n + 1 : k \in 1 .. n \/ k = n + 1
  OBVIOUS
<1>7. \A k \in 1 .. n + 1 : g[k] = Append(f, g[n + 1])[k]
  BY <1>5, <1>6
<1> QED
  BY <1>3, <1>5, <1>7, SeqEqual

\* The engine takes the first.
LEMMA QueueSend ==
  ASSUME TypeInv, TypeInv', TxRun, QueueFacts, QueueFacts', HwSend
  PROVE  hwOn /\ Queue # <<>> /\ Queue' = Tail(Queue)
<1>1. /\ hwOn /\ txown[hwTx] /\ hwTx \in TxSlots
      /\ hwTx' = (IF hwTx = TXDES_NUM - 1 THEN 0 ELSE hwTx + 1)
      /\ \A i \in TxSlots : txown'[i] <=> txown[i] /\ i # hwTx
      /\ txbuf' = txbuf
  BY NextTxSlot DEF HwSend, TypeInv, TypeOK
<1>2. PICK m \in 0 .. TXDES_NUM : Run(m)
  BY RunOf
<1>3. m \in Nat \ {0}
  <2>1. TxDist(hwTx) = 0 /\ TxDist(hwTx) < m
    BY <1>1, <1>2, TxRing DEF TxDist, Run
  <2> QED
    BY <2>1, TxRing
<1>4. PICK q \in 0 .. TXDES_NUM : q = m - 1
  BY <1>3, TxRing
<1>5. Run(q)'
  <2> SUFFICES ASSUME NEW i \in TxSlots PROVE txown'[i] <=> TxDist(i)' < q
    BY DEF Run
  <2>1. TxDist(i)' = IF i = hwTx THEN TXDES_NUM - 1 ELSE TxDist(i) - 1
    BY <1>1, TxRing DEF TxDist
  <2>2. txown[i] <=> TxDist(i) < m
    BY <1>2 DEF Run
  <2>3. TxDist(i) \in 0 .. TXDES_NUM - 1
    BY <1>1, TxRing DEF TxDist
  <2>4. CASE i = hwTx
    <3>1. ~(TxDist(i)' < q)
      BY <2>1, <2>4, <1>3, <1>4, TxRing
    <3> QED
      BY <1>1, <2>4, <3>1
  <2>5. CASE i # hwTx
    <3>1. TxDist(i)' < q <=> TxDist(i) < m
      BY <2>1, <2>3, <2>5, <1>3, <1>4, TxRing
    <3> QED
      BY <1>1, <2>2, <2>5, <3>1
  <2> QED
    BY <2>4, <2>5
<1>6. Queue \in [1 .. m -> Buffers] /\ \A k \in 1 .. m : Queue[k] = txbuf[TxAt(k - 1)]
  BY <1>2 DEF QueueFacts
<1>7. Queue' \in [1 .. q -> Buffers] /\ \A k \in 1 .. q : Queue'[k] = txbuf[TxAt(k - 1)']
  BY <1>1, <1>5 DEF QueueFacts
<1>8. ASSUME NEW k \in 1 .. q PROVE Queue'[k] = Queue[k + 1]
  <2>1. k + 1 \in 1 .. m /\ (k + 1) - 1 = k /\ k - 1 \in 0 .. TXDES_NUM - 1 /\ k \in 1 .. TXDES_NUM - 1
    BY <1>3, <1>4, TxRing
  <2>2. TxAt(k - 1)' = TxAt(k)
    BY <1>1, <2>1, TxRing DEF TxAt
  <2> QED
    BY <1>6, <1>7, <2>1, <2>2
<1>9. Queue' \in [1 .. m - 1 -> Buffers] /\ \A k \in 1 .. m - 1 : Queue'[k] = Queue[k + 1]
  BY <1>4, <1>7, <1>8
<1> QED
  BY <1>1, <1>3, <1>6, <1>9, TailIs

\* The packet of the call is the last.
LEMMA QueueOwn ==
  ASSUME TypeInv, TypeInv', TxRun, QueueFacts, QueueFacts', SendOwn
  PROVE  pc = "own" /\ Queue' = Append(Queue, packet)
<1>1. /\ pc = "own" /\ hwTx \in TxSlots /\ tx_idx \in TxSlots /\ TxEnd = tx_idx
      /\ \A i \in TxSlots : txown'[i] <=> txown[i] \/ i = tx_idx
      /\ UNCHANGED <<txbuf, hwTx>> /\ txbuf[tx_idx] = packet
  BY DEF SendOwn, TypeInv, TypeOK, TxEnd, hw
<1>2. PICK m \in 0 .. TXDES_NUM : Run(m) /\ m = TxDist(tx_idx) /\ m < TXDES_NUM
  <2>1. PICK m \in 0 .. TXDES_NUM :
          Run(m) /\ IF m = TXDES_NUM THEN TxEnd = hwTx /\ pc # "own" ELSE m = TxDist(TxEnd)
    BY RunOf
  <2> QED
    BY <1>1, <2>1, TxRing
<1>3. PICK q \in 0 .. TXDES_NUM : q = m + 1
  BY <1>2, TxRing
<1>4. Run(q)'
  <2> SUFFICES ASSUME NEW i \in TxSlots PROVE txown'[i] <=> TxDist(i)' < q
    BY DEF Run
  <2>1. TxDist(i)' = TxDist(i) /\ TxDist(i) \in 0 .. TXDES_NUM - 1
    BY <1>1, TxRing DEF TxDist
  <2>2. TxDist(i) = TxDist(tx_idx) <=> i = tx_idx
    BY <1>1, TxRing DEF TxDist
  <2>3. TxDist(i)' < q <=> TxDist(i) < m \/ TxDist(i) = m
    BY <1>2, <1>3, <2>1, TxRing
  <2>4. txown[i] <=> TxDist(i) < m
    BY <1>2 DEF Run
  <2> QED
    BY <1>1, <1>2, <2>2, <2>3, <2>4
<1>5. m \in Nat /\ Queue \in [1 .. m -> Buffers] /\ \A k \in 1 .. m : Queue[k] = txbuf[TxAt(k - 1)]
  BY <1>2, TxRing DEF QueueFacts
<1>6. Queue' \in [1 .. q -> Buffers] /\ \A k \in 1 .. q : Queue'[k] = txbuf[TxAt(k - 1)]
  <2>1. \A k \in 1 .. q : TxAt(k - 1)' = TxAt(k - 1)
    BY <1>1 DEF TxAt
  <2> QED
    BY <1>1, <1>4, <2>1 DEF QueueFacts
<1>7. \A k \in 1 .. m : k \in 1 .. q /\ Queue'[k] = Queue[k]
  <2>1. \A k \in 1 .. m : k \in 1 .. q
    BY <1>3, <1>5
  <2> QED
    BY <1>5, <1>6, <2>1
<1>8. Queue'[m + 1] = packet
  <2>1. m + 1 \in 1 .. q /\ (m + 1) - 1 = m /\ m \in TxSlots
    BY <1>2, <1>3, TxRing
  <2>2. TxAt(m) = tx_idx
    BY <1>1, <1>2, TxRing DEF TxAt, TxDist
  <2> QED
    BY <1>1, <1>6, <2>1, <2>2
<1>9. Queue' \in [1 .. m + 1 -> Buffers]
  BY <1>3, <1>6
<1> QED
  BY <1>1, <1>5, <1>7, <1>8, <1>9, AppendIs

\* A step that changes nothing the engine owns leaves the queue.
LEMMA QueueKept ==
  ASSUME TypeInv, TxRun, QueueFacts, QueueFacts', UNCHANGED <<txown, hwTx>>,
         \A i \in TxSlots : txown[i] => txbuf'[i] = txbuf[i]
  PROVE  Queue' = Queue
<1>0. hwTx \in TxSlots
  BY DEF TypeInv, TypeOK
<1>1. PICK m \in 0 .. TXDES_NUM : Run(m)
  BY RunOf
<1>2. Run(m)'
  BY <1>1 DEF Run, TxDist
<1>3. Queue \in [1 .. m -> Buffers] /\ \A k \in 1 .. m : Queue[k] = txbuf[TxAt(k - 1)]
  BY <1>1 DEF QueueFacts
<1>4. Queue' \in [1 .. m -> Buffers] /\ \A k \in 1 .. m : Queue'[k] = txbuf'[TxAt(k - 1)]
  <2>1. \A k \in 1 .. m : TxAt(k - 1)' = TxAt(k - 1)
    BY DEF TxAt
  <2> QED
    BY <1>2, <2>1 DEF QueueFacts
<1>5. ASSUME NEW k \in 1 .. m PROVE txbuf'[TxAt(k - 1)] = txbuf[TxAt(k - 1)]
  <2>1. k - 1 \in TxSlots /\ k - 1 < m
    BY TxRing
  <2>2. TxAt(k - 1) \in TxSlots /\ TxDist(TxAt(k - 1)) = k - 1
    BY <1>0, <2>1, TxAtSlot
  <2> QED
    BY <1>1, <2>1, <2>2 DEF Run
<1> QED
  BY <1>3, <1>4, <1>5

\* After a reset nothing waits.
LEMMA QueueDropped ==
  ASSUME TypeInv, QueueFacts', EthOpened
  PROVE  ~hwOn /\ Queue' = <<>>
<1>1. ~hwOn /\ hwTx' = 0 /\ \A i \in TxSlots : ~txown'[i]
  BY DEF EthOpened, ftmac100_reset, ftmac100_enable, TypeInv
<1>2. Run(0)' /\ 0 \in 0 .. TXDES_NUM
  BY <1>1, TxRing DEF Run, TxDist
<1>3. Queue' \in [1 .. 0 -> Buffers]
  BY <1>2 DEF QueueFacts
<1> QED
  BY <1>1, <1>3

\* Lines 301-351 and 416-438, for rings of any size, however long a reset
\* takes and however often the device is opened: what goes out is what was
\* given to eth_send, in the order of the calls, and each packet goes out as
\* it was given.
THEOREM PacketsGoOutInOrder == Spec => SentInOrder
<1>1. Init => TxRun
  BY DEF Init, TxRun, TxDist, TxEnd
<1>2. TypeInv => QueueFacts
  BY QueueIs
<1>3. TypeInv /\ TypeInv' /\ TxRun /\ QueueFacts /\ QueueFacts' /\ [Next]_vars
        => [QueueStep]_vars
  <2> SUFFICES ASSUME TypeInv, TypeInv', TxRun, QueueFacts, QueueFacts', [Next]_vars
               PROVE  QueueStep
    OBVIOUS
  <2>1. CASE HwSend
    BY <2>1, QueueSend DEF QueueStep
  <2>2. CASE SendOwn
    BY <2>2, QueueOwn DEF QueueStep
  <2>3. CASE EthOpened
    BY <2>3, QueueDropped DEF QueueStep
  <2>4. CASE SendFill
    <3>1. /\ ~txown[tx_idx] /\ UNCHANGED <<txown, hwTx>>
          /\ \A i \in TxSlots : i # tx_idx => txbuf'[i] = txbuf[i]
      BY <2>4 DEF SendFill, hw, TypeInv, TypeOK
    <3> QED
      BY <3>1, QueueKept DEF QueueStep
  <2>5. CASE ~(HwSend \/ SendOwn \/ EthOpened \/ SendFill)
    <3>1. UNCHANGED <<txown, txbuf, hwTx>>
      BY <2>5 DEF Next, HwFrame, HwReceive, HwIdle, EthInit, EthInitNoMemory,
         EthInitBug, NullPriv, PowerCycle, EthHalt, RcvStart, RcvStep, ScanStop,
         ScanError, ScanSeg, CopySeg, ReturnSeg, Deliver, EthSend, SendStep,
         SendWait, SendKick, tx, hw, vars
    <3> QED
      BY <3>1, QueueKept DEF QueueStep
  <2> QED
    BY <2>1, <2>2, <2>3, <2>4, <2>5
<1> QED
  BY <1>1, <1>2, <1>3, TypeInit, TypeStep, TxRunStep, PTL DEF Spec, SentInOrder
=============================================================================
