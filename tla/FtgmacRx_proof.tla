--------------------------- MODULE FtgmacRx_proof ---------------------------
(***************************************************************************)
(* Proofs about FtgmacRx for every ring, every set of pages, frames of any *)
(* number of segments and an engine that may abandon frames or be rewound: *)
(* type correctness; and, until line 475 ignores a failed refill, that the *)
(* driver keeps track of its pages, that only whole frames go up and that  *)
(* the engine writes into mapped pages only. For frames of one page this   *)
(* holds whatever the engine makes of a rewritten ring base; for longer    *)
(* ones it needs that the engine goes on where it was, and then the        *)
(* receive ring implements RxLine.                                         *)
(***************************************************************************)
EXTENDS FtgmacRx, SequenceTheorems, TLAPS

\* The successor of a ring position stays in the ring.
LEMMA NextRxPointer == \A i \in Slots : next_rx_pointer(i) \in Slots
  BY NAssumption DEF Slots, next_rx_pointer

\* The descriptors the engine reaches from hwPtr on.
LEMMA HwReach ==
  ASSUME hwPtr \in Slots, NEW k \in 0 .. N
  PROVE  HwSlot(k) \in Slots
  BY NAssumption DEF Slots, HwSlot

\* The number of a segment counts from the first descriptor the engine filled.
LEMMA SegmentNumbers ==
  ASSUME hwPtr \in Slots, NEW n \in 1 .. MaxSegs, NEW a \in 1 .. n,
         NEW b \in a .. n, b - a < N, NEW i \in HwFilled(b - a + 1)
  PROVE  i \in Slots /\ SegNumber(a, i) \in a .. b
<1>1. PICK k \in 0 .. b - a : i = HwSlot(k)
  BY NAssumption DEF HwFilled
<1>2. i \in Slots
  BY <1>1, HwReach, NAssumption
<1>3. SegNumber(a, i) = a + k
  BY <1>1, NAssumption DEF HwSlot, SegNumber, Slots
<1> QED
  BY <1>1, <1>2, <1>3, NAssumption

\* What each stage of the life cycle guarantees.
StageInv ==
  /\ netif \in {"down", "opening", "stopped"} => ~hwOn /\ apc = "idle"
  /\ netif # "up" => rpc = "idle"
  /\ netif \in {"up", "stopping", "stopped"} => Filled

\* The last descriptor, and no other, leads back to the first.
EndOfRing ==
  netif # "down" => \A i \in Slots : "EDORR" \in rxdes0[i] <=> i = N - 1

\* Each step keeps the stages apart.
LEMMA StageStep ==
  ASSUME TypeOK, StageInv, [Next]_vars
  PROVE  StageInv'
<1> USE PageAssumption DEF TypeOK, StageInv, drv, hw, ctl, Filled
<1>1. ASSUME NEW n \in 1 .. MaxSegs, NEW good \in BOOLEAN, NEW a \in 1 .. n, NEW b \in a .. n, HwReceive(a, b, n, good)
     PROVE  StageInv'
    BY <1>1 DEF HwReceive
<1>2. CASE RxPoll
    BY <1>2 DEF RxPoll, Inside, Outside
<1>3. CASE LocateSkip
    BY <1>3 DEF LocateSkip, GiveBack, Outside
<1>4. CASE LocateNone
    BY <1>4 DEF LocateNone, Inside, Outside
<1>5. CASE RxStart
    BY <1>5 DEF RxStart, Inside, Outside
<1>6. CASE RxRefuse
    BY <1>6 DEF RxRefuse, Inside, Outside
<1>7. CASE DropSegment
    BY <1>7 DEF DropSegment, GiveBack, Outside
<1>8. CASE TakeSegment
    BY <1>8 DEF TakeSegment, Inside, Outside
<1>9. ASSUME NEW p \in Pages, Refill(p)
     PROVE  StageInv'
    BY <1>9 DEF Refill, Available, Inside, Outside
<1>10. CASE RefillFails
    BY <1>10 DEF RefillFails, AfterSegment, Inside, Outside
<1>11. CASE OwnSegment
    BY <1>11 DEF OwnSegment, GiveBack, AfterSegment, Outside
<1>12. CASE Deliver
    BY <1>12 DEF Deliver, Inside, Outside
<1>13. ASSUME NEW p \in Pages, StackFrees(p)
     PROVE  StageInv'
    BY <1>13 DEF StackFrees
<1>14. CASE AllocDescs
    BY <1>14 DEF AllocDescs
<1>15. ASSUME NEW i \in Slots, NEW p \in Pages, AllocPage(i, p)
     PROVE  StageInv'
    BY <1>15 DEF AllocPage, Available
<1>16. CASE OpenFails
    BY <1>16 DEF OpenFails, free_buffers
<1>17. CASE OpenDone
    BY <1>17 DEF OpenDone
<1>18. CASE StopPoll
    BY <1>18 DEF StopPoll
<1>19. CASE StopHw
    BY <1>19 DEF StopHw
<1>20. CASE StopFree
    BY <1>20 DEF StopFree, free_buffers
<1>21. CASE RelinkStop
    BY <1>21 DEF RelinkStop
<1>22. CASE RelinkStart
    BY <1>22 DEF RelinkStart
<1>23. CASE UNCHANGED vars
  BY <1>23 DEF vars
<1> QED
  BY <1>1, <1>2, <1>3, <1>4, <1>5, <1>6, <1>7, <1>8, <1>9, <1>10, <1>11,
     <1>12, <1>13, <1>14, <1>15, <1>16, <1>17, <1>18, <1>19, <1>20,
     <1>21, <1>22, <1>23
  DEF Next, HwStep, PacketStep, LifeStep

\* Each step keeps the end of the ring.
LEMMA EndOfRingStep ==
  ASSUME TypeOK, EndOfRing, [Next]_vars
  PROVE  EndOfRing'
<1> USE NAssumption DEF TypeOK, EndOfRing, set_dma_own, Slots, drv, hw, ctl
<1>1. ASSUME NEW n \in 1 .. MaxSegs, NEW good \in BOOLEAN, NEW a \in 1 .. n, NEW b \in a .. n, HwReceive(a, b, n, good)
     PROVE  EndOfRing'
  <2> DEFINE filled == HwFilled(b - a + 1)
  <2>1. rxdes0' = [i \in Slots |->
           IF i \in filled THEN Status(rxdes0[i], SegNumber(a, i), n, good)
                           ELSE rxdes0[i]]
    BY <1>1 DEF HwReceive
  <2>2. \A i \in Slots : "EDORR" \in rxdes0'[i] <=> "EDORR" \in rxdes0[i]
    BY <2>1 DEF Status
  <2>3. netif' = netif
    BY <1>1 DEF HwReceive
  <2> QED
    BY <2>2, <2>3
<1>2. CASE RxPoll
    BY <1>2 DEF RxPoll, Inside, Outside
<1>3. CASE LocateSkip
    BY <1>3 DEF LocateSkip, GiveBack, Outside
<1>4. CASE LocateNone
    BY <1>4 DEF LocateNone, Inside, Outside
<1>5. CASE RxStart
    BY <1>5 DEF RxStart, Inside, Outside
<1>6. CASE RxRefuse
    BY <1>6 DEF RxRefuse, Inside, Outside
<1>7. CASE DropSegment
    BY <1>7 DEF DropSegment, GiveBack, Outside
<1>8. CASE TakeSegment
    BY <1>8 DEF TakeSegment, Inside, Outside
<1>9. ASSUME NEW p \in Pages, Refill(p)
     PROVE  EndOfRing'
    BY <1>9 DEF Refill, Available, Inside, Outside
<1>10. CASE RefillFails
    BY <1>10 DEF RefillFails, AfterSegment, Inside, Outside
<1>11. CASE OwnSegment
    BY <1>11 DEF OwnSegment, GiveBack, AfterSegment, Outside
<1>12. CASE Deliver
    BY <1>12 DEF Deliver, Inside, Outside
<1>13. ASSUME NEW p \in Pages, StackFrees(p)
     PROVE  EndOfRing'
    BY <1>13 DEF StackFrees
<1>14. CASE AllocDescs
    BY <1>14 DEF AllocDescs
<1>15. ASSUME NEW i \in Slots, NEW p \in Pages, AllocPage(i, p)
     PROVE  EndOfRing'
    BY <1>15 DEF AllocPage, Available
<1>16. CASE OpenFails
    BY <1>16 DEF OpenFails, free_buffers
<1>17. CASE OpenDone
    BY <1>17 DEF OpenDone
<1>18. CASE StopPoll
    BY <1>18 DEF StopPoll
<1>19. CASE StopHw
    BY <1>19 DEF StopHw
<1>20. CASE StopFree
    BY <1>20 DEF StopFree, free_buffers
<1>21. CASE RelinkStop
    BY <1>21 DEF RelinkStop
<1>22. CASE RelinkStart
    BY <1>22 DEF RelinkStart
<1>23. CASE UNCHANGED vars
  BY <1>23 DEF vars
<1> QED
  BY <1>1, <1>2, <1>3, <1>4, <1>5, <1>6, <1>7, <1>8, <1>9, <1>10, <1>11,
     <1>12, <1>13, <1>14, <1>15, <1>16, <1>17, <1>18, <1>19, <1>20,
     <1>21, <1>22, <1>23
  DEF Next, HwStep, PacketStep, LifeStep

\* Each step keeps the types.
LEMMA TypeStep ==
  ASSUME TypeOK, StageInv, EndOfRing, [Next]_vars
  PROVE  TypeOK'
<1> USE DEF TypeOK, drv, hw, ctl
<1>1. ASSUME NEW n \in 1 .. MaxSegs, NEW good \in BOOLEAN, NEW a \in 1 .. n, NEW b \in a .. n, HwReceive(a, b, n, good)
     PROVE  TypeOK'
  <2> DEFINE filled == HwFilled(b - a + 1)
  <2>1. hwPtr \in Slots /\ b - a < N /\ hwOn
    BY <1>1 DEF HwReceive
  <2>2. \A i \in filled : i \in Slots /\ SegNumber(a, i) \in 1 .. MaxSegs
    <3> TAKE i \in filled
    <3>1. i \in Slots /\ SegNumber(a, i) \in a .. b
      BY <2>1, SegmentNumbers
    <3> QED
      BY <3>1, NAssumption
  <2>3. rxdes0' \in [Slots -> SUBSET Bits]
    <3>1. \A i \in Slots : Status(rxdes0[i], SegNumber(a, i), n, good) \in SUBSET Bits
      BY DEF Status, Bits
    <3> QED
      BY <3>1, <1>1 DEF HwReceive
  <2>4. content' \in [Pages -> Segs \cup {NoSeg}]
    <3>1. ASSUME NEW k \in 1 .. MaxSegs PROVE Segment(k, n, good) \in Segs
      <4>1. (k = n) \in BOOLEAN
        OBVIOUS
      <4> QED
        BY <3>1, <4>1, <2>1, Zenon DEF Segment, Segs
    <3>2. ASSUME NEW p \in Pages, \E i \in filled : rxdes2[i] = p
          PROVE  Segment(SegNumber(a, CHOOSE i \in filled : rxdes2[i] = p), n, good)
                   \in Segs
      <4>1. (CHOOSE i \in filled : rxdes2[i] = p) \in filled
        BY <3>2
      <4> QED
        BY <4>1, <2>2, <3>1
    <3> QED
      BY <3>2, <1>1 DEF HwReceive
  <2>5. hwPtr' \in Slots
    <3>1. netif # "down"
      BY <2>1 DEF StageInv
    <3>2. \A i \in filled : "EDORR" \in rxdes0[i] <=> i = N - 1
      BY <3>1, <2>2 DEF EndOfRing
    <3>3. hwPtr' = HwSlot(b - a + 1)
      BY <3>2, <1>1 DEF HwReceive
    <3> QED
      BY <3>3, <2>1, HwReach, NAssumption
  <2> QED
    BY <2>3, <2>4, <2>5, <1>1 DEF HwReceive
<1>2. CASE RxPoll
    BY <1>2 DEF RxPoll, Inside, Outside
<1>3. CASE LocateSkip
    BY <1>3, NextRxPointer DEF LocateSkip, GiveBack, Outside, set_dma_own,
     Bits
<1>4. CASE LocateNone
    BY <1>4 DEF LocateNone, Inside, Outside
<1>5. CASE RxStart
    BY <1>5 DEF RxStart, Inside, Outside
<1>6. CASE RxRefuse
    BY <1>6 DEF RxRefuse, Inside, Outside
<1>7. CASE DropSegment
    BY <1>7, NextRxPointer DEF DropSegment, GiveBack, Outside, set_dma_own,
     Bits
<1>8. CASE TakeSegment
  <2>1. rxdes2[rx_pointer] \in Pages
    BY <1>8 DEF TakeSegment, StageInv, Filled
  <2> QED
    BY <2>1, <1>8 DEF TakeSegment, Inside, Outside
<1>9. ASSUME NEW p \in Pages, Refill(p)
     PROVE  TypeOK'
    BY <1>9 DEF Refill, Available, Inside, Outside
<1>10. CASE RefillFails
    BY <1>10, NextRxPointer DEF RefillFails, AfterSegment, Inside, Outside
<1>11. CASE OwnSegment
    BY <1>11, NextRxPointer DEF OwnSegment, GiveBack, AfterSegment, Outside,
     set_dma_own, Bits
<1>12. CASE Deliver
    BY <1>12 DEF Deliver, Inside, Outside
<1>13. ASSUME NEW p \in Pages, StackFrees(p)
     PROVE  TypeOK'
    BY <1>13 DEF StackFrees
<1>14. CASE AllocDescs
    BY <1>14 DEF AllocDescs, Bits
<1>15. ASSUME NEW i \in Slots, NEW p \in Pages, AllocPage(i, p)
     PROVE  TypeOK'
    BY <1>15 DEF AllocPage, Available, set_dma_own, Bits
<1>16. CASE OpenFails
    BY <1>16 DEF OpenFails, free_buffers
<1>17. CASE OpenDone
    BY <1>17, NAssumption DEF OpenDone, Slots
<1>18. CASE StopPoll
    BY <1>18 DEF StopPoll
<1>19. CASE StopHw
    BY <1>19 DEF StopHw
<1>20. CASE StopFree
    BY <1>20 DEF StopFree, free_buffers
<1>21. CASE RelinkStop
    BY <1>21 DEF RelinkStop
<1>22. CASE RelinkStart
  <2>1. hwPtr' \in Slots
    BY <1>22, NAssumption DEF RelinkStart, Slots
  <2> QED
    BY <2>1, <1>22 DEF RelinkStart
<1>23. CASE UNCHANGED vars
  BY <1>23 DEF vars
<1> QED
  BY <1>1, <1>2, <1>3, <1>4, <1>5, <1>6, <1>7, <1>8, <1>9, <1>10, <1>11,
     <1>12, <1>13, <1>14, <1>15, <1>16, <1>17, <1>18, <1>19, <1>20,
     <1>21, <1>22, <1>23
  DEF Next, HwStep, PacketStep, LifeStep

\* Whose pages are whose, as far as the driver can tell.
TrackInv ==
  /\ Tracked
  /\ \A k \in 1 .. Len(skb) : holder[skb[k]] = "skb"
  /\ netif = "down" => \A p \in Pages : holder[p] # "ring"

\* What is lost is not found again.
LEMMA ShortStays ==
  ASSUME short, [Next]_vars
  PROVE  short'
BY DEF Next, HwStep, PacketStep, LifeStep, vars, RxPoll, LocateSkip,
   LocateNone, RxStart, RxRefuse, DropSegment, TakeSegment, Refill,
   RefillFails, OwnSegment, Deliver, StackFrees, AllocDescs, AllocPage,
   OpenFails, OpenDone, StopPoll, StopHw, StopFree, RelinkStop,
   RelinkStart, HwReceive, GiveBack, Inside, Outside, ctl

\* Each other step keeps track of the pages.
LEMMA TrackStep ==
  ASSUME ~short', TypeOK, StageInv, TrackInv, [Next]_vars
  PROVE  TrackInv'
<1> USE PageAssumption DEF TypeOK, drv, hw, ctl
<1>1. ASSUME NEW n \in 1 .. MaxSegs, NEW good \in BOOLEAN, NEW a \in 1 .. n, NEW b \in a .. n, HwReceive(a, b, n, good)
     PROVE  TrackInv'
    BY <1>1 DEF HwReceive, TrackInv, Tracked, Lent
<1>2. CASE RxPoll
    BY <1>2 DEF RxPoll, Inside, Outside, TrackInv, Tracked, Lent
<1>3. CASE LocateSkip
    BY <1>3 DEF LocateSkip, GiveBack, Outside, TrackInv, Tracked, Lent
<1>4. CASE LocateNone
    BY <1>4 DEF LocateNone, Inside, Outside, TrackInv, Tracked, Lent
<1>5. CASE RxStart
    BY <1>5 DEF RxStart, Inside, Outside, TrackInv, Tracked, Lent
<1>6. CASE RxRefuse
    BY <1>6 DEF RxRefuse, Inside, Outside, TrackInv, Tracked, Lent
<1>7. CASE DropSegment
    BY <1>7 DEF DropSegment, GiveBack, Outside, TrackInv, Tracked, Lent
<1>8. CASE TakeSegment
  <2> DEFINE q == rxdes2[rx_pointer]
  <2>1. netif = "up" /\ q \in Pages /\ q # NoPage /\ holder[q] = "ring"
    BY <1>8 DEF TakeSegment, StageInv, Filled, TrackInv, Tracked, Lent
  <2>2. /\ netif' = netif /\ rxdes2' = rxdes2 /\ rx_pointer' = rx_pointer
        /\ rpc = "take" /\ rpc' = "refill"
        /\ holder' = [holder EXCEPT ![q] = "skb"]
        /\ skb' = Append(skb, q)
    BY <1>8 DEF TakeSegment, Inside, Outside
  <2>3. Tracked'
    BY <2>1, <2>2 DEF TrackInv, Tracked, Lent
  <2>4. \A k \in 1 .. Len(skb') : holder'[skb'[k]] = "skb"
    <3> TAKE k \in 1 .. Len(skb')
    <3>1. CASE k = Len(skb) + 1
      BY <3>1, <2>1, <2>2
    <3>2. CASE k # Len(skb) + 1
      <4>1. k \in 1 .. Len(skb) /\ skb'[k] = skb[k] /\ skb[k] \in Pages
        BY <3>2, <2>2, <2>1
      <4> QED
        BY <4>1, <2>2, <2>1 DEF TrackInv
    <3> QED
      BY <3>1, <3>2
  <2> QED
    BY <2>1, <2>2, <2>3, <2>4 DEF TrackInv
<1>9. ASSUME NEW p \in Pages, Refill(p)
     PROVE  TrackInv'
  <2>1. netif = "up"
    BY <1>9 DEF Refill, StageInv
  <2>2. /\ netif' = netif /\ rx_pointer' = rx_pointer /\ skb' = skb
        /\ rxdes2' = [rxdes2 EXCEPT ![rx_pointer] = p]
        /\ rpc = "refill" /\ rpc' = "own"
        /\ holder[p] = "free"
        /\ holder' = [holder EXCEPT ![p] = "ring"]
    BY <1>9 DEF Refill, Available, Inside, Outside
  <2>3. \A i \in Slots : rxdes2[i] # NoPage => rxdes2[i] # p
    BY <2>1, <2>2 DEF TrackInv, Tracked
  <2>4. rxdes2[rx_pointer] # NoPage /\ holder[rxdes2[rx_pointer]] = "skb"
    BY <2>1, <2>2 DEF TrackInv, Tracked, Lent, StageInv, Filled
  <2>5. Tracked'
    <3>1. \A i \in Slots : rxdes2'[i] # NoPage => holder'[rxdes2'[i]] = "ring"
      BY <2>1, <2>2, <2>3 DEF TrackInv, Tracked, Lent
    <3>2. \A i, j \in Slots :
            rxdes2'[i] # NoPage /\ rxdes2'[i] = rxdes2'[j] => i = j
      BY <2>1, <2>2, <2>3 DEF TrackInv, Tracked
    <3>3. \A q \in Pages : holder'[q] = "ring" => \E i \in Slots : rxdes2'[i] = q
      BY <2>1, <2>2, <2>4 DEF TrackInv, Tracked
    <3> QED
      BY <3>1, <3>2, <3>3, <2>2 DEF Tracked, Lent
  <2>6. \A k \in 1 .. Len(skb) : skb[k] # p
    BY <2>2 DEF TrackInv
  <2> QED
    BY <2>1, <2>2, <2>5, <2>6 DEF TrackInv
<1>10. CASE RefillFails
  BY <1>10 DEF RefillFails
<1>11. CASE OwnSegment
    BY <1>11 DEF OwnSegment, GiveBack, AfterSegment, Outside, TrackInv,
     Tracked, Lent
<1>12. CASE Deliver
  <2>1. netif = "up"
    BY <1>12 DEF Deliver, StageInv
  <2>2. /\ netif' = netif /\ rxdes2' = rxdes2 /\ rx_pointer' = rx_pointer
        /\ rpc = "deliver" /\ rpc' = "idle" /\ skb' = <<>>
        /\ \A p \in Pages : holder'[p] = IF p \in HeldBySkb THEN "stack" ELSE holder[p]
    BY <1>12 DEF Deliver, Inside, Outside
  <2>3. \A p \in HeldBySkb : holder[p] = "skb"
    BY DEF HeldBySkb, TrackInv
  <2>4. Tracked'
    BY <2>1, <2>2, <2>3 DEF TrackInv, Tracked, Lent
  <2>5. Len(skb') = 0
    BY <2>2
  <2> QED
    BY <2>1, <2>2, <2>4, <2>5 DEF TrackInv
<1>13. ASSUME NEW p \in Pages, StackFrees(p)
     PROVE  TrackInv'
  <2>1. /\ UNCHANGED <<netif, rpc, skb, rx_pointer, rxdes2>>
        /\ holder[p] = "stack" /\ holder' = [holder EXCEPT ![p] = "free"]
    BY <1>13 DEF StackFrees
  <2>2. \A k \in 1 .. Len(skb) : skb[k] # p
    BY <2>1 DEF TrackInv
  <2>3. Tracked'
    BY <2>1 DEF TrackInv, Tracked, Lent
  <2> QED
    BY <2>1, <2>2, <2>3 DEF TrackInv
<1>14. CASE AllocDescs
  <2>1. /\ netif = "down" /\ netif' = "opening" /\ UNCHANGED <<rpc, skb, holder>>
        /\ \A i \in Slots : rxdes2'[i] = NoPage
    BY <1>14 DEF AllocDescs
  <2> QED
    BY <2>1 DEF TrackInv, Tracked
<1>15. ASSUME NEW i \in Slots, NEW p \in Pages, AllocPage(i, p)
     PROVE  TrackInv'
  <2>1. /\ netif = "opening" /\ netif' = netif /\ rpc = "idle" /\ rpc' = rpc
        /\ skb' = skb /\ rx_pointer' = rx_pointer
        /\ rxdes2[i] = NoPage /\ rxdes2' = [rxdes2 EXCEPT ![i] = p]
        /\ holder[p] = "free" /\ holder' = [holder EXCEPT ![p] = "ring"]
    BY <1>15 DEF AllocPage, Available, StageInv
  <2>2. \A j \in Slots : rxdes2[j] # NoPage => rxdes2[j] # p /\ holder[rxdes2[j]] = "ring"
    BY <2>1 DEF TrackInv, Tracked, Lent
  <2>3. Tracked'
    <3>1. \A j \in Slots : rxdes2'[j] # NoPage => holder'[rxdes2'[j]] = "ring"
      BY <2>1, <2>2
    <3>2. \A j, k \in Slots :
            rxdes2'[j] # NoPage /\ rxdes2'[j] = rxdes2'[k] => j = k
      BY <2>1, <2>2 DEF TrackInv, Tracked
    <3>3. \A q \in Pages : holder'[q] = "ring" => \E j \in Slots : rxdes2'[j] = q
      BY <2>1 DEF TrackInv, Tracked
    <3> QED
      BY <3>1, <3>2, <3>3, <2>1 DEF Tracked, Lent
  <2>4. \A k \in 1 .. Len(skb) : skb[k] # p
    BY <2>1 DEF TrackInv
  <2> QED
    BY <2>1, <2>3, <2>4 DEF TrackInv
<1>16. CASE OpenFails
  <2>1. /\ netif = "opening" /\ netif' = "down" /\ rpc = "idle" /\ UNCHANGED <<rpc, skb>>
        /\ \A p \in Pages : holder'[p] =
             IF \E i \in Slots : rxdes2[i] = p THEN "free" ELSE holder[p]
    BY <1>16 DEF OpenFails, free_buffers, StageInv
  <2>2. \A p \in Pages : holder'[p] # "ring"
    BY <2>1 DEF TrackInv, Tracked
  <2>3. \A k \in 1 .. Len(skb) : holder'[skb[k]] = "skb"
    BY <2>1 DEF TrackInv, Tracked, Lent
  <2> QED
    BY <2>1, <2>2, <2>3 DEF TrackInv, Tracked
<1>17. CASE OpenDone
    BY <1>17 DEF OpenDone, StageInv, TrackInv, Tracked, Lent
<1>18. CASE StopPoll
    BY <1>18 DEF StopPoll, TrackInv, Tracked, Lent
<1>19. CASE StopHw
    BY <1>19 DEF StopHw, TrackInv, Tracked, Lent
<1>20. CASE StopFree
  <2>1. /\ netif = "stopped" /\ netif' = "down" /\ rpc = "idle" /\ UNCHANGED <<rpc, skb>>
        /\ \A p \in Pages : holder'[p] =
             IF \E i \in Slots : rxdes2[i] = p THEN "free" ELSE holder[p]
    BY <1>20 DEF StopFree, free_buffers, StageInv
  <2>2. \A p \in Pages : holder'[p] # "ring"
    BY <2>1 DEF TrackInv, Tracked
  <2>3. \A k \in 1 .. Len(skb) : holder'[skb[k]] = "skb"
    BY <2>1 DEF TrackInv, Tracked, Lent
  <2> QED
    BY <2>1, <2>2, <2>3 DEF TrackInv, Tracked
<1>21. CASE RelinkStop
    BY <1>21 DEF RelinkStop, TrackInv, Tracked, Lent
<1>22. CASE RelinkStart
    BY <1>22 DEF RelinkStart, TrackInv, Tracked, Lent
<1>23. CASE UNCHANGED vars
  BY <1>23 DEF vars, TrackInv, Tracked, Lent
<1> QED
  BY <1>1, <1>2, <1>3, <1>4, <1>5, <1>6, <1>7, <1>8, <1>9, <1>10, <1>11,
     <1>12, <1>13, <1>14, <1>15, <1>16, <1>17, <1>18, <1>19, <1>20,
     <1>21, <1>22, <1>23
  DEF Next, HwStep, PacketStep, LifeStep

-----------------------------------------------------------------------------
RxInv == TypeOK /\ StageInv /\ EndOfRing

LEMMA RxInit ==
  ASSUME Init
  PROVE  RxInv /\ TrackInv
<1>1. 0 \in Slots
  BY NAssumption DEF Slots
<1>2. TypeOK
  <2>1. content \in [Pages -> Segs \cup {NoSeg}] /\ skb \in Seq(Pages)
    BY DEF Init
  <2>2. hwOn \in BOOLEAN
    BY DEF Init
  <2>3. rxdes0 \in [Slots -> SUBSET Bits] /\ rxdes2 \in [Slots -> Pages \cup {NoPage}]
    BY DEF Init
  <2>4. holder \in [Pages -> {"free", "ring", "skb", "stack"}]
    BY DEF Init
  <2>5. rx_pointer \in Slots /\ hwPtr \in Slots
    BY <1>1 DEF Init
  <2> QED
    BY <2>1, <2>2, <2>3, <2>4, <2>5 DEF Init, TypeOK
<1>3. StageInv /\ EndOfRing
  BY DEF Init, StageInv, EndOfRing
<1>4. TrackInv
  BY DEF Init, TrackInv, Tracked
<1> QED
  BY <1>2, <1>3, <1>4 DEF RxInv

LEMMA RxInvariant == Spec => []RxInv
<1>1. Init => RxInv
  BY RxInit
<1>2. RxInv /\ [Next]_vars => RxInv'
  BY TypeStep, StageStep, EndOfRingStep DEF RxInv
<1> QED
  BY <1>1, <1>2, PTL DEF Spec

\* Descriptors, pointers and pages stay in range, and the engine stays on
\* the ring, in every configuration: also when pages run out, frames are
\* abandoned or the engine is rewound.
THEOREM RxTypeCorrect == Spec => []TypeOK
<1>1. RxInv => TypeOK
  BY DEF RxInv
<1> QED
  BY <1>1, RxInvariant, PTL

\* Lines 300-301: the mapped pages are exactly those the descriptors name,
\* for every ring and whatever the engine reports, until line 475 ignores a
\* failed refill.  (The run rx_nomem shows what happens then.)
THEOREM PagesAreTracked == Spec => []PagesTracked
<1> DEFINE Inv == short \/ TrackInv
<1>1. Init => Inv
  BY RxInit
<1>2. RxInv /\ Inv /\ [Next]_vars => Inv'
  <2> SUFFICES ASSUME RxInv, Inv, [Next]_vars, ~short' PROVE TrackInv'
    OBVIOUS
  <2>1. ~short /\ TrackInv
    BY ShortStays
  <2> QED
    BY <2>1, TrackStep DEF RxInv
<1>3. Inv => PagesTracked
  BY DEF TrackInv, PagesTracked
<1> HIDE DEF Inv
<1> QED
  BY <1>1, <1>2, <1>3, RxInvariant, PTL DEF Spec

-----------------------------------------------------------------------------
(* Frames of one segment.  The driver leaves jumbo frames off and its pages *)
(* (RX_BUF_SIZE) hold any other frame, so this is the configuration it runs *)
(* in; the run rx has frames of two.                                        *)

LEMMA OnePage ==
  ASSUME NEW s \in Seq(Pages), Len(s) = 1
  PROVE  1 \in 1 .. Len(s) /\ s[1] \in Pages
<1>1. 1 \in 1 .. Len(s)
  <2>1. 1 \in 1 .. 1
    OBVIOUS
  <2> QED
    BY <2>1, Zenon
<1>2. s[1] \in Pages
  BY <1>1, ElementOfSeq
<1> QED
  BY <1>1, <1>2

Single(c) == c \in Segs /\ c.n = 1 /\ c.last

\* Every ready descriptor shows a whole frame of one segment, and the packet
\* being assembled holds at most that.
FrameInv ==
  /\ \A i \in Slots : Ready(i) => Last(i)
  /\ netif = "opening" => \A i \in Slots : ~Ready(i)
  /\ netif \in {"up", "stopping", "stopped"} =>
       \A i \in Slots : Ready(i) /\ ~(rpc = "own" /\ i = rx_pointer) =>
         Single(content[rxdes2[i]]) /\ (content[rxdes2[i]].good <=> ~RxError(i))
  /\ rpc \in {"take", "refill", "own"} => Ready(rx_pointer)
  /\ rpc = "take" => ~RxError(rx_pointer)
  /\ rpc \in {"idle", "locate", "drop", "take"} => skb = <<>>
  /\ rpc \in {"refill", "own", "deliver"} =>
       /\ Len(skb) = 1
       /\ Single(content[skb[1]]) /\ content[skb[1]].good

\* Each step keeps the frames of one segment.
LEMMA FrameStep ==
  ASSUME MaxSegs = 1, ~short',
         TypeOK, StageInv, TrackInv, FrameInv, [Next]_vars
  PROVE  FrameInv'
<1> USE DEF TypeOK, drv, hw, ctl
<1>1. ASSUME NEW n \in 1 .. MaxSegs, NEW good \in BOOLEAN, NEW a \in 1 .. n, NEW b \in a .. n, HwReceive(a, b, n, good)
     PROVE  FrameInv'
  <2> DEFINE filled == HwFilled(b - a + 1)
  <2>1. n = 1 /\ a = 1 /\ b = 1
    BY NAssumption
  <2>2. hwPtr \in Slots /\ b - a < N /\ hwOn
    BY <1>1 DEF HwReceive
  <2>3. netif \in {"up", "stopping"} /\ Filled
    BY <2>2 DEF StageInv
  <2>4. \A i \in filled : i \in Slots /\ ~Ready(i) /\ SegNumber(a, i) = 1
    <3> TAKE i \in filled
    <3>1. i \in Slots /\ SegNumber(a, i) \in 1 .. 1
      BY <2>1, <2>2, SegmentNumbers
    <3>2. ~Ready(i)
      BY <1>1 DEF HwReceive
    <3> QED
      BY <3>1, <3>2
  <2>5. \A i \in Slots : rxdes0'[i] =
          IF i \in filled THEN Status(rxdes0[i], 1, 1, good) ELSE rxdes0[i]
    BY <1>1, <2>1, <2>4 DEF HwReceive
  <2>6. \A i \in Slots : i \in filled =>
          Ready(i)' /\ Last(i)' /\ (RxError(i)' <=> ~good)
    <3> TAKE i \in Slots
    <3> HAVE i \in filled
    <3>1. rxdes0'[i] = Status(rxdes0[i], 1, 1, good)
      BY <2>5
    <3>2. /\ "RDY" \in Status(rxdes0[i], 1, 1, good)
          /\ "LRS" \in Status(rxdes0[i], 1, 1, good)
          /\ "ERR" \in Status(rxdes0[i], 1, 1, good) <=> ~good
      BY DEF Status
    <3> QED
      BY <3>1, <3>2 DEF Ready, Last, RxError
  <2>7. \A i \in Slots : i \notin filled =>
          /\ Ready(i)' <=> Ready(i)
          /\ Last(i)' <=> Last(i)
          /\ RxError(i)' <=> RxError(i)
    BY <2>5 DEF Ready, Last, RxError
  <2>8. \A p \in Pages : (\E i \in filled : rxdes2[i] = p)
          => content'[p] = Segment(1, 1, good)
    <3> TAKE p \in Pages
    <3> HAVE \E i \in filled : rxdes2[i] = p
    <3>1. (CHOOSE i \in filled : rxdes2[i] = p) \in filled
      OBVIOUS
    <3>2. content'[p] =
            Segment(SegNumber(a, CHOOSE i \in filled : rxdes2[i] = p), n, good)
      BY <1>1 DEF HwReceive
    <3> QED
      BY <3>1, <3>2, <2>1, <2>4
  <2>9. \A p \in Pages : ~(\E i \in filled : rxdes2[i] = p) => content'[p] = content[p]
    BY <1>1 DEF HwReceive
  <2>10. Single(Segment(1, 1, good)) /\ Segment(1, 1, good).good = good
    <3>1. /\ Segment(1, 1, good).n = 1 /\ Segment(1, 1, good).last = (1 = 1)
          /\ Segment(1, 1, good).good = good
      BY Zenon DEF Segment
    <3>2. (1 = 1) \in BOOLEAN
      OBVIOUS
    <3>3. 1 \in 1 .. MaxSegs
      BY NAssumption
    <3>4. Segment(1, 1, good) \in Segs
      BY <3>2, <3>3, <2>2, Zenon DEF Segment, Segs
    <3> QED
      BY <3>1, <3>4 DEF Single
  <2>11. UNCHANGED <<rxdes2, rx_pointer, rpc, skb, netif>>
    BY <1>1 DEF HwReceive
  <2>12. \A i \in Slots : Ready(i)' /\ ~(rpc = "own" /\ i = rx_pointer) =>
           Single(content'[rxdes2[i]]) /\ (content'[rxdes2[i]].good <=> ~RxError(i)')
    <3> TAKE i \in Slots
    <3> HAVE Ready(i)' /\ ~(rpc = "own" /\ i = rx_pointer)
    <3>1. rxdes2[i] \in Pages
      BY <2>3 DEF Filled
    <3>2. CASE i \in filled
      BY <3>1, <3>2, <2>6, <2>8, <2>10
    <3>3. CASE i \notin filled
      <4>1. \A j \in filled : rxdes2[j] # rxdes2[i]
        <5> TAKE j \in filled
        <5>1. j \in Slots /\ j # i /\ netif # "down"
          BY <3>3, <2>3, <2>4
        <5>2. rxdes2[i] # NoPage
          BY <2>3 DEF Filled
        <5>3. Tracked
          BY DEF TrackInv
        <5> QED
          BY <5>1, <5>2, <5>3 DEF Tracked
      <4>2. content'[rxdes2[i]] = content[rxdes2[i]]
        BY <4>1, <3>1, <2>9
      <4>3. /\ Single(content[rxdes2[i]])
            /\ content[rxdes2[i]].good <=> ~RxError(i)
        BY <3>3, <2>3, <2>7 DEF FrameInv
      <4> QED
        BY <4>2, <4>3, <3>3, <2>7
    <3> QED
      BY <3>2, <3>3
  <2>13. rpc \in {"refill", "own", "deliver"} => content'[skb[1]] = content[skb[1]]
    <3> HAVE rpc \in {"refill", "own", "deliver"}
    <3>1. Len(skb) = 1 /\ skb[1] \in Pages /\ holder[skb[1]] = "skb"
      BY DEF FrameInv, TrackInv
    <3>2. \A j \in filled : rxdes2[j] # skb[1]
      <4> TAKE j \in filled
      <4>1. j \in Slots /\ ~Ready(j) /\ rxdes2[j] # NoPage
        BY <2>3, <2>4 DEF Filled
      <4>2. ~Lent(j)
        BY <4>1 DEF Lent, FrameInv
      <4>3. holder[rxdes2[j]] = "ring"
        BY <4>1, <4>2, <2>3 DEF TrackInv, Tracked
      <4> QED
        BY <4>3, <3>1
    <3> QED
      BY <3>1, <3>2, <2>9
  <2>14. \A i \in Slots : Ready(i)' => Last(i)'
    BY <2>6, <2>7 DEF FrameInv
  <2>15. rpc \in {"take", "refill", "own"} => rx_pointer \notin filled
    BY <2>4 DEF FrameInv
  <2>16. /\ rpc \in {"take", "refill", "own"} => Ready(rx_pointer)'
         /\ rpc = "take" => ~RxError(rx_pointer)'
    BY <2>7, <2>11, <2>15 DEF FrameInv, Ready, RxError
  <2> QED
    BY <2>3, <2>11, <2>12, <2>13, <2>14, <2>16 DEF FrameInv, Ready, RxError, Last
<1>2. CASE RxPoll
    BY <1>2 DEF RxPoll, Inside, Outside, FrameInv, Ready, Last, RxError
<1>3. CASE LocateSkip
  <2>1. /\ rpc = "locate" /\ rpc' = "locate"
        /\ UNCHANGED <<rxdes2, skb, netif>>
        /\ rxdes0' = [rxdes0 EXCEPT ![rx_pointer] = @ \cap {"EDORR"}]
        /\ content' = [content EXCEPT ![rxdes2[rx_pointer]] = NoSeg]
        /\ netif = "up"
    BY <1>3 DEF LocateSkip, GiveBack, Outside, set_dma_own, StageInv
  <2>2. "RDY" \notin rxdes0'[rx_pointer] /\ \A i \in Slots : i # rx_pointer =>
          /\ Ready(i)' <=> Ready(i)
          /\ Last(i)' <=> Last(i)
          /\ RxError(i)' <=> RxError(i)
          /\ content'[rxdes2[i]] = content[rxdes2[i]]
    <3>1. \A i \in Slots : i # rx_pointer =>
            rxdes2[i] \in Pages /\ rxdes2[i] # rxdes2[rx_pointer]
      BY <2>1 DEF TrackInv, Tracked, StageInv, Filled
    <3> QED
      BY <3>1, <2>1 DEF Ready, Last, RxError
  <2> QED
    BY <2>1, <2>2 DEF FrameInv, Ready, Last, RxError
<1>4. CASE LocateNone
    BY <1>4 DEF LocateNone, Inside, Outside, FrameInv, Ready, Last, RxError
<1>5. CASE RxStart
    BY <1>5 DEF RxStart, Inside, Outside, FrameInv, Ready, Last, RxError
<1>6. CASE RxRefuse
    BY <1>6 DEF RxRefuse, Inside, Outside, FrameInv, Ready, Last, RxError
<1>7. CASE DropSegment
  <2>1. /\ rpc = "drop" /\ rpc' \in {"drop", "idle"}
        /\ UNCHANGED <<rxdes2, skb, netif>>
        /\ rxdes0' = [rxdes0 EXCEPT ![rx_pointer] = @ \cap {"EDORR"}]
        /\ content' = [content EXCEPT ![rxdes2[rx_pointer]] = NoSeg]
        /\ netif = "up"
    BY <1>7 DEF DropSegment, GiveBack, Outside, set_dma_own, StageInv
  <2>2. "RDY" \notin rxdes0'[rx_pointer] /\ \A i \in Slots : i # rx_pointer =>
          /\ Ready(i)' <=> Ready(i)
          /\ Last(i)' <=> Last(i)
          /\ RxError(i)' <=> RxError(i)
          /\ content'[rxdes2[i]] = content[rxdes2[i]]
    <3>1. \A i \in Slots : i # rx_pointer =>
            rxdes2[i] \in Pages /\ rxdes2[i] # rxdes2[rx_pointer]
      BY <2>1 DEF TrackInv, Tracked, StageInv, Filled
    <3> QED
      BY <3>1, <2>1 DEF Ready, Last, RxError
  <2> QED
    BY <2>1, <2>2 DEF FrameInv, Ready, Last, RxError
<1>8. CASE TakeSegment
  <2>1. /\ netif = "up" /\ rpc = "take" /\ rpc' = "refill"
        /\ UNCHANGED <<rxdes0, rxdes2, rx_pointer, netif, content>>
        /\ skb' = Append(skb, rxdes2[rx_pointer])
    BY <1>8 DEF TakeSegment, Inside, Outside, StageInv
  <2>2. skb = <<>> /\ rxdes2[rx_pointer] \in Pages
    BY <2>1 DEF FrameInv, StageInv, Filled
  <2>3. Len(skb') = 1 /\ skb'[1] = rxdes2[rx_pointer]
    BY <2>1, <2>2
  <2>4. /\ Single(content[rxdes2[rx_pointer]])
        /\ content[rxdes2[rx_pointer]].good
    BY <2>1 DEF FrameInv
  <2> QED
    BY <2>1, <2>3, <2>4 DEF FrameInv, Ready, Last, RxError
<1>9. ASSUME NEW p \in Pages, Refill(p)
     PROVE  FrameInv'
  <2>1. /\ netif = "up" /\ rpc = "refill" /\ rpc' = "own"
        /\ UNCHANGED <<rxdes0, rx_pointer, skb, netif, content>>
        /\ \A i \in Slots : i # rx_pointer => rxdes2'[i] = rxdes2[i]
    BY <1>9 DEF Refill, Inside, Outside, StageInv
  <2> QED
    BY <2>1 DEF FrameInv, Ready, Last, RxError
<1>10. CASE RefillFails
  BY <1>10 DEF RefillFails
<1>11. CASE OwnSegment
  <2>1. /\ rpc = "own" /\ rpc' = "deliver"
        /\ UNCHANGED <<rxdes2, skb, netif>>
        /\ rxdes0' = [rxdes0 EXCEPT ![rx_pointer] = @ \cap {"EDORR"}]
        /\ content' = [content EXCEPT ![rxdes2[rx_pointer]] = NoSeg]
        /\ netif = "up"
    BY <1>11 DEF OwnSegment, GiveBack, Outside, set_dma_own, StageInv, AfterSegment, FrameInv
  <2>2. "RDY" \notin rxdes0'[rx_pointer] /\ \A i \in Slots : i # rx_pointer =>
          /\ Ready(i)' <=> Ready(i)
          /\ Last(i)' <=> Last(i)
          /\ RxError(i)' <=> RxError(i)
          /\ content'[rxdes2[i]] = content[rxdes2[i]]
    <3>1. \A i \in Slots : i # rx_pointer =>
            rxdes2[i] \in Pages /\ rxdes2[i] # rxdes2[rx_pointer]
      BY <2>1 DEF TrackInv, Tracked, StageInv, Filled
    <3> QED
      BY <3>1, <2>1 DEF Ready, Last, RxError
  <2>3. content'[skb[1]] = content[skb[1]] /\ Len(skb) = 1
    <3>0. Len(skb) = 1
      BY <2>1 DEF FrameInv
    <3>a. 1 \in 1 .. Len(skb) /\ skb[1] \in Pages
      BY <3>0, OnePage
    <3>1. Len(skb) = 1 /\ skb[1] \in Pages /\ holder[skb[1]] = "skb"
      BY <3>0, <3>a, Zenon DEF TrackInv
    <3>2. holder[rxdes2[rx_pointer]] = "ring"
      BY <2>1 DEF TrackInv, Tracked, Lent, StageInv, Filled
    <3> QED
      BY <2>1, <3>1, <3>2
  <2> QED
    BY <2>1, <2>2, <2>3 DEF FrameInv, Ready, Last, RxError
<1>12. CASE Deliver
  <2>1. /\ netif = "up" /\ rpc = "deliver" /\ rpc' = "idle" /\ skb' = <<>>
        /\ UNCHANGED <<rxdes0, rxdes2, rx_pointer, netif, content>>
    BY <1>12 DEF Deliver, Inside, Outside, StageInv
  <2> QED
    BY <2>1 DEF FrameInv, Ready, Last, RxError
<1>13. ASSUME NEW p \in Pages, StackFrees(p)
     PROVE  FrameInv'
  <2>1. /\ UNCHANGED <<rxdes0, rxdes2, rx_pointer, rpc, skb, netif>>
        /\ holder[p] = "stack" /\ content' = [content EXCEPT ![p] = NoSeg]
    BY <1>13 DEF StackFrees
  <2>2. netif # "down" => \A i \in Slots : rxdes2[i] # p \/ rxdes2[i] = NoPage
    BY <2>1 DEF TrackInv, Tracked
  <2>3. \A k \in 1 .. Len(skb) : skb[k] # p
    BY <2>1 DEF TrackInv
  <2>4. netif \in {"up", "stopping", "stopped"} =>
          \A i \in Slots : content'[rxdes2[i]] = content[rxdes2[i]]
    BY <2>1, <2>2 DEF StageInv, Filled
  <2>5. Len(skb) = 1 => content'[skb[1]] = content[skb[1]]
    BY <2>1, <2>3
  <2> QED
    BY <2>1, <2>4, <2>5 DEF FrameInv, Ready, Last, RxError
<1>14. CASE AllocDescs
  <2>1. /\ netif' = "opening" /\ rpc = "idle" /\ UNCHANGED <<rpc, skb>>
        /\ \A i \in Slots : rxdes0'[i] \subseteq {"EDORR"}
    BY <1>14 DEF AllocDescs, StageInv
  <2>2. \A i \in Slots : ~Ready(i)'
    BY <2>1 DEF Ready
  <2> QED
    BY <2>1, <2>2 DEF FrameInv, Ready, Last, RxError
<1>15. ASSUME NEW i \in Slots, NEW p \in Pages, AllocPage(i, p)
     PROVE  FrameInv'
  <2>1. /\ netif = "opening" /\ rpc = "idle" /\ UNCHANGED <<netif, rpc, skb>>
        /\ rxdes0' = [rxdes0 EXCEPT ![i] = @ \cap {"EDORR"}]
    BY <1>15 DEF AllocPage, StageInv, set_dma_own
  <2>2. \A j \in Slots : ~Ready(j)'
    BY <2>1 DEF FrameInv, Ready
  <2> QED
    BY <2>1, <2>2 DEF FrameInv, Ready, Last, RxError
<1>16. CASE OpenFails
  <2>1. /\ netif' = "down" /\ rpc = "idle" /\ UNCHANGED <<rxdes0, rpc, skb>>
    BY <1>16 DEF OpenFails, free_buffers, StageInv
  <2> QED
    BY <2>1 DEF FrameInv, Ready, Last, RxError
<1>17. CASE OpenDone
  <2>1. /\ netif = "opening" /\ rpc = "idle" /\ UNCHANGED <<rxdes0, rxdes2, rpc, skb>>
    BY <1>17 DEF OpenDone, StageInv
  <2> QED
    BY <2>1 DEF FrameInv, Ready, Last, RxError
<1>18. CASE StopPoll
    BY <1>18 DEF StopPoll, FrameInv, Ready, Last, RxError
<1>19. CASE StopHw
    BY <1>19 DEF StopHw, FrameInv, Ready, Last, RxError
<1>20. CASE StopFree
  <2>1. /\ netif' = "down" /\ rpc = "idle" /\ UNCHANGED <<rxdes0, rpc, skb>>
    BY <1>20 DEF StopFree, free_buffers, StageInv
  <2> QED
    BY <2>1 DEF FrameInv, Ready, Last, RxError
<1>21. CASE RelinkStop
    BY <1>21 DEF RelinkStop, FrameInv, Ready, Last, RxError
<1>22. CASE RelinkStart
    BY <1>22 DEF RelinkStart, FrameInv, Ready, Last, RxError
<1>23. CASE UNCHANGED vars
  BY <1>23 DEF vars, FrameInv, Ready, Last, RxError
<1> QED
  BY <1>1, <1>2, <1>3, <1>4, <1>5, <1>6, <1>7, <1>8, <1>9, <1>10, <1>11,
     <1>12, <1>13, <1>14, <1>15, <1>16, <1>17, <1>18, <1>19, <1>20,
     <1>21, <1>22, <1>23
  DEF Next, HwStep, PacketStep, LifeStep

FramesInv == RxInv /\ (short \/ (TrackInv /\ FrameInv))

LEMMA FrameInvariant ==
  ASSUME MaxSegs = 1
  PROVE  Spec => []FramesInv
<1> DEFINE Inv == short \/ (TrackInv /\ FrameInv)
<1>1. Init => Inv
  BY RxInit DEF Init, FrameInv, Ready
<1>2. RxInv /\ Inv /\ [Next]_vars => Inv'
  <2> SUFFICES ASSUME RxInv, Inv, [Next]_vars, ~short' PROVE TrackInv' /\ FrameInv'
    OBVIOUS
  <2>1. ~short /\ TrackInv /\ FrameInv
    BY ShortStays
  <2> QED
    BY <2>1, TrackStep, FrameStep DEF RxInv
<1>3. FramesInv <=> RxInv /\ Inv
  BY DEF FramesInv
<1> HIDE DEF Inv
<1> QED
  BY <1>1, <1>2, <1>3, RxInvariant, PTL DEF Spec

\* Lines 458-489: with frames that fit a page, only whole frames without
\* error go up, whatever the engine reports and wherever it restarts, until
\* line 475 ignores a failed refill.
THEOREM WholeFramesGoUp ==
  ASSUME MaxSegs = 1
  PROVE  Spec => []PacketsAreWhole
<1>1. FramesInv => PacketsAreWhole
  <2> SUFFICES ASSUME RxInv, FrameInv, rpc = "deliver"
               PROVE  skb # <<>> /\ Whole([k \in 1 .. Len(skb) |-> content[skb[k]]])
    BY DEF PacketsAreWhole, FramesInv
  <2>1. skb \in Seq(Pages) /\ Len(skb) = 1 /\ Single(content[skb[1]]) /\ content[skb[1]].good
    BY DEF RxInv, TypeOK, FrameInv
  <2>2. skb # <<>>
    <3>1. Len(<<>>) = 0
      OBVIOUS
    <3>2. 0 # 1
      OBVIOUS
    <3> QED
      BY <2>1, <3>1, <3>2, Zenon
  <2> DEFINE s == [k \in 1 .. 1 |-> content[skb[k]]]
  <2>3. Len(s) = 1 /\ s[1] = content[skb[1]]
    OBVIOUS
  <2> HIDE DEF s
  <2>4. Whole(s)
    BY <2>1, <2>3 DEF Whole, Single
  <2> QED
    BY <2>1, <2>2, <2>4 DEF s
<1> QED
  BY <1>1, FrameInvariant, PTL

\* Only the engine changes what is in a page, but for forgetting it.
LEMMA DmaStep ==
  ASSUME RxInv, [Next]_vars, NEW p \in Pages, content'[p] # content[p], content'[p] # NoSeg
  PROVE  \E n \in 1 .. MaxSegs, good \in BOOLEAN :
           \E a \in 1 .. n : \E b \in a .. n : HwReceive(a, b, n, good)
<1>1. content \in [Pages -> Segs \cup {NoSeg}] /\ content' # content
  BY DEF RxInv, TypeOK
<1>2. HwStep
  BY <1>1 DEF Next, HwStep, PacketStep, LifeStep, vars, RxPoll, LocateSkip,
     LocateNone, RxStart, RxRefuse, DropSegment, TakeSegment, Refill,
     RefillFails, OwnSegment, Deliver, StackFrees, AllocDescs, AllocPage,
     OpenFails, OpenDone, StopPoll, StopHw, StopFree, RelinkStop,
     RelinkStart, GiveBack, free_buffers, Inside
<1> QED
  BY <1>2 DEF HwStep

\* It writes into the pages of descriptors that are not ready.
LEMMA DmaTarget ==
  ASSUME RxInv, TrackInv, rpc = "refill" => Ready(rx_pointer),
         NEW n \in 1 .. MaxSegs, NEW good \in BOOLEAN, NEW a \in 1 .. n, NEW b \in a .. n,
         HwReceive(a, b, n, good), NEW p \in Pages, content'[p] # content[p]
  PROVE  holder[p] = "ring"
<1> DEFINE filled == HwFilled(b - a + 1)
<1>1. PICK i \in filled : rxdes2[i] = p
  BY DEF HwReceive
<1>2. i \in Slots /\ ~Ready(i) /\ hwOn
  <2>1. hwPtr \in Slots /\ b - a < N /\ hwOn /\ \A j \in filled : ~Ready(j)
    BY DEF HwReceive, RxInv, TypeOK
  <2> QED
    BY <2>1, <1>1, SegmentNumbers
<1>3. netif # "down" /\ ~Lent(i)
  BY <1>2 DEF StageInv, RxInv, Lent
<1> QED
  BY <1>1, <1>2, <1>3, PageAssumption DEF TrackInv, Tracked

\* Lines 462, 757 and 1129-1131: the engine writes only into mapped pages,
\* across refills, link changes, close and open, until line 475 ignores a
\* failed refill.
THEOREM DmaStaysInRing ==
  ASSUME MaxSegs = 1
  PROVE  Spec => DmaOnlyIntoRing
<1>1. FramesInv /\ [Next]_vars => [~short => IntoRing]_vars
  <2> SUFFICES ASSUME RxInv, TrackInv, FrameInv, [Next]_vars,
                      NEW p \in Pages, content'[p] # content[p], content'[p] # NoSeg
               PROVE  holder[p] = "ring"
    BY DEF IntoRing, FramesInv
  <2>1. \E n \in 1 .. MaxSegs, good \in BOOLEAN :
          \E a \in 1 .. n : \E b \in a .. n : HwReceive(a, b, n, good)
    BY DmaStep
  <2> QED
    BY <2>1, DmaTarget DEF FrameInv
<1> QED
  BY <1>1, FrameInvariant, PTL DEF Spec, DmaOnlyIntoRing

-----------------------------------------------------------------------------
(* Frames of any number of segments, and an engine that goes on where it   *)
(* was after a link change.  From rx_pointer on, the ready descriptors are *)
(* a window that ends where the engine is (WindowInv); a good frame in it  *)
(* is all there (SegsInv); and what rx_packet has put together goes on in  *)
(* the window (PacketInv).                                                 *)

\* The w descriptors from b on are ready, up to the engine's position h.
Window(des, h, b, w) ==
  h = At(b, w) /\ \A i \in Slots : "RDY" \in des[i] <=> Way(b, i) < w

WindowInv ==
  /\ netif = "opening" => \A i \in Slots : ~Ready(i)
  /\ netif = "up" => \E w \in 0 .. N : Window(rxdes0, hwPtr, rx_pointer, w)

\* The status bits say what the segment is.
Describes(bits, s) ==
  /\ s \in Segs
  /\ "FRS" \in bits <=> s.n = 1
  /\ "LRS" \in bits <=> s.last
  /\ "ERR" \in bits <=> ~s.good

Follows(i) ==
  LET s == RingSegs[i]  next == next_rx_pointer(i)  t == RingSegs[next] IN
  s.good /\ ~s.last =>
    next # rx_pointer /\ Ready(next) /\ t.frame = s.frame /\ t.n = s.n + 1 /\ t.good
SegsInv ==
  netif = "up" => \A i \in Slots :
    Ready(i) /\ ~(rpc = "own" /\ i = rx_pointer)
      => Describes(rxdes0[i], RingSegs[i]) /\ Follows(i)

\* Segments 1, 2, ... of one good frame, and one that comes next.
Pieces(T) ==
  \A k \in 1 .. Len(T) :
    /\ T[k] \in Segs /\ T[k].frame = T[1].frame /\ T[k].n = k /\ T[k].good
    /\ T[k].last => k = Len(T)
NextPiece(T, s) ==
  s \in Segs /\ s.good /\ s.n = Len(T) + 1 /\ (T # <<>> => s.frame = T[1].frame)

PacketInv ==
  /\ rpc \in {"idle", "locate", "drop"} => skb = <<>>
  /\ rpc \in {"drop", "take", "refill", "own"} => Ready(rx_pointer)
  /\ Pieces(Packet)
  /\ rpc = "take" => /\ NextPiece(Packet, RingSegs[rx_pointer])
                     /\ \A k \in 1 .. Len(skb) : ~Packet[k].last
  /\ rpc \in {"refill", "own", "deliver"} => skb # <<>>
  /\ rpc \in {"refill", "own"} =>
       /\ Last(rx_pointer) <=> Packet[Len(skb)].last
       /\ ~Last(rx_pointer) =>
            LET next == next_rx_pointer(rx_pointer) IN
            next # rx_pointer /\ Ready(next) /\ NextPiece(Packet, RingSegs[next])
  /\ rpc = "deliver" => Packet[Len(skb)].last

LEMMA Ring == N \in Nat \ {0} /\ Slots = 0 .. N - 1 /\ MaxSegs \in Nat \ {0}
BY NAssumption DEF Slots

LEMMA NextSlot ==
  ASSUME NEW i \in Slots
  PROVE  next_rx_pointer(i) = IF i = N - 1 THEN 0 ELSE i + 1
<1>1. CASE i = N - 1
  <2>1. (i + 1) % N = 0
    BY <1>1, Ring
  <2> QED
    BY <1>1, <2>1 DEF next_rx_pointer
<1>2. CASE i # N - 1
  <2>1. (i + 1) % N = i + 1
    BY <1>2, Ring
  <2> QED
    BY <1>2, <2>1 DEF next_rx_pointer
<1> QED
  BY <1>1, <1>2

LEMMA WayRound ==
  ASSUME NEW i \in Slots, NEW j \in Slots
  PROVE  /\ Way(i, j) \in Slots
         /\ Way(i, j) = 0 <=> i = j
         /\ At(i, Way(i, j)) = j
BY Ring DEF Way, At

LEMMA AtSlot ==
  ASSUME NEW i \in Slots, NEW w \in Slots
  PROVE  At(i, w) \in Slots /\ Way(i, At(i, w)) = w
BY Ring DEF Way, At

LEMMA WayOn ==
  ASSUME NEW i \in Slots, NEW j \in Slots
  PROVE  /\ next_rx_pointer(j) \in Slots
         /\ Way(i, next_rx_pointer(j)) =
              IF next_rx_pointer(j) = i THEN 0 ELSE Way(i, j) + 1
         /\ next_rx_pointer(j) = i <=> Way(i, j) = N - 1
         /\ Way(next_rx_pointer(i), j) = IF j = i THEN N - 1 ELSE Way(i, j) - 1
         /\ next_rx_pointer(i) = next_rx_pointer(j) => i = j
<1> DEFINE a == next_rx_pointer(i)
           b == next_rx_pointer(j)
<1>1. /\ a = IF i = N - 1 THEN 0 ELSE i + 1
      /\ b = IF j = N - 1 THEN 0 ELSE j + 1
  BY NextSlot
<1> HIDE DEF a, b
<1>2. b \in Slots /\ (a = b => i = j)
  BY <1>1, Ring
<1>3. Way(i, b) = IF b = i THEN 0 ELSE Way(i, j) + 1
  BY <1>1, Ring DEF Way
<1>4. b = i <=> Way(i, j) = N - 1
  BY <1>1, Ring DEF Way
<1>5. Way(a, j) = IF j = i THEN N - 1 ELSE Way(i, j) - 1
  BY <1>1, Ring DEF Way
<1> QED
  BY <1>2, <1>3, <1>4, <1>5 DEF a, b

\* What the engine writes describes what is in the page.
LEMMA StatusDescribes ==
  ASSUME NEW old, NEW n \in 1 .. MaxSegs, NEW k \in 1 .. n, NEW good \in BOOLEAN,
         hwPtr \in Slots
  PROVE  LET s == Segment(k, n, good) IN
         /\ "RDY" \in Status(old, k, n, good)
         /\ Describes(Status(old, k, n, good), s)
         /\ s.frame = hwPtr /\ s.n = k /\ (s.last <=> k = n) /\ (s.good <=> good)
<1> DEFINE s == Segment(k, n, good)
<1>1. s.n = k /\ s.frame = hwPtr
  BY DEF Segment
<1>2. s.last = (k = n)
  BY Zenon DEF Segment
<1>3. s.good = good
  BY Zenon DEF Segment
<1>4. s \in Segs
  <2>1. (k = n) \in BOOLEAN
    OBVIOUS
  <2>2. k \in 1 .. MaxSegs /\ n \in 1 .. MaxSegs
    BY Ring
  <2> QED
    BY <2>1, <2>2, Zenon DEF Segment, Segs
<1> HIDE DEF s
<1>5. /\ "RDY" \in Status(old, k, n, good)
      /\ "FRS" \in Status(old, k, n, good) <=> k = 1
      /\ "LRS" \in Status(old, k, n, good) <=> k = n
      /\ "ERR" \in Status(old, k, n, good) <=> ~good
  BY DEF Status
<1>6. Describes(Status(old, k, n, good), s)
  BY <1>1, <1>2, <1>3, <1>4, <1>5 DEF Describes
<1> QED
  BY <1>1, <1>2, <1>3, <1>5, <1>6 DEF s

\* No page is in two places: a change of one page of the ring is a change of
\* one descriptor's segment, and none of the packet.
LEMMA PagesApart ==
  ASSUME RxInv, TrackInv, netif \in {"up", "stopping", "stopped"}
  PROVE  /\ \A i \in Slots : rxdes2[i] \in Pages
         /\ \A i, j \in Slots : rxdes2[i] = rxdes2[j] => i = j
         /\ \A k \in 1 .. Len(skb) : skb[k] \in Pages /\ holder[skb[k]] = "skb"
         /\ \A i \in Slots, k \in 1 .. Len(skb) : ~Lent(i) => rxdes2[i] # skb[k]
<1>1. \A i \in Slots : rxdes2[i] \in Pages /\ rxdes2[i] # NoPage
  BY DEF RxInv, TypeOK, StageInv, Filled
<1>2. Tracked /\ \A k \in 1 .. Len(skb) : skb[k] \in Pages /\ holder[skb[k]] = "skb"
  BY ElementOfSeq DEF RxInv, TypeOK, TrackInv
<1> QED
  BY <1>1, <1>2 DEF Tracked

\* What a step of the engine does to the ring.
LEMMA Receives ==
  ASSUME RxInv, TrackInv, PacketInv, netif = "up", NEW n \in 1 .. MaxSegs,
         NEW good \in BOOLEAN, NEW a \in 1 .. n, NEW b \in a .. n, HwReceive(a, b, n, good),
         NEW m, m = b - a + 1, NEW h, h = hwPtr
  PROVE  /\ m \in 1 .. N /\ h \in Slots /\ Reported(a, b, n, good)
         /\ \A i \in Slots : Way(h, i) < m => ~Ready(i)
         /\ \A i \in Slots : rxdes0'[i] =
              IF Way(h, i) < m THEN Status(rxdes0[i], a + Way(h, i), n, good) ELSE rxdes0[i]
         /\ \A i \in Slots : RingSegs'[i] =
              IF Way(h, i) < m THEN Segment(a + Way(h, i), n, good) ELSE RingSegs[i]
         /\ hwPtr' = At(h, m)
         /\ Packet' = Packet
<1> DEFINE filled == HwFilled(b - a + 1)
<1>1. m \in 1 .. N /\ hwPtr \in Slots /\ b - a < N /\ hwOn /\ Reported(a, b, n, good)
  BY Ring DEF HwReceive, RxInv, TypeOK
<1>2. \A i : i \in filled <=> i \in Slots /\ Way(hwPtr, i) < m
  <2>1. ASSUME NEW i \in filled PROVE i \in Slots /\ Way(hwPtr, i) < m
    <3>1. PICK k \in 0 .. m - 1 : i = At(hwPtr, k)
      BY DEF HwFilled, HwSlot, At
    <3>2. k \in Slots /\ k < m
      BY <1>1, Ring
    <3> QED
      BY <1>1, <3>1, <3>2, AtSlot
  <2>2. ASSUME NEW i \in Slots, Way(hwPtr, i) < m PROVE i \in filled
    <3>1. Way(hwPtr, i) \in Slots /\ At(hwPtr, Way(hwPtr, i)) = i
      BY <1>1, <2>2, WayRound
    <3>2. Way(hwPtr, i) \in 0 .. m - 1
      BY <1>1, <2>2, <3>1, Ring
    <3> QED
      BY <3>1, <3>2 DEF HwFilled, HwSlot, At
  <2> QED
    BY <2>1, <2>2
<1>3. \A i \in Slots : SegNumber(a, i) = a + Way(hwPtr, i)
  BY DEF SegNumber, Way
<1>4. \A i \in Slots : Way(hwPtr, i) < m => ~Ready(i)
  BY <1>2 DEF HwReceive
<1>5. \A i \in Slots : rxdes0'[i] =
        IF Way(hwPtr, i) < m THEN Status(rxdes0[i], a + Way(hwPtr, i), n, good)
                             ELSE rxdes0[i]
  BY <1>2, <1>3 DEF HwReceive
<1>6. hwPtr' = At(hwPtr, m)
  <2>1. \A i \in filled : "EDORR" \in rxdes0[i] <=> i = N - 1
    BY <1>2 DEF RxInv, EndOfRing
  <2> QED
    BY <2>1 DEF HwReceive, HwSlot, At
<1>7. /\ rxdes2' = rxdes2 /\ skb' = skb
      /\ \A p \in Pages : content'[p] =
           IF \E i \in filled : rxdes2[i] = p
             THEN Segment(SegNumber(a, CHOOSE i \in filled : rxdes2[i] = p), n, good)
             ELSE content[p]
  BY DEF HwReceive, drv
<1> HIDE DEF filled
<1>8. \A i \in Slots : RingSegs'[i] =
        IF Way(hwPtr, i) < m THEN Segment(a + Way(hwPtr, i), n, good) ELSE RingSegs[i]
  <2> SUFFICES ASSUME NEW i \in Slots
               PROVE  content'[rxdes2[i]] =
                        IF Way(hwPtr, i) < m THEN Segment(a + Way(hwPtr, i), n, good)
                                             ELSE content[rxdes2[i]]
    BY <1>7 DEF RingSegs
  <2>1. rxdes2[i] \in Pages /\ \A j \in filled : rxdes2[j] = rxdes2[i] => j = i
    BY <1>2, PagesApart
  <2>2. CASE Way(hwPtr, i) < m
    <3>1. i \in filled
      BY <1>2, <2>2
    <3>2. (CHOOSE j \in filled : rxdes2[j] = rxdes2[i]) = i
      BY <2>1, <3>1
    <3> QED
      BY <1>3, <1>7, <2>1, <2>2, <3>1, <3>2
  <2>3. CASE ~(Way(hwPtr, i) < m)
    <3>1. ~\E j \in filled : rxdes2[j] = rxdes2[i]
      BY <1>2, <2>1, <2>3
    <3> QED
      BY <1>7, <2>1, <2>3, <3>1
  <2> QED
    BY <2>2, <2>3
<1>9. Packet' = Packet
  <2>1. ASSUME NEW k \in 1 .. Len(skb) PROVE content'[skb[k]] = content[skb[k]]
    <3>1. \A j \in filled : j \in Slots /\ ~Lent(j)
      BY <1>2, <1>4 DEF Lent, PacketInv
    <3>2. skb[k] \in Pages /\ ~\E j \in filled : rxdes2[j] = skb[k]
      BY <3>1, PagesApart
    <3> QED
      BY <1>7, <3>2
  <2> QED
    BY <1>7, <2>1 DEF Packet
<1> QED
  BY <1>1, <1>4, <1>5, <1>6, <1>8, <1>9

\* Two windows one behind the other.
LEMMA WayFrom ==
  ASSUME NEW b \in Slots, NEW w \in 0 .. N, NEW h \in Slots, h = At(b, w),
         NEW m \in 1 .. N, NEW i \in Slots,
         \A j \in Slots : Way(h, j) < m => ~(Way(b, j) < w)
  PROVE  /\ w + m \in 0 .. N
         /\ At(h, m) = At(b, w + m)
         /\ Way(b, i) < w + m <=> Way(b, i) < w \/ Way(h, i) < m
         /\ Way(h, i) < m => Way(b, i) = w + Way(h, i)
<1>1. w < N
  <2> SUFFICES ASSUME w = N PROVE FALSE
    BY Ring
  <2>1. Way(h, h) = 0 /\ Way(b, h) \in Slots
    BY WayRound
  <2> QED
    BY <2>1, Ring
<1>2. w \in Slots
  BY <1>1, Ring
<1>3. Way(b, h) = w
  BY <1>2, AtSlot
<1>4. w + m <= N
  <2> SUFFICES ASSUME w + m > N PROVE FALSE
    BY <1>1, Ring
  <2>1. Way(h, b) < m /\ Way(b, b) = 0
    BY <1>1, <1>3, Ring DEF Way
  <2>2. w = 0
    BY <2>1
  <2> QED
    BY <2>2, Ring
<1>5. At(h, m) = At(b, w + m)
  BY <1>1, <1>4, Ring DEF At
<1>6. Way(b, i) = IF Way(h, i) + w < N THEN Way(h, i) + w ELSE Way(h, i) + w - N
  BY <1>1, <1>3, Ring DEF Way, At
<1>7. Way(h, i) \in Slots /\ Way(b, i) \in Slots
  BY WayRound
<1> QED
  BY <1>1, <1>4, <1>5, <1>6, <1>7, Ring

LongInv == RxInv /\ TrackInv /\ WindowInv /\ SegsInv /\ PacketInv

\* The packet does not notice what happens to descriptors that are not ready.
LEMMA PacketKept ==
  ASSUME PacketInv, rx_pointer \in Slots, UNCHANGED <<rx_pointer, rpc, skb>>, Packet' = Packet,
         \A i \in Slots : Ready(i) =>
           rxdes0'[i] = rxdes0[i] /\ RingSegs'[i] = RingSegs[i]
  PROVE  PacketInv'
<1> DEFINE next == next_rx_pointer(rx_pointer)
<1>1. next \in Slots
  BY WayOn
<1>2. /\ rpc \in {"drop", "take", "refill", "own"} => Ready(rx_pointer)'
      /\ rpc = "take" => RingSegs'[rx_pointer] = RingSegs[rx_pointer]
  BY DEF PacketInv, Ready
<1>3. rpc \in {"refill", "own"} => (Last(rx_pointer)' <=> Last(rx_pointer))
  BY DEF PacketInv, Last
<1>4. rpc \in {"refill", "own"} /\ ~Last(rx_pointer) =>
        next # rx_pointer /\ Ready(next)' /\ NextPiece(Packet, RingSegs'[next])
  BY <1>1 DEF PacketInv, Ready
<1> HIDE DEF next
<1>5. next' = next
  BY DEF next, next_rx_pointer
<1> QED
  BY <1>2, <1>3, <1>4, <1>5 DEF PacketInv, Ready, next

LEMMA ReceiveKeeps ==
  ASSUME LongInv, netif = "up", NEW n \in 1 .. MaxSegs, NEW good \in BOOLEAN,
         NEW a \in 1 .. n, NEW b \in a .. n, HwReceive(a, b, n, good)
  PROVE  /\ WindowInv' /\ SegsInv' /\ PacketInv'
         /\ \A w \in 0 .. N : Window(rxdes0, hwPtr, rx_pointer, w) =>
              /\ w + (b - a + 1) \in 0 .. N
              /\ Window(rxdes0', hwPtr', rx_pointer, w + (b - a + 1))
         /\ \A i \in Slots : Ready(i) => RingSegs'[i] = RingSegs[i]
<1>1. PICK m \in 1 .. N : m = b - a + 1
  <2> DEFINE k == b - a + 1
  <2>1. k \in 1 .. N
    BY Receives DEF LongInv
  <2> QED
    BY <2>1
<1>2. PICK h \in Slots : h = hwPtr
  BY DEF LongInv, RxInv, TypeOK
<1>3. PICK r \in Slots : r = rx_pointer
  BY DEF LongInv, RxInv, TypeOK
<1>4. /\ Reported(a, b, n, good) /\ hwPtr' = At(h, m) /\ Packet' = Packet
      /\ \A i \in Slots : Way(h, i) < m => ~Ready(i)
      /\ \A i \in Slots : rxdes0'[i] =
           IF Way(h, i) < m THEN Status(rxdes0[i], a + Way(h, i), n, good) ELSE rxdes0[i]
      /\ \A i \in Slots : RingSegs'[i] =
           IF Way(h, i) < m THEN Segment(a + Way(h, i), n, good) ELSE RingSegs[i]
  <2>1. RxInv /\ TrackInv /\ PacketInv
    BY DEF LongInv
  <2>2. Reported(a, b, n, good) /\ hwPtr' = At(h, m) /\ Packet' = Packet
    BY <1>1, <1>2, <2>1, Receives
  <2>3. \A i \in Slots : Way(h, i) < m => ~Ready(i)
    BY <1>1, <1>2, <2>1, Receives
  <2>4. \A i \in Slots : rxdes0'[i] =
          IF Way(h, i) < m THEN Status(rxdes0[i], a + Way(h, i), n, good) ELSE rxdes0[i]
    BY <1>1, <1>2, <2>1, Receives
  <2>5. \A i \in Slots : RingSegs'[i] =
          IF Way(h, i) < m THEN Segment(a + Way(h, i), n, good) ELSE RingSegs[i]
    BY <1>1, <1>2, <2>1, Receives
  <2> QED
    BY <2>2, <2>3, <2>4, <2>5
<1>5. UNCHANGED <<rx_pointer, rpc, skb, netif>>
  BY DEF HwReceive, drv, ctl
<1>6. \A i \in Slots : Ready(i) => rxdes0'[i] = rxdes0[i] /\ RingSegs'[i] = RingSegs[i]
  BY <1>4
<1>7. PacketInv'
  BY <1>3, <1>4, <1>5, <1>6, PacketKept DEF LongInv
<1>8. ASSUME NEW i \in Slots, Way(h, i) < m
      PROVE  /\ Ready(i)' /\ Describes(rxdes0'[i], RingSegs'[i])
             /\ RingSegs'[i].frame = h /\ RingSegs'[i].n = a + Way(h, i)
             /\ RingSegs'[i].last <=> a + Way(h, i) = n
             /\ RingSegs'[i].good <=> good
  <2>1. Way(h, i) \in Slots
    BY <1>8, WayRound
  <2>2. n \in Nat /\ a \in Nat /\ b \in Nat /\ a >= 1 /\ b <= n /\ a <= b
    BY Ring
  <2>3. a + Way(h, i) \in 1 .. n
    BY <1>1, <1>8, <2>1, <2>2, Ring
  <2> QED
    BY <1>2, <1>4, <1>8, <2>3, StatusDescribes DEF Ready
<1>9. ASSUME NEW w \in 0 .. N, Window(rxdes0, hwPtr, rx_pointer, w)
      PROVE  /\ w + m \in 0 .. N /\ Window(rxdes0', hwPtr', rx_pointer, w + m)
             /\ \A i \in Slots : Way(h, i) < m => Way(r, i) = w + Way(h, i)
  <2>1. h = At(r, w) /\ \A i \in Slots : Ready(i) <=> Way(r, i) < w
    BY <1>2, <1>3, <1>9 DEF Window, Ready
  <2>2. \A j \in Slots : Way(h, j) < m => ~(Way(r, j) < w)
    BY <1>4, <2>1
  <2>3. w + m \in 0 .. N /\ At(h, m) = At(r, w + m)
    BY <2>1, <2>2, WayFrom
  <2>4. \A i \in Slots : /\ Way(r, i) < w + m <=> Way(r, i) < w \/ Way(h, i) < m
                         /\ Way(h, i) < m => Way(r, i) = w + Way(h, i)
    BY <2>1, <2>2, WayFrom
  <2>5. \A i \in Slots : "RDY" \in rxdes0'[i] <=> Way(r, i) < w \/ Way(h, i) < m
    BY <1>4, <1>8, <2>1 DEF Ready
  <2> QED
    BY <1>3, <1>4, <2>3, <2>4, <2>5 DEF Window
<1>10. PICK w \in 0 .. N : Window(rxdes0, hwPtr, rx_pointer, w)
  BY DEF LongInv, WindowInv
<1>11. WindowInv'
  BY <1>5, <1>9, <1>10 DEF WindowInv
<1>12. ASSUME NEW i \in Slots, Ready(i)', ~(rpc = "own" /\ i = rx_pointer)
       PROVE  Describes(rxdes0'[i], RingSegs'[i]) /\ Follows(i)'
  <2> DEFINE next == next_rx_pointer(i)
  <2>1. next \in Slots
    BY WayOn
  <2>2. CASE Way(h, i) < m
    <3>1. Describes(rxdes0'[i], RingSegs'[i])
      BY <1>8, <2>2
    <3>2. ASSUME RingSegs'[i].good, ~RingSegs'[i].last
          PROVE  /\ next # rx_pointer /\ Ready(next)' /\ RingSegs'[next].good
                 /\ RingSegs'[next].frame = RingSegs'[i].frame
                 /\ RingSegs'[next].n = RingSegs'[i].n + 1
      <4>1. good /\ a + Way(h, i) # n /\ Way(h, i) \in Slots
        BY <1>8, <2>2, <3>2, WayRound
      <4>a. n \in Nat /\ a \in Nat /\ b \in Nat /\ a <= b /\ b <= n
        BY Ring
      <4>b. (a = 1 /\ b = n) \/ (a = n /\ b = n)
        BY <1>4, <4>1 DEF Reported
      <4>2. a = 1 /\ b = n
        BY <1>1, <2>2, <4>1, <4>a, <4>b, Ring
      <4>3. Way(h, i) + 1 < m
        BY <1>1, <2>2, <4>1, <4>2, Ring
      <4>4. Way(h, next) = Way(h, i) + 1
        BY <4>1, <4>3, WayOn, Ring
      <4>5. Way(r, next) = w + Way(h, next) /\ Way(r, next) # 0
        BY <1>9, <1>10, <2>1, <4>1, <4>3, <4>4, Ring
      <4>6. next # r
        BY <2>1, <4>5, WayRound
      <4>7. /\ Ready(next)' /\ RingSegs'[next].frame = h /\ (RingSegs'[next].good <=> good)
            /\ RingSegs'[next].n = a + Way(h, next)
        BY <1>8, <2>1, <4>3, <4>4
      <4>8. RingSegs'[i].frame = h /\ RingSegs'[i].n = a + Way(h, i)
        BY <1>8, <2>2
      <4> QED
        BY <1>3, <4>1, <4>4, <4>6, <4>7, <4>8, Ring
    <3> QED
      BY <1>5, <3>1, <3>2 DEF Follows, next_rx_pointer
  <2>3. CASE ~(Way(h, i) < m)
    <3>1. Ready(i) /\ rxdes0'[i] = rxdes0[i] /\ RingSegs'[i] = RingSegs[i]
      BY <1>4, <1>12, <2>3 DEF Ready
    <3>2. Describes(rxdes0[i], RingSegs[i]) /\ Follows(i)
      BY <1>12, <3>1 DEF LongInv, SegsInv
    <3>3. Ready(next) => RingSegs'[next] = RingSegs[next] /\ Ready(next)'
      BY <1>6, <2>1 DEF Ready
    <3> QED
      BY <1>5, <3>1, <3>2, <3>3 DEF Follows, next_rx_pointer
  <2> QED
    BY <2>2, <2>3
<1>13. SegsInv'
  BY <1>5, <1>12 DEF SegsInv
<1> QED
  BY <1>1, <1>6, <1>7, <1>9, <1>11, <1>13

\* The first descriptor of the window goes back to the engine.
LEMMA GiveBackKeeps ==
  ASSUME LongInv, netif = "up", GiveBack, UNCHANGED <<rxdes2, skb>>,
         rpc \in {"locate", "drop", "own"}, rpc' # "own", Ready(rx_pointer)
  PROVE  /\ WindowInv' /\ SegsInv' /\ Packet' = Packet /\ netif' = netif
         /\ rx_pointer' = next_rx_pointer(rx_pointer)
         /\ \A i \in Slots : i # rx_pointer =>
              rxdes0'[i] = rxdes0[i] /\ RingSegs'[i] = RingSegs[i]
         /\ \A w \in 0 .. N : Window(rxdes0, hwPtr, rx_pointer, w) =>
              /\ w \in 1 .. N /\ w - 1 \in 0 .. N
              /\ Window(rxdes0', hwPtr', next_rx_pointer(rx_pointer), w - 1)
<1>1. PICK b \in Slots : b = rx_pointer
  BY DEF LongInv, RxInv, TypeOK
<1> DEFINE c == next_rx_pointer(b)
<1>2. /\ rxdes0' = [rxdes0 EXCEPT ![b] = set_dma_own(@)]
      /\ rx_pointer' = c /\ content' = [content EXCEPT ![rxdes2[b]] = NoSeg]
      /\ UNCHANGED <<hwPtr, netif, rxdes2, skb>> /\ c \in Slots
  BY <1>1, WayOn DEF GiveBack, Outside, hw, ctl
<1>3. /\ \A i \in Slots : i # b => rxdes0'[i] = rxdes0[i]
      /\ "RDY" \notin rxdes0'[b]
  BY <1>2 DEF set_dma_own, LongInv, RxInv, TypeOK
<1>4. \A i \in Slots : i # b => RingSegs'[i] = RingSegs[i]
  <2> SUFFICES ASSUME NEW i \in Slots, i # b PROVE content'[rxdes2[i]] = content[rxdes2[i]]
    BY <1>2 DEF RingSegs
  <2>1. rxdes2[i] \in Pages /\ rxdes2[i] # rxdes2[b]
    BY PagesApart DEF LongInv
  <2> QED
    BY <1>2, <2>1 DEF LongInv, RxInv, TypeOK
<1>5. Packet' = Packet
  <2>1. ASSUME NEW k \in 1 .. Len(skb) PROVE content'[skb[k]] = content[skb[k]]
    <3>1. skb[k] \in Pages /\ rxdes2[b] # skb[k]
      BY PagesApart DEF LongInv, Lent
    <3> QED
      BY <1>2, <3>1 DEF LongInv, RxInv, TypeOK
  <2> QED
    BY <1>2, <2>1 DEF Packet
<1>6. ASSUME NEW w \in 0 .. N, Window(rxdes0, hwPtr, rx_pointer, w)
      PROVE  /\ w \in 1 .. N /\ w - 1 \in 0 .. N
             /\ Window(rxdes0', hwPtr', c, w - 1)
  <2>1. hwPtr = At(b, w) /\ \A i \in Slots : "RDY" \in rxdes0[i] <=> Way(b, i) < w
    BY <1>1, <1>6 DEF Window
  <2>2. w \in 1 .. N
    <3>1. Way(b, b) = 0 /\ Way(b, b) < w
      BY <1>1, <2>1, WayRound DEF Ready
    <3> QED
      BY <3>1, Ring
  <2>3. At(b, w) = At(c, w - 1)
    <3>1. c = IF b = N - 1 THEN 0 ELSE b + 1
      BY NextSlot
    <3> HIDE DEF c
    <3> QED
      BY <2>2, <3>1, Ring DEF At
  <2>4. ASSUME NEW i \in Slots PROVE "RDY" \in rxdes0'[i] <=> Way(c, i) < w - 1
    <3>1. /\ Way(c, i) = IF i = b THEN N - 1 ELSE Way(b, i) - 1
          /\ Way(b, i) \in Slots
      BY WayOn, WayRound
    <3>2. "RDY" \in rxdes0'[i] <=> i # b /\ Way(b, i) < w
      BY <1>3, <2>1
    <3> QED
      BY <2>2, <3>1, <3>2, Ring
  <2> QED
    BY <1>2, <2>1, <2>2, <2>3, <2>4, Ring DEF Window
<1>7. WindowInv'
  <2>1. PICK w \in 0 .. N : Window(rxdes0, hwPtr, rx_pointer, w)
    BY DEF LongInv, WindowInv
  <2> QED
    BY <1>2, <1>6, <2>1 DEF WindowInv
<1>8. ASSUME NEW i \in Slots, Ready(i)'
      PROVE  Describes(rxdes0'[i], RingSegs'[i]) /\ Follows(i)'
  <2> DEFINE next == next_rx_pointer(i)
  <2>1. i # b /\ next \in Slots
    BY <1>3, <1>8, WayOn DEF Ready
  <2>2. rxdes0'[i] = rxdes0[i] /\ RingSegs'[i] = RingSegs[i] /\ Ready(i)
    BY <1>3, <1>4, <1>8, <2>1 DEF Ready
  <2>3. Describes(rxdes0[i], RingSegs[i]) /\ Follows(i)
    BY <1>1, <2>1, <2>2 DEF LongInv, SegsInv
  <2>4. next # c
    BY <2>1, WayOn
  <2>5. next # b => RingSegs'[next] = RingSegs[next] /\ (Ready(next)' <=> Ready(next))
    BY <1>3, <1>4, <2>1 DEF Ready
  <2> QED
    BY <1>1, <1>2, <2>2, <2>3, <2>4, <2>5 DEF Follows, next_rx_pointer
<1>9. SegsInv'
  BY <1>8 DEF SegsInv
<1> QED
  BY <1>1, <1>2, <1>3, <1>4, <1>5, <1>6, <1>7, <1>9

\* Between two packets there is nothing to keep.
LEMMA NoPacket ==
  ASSUME rpc' \in {"idle", "locate", "drop"}, skb' = <<>>, rpc' = "drop" => Ready(rx_pointer)'
  PROVE  PacketInv'
<1>1. Packet' = <<>> /\ Len(<<>>) = 0
  BY DEF Packet
<1>2. Pieces(<<>>)
  BY DEF Pieces
<1> QED
  BY <1>1, <1>2 DEF PacketInv

LEMMA SkipKeeps ==
  ASSUME LongInv, netif = "up", LocateSkip \/ DropSegment
  PROVE  WindowInv' /\ SegsInv' /\ PacketInv'
<1>1. CASE LocateSkip
  <2>1. WindowInv' /\ SegsInv'
    BY <1>1, GiveBackKeeps DEF LocateSkip
  <2>2. PacketInv'
    BY <1>1, NoPacket DEF LocateSkip, LongInv, PacketInv
  <2> QED
    BY <2>1, <2>2
<1>2. CASE DropSegment
  <2>1. Ready(rx_pointer)
    BY <1>2 DEF DropSegment, LongInv, PacketInv
  <2>2. WindowInv' /\ SegsInv'
    BY <1>2, <2>1, GiveBackKeeps DEF DropSegment
  <2>3. PacketInv'
    BY <1>2, NoPacket DEF DropSegment, LongInv, PacketInv
  <2> QED
    BY <2>2, <2>3
<1> QED
  BY <1>1, <1>2

\* What Append makes of the packet.
LEMMA PacketType ==
  ASSUME RxInv
  PROVE  /\ Packet \in Seq(Segs \cup {NoSeg}) /\ Len(Packet) = Len(skb) /\ Len(skb) \in Nat
         /\ \A k \in 1 .. Len(skb) : Packet[k] = content[skb[k]]
         /\ skb = <<>> <=> Packet = <<>>
<1>1. skb \in Seq(Pages) /\ content \in [Pages -> Segs \cup {NoSeg}] /\ Len(skb) \in Nat
  BY DEF RxInv, TypeOK
<1>2. \A k \in 1 .. Len(skb) : content[skb[k]] \in Segs \cup {NoSeg}
  BY <1>1, ElementOfSeq
<1>3. Packet \in [1 .. Len(skb) -> Segs \cup {NoSeg}]
  BY <1>2 DEF Packet
<1>4. Packet \in Seq(Segs \cup {NoSeg}) /\ Len(Packet) = Len(skb)
  BY <1>1, <1>3
<1>5. skb = <<>> <=> Packet = <<>>
  BY <1>1, <1>4, EmptySeq
<1> QED
  BY <1>1, <1>4, <1>5 DEF Packet

LEMMA PieceAdded ==
  ASSUME NEW S, NEW T \in Seq(S), NEW s \in S, Pieces(T), NextPiece(T, s),
         \A k \in 1 .. Len(T) : ~T[k].last
  PROVE  LET U == Append(T, s) IN
         /\ Pieces(U) /\ Len(U) = Len(T) + 1 /\ U[Len(T) + 1] = s
         /\ U # <<>> /\ U[1].frame = s.frame
         /\ \A k \in 1 .. Len(T) : U[k] = T[k]
<1> DEFINE U == Append(T, s)
           m == Len(T) + 1
<1>1. /\ U \in Seq(S) /\ Len(U) = m /\ Len(T) \in Nat /\ U[m] = s
      /\ \A k \in 1 .. Len(T) : U[k] = T[k]
  BY AppendProperties
<1>2. U # <<>>
  <2>1. Len(<<>>) = 0 /\ m # 0
    BY <1>1
  <2> QED
    BY <1>1, <2>1, Zenon
<1>3. U[1].frame = s.frame
  <2>1. CASE Len(T) = 0
    BY <1>1, <2>1
  <2>2. CASE Len(T) # 0
    <3>1. T # <<>> /\ U[1] = T[1]
      BY <1>1, <2>2, EmptySeq
    <3> QED
      BY <3>1 DEF NextPiece
  <2> QED
    BY <2>1, <2>2
<1> HIDE DEF U
<1>4. ASSUME NEW k \in 1 .. m
      PROVE  /\ U[k] \in Segs /\ U[k].frame = U[1].frame /\ U[k].n = k /\ U[k].good
             /\ U[k].last => k = m
  <2>1. CASE k = m
    BY <1>1, <1>3, <2>1 DEF NextPiece
  <2>2. CASE k # m
    <3>1. k \in 1 .. Len(T) /\ U[k] = T[k] /\ T # <<>>
      BY <1>1, <2>2, EmptySeq
    <3> QED
      BY <1>3, <3>1 DEF Pieces, NextPiece
  <2> QED
    BY <2>1, <2>2
<1>5. Pieces(U)
  BY <1>1, <1>4 DEF Pieces
<1> QED
  BY <1>1, <1>2, <1>3, <1>5 DEF U

\* The second loop of rx_packet: a page goes into the packet, another takes
\* its place, and the descriptor goes back.
LEMMA TakeKeeps ==
  ASSUME LongInv, TakeSegment
  PROVE  /\ SegsInv' /\ PacketInv' /\ WindowInv'
         /\ RingSegs' = RingSegs /\ Packet' = Append(Packet, RingSegs[rx_pointer])
<1> DEFINE T == Packet
           s == RingSegs[rx_pointer]
           next == next_rx_pointer(rx_pointer)
<1>1. /\ rpc = "take" /\ rpc' = "refill" /\ netif = "up" /\ rx_pointer \in Slots
      /\ skb' = Append(skb, rxdes2[rx_pointer])
      /\ UNCHANGED <<rxdes0, rxdes2, rx_pointer, content, netif, hwPtr>>
  BY DEF TakeSegment, Inside, Outside, ctl, hw, LongInv, RxInv, StageInv, TypeOK
<1>2. /\ Ready(rx_pointer) /\ Pieces(T) /\ NextPiece(T, s)
      /\ \A k \in 1 .. Len(skb) : ~T[k].last
  BY <1>1 DEF LongInv, PacketInv
<1>3. /\ T \in Seq(Segs \cup {NoSeg}) /\ Len(T) = Len(skb) /\ Len(skb) \in Nat
      /\ \A k \in 1 .. Len(skb) : T[k] = content[skb[k]]
  BY PacketType DEF LongInv
<1>4. Describes(rxdes0[rx_pointer], s) /\ Follows(rx_pointer)
  BY <1>1, <1>2 DEF LongInv, SegsInv
<1>5. RingSegs' = RingSegs
  BY <1>1 DEF RingSegs
<1>6. s \in Segs \cup {NoSeg} /\ s = content[rxdes2[rx_pointer]]
  BY <1>1, <1>2 DEF NextPiece, RingSegs
<1> DEFINE U == Append(T, s)
<1>7. /\ Pieces(U) /\ Len(U) = Len(T) + 1 /\ U[Len(T) + 1] = s
      /\ U # <<>> /\ U[1].frame = s.frame /\ \A k \in 1 .. Len(T) : U[k] = T[k]
  BY <1>2, <1>3, <1>6, PieceAdded
<1>8. Len(skb') = Len(skb) + 1 /\ skb' # <<>> /\ Packet' = U
  <2>1. /\ skb \in Seq(Pages) /\ rxdes2[rx_pointer] \in Pages
    BY <1>1, PagesApart DEF LongInv, RxInv, TypeOK
  <2>2. /\ Len(skb') = Len(skb) + 1 /\ skb'[Len(skb) + 1] = rxdes2[rx_pointer]
        /\ \A k \in 1 .. Len(skb) : skb'[k] = skb[k]
        /\ skb' \in Seq(Pages)
    BY <1>1, <2>1, AppendProperties
  <2>3. skb' # <<>>
    <3>1. Len(<<>>) = 0 /\ Len(skb) + 1 # 0
      BY <1>3
    <3> QED
      BY <2>2, <3>1, Zenon
  <2>4. Packet' = [k \in 1 .. Len(skb) + 1 |-> content[skb'[k]]]
    BY <1>1, <2>2 DEF Packet
  <2>5. U = [k \in 1 .. Len(skb) + 1 |-> U[k]]
    BY <1>3, <1>6, <1>7, AppendProperties
  <2>6. ASSUME NEW k \in 1 .. Len(skb) + 1 PROVE content[skb'[k]] = U[k]
    <3>1. CASE k = Len(skb) + 1
      BY <1>3, <1>6, <1>7, <2>2, <3>1
    <3>2. CASE k # Len(skb) + 1
      <4>1. k \in 1 .. Len(skb)
        BY <1>3, <3>2
      <4> QED
        BY <1>3, <1>7, <2>2, <4>1
    <3> QED
      BY <3>1, <3>2
  <2> HIDE DEF U
  <2>7. Packet' = U
    BY <2>4, <2>5, <2>6, Zenon
  <2> QED
    BY <2>2, <2>3, <2>7
<1>9. WindowInv' /\ SegsInv'
  BY <1>1, <1>2, <1>5 DEF LongInv, WindowInv, Window, SegsInv, Follows, Ready
<1>10. Last(rx_pointer) <=> s.last
  BY <1>4 DEF Describes, Last
<1>11. ASSUME ~Last(rx_pointer)
       PROVE  next # rx_pointer /\ Ready(next) /\ NextPiece(U, RingSegs[next])
  <2>1. /\ next # rx_pointer /\ Ready(next) /\ next \in Slots
        /\ RingSegs[next].frame = s.frame /\ RingSegs[next].n = s.n + 1 /\ RingSegs[next].good
    BY <1>1, <1>2, <1>4, <1>10, <1>11, WayOn DEF Follows, NextPiece
  <2>2. RingSegs[next] \in Segs
    BY <1>1, <2>1 DEF LongInv, SegsInv, Describes
  <2>3. s.n = Len(T) + 1
    BY <1>2 DEF NextPiece
  <2> HIDE DEF U, next, s, T
  <2> QED
    BY <1>7, <2>1, <2>2, <2>3 DEF NextPiece
<1>12. PacketInv'
  <2>1. Pieces(Packet') /\ Packet'[Len(skb')] = s
    BY <1>3, <1>7, <1>8
  <2>2. Last(rx_pointer)' <=> Last(rx_pointer)
    BY <1>1 DEF Last
  <2>3. next' = next /\ (Ready(next)' <=> Ready(next))
    BY <1>1 DEF Ready, next_rx_pointer
  <2>4. Ready(rx_pointer)'
    BY <1>1, <1>2 DEF Ready
  <2> HIDE DEF next, s, U
  <2>5. ~Last(rx_pointer) =>
          next' # rx_pointer' /\ Ready(next)' /\ NextPiece(Packet', RingSegs'[next'])
    BY <1>1, <1>5, <1>8, <1>11, <2>3
  <2> QED
    BY <1>1, <1>8, <1>10, <2>1, <2>2, <2>4, <2>5 DEF PacketInv, next
<1> QED
  BY <1>5, <1>8, <1>9, <1>12

LEMMA RefillKeeps ==
  ASSUME LongInv, NEW p \in Pages, Refill(p)
  PROVE  /\ WindowInv' /\ SegsInv' /\ PacketInv' /\ Packet' = Packet
         /\ \A i \in Slots : i # rx_pointer => RingSegs'[i] = RingSegs[i]
<1> DEFINE next == next_rx_pointer(rx_pointer)
<1>1. /\ rpc = "refill" /\ rpc' = "own" /\ netif = "up" /\ rx_pointer \in Slots
      /\ UNCHANGED <<rxdes0, rx_pointer, skb, content, netif, hwPtr>>
      /\ \A i \in Slots : i # rx_pointer => rxdes2'[i] = rxdes2[i]
      /\ next \in Slots
  BY WayOn DEF Refill, Inside, Outside, ctl, hw, LongInv, RxInv, StageInv, TypeOK
<1>2. Packet' = Packet
  BY <1>1 DEF Packet
<1>3. \A i \in Slots : i # rx_pointer => RingSegs'[i] = RingSegs[i]
  BY <1>1 DEF RingSegs
<1>4. WindowInv'
  BY <1>1 DEF LongInv, WindowInv, Window, Ready
<1>5. SegsInv'
  <2> SUFFICES ASSUME NEW i \in Slots, Ready(i)', i # rx_pointer
               PROVE  Describes(rxdes0'[i], RingSegs'[i]) /\ Follows(i)'
    BY <1>1 DEF SegsInv
  <2>1. Describes(rxdes0[i], RingSegs[i]) /\ Follows(i) /\ next_rx_pointer(i) \in Slots
    BY <1>1, WayOn DEF LongInv, SegsInv, Ready
  <2> QED
    BY <1>1, <1>3, <2>1 DEF Follows, Ready, next_rx_pointer
<1>6. PacketInv'
  BY <1>1, <1>2, <1>3 DEF LongInv, PacketInv, Ready, Last, next_rx_pointer
<1> QED
  BY <1>2, <1>3, <1>4, <1>5, <1>6

LEMMA OwnKeeps ==
  ASSUME LongInv, OwnSegment
  PROVE  WindowInv' /\ SegsInv' /\ PacketInv'
<1> DEFINE next == next_rx_pointer(rx_pointer)
           T == Packet
<1>1. /\ rpc = "own" /\ netif = "up" /\ rx_pointer \in Slots /\ Ready(rx_pointer)
      /\ rpc' = IF Last(rx_pointer) THEN "deliver" ELSE "take"
      /\ UNCHANGED <<rxdes2, skb>> /\ GiveBack
  BY DEF OwnSegment, AfterSegment, LongInv, RxInv, StageInv, TypeOK, PacketInv
<1>2. /\ WindowInv' /\ SegsInv' /\ Packet' = T /\ rx_pointer' = next
      /\ \A i \in Slots : i # rx_pointer =>
           rxdes0'[i] = rxdes0[i] /\ RingSegs'[i] = RingSegs[i]
  BY <1>1, GiveBackKeeps
<1>3. /\ Pieces(T) /\ skb # <<>> /\ Len(T) = Len(skb) /\ Len(skb) \in Nat
      /\ Last(rx_pointer) <=> T[Len(skb)].last
      /\ ~Last(rx_pointer) => next # rx_pointer /\ Ready(next) /\ NextPiece(T, RingSegs[next])
  BY <1>1, PacketType DEF LongInv, PacketInv
<1>4. CASE Last(rx_pointer)
  BY <1>1, <1>2, <1>3, <1>4 DEF PacketInv
<1>5. CASE ~Last(rx_pointer)
  <2>1. next \in Slots
    BY <1>1, WayOn
  <2>2. NextPiece(T, RingSegs'[next]) /\ "RDY" \in rxdes0'[next]
    BY <1>2, <1>3, <1>5, <2>1 DEF Ready
  <2>3. \A k \in 1 .. Len(skb) : ~T[k].last
    BY <1>3, <1>5 DEF Pieces
  <2> HIDE DEF next, T
  <2>4. Ready(rx_pointer)' /\ NextPiece(Packet', RingSegs'[rx_pointer'])
    BY <1>2, <2>2 DEF Ready
  <2> QED
    BY <1>1, <1>2, <1>3, <1>5, <2>3, <2>4 DEF PacketInv
<1> QED
  BY <1>2, <1>4, <1>5

LEMMA LongStep ==
  ASSUME HwRestart = {"keep"}, ~short', LongInv, [Next]_vars
  PROVE  WindowInv' /\ SegsInv' /\ PacketInv'
<1> DEFINE Kept == WindowInv' /\ SegsInv' /\ PacketInv'
<1>1. ASSUME netif' \notin {"opening", "up"}, rpc' = "idle", skb' = <<>> PROVE Kept
  BY <1>1, NoPacket DEF WindowInv, SegsInv
<1>2. ASSUME UNCHANGED <<rxdes0, rxdes2, rx_pointer, rpc, skb, netif, hwPtr, content>>
      PROVE  Kept
  BY <1>2 DEF LongInv, WindowInv, Window, SegsInv, PacketInv, Packet, RingSegs, Follows,
     Ready, Last, next_rx_pointer
<1>3. netif # "up" => rpc = "idle" /\ skb = <<>>
  BY DEF LongInv, RxInv, StageInv, PacketInv
<1>4. ASSUME NEW n \in 1 .. MaxSegs, NEW good \in BOOLEAN, NEW a \in 1 .. n,
             NEW b \in a .. n, HwReceive(a, b, n, good)
      PROVE  Kept
  <2>1. CASE netif = "up"
    BY <1>4, <2>1, ReceiveKeeps
  <2>2. CASE netif # "up"
    <3>1. UNCHANGED <<netif, rpc, skb>> /\ netif # "opening"
      BY <1>4, <2>2 DEF HwReceive, drv, ctl, LongInv, RxInv, StageInv
    <3> QED
      BY <1>1, <1>3, <2>2, <3>1
  <2> QED
    BY <2>1, <2>2
<1>5. CASE RxPoll \/ LocateNone \/ RxStart \/ RxRefuse
  <2>1. /\ UNCHANGED <<rxdes0, rxdes2, rx_pointer, skb, netif, hwPtr, content>>
        /\ rpc \in {"idle", "locate"} /\ rpc' # "own" /\ skb = <<>> /\ netif = "up"
        /\ rx_pointer \in Slots
    BY <1>5 DEF RxPoll, LocateNone, RxStart, RxRefuse, Inside, Outside, ctl, hw, LongInv,
       RxInv, StageInv, PacketInv, TypeOK
  <2>2. WindowInv' /\ SegsInv'
    <3>1. WindowInv'
      BY <2>1 DEF LongInv, WindowInv, Window, Ready
    <3>2. RingSegs' = RingSegs
      BY <2>1 DEF RingSegs
    <3>3. SegsInv'
      BY <2>1, <3>2 DEF LongInv, SegsInv, Follows, Ready, next_rx_pointer
    <3> QED
      BY <3>1, <3>3
  <2>3. CASE ~RxStart
    <3>1. rpc' \in {"idle", "locate", "drop"} /\ (rpc' = "drop" => Ready(rx_pointer)')
      BY <1>5, <2>1, <2>3 DEF RxPoll, LocateNone, RxRefuse, Ready
    <3> QED
      BY <2>1, <2>2, <3>1, NoPacket
  <2>4. CASE RxStart
    <3>1. /\ rpc' = "take" /\ Ready(rx_pointer) /\ First(rx_pointer) /\ ~RxError(rx_pointer)
      BY <2>4 DEF RxStart
    <3>2. Describes(rxdes0[rx_pointer], RingSegs[rx_pointer])
      BY <2>1, <3>1 DEF LongInv, SegsInv
    <3>3. Packet' = <<>> /\ Len(<<>>) = 0 /\ Pieces(<<>>)
      BY <2>1 DEF Packet, Pieces
    <3>4. NextPiece(<<>>, RingSegs[rx_pointer])
      BY <3>1, <3>2, <3>3 DEF NextPiece, Describes, First, RxError
    <3>5. RingSegs' = RingSegs
      BY <2>1 DEF RingSegs
    <3>6. PacketInv'
      BY <2>1, <3>1, <3>3, <3>4, <3>5 DEF PacketInv, Ready
    <3> QED
      BY <2>2, <3>6
  <2> QED
    BY <2>3, <2>4
<1>6. CASE LocateSkip \/ DropSegment
  <2>1. netif = "up"
    BY <1>6 DEF LocateSkip, DropSegment, LongInv, RxInv, StageInv
  <2> QED
    BY <1>6, <2>1, SkipKeeps
<1>7. CASE TakeSegment
  BY <1>7, TakeKeeps
<1>8. ASSUME NEW p \in Pages, Refill(p) PROVE Kept
  BY <1>8, RefillKeeps
<1>9. CASE RefillFails
  BY <1>9 DEF RefillFails
<1>10. CASE OwnSegment
  BY <1>10, OwnKeeps
<1>11. CASE Deliver
  <2>1. /\ UNCHANGED <<rxdes0, rxdes2, rx_pointer, netif, hwPtr, content>>
        /\ rpc = "deliver" /\ rpc' = "idle" /\ skb' = <<>>
    BY <1>11 DEF Deliver, Inside, Outside, ctl, hw
  <2>2. WindowInv' /\ SegsInv'
    <3>1. WindowInv'
      BY <2>1 DEF LongInv, WindowInv, Window, Ready
    <3>2. RingSegs' = RingSegs
      BY <2>1 DEF RingSegs
    <3>3. SegsInv'
      BY <2>1, <3>2 DEF LongInv, SegsInv, Follows, Ready, next_rx_pointer
    <3> QED
      BY <3>1, <3>3
  <2> QED
    BY <2>1, <2>2, NoPacket
<1>12. ASSUME NEW p \in Pages, StackFrees(p) PROVE Kept
  <2>1. /\ UNCHANGED <<rxdes0, rxdes2, rx_pointer, rpc, skb, netif, hwPtr>>
        /\ holder[p] = "stack" /\ content' = [content EXCEPT ![p] = NoSeg]
    BY <1>12 DEF StackFrees, drv, ctl, hw
  <2>2. CASE netif = "up"
    <3>1. \A i \in Slots : rxdes2[i] \in Pages /\ rxdes2[i] # p
      BY <2>1, <2>2, PagesApart, PageAssumption DEF LongInv, TrackInv, Tracked
    <3>2. \A k \in 1 .. Len(skb) : skb[k] \in Pages /\ skb[k] # p
      BY <2>1, <2>2, PagesApart DEF LongInv
    <3>3. RingSegs' = RingSegs /\ Packet' = Packet
      BY <2>1, <3>1, <3>2 DEF RingSegs, Packet, LongInv, RxInv, TypeOK
    <3>4. WindowInv' /\ SegsInv'
      BY <2>1, <3>3 DEF LongInv, WindowInv, Window, SegsInv, Follows, Ready, next_rx_pointer
    <3>5. PacketInv'
      BY <2>1, <3>3 DEF LongInv, PacketInv, Ready, Last, next_rx_pointer
    <3> QED
      BY <3>4, <3>5
  <2>3. CASE netif # "up"
    <3>1. WindowInv' /\ SegsInv'
      BY <2>1, <2>3 DEF LongInv, WindowInv, SegsInv, Ready
    <3> QED
      BY <1>3, <2>1, <2>3, <3>1, NoPacket
  <2> QED
    BY <2>2, <2>3
<1>13. CASE AllocDescs \/ (\E i \in Slots, p \in Pages : AllocPage(i, p))
  <2>1. netif # "up" /\ netif' = "opening" /\ UNCHANGED <<rpc, skb>>
    BY <1>13 DEF AllocDescs, AllocPage, drv, ctl
  <2>2. \A j \in Slots : ~Ready(j)'
    <3>1. CASE AllocDescs
      BY <3>1 DEF AllocDescs, Ready
    <3>2. ASSUME NEW i \in Slots, NEW p \in Pages, AllocPage(i, p)
          PROVE  \A j \in Slots : ~Ready(j)'
      BY <3>2 DEF AllocPage, set_dma_own, Ready, LongInv, WindowInv, RxInv, TypeOK
    <3> QED
      BY <1>13, <3>1, <3>2
  <2> QED
    BY <1>3, <2>1, <2>2, NoPacket DEF WindowInv, SegsInv
<1>14. CASE OpenFails \/ StopPoll \/ StopHw \/ StopFree
  <2>1. /\ netif' \notin {"opening", "up"} /\ UNCHANGED <<rpc, skb>>
        /\ rpc = "idle" /\ skb = <<>>
    BY <1>3, <1>14 DEF OpenFails, StopPoll, StopHw, StopFree, drv, LongInv, PacketInv
  <2> QED
    BY <1>1, <2>1
<1>15. CASE OpenDone
  <2>1. /\ netif = "opening" /\ netif' = "up" /\ rx_pointer' = 0 /\ hwPtr' = 0
        /\ UNCHANGED <<rxdes0, rpc, skb>>
    BY <1>15 DEF OpenDone
  <2>2. \A i \in Slots : "RDY" \notin rxdes0[i]
    BY <2>1 DEF LongInv, WindowInv, Ready
  <2>3. 0 \in 0 .. N /\ 0 = At(0, 0) /\ \A i \in Slots : ~(Way(0, i) < 0)
    BY Ring DEF At, Way
  <2>4. WindowInv'
    <3>1. Window(rxdes0', hwPtr', rx_pointer', 0)
      BY <2>1, <2>2, <2>3 DEF Window
    <3> QED
      BY <2>1, <2>3, <3>1 DEF WindowInv
  <2>5. SegsInv'
    BY <2>1, <2>2 DEF SegsInv, Ready
  <2> QED
    BY <1>3, <2>1, <2>4, <2>5, NoPacket
<1>16. CASE RelinkStop \/ RelinkStart
  <2>1. hwPtr' = hwPtr
    BY <1>16 DEF RelinkStop, RelinkStart
  <2> QED
    BY <1>2, <1>16, <2>1 DEF RelinkStop, RelinkStart, drv
<1>17. CASE UNCHANGED vars
  BY <1>2, <1>17 DEF vars, drv, ctl, hw
<1> QED
  BY <1>4, <1>5, <1>6, <1>7, <1>8, <1>9, <1>10, <1>11, <1>12, <1>13, <1>14, <1>15,
     <1>16, <1>17 DEF Next, HwStep, PacketStep, LifeStep

LEMMA LongInvariant ==
  ASSUME HwRestart = {"keep"}
  PROVE  Spec => [](RxInv /\ (short \/ LongInv))
<1> DEFINE Inv == short \/ LongInv
<1>1. Init => Inv
  <2> SUFFICES ASSUME Init PROVE WindowInv /\ SegsInv /\ PacketInv
    BY RxInit DEF LongInv
  <2>1. Packet = <<>> /\ Len(<<>>) = 0
    BY DEF Init, Packet
  <2>2. Pieces(<<>>)
    BY DEF Pieces
  <2> QED
    BY <2>1, <2>2 DEF Init, WindowInv, SegsInv, PacketInv
<1>2. RxInv' /\ Inv /\ [Next]_vars => Inv'
  <2> SUFFICES ASSUME RxInv', Inv, [Next]_vars, ~short' PROVE LongInv'
    OBVIOUS
  <2>1. ~short /\ LongInv
    BY ShortStays
  <2>2. TrackInv'
    BY <2>1, TrackStep DEF LongInv, RxInv
  <2>3. WindowInv' /\ SegsInv' /\ PacketInv'
    BY <2>1, LongStep
  <2> QED
    BY <2>2, <2>3 DEF LongInv
<1> HIDE DEF Inv
<1>3. Spec => []Inv
  BY <1>1, <1>2, RxInvariant, PTL DEF Spec
<1> QED
  BY <1>3, RxInvariant, PTL DEF Inv

\* Lines 458-489: frames of several pages go up whole, without error and
\* their segments in order, also when the engine abandons frames, until
\* line 475 ignores a failed refill.
THEOREM LongFramesGoUp ==
  ASSUME HwRestart = {"keep"}
  PROVE  Spec => []PacketsAreWhole
<1>1. ASSUME short \/ LongInv PROVE PacketsAreWhole
  <2> SUFFICES ASSUME rpc = "deliver", ~short PROVE skb # <<>> /\ Whole(Packet)
    BY DEF PacketsAreWhole, Packet
  <2>1. skb # <<>> /\ Pieces(Packet) /\ Packet[Len(skb)].last /\ Len(Packet) = Len(skb)
    BY <1>1, PacketType DEF LongInv, PacketInv
  <2> QED
    BY <2>1 DEF Pieces, Whole
<1> QED
  BY <1>1, LongInvariant, PTL

\* Lines 462, 757 and 1129-1131, for frames of several pages: while one of
\* them is being taken apart, the engine does not run into it; until line
\* 475 ignores a failed refill.
THEOREM LongFramesStayInRing ==
  ASSUME HwRestart = {"keep"}
  PROVE  Spec => DmaOnlyIntoRing
<1>1. (short \/ LongInv) /\ [Next]_vars => [~short => IntoRing]_vars
  <2> SUFFICES ASSUME LongInv, [Next]_vars,
                      NEW p \in Pages, content'[p] # content[p], content'[p] # NoSeg
               PROVE  holder[p] = "ring"
    BY DEF IntoRing
  <2>1. \E n \in 1 .. MaxSegs, good \in BOOLEAN :
          \E a \in 1 .. n : \E b \in a .. n : HwReceive(a, b, n, good)
    BY DmaStep DEF LongInv
  <2> QED
    BY <2>1, DmaTarget DEF LongInv, PacketInv
<1> QED
  BY <1>1, LongInvariant, PTL DEF Spec, DmaOnlyIntoRing

-----------------------------------------------------------------------------
(* The ring implements the line of RxLine.                                 *)

\* A function on 1 .. n is a sequence; what Append, Tail and SubSeq make of it.
LEMMA FunctionIsSeq ==
  ASSUME NEW S, NEW n \in Nat, NEW f \in [1 .. n -> S]
  PROVE  f \in Seq(S) /\ Len(f) = n
OBVIOUS

LEMMA TailIs ==
  ASSUME NEW S, NEW n \in Nat \ {0}, NEW f \in [1 .. n -> S],
         NEW g \in [1 .. n - 1 -> S], \A k \in 1 .. n - 1 : g[k] = f[k + 1]
  PROVE  f # <<>> /\ g = Tail(f) /\ Head(f) = f[1]
<1>1. f \in Seq(S) /\ Len(f) = n /\ g \in Seq(S) /\ Len(g) = n - 1 /\ f # <<>>
  BY FunctionIsSeq
<1>2. /\ Tail(f) \in Seq(S) /\ Len(Tail(f)) = n - 1
      /\ \A k \in 1 .. n - 1 : Tail(f)[k] = f[k + 1]
  BY <1>1, HeadTailProperties
<1>3. g = Tail(f)
  BY <1>1, <1>2, SeqEqual
<1> QED
  BY <1>1, <1>3

LEMMA PrefixIs ==
  ASSUME NEW S, NEW n \in Nat, NEW m \in Nat, n <= m,
         NEW f \in [1 .. n -> S], NEW g \in [1 .. m -> S],
         \A k \in 1 .. n : g[k] = f[k]
  PROVE  Len(f) = n /\ Len(g) = m /\ SubSeq(g, 1, Len(f)) = f
<1>1. f \in Seq(S) /\ Len(f) = n /\ g \in Seq(S) /\ Len(g) = m
  BY FunctionIsSeq
<1>2. /\ SubSeq(g, 1, n) \in Seq(S) /\ Len(SubSeq(g, 1, n)) = n
      /\ \A k \in 1 .. n : SubSeq(g, 1, n)[k] = g[k]
  BY <1>1
<1>3. SubSeq(g, 1, n) = f
  BY <1>1, <1>2, SeqEqual
<1> QED
  BY <1>1, <1>3

\* The line is what segs holds in a window of w at b, but for the c copied.
LineOf(ring, segs, b, c, w) ==
  /\ w - c \in Nat
  /\ ring \in [1 .. w - c -> Segs]
  /\ \A k \in 1 .. w - c : ring[k] = segs[At(b, c + k - 1)]

LineFacts ==
  netif = "up" => \A w \in 0 .. N : Window(rxdes0, hwPtr, rx_pointer, w) =>
    LineOf(RingLine, RingSegs, rx_pointer, Looked, w)

LEMMA WindowIsLine == LongInv => LineFacts
<1> SUFFICES ASSUME LongInv, netif = "up", NEW w \in 0 .. N,
                    Window(rxdes0, hwPtr, rx_pointer, w)
             PROVE  LineOf(RingLine, RingSegs, rx_pointer, Looked, w)
  BY DEF LineFacts
<1>1. PICK b \in Slots : b = rx_pointer
  BY DEF LongInv, RxInv, TypeOK
<1>2. ASSUME NEW k \in Slots PROVE At(b, k) \in Slots /\ (Ready(At(b, k)) <=> k < w)
  <2>1. At(b, k) \in Slots /\ Way(b, At(b, k)) = k
    BY AtSlot
  <2> QED
    BY <1>1, <2>1 DEF Window, Ready
<1>3. RunLength = w
  <2> DEFINE Run(n) == /\ \A k \in 0 .. n - 1 : Ready(At(b, k))
                       /\ n < N => ~Ready(At(b, n))
  <2>1. Run(w)
    <3>1. ASSUME NEW k \in 0 .. w - 1 PROVE Ready(At(b, k))
      <4>1. k \in Slots /\ k < w
        BY Ring
      <4> QED
        BY <1>2, <4>1
    <3>2. w < N => w \in Slots /\ ~(w < w)
      BY Ring
    <3> QED
      BY <1>2, <3>1, <3>2
  <2>2. ASSUME NEW n \in 0 .. N, Run(n) PROVE n = w
    <3>1. CASE n < w
      <4>1. n \in Slots /\ n < N
        BY <3>1, Ring
      <4> QED
        BY <1>2, <2>2, <3>1, <4>1
    <3>2. CASE n > w
      <4>1. w \in 0 .. n - 1 /\ w \in Slots /\ ~(w < w)
        BY <3>2, Ring
      <4> QED
        BY <1>2, <2>2, <4>1
    <3> QED
      BY <3>1, <3>2, Ring
  <2>3. RunLength = CHOOSE n \in 0 .. N : Run(n)
    BY <1>1 DEF RunLength
  <2> HIDE DEF Run
  <2> QED
    BY <2>1, <2>2, <2>3
<1>4. Looked \in {0, 1} /\ w - Looked \in Nat
  <2>1. CASE rpc \in {"refill", "own"}
    <3>1. Ready(b) /\ Way(b, b) = 0
      BY <1>1, <2>1, WayRound DEF LongInv, PacketInv
    <3>2. 0 < w
      BY <1>1, <3>1 DEF Window, Ready
    <3> QED
      BY <2>1, <3>2, Ring DEF Looked
  <2>2. CASE rpc \notin {"refill", "own"}
    BY <2>2, Ring DEF Looked
  <2> QED
    BY <2>1, <2>2
<1>5. PICK c \in {0, 1} : c = Looked
  BY <1>4
<1>6. ASSUME NEW k \in 1 .. w - c PROVE RingSegs[At(b, c + k - 1)] \in Segs
  <2>1. c + k - 1 \in Slots /\ c + k - 1 < w
    BY <1>4, <1>5, Ring
  <2>2. At(b, c + k - 1) \in Slots /\ Ready(At(b, c + k - 1))
        /\ Way(b, At(b, c + k - 1)) = c + k - 1
    BY <1>2, <2>1, AtSlot
  <2>3. ASSUME rpc = "own" PROVE At(b, c + k - 1) # b
    <3>1. c = 1 /\ c + k - 1 # 0
      BY <1>5, <2>3, Ring DEF Looked
    <3> QED
      BY <2>2, <3>1, WayRound
  <2> QED
    BY <1>1, <2>2, <2>3 DEF LongInv, SegsInv, Describes
<1>7. RingLine = [k \in 1 .. w - c |-> RingSegs[At(b, c + k - 1)]]
  BY <1>1, <1>3, <1>5 DEF RingLine
<1> HIDE DEF RingLine
<1>8. RingLine \in [1 .. w - c -> Segs]
      /\ \A k \in 1 .. w - c : RingLine[k] = RingSegs[At(b, c + k - 1)]
  BY <1>6, <1>7
<1>9. LineOf(RingLine, RingSegs, b, c, w)
  BY <1>4, <1>5, <1>8 DEF LineOf
<1> QED
  BY <1>1, <1>5, <1>9

\* The line after a step.
LEMMA LineThen ==
  ASSUME LineFacts', netif' = "up", NEW w \in 0 .. N,
         Window(rxdes0', hwPtr', rx_pointer', w)
  PROVE  LineOf(RingLine', RingSegs', rx_pointer', Looked', w)
BY DEF LineFacts

\* Steps that leave the descriptors alone.
LEMMA LineKept ==
  ASSUME UNCHANGED <<rxdes0, rx_pointer, netif>>, RingSegs' = RingSegs, Looked' = Looked
  PROVE  UNCHANGED RingLine
BY DEF RingLine, RunLength, Ready

\* Its second descriptor becomes the first.
LEMMA AtNext ==
  ASSUME NEW b \in Slots, NEW k \in Slots, k >= 1
  PROVE  At(next_rx_pointer(b), k - 1) = At(b, k) /\ At(b, k) # b /\ At(b, k) \in Slots
<1>1. next_rx_pointer(b) = IF b = N - 1 THEN 0 ELSE b + 1
  BY NextSlot
<1> QED
  BY <1>1, Ring DEF At

\* A piece leaves the front of the line when it is copied, and so does one
\* that goes back to the engine uncopied; one that is copied is gone.
LEMMA LineCopied ==
  ASSUME NEW L, NEW M, NEW s, NEW b \in Slots, NEW w \in 0 .. N,
         LineOf(L, s, b, 0, w), LineOf(M, s, b, 1, w)
  PROVE  L # <<>> /\ M = Tail(L) /\ Head(L) = s[b]
<1>1. w \in Nat \ {0} /\ L \in [1 .. w -> Segs] /\ M \in [1 .. w - 1 -> Segs]
  BY Ring DEF LineOf
<1>2. \A k \in 1 .. w - 1 : M[k] = L[k + 1]
  <2> SUFFICES ASSUME NEW k \in 1 .. w - 1 PROVE M[k] = L[k + 1]
    OBVIOUS
  <2>1. k + 1 \in 1 .. w /\ 0 + (k + 1) - 1 = k /\ 1 + k - 1 = k
    BY <1>1
  <2>2. M[k] = s[At(b, 1 + k - 1)] /\ L[k + 1] = s[At(b, 0 + (k + 1) - 1)]
    BY <2>1 DEF LineOf
  <2> QED
    BY <2>1, <2>2
<1>3. L[1] = s[b]
  <2>1. 1 \in 1 .. w - 0 /\ 0 + 1 - 1 = 0
    BY <1>1
  <2>2. L[1] = s[At(b, 0 + 1 - 1)]
    BY <2>1 DEF LineOf
  <2> QED
    BY <2>1, <2>2, Ring DEF At
<1> QED
  BY <1>1, <1>2, <1>3, TailIs

LEMMA LineDropped ==
  ASSUME NEW L, NEW M, NEW s, NEW t, NEW b \in Slots, NEW w \in 1 .. N,
         LineOf(L, s, b, 0, w), LineOf(M, t, next_rx_pointer(b), 0, w - 1),
         \A i \in Slots : i # b => t[i] = s[i]
  PROVE  L # <<>> /\ M = Tail(L)
<1>1. w \in Nat \ {0} /\ L \in [1 .. w -> Segs] /\ M \in [1 .. w - 1 -> Segs]
  BY Ring DEF LineOf
<1>2. \A k \in 1 .. w - 1 : M[k] = L[k + 1]
  <2> SUFFICES ASSUME NEW k \in 1 .. w - 1 PROVE M[k] = L[k + 1]
    OBVIOUS
  <2>1. /\ k + 1 \in 1 .. w - 0 /\ k \in 1 .. (w - 1) - 0 /\ k \in Slots /\ k >= 1
        /\ 0 + (k + 1) - 1 = k /\ 0 + k - 1 = k - 1
    BY <1>1, Ring
  <2>2. M[k] = t[At(next_rx_pointer(b), 0 + k - 1)] /\ L[k + 1] = s[At(b, 0 + (k + 1) - 1)]
    BY <2>1 DEF LineOf
  <2>3. At(next_rx_pointer(b), k - 1) = At(b, k) /\ At(b, k) # b /\ At(b, k) \in Slots
    BY <2>1, AtNext
  <2>4. t[At(b, k)] = s[At(b, k)]
    BY <2>3
  <2> QED
    BY <2>1, <2>2, <2>3, <2>4
<1> QED
  BY <1>1, <1>2, TailIs

LEMMA LineReturned ==
  ASSUME NEW L, NEW M, NEW s, NEW t, NEW b \in Slots, NEW w \in 1 .. N,
         LineOf(L, s, b, 1, w), LineOf(M, t, next_rx_pointer(b), 0, w - 1),
         \A i \in Slots : i # b => t[i] = s[i]
  PROVE  M = L
<1>1. w \in Nat \ {0} /\ L \in [1 .. w - 1 -> Segs] /\ M \in [1 .. w - 1 -> Segs]
  BY Ring DEF LineOf
<1>2. \A k \in 1 .. w - 1 : M[k] = L[k]
  <2> SUFFICES ASSUME NEW k \in 1 .. w - 1 PROVE M[k] = L[k]
    OBVIOUS
  <2>1. /\ k \in 1 .. (w - 1) - 0 /\ k \in Slots /\ k >= 1
        /\ 1 + k - 1 = k /\ 0 + k - 1 = k - 1
    BY <1>1, Ring
  <2>2. M[k] = t[At(next_rx_pointer(b), 0 + k - 1)] /\ L[k] = s[At(b, 1 + k - 1)]
    BY <2>1 DEF LineOf
  <2>3. At(next_rx_pointer(b), k - 1) = At(b, k) /\ At(b, k) # b /\ At(b, k) \in Slots
    BY <2>1, AtNext
  <2>4. t[At(b, k)] = s[At(b, k)]
    BY <2>3
  <2> QED
    BY <2>1, <2>2, <2>3, <2>4
<1> QED
  BY <1>1, <1>2

\* A new page in the descriptor whose segment is taken.
LEMMA LineRefilled ==
  ASSUME NEW L, NEW M, NEW s, NEW t, NEW b \in Slots, NEW w \in 1 .. N,
         LineOf(L, s, b, 1, w), LineOf(M, t, b, 1, w),
         \A i \in Slots : i # b => t[i] = s[i]
  PROVE  M = L
<1>1. w \in Nat \ {0} /\ L \in [1 .. w - 1 -> Segs] /\ M \in [1 .. w - 1 -> Segs]
  BY Ring DEF LineOf
<1>2. \A k \in 1 .. w - 1 : M[k] = L[k]
  <2> SUFFICES ASSUME NEW k \in 1 .. w - 1 PROVE M[k] = L[k]
    OBVIOUS
  <2>1. k \in Slots /\ k >= 1 /\ 1 + k - 1 = k
    BY <1>1, Ring
  <2>2. M[k] = t[At(b, 1 + k - 1)] /\ L[k] = s[At(b, 1 + k - 1)]
    BY DEF LineOf
  <2>3. t[At(b, k)] = s[At(b, k)]
    BY <2>1, AtNext
  <2> QED
    BY <2>1, <2>2, <2>3
<1> QED
  BY <1>1, <1>2

LEMMA FrontWindow ==
  ASSUME LongInv, netif = "up"
  PROVE  rx_pointer \in Slots /\ \E w \in 0 .. N : Window(rxdes0, hwPtr, rx_pointer, w)
BY DEF LongInv, RxInv, TypeOK, WindowInv

LEMMA LineArrive ==
  ASSUME ~short, LongInv, LineFacts, LineFacts', netif = "up", NEW n \in 1 .. MaxSegs,
         NEW good \in BOOLEAN, NEW a \in 1 .. n, NEW b \in a .. n, HwReceive(a, b, n, good)
  PROVE  Line!Arrive
<1>1. PICK r \in Slots : r = rx_pointer
  BY FrontWindow
<1>2. PICK m \in 1 .. N : m = b - a + 1
  <2> DEFINE k == b - a + 1
  <2>1. k \in 1 .. N
    BY Receives DEF LongInv
  <2> QED
    BY <2>1
<1>3. PICK c \in {0, 1} : c = Looked
  BY DEF Looked
<1>4. UNCHANGED <<rx_pointer, netif>> /\ Looked' = c /\ Packet' = Packet
  <2>1. UNCHANGED <<rx_pointer, netif, rpc>>
    BY DEF HwReceive, drv, ctl
  <2>2. Looked' = c
    BY <1>3, <2>1 DEF Looked
  <2>3. Packet' = Packet
    BY Receives DEF LongInv
  <2> QED
    BY <2>1, <2>2, <2>3
<1>5. PICK w \in 0 .. N : Window(rxdes0, hwPtr, r, w)
  BY <1>1, FrontWindow
<1>6. w + m \in 0 .. N /\ Window(rxdes0', hwPtr', r, w + m)
  BY <1>1, <1>2, <1>5, ReceiveKeeps
<1> DEFINE l == w - c
           v == (w + m) - c
<1>7. /\ l \in Nat /\ RingLine \in [1 .. l -> Segs]
      /\ \A k \in 1 .. l : RingLine[k] = RingSegs[At(r, c + k - 1)]
  <2>1. LineOf(RingLine, RingSegs, r, c, w)
    BY <1>1, <1>3, <1>5 DEF LineFacts
  <2> QED
    BY <2>1 DEF LineOf
<1>8. /\ v \in Nat /\ RingLine' \in [1 .. v -> Segs]
      /\ \A k \in 1 .. v : RingLine'[k] = RingSegs'[At(r, c + k - 1)]
  <2>1. LineOf(RingLine', RingSegs', r, c, w + m)
    BY <1>1, <1>4, <1>6, LineThen
  <2> QED
    BY <2>1 DEF LineOf
<1>9. v \in l + 1 .. N
  BY <1>6, <1>7, Ring
<1>10. \A k \in 1 .. l : RingLine'[k] = RingLine[k]
  <2> SUFFICES ASSUME NEW k \in 1 .. l
               PROVE  RingSegs'[At(r, c + k - 1)] = RingSegs[At(r, c + k - 1)]
    <3>1. \A k \in 1 .. l : k \in 1 .. v
      BY <1>7, <1>9, Ring
    <3> HIDE DEF l, v
    <3> QED
      BY <1>7, <1>8, <3>1
  <2>1. c + k - 1 \in Slots /\ c + k - 1 < w
    BY <1>7, Ring
  <2>2. At(r, c + k - 1) \in Slots /\ Way(r, At(r, c + k - 1)) = c + k - 1
    BY <2>1, AtSlot
  <2>3. Ready(At(r, c + k - 1))
    BY <1>5, <2>1, <2>2 DEF Window, Ready
  <2> QED
    BY <2>2, <2>3, ReceiveKeeps
<1> HIDE DEF l, v
<1>11. /\ Len(RingLine) = l /\ Len(RingLine') = v
       /\ SubSeq(RingLine', 1, Len(RingLine)) = RingLine
  BY <1>7, <1>8, <1>9, <1>10, PrefixIs, Ring
<1>12. short' = short
  BY DEF HwReceive, ctl
<1> QED
  BY <1>4, <1>8, <1>9, <1>11, <1>12 DEF Line!Arrive, Waiting, Assembly

LEMMA LineDiscard ==
  ASSUME ~short, LongInv, LineFacts, LineFacts', LocateSkip \/ DropSegment
  PROVE  Line!Discard
<1>1. /\ netif = "up" /\ rpc \in {"locate", "drop"} /\ rpc' \in {"locate", "drop", "idle"}
      /\ GiveBack /\ UNCHANGED <<rxdes2, skb>> /\ skb = <<>> /\ Ready(rx_pointer)
  BY DEF LocateSkip, DropSegment, LongInv, RxInv, StageInv, PacketInv
<1>2. PICK b \in Slots : b = rx_pointer
  BY <1>1, FrontWindow
<1>3. PICK w \in 0 .. N : Window(rxdes0, hwPtr, b, w)
  BY <1>1, <1>2, FrontWindow
<1>4. /\ Packet' = Packet /\ netif' = netif /\ rx_pointer' = next_rx_pointer(b)
      /\ w \in 1 .. N /\ w - 1 \in 0 .. N
      /\ Window(rxdes0', hwPtr', next_rx_pointer(b), w - 1)
      /\ \A i \in Slots : i # b => RingSegs'[i] = RingSegs[i]
  BY <1>1, <1>2, <1>3, GiveBackKeeps
<1>5. Looked = 0 /\ Looked' = 0 /\ Packet = <<>>
  BY <1>1 DEF Looked, Packet
<1>6. LineOf(RingLine, RingSegs, b, 0, w)
  BY <1>1, <1>2, <1>3, <1>5 DEF LineFacts
<1>7. LineOf(RingLine', RingSegs', next_rx_pointer(b), 0, w - 1)
  BY <1>1, <1>4, <1>5, LineThen
<1>8. RingLine # <<>> /\ RingLine' = Tail(RingLine)
  BY <1>4, <1>6, <1>7, LineDropped
<1>9. short' = short
  BY <1>1 DEF GiveBack, Outside, ctl
<1> QED
  BY <1>4, <1>5, <1>8, <1>9 DEF Line!Discard, Waiting, Assembly

LEMMA LineTake ==
  ASSUME ~short, LongInv, LineFacts, LineFacts', TakeSegment
  PROVE  Line!Take
<1>1. /\ netif = "up" /\ UNCHANGED <<rxdes0, rx_pointer, netif, hwPtr>>
      /\ Looked = 0 /\ Looked' = 1
  BY DEF TakeSegment, Inside, Outside, ctl, hw, Looked, LongInv, RxInv, StageInv
<1>2. PICK b \in Slots : b = rx_pointer
  BY <1>1, FrontWindow
<1>3. PICK w \in 0 .. N : Window(rxdes0, hwPtr, b, w)
  BY <1>1, <1>2, FrontWindow
<1>4. RingSegs' = RingSegs /\ Packet' = Append(Packet, RingSegs[b])
  BY <1>2, TakeKeeps
<1>5. LineOf(RingLine, RingSegs, b, 0, w)
  BY <1>1, <1>2, <1>3 DEF LineFacts
<1>6. LineOf(RingLine', RingSegs, b, 1, w)
  BY <1>1, <1>2, <1>3, <1>4, LineThen
<1>7. RingLine # <<>> /\ RingLine' = Tail(RingLine) /\ Head(RingLine) = RingSegs[b]
  BY <1>5, <1>6, LineCopied
<1>8. short' = short
  BY DEF TakeSegment, Inside, Outside, ctl
<1> QED
  BY <1>4, <1>7, <1>8 DEF Line!Take, Waiting, Assembly

LEMMA LineRefill ==
  ASSUME LongInv, LineFacts, LineFacts', (\E p \in Pages : Refill(p)) \/ OwnSegment
  PROVE  UNCHANGED <<RingLine, Packet>>
<1>1. /\ netif = "up" /\ netif' = "up" /\ rpc \in {"refill", "own"} /\ Looked = 1
      /\ Ready(rx_pointer)
  BY DEF Refill, OwnSegment, GiveBack, Inside, Outside, ctl, Looked, LongInv, RxInv,
     StageInv, PacketInv
<1>2. PICK b \in Slots : b = rx_pointer
  BY <1>1, FrontWindow
<1>3. PICK w \in 0 .. N : Window(rxdes0, hwPtr, b, w)
  BY <1>1, <1>2, FrontWindow
<1>4. w \in 1 .. N
  <2>1. Way(b, b) < w /\ Way(b, b) = 0
    BY <1>1, <1>2, <1>3, WayRound DEF Window, Ready
  <2> QED
    BY <2>1, Ring
<1>5. LineOf(RingLine, RingSegs, b, 1, w)
  BY <1>1, <1>2, <1>3 DEF LineFacts
<1>6. ASSUME NEW p \in Pages, Refill(p) PROVE UNCHANGED <<RingLine, Packet>>
  <2>1. UNCHANGED <<rxdes0, rx_pointer, hwPtr>> /\ Looked' = 1
    BY <1>6 DEF Refill, Inside, Outside, hw, Looked
  <2>2. Packet' = Packet /\ \A i \in Slots : i # b => RingSegs'[i] = RingSegs[i]
    BY <1>2, <1>6, RefillKeeps
  <2>3. LineOf(RingLine', RingSegs', b, 1, w)
    BY <1>1, <1>2, <1>3, <2>1, LineThen
  <2> QED
    BY <1>4, <1>5, <2>2, <2>3, LineRefilled
<1>7. CASE OwnSegment
  <2>1. /\ GiveBack /\ UNCHANGED <<rxdes2, skb>> /\ rpc = "own"
        /\ rpc' \in {"take", "deliver"} /\ Looked' = 0
    BY <1>7 DEF OwnSegment, AfterSegment, Looked
  <2>2. /\ Packet' = Packet /\ rx_pointer' = next_rx_pointer(b)
        /\ w - 1 \in 0 .. N /\ Window(rxdes0', hwPtr', next_rx_pointer(b), w - 1)
        /\ \A i \in Slots : i # b => RingSegs'[i] = RingSegs[i]
    BY <1>1, <1>2, <1>3, <2>1, GiveBackKeeps
  <2>3. LineOf(RingLine', RingSegs', next_rx_pointer(b), 0, w - 1)
    BY <1>1, <2>1, <2>2, LineThen
  <2> QED
    BY <1>4, <1>5, <2>2, <2>3, LineReturned
<1> QED
  BY <1>6, <1>7

LEMMA LineDeliver ==
  ASSUME ~short, LongInv, Deliver
  PROVE  Line!Deliver
<1>1. /\ UNCHANGED <<rxdes0, rxdes2, rx_pointer, netif, content>>
      /\ rpc = "deliver" /\ rpc' = "idle" /\ skb' = <<>>
  BY DEF Deliver, Inside, Outside, ctl
<1>2. /\ skb # <<>> /\ Pieces(Packet) /\ Packet[Len(skb)].last /\ Len(Packet) = Len(skb)
      /\ Packet # <<>>
  BY <1>1, PacketType DEF LongInv, PacketInv
<1>3. Line!Whole(Packet)
  BY <1>2 DEF Pieces, Line!Whole
<1>4. Packet' = <<>>
  BY <1>1 DEF Packet
<1>5. UNCHANGED RingLine
  BY <1>1, LineKept DEF RingSegs, Looked
<1>6. short' = short
  BY DEF Deliver, Inside, Outside, ctl
<1> QED
  BY <1>3, <1>4, <1>5, <1>6 DEF Line!Deliver, Waiting, Assembly

LEMMA LineStep ==
  ASSUME HwRestart = {"keep"}, ~short, ~short',
         LongInv, LongInv', LineFacts, LineFacts', [Next]_vars
  PROVE  Line!LineNext \/ UNCHANGED <<RingLine, Packet>>
<1>1. rpc = "idle" /\ rpc' = "idle" => Packet = <<>> /\ Packet' = <<>>
  <2>1. rpc = "idle" => Packet = <<>>
    BY DEF LongInv, PacketInv, Packet
  <2>2. rpc' = "idle" => Packet' = <<>>
    BY DEF LongInv, PacketInv, Packet
  <2> QED
    BY <2>1, <2>2
<1>2. /\ netif # "up" => RingLine = <<>> /\ rpc = "idle"
      /\ netif' # "up" => RingLine' = <<>> /\ rpc' = "idle"
  BY DEF RingLine, LongInv, RxInv, StageInv
<1>3. ASSUME UNCHANGED <<rxdes0, rxdes2, rx_pointer, netif, content, skb>>, Looked' = Looked
      PROVE  UNCHANGED <<RingLine, Packet>>
  BY <1>3, LineKept DEF RingSegs, Packet
<1>4. ASSUME NEW n \in 1 .. MaxSegs, NEW good \in BOOLEAN, NEW a \in 1 .. n,
             NEW b \in a .. n, HwReceive(a, b, n, good)
      PROVE  Line!LineNext \/ UNCHANGED <<RingLine, Packet>>
  <2>1. CASE netif = "up"
    BY <1>4, <2>1, LineArrive DEF Line!LineNext
  <2>2. CASE netif # "up"
    <3>1. netif' = netif
      BY <1>4 DEF HwReceive, ctl
    <3> QED
      BY <1>1, <1>2, <2>2, <3>1
  <2> QED
    BY <2>1, <2>2
<1>5. CASE RxPoll \/ LocateNone \/ RxStart \/ RxRefuse
  <2>1. UNCHANGED <<rxdes0, rxdes2, rx_pointer, netif, content, skb>> /\ Looked' = Looked
    BY <1>5 DEF RxPoll, LocateNone, RxStart, RxRefuse, Inside, Outside, ctl, Looked
  <2> QED
    BY <1>3, <2>1
<1>6. CASE LocateSkip \/ DropSegment
  BY <1>6, LineDiscard DEF Line!LineNext
<1>7. CASE TakeSegment
  BY <1>7, LineTake DEF Line!LineNext
<1>8. CASE (\E p \in Pages : Refill(p)) \/ OwnSegment
  BY <1>8, LineRefill
<1>9. CASE RefillFails
  BY <1>9 DEF RefillFails
<1>10. CASE Deliver
  BY <1>10, LineDeliver DEF Line!LineNext
<1>11. ASSUME NEW p \in Pages, StackFrees(p) PROVE UNCHANGED <<RingLine, Packet>>
  <2>1. /\ UNCHANGED <<rxdes0, rxdes2, rx_pointer, rpc, skb, netif>>
        /\ holder[p] = "stack" /\ content' = [content EXCEPT ![p] = NoSeg]
    BY <1>11 DEF StackFrees, drv, ctl
  <2>2. CASE netif = "up"
    <3>1. \A i \in Slots : rxdes2[i] \in Pages /\ rxdes2[i] # p
      BY <2>1, <2>2, PagesApart, PageAssumption DEF LongInv, TrackInv, Tracked
    <3>2. \A k \in 1 .. Len(skb) : skb[k] \in Pages /\ skb[k] # p
      BY <2>1, <2>2, PagesApart DEF LongInv
    <3>3. RingSegs' = RingSegs /\ Packet' = Packet
      BY <2>1, <3>1, <3>2 DEF RingSegs, Packet, LongInv, RxInv, TypeOK
    <3> QED
      BY <2>1, <3>3, LineKept DEF Looked
  <2>3. CASE netif # "up"
    BY <1>1, <1>2, <2>1, <2>3
  <2> QED
    BY <2>2, <2>3
<1>12. ASSUME netif # "up", netif' # "up" PROVE UNCHANGED <<RingLine, Packet>>
  BY <1>1, <1>2, <1>12
<1>13. CASE AllocDescs \/ (\E i \in Slots, p \in Pages : AllocPage(i, p)) \/ OpenFails
            \/ StopHw \/ StopFree
  BY <1>12, <1>13 DEF AllocDescs, AllocPage, OpenFails, StopHw, StopFree, ctl
<1>14. CASE OpenDone
  <2>1. /\ netif = "opening" /\ netif' = "up" /\ rx_pointer' = 0 /\ hwPtr' = 0
        /\ UNCHANGED <<rxdes0, rpc>>
    BY <1>14 DEF OpenDone
  <2>2. \A i \in Slots : "RDY" \notin rxdes0'[i]
    BY <2>1 DEF LongInv, WindowInv, Ready
  <2>3. Window(rxdes0', hwPtr', rx_pointer', 0) /\ 0 \in 0 .. N
    BY <2>1, <2>2, Ring DEF Window, At, Way
  <2>4. Looked' = 0
    BY <1>2, <2>1 DEF Looked
  <2>5. LineOf(RingLine', RingSegs', 0, 0, 0)
    BY <2>1, <2>3, <2>4, LineThen
  <2>6. RingLine' = <<>>
    BY <2>5 DEF LineOf
  <2> QED
    BY <1>1, <1>2, <2>1, <2>6
<1>15. CASE StopPoll
  <2>1. rpc = "idle" /\ rpc' = "idle" /\ netif' # "up" /\ short' = short
    BY <1>15 DEF StopPoll, drv
  <2> QED
    BY <1>1, <1>2, <2>1 DEF Line!LineNext, Line!Close, Waiting, Assembly
<1>16. CASE RelinkStop \/ RelinkStart \/ UNCHANGED vars
  BY <1>3, <1>16 DEF RelinkStop, RelinkStart, vars, drv, ctl, Looked
<1> QED
  BY <1>4, <1>5, <1>6, <1>7, <1>8, <1>9, <1>10, <1>11, <1>13, <1>14, <1>15, <1>16
  DEF Next, HwStep, PacketStep, LifeStep

\* Lines 332-491: with whatever the engine reports, and whenever the link
\* changes or the interface is closed, the receive path is the line of
\* RxLine: every segment leaves the ring once and in order, those of a frame
\* that is refused are thrown away, and one whole good frame goes up at a
\* time; for any ring and frames of any length, if the engine goes on where
\* it was (HwRestart), until line 475 ignores a failed refill.
THEOREM RingIsLine ==
  ASSUME HwRestart = {"keep"}
  PROVE  Spec => Line!LineSpec
<1> DEFINE Step == [Line!LineNext]_<<Waiting, Assembly, short>>
           Inv == RxInv /\ (short \/ LongInv)
           Facts == LongInv => LineFacts
<1>1. Init => Line!LineInit
  BY DEF Init, Line!LineInit, Waiting, Assembly, RingLine, Packet
<1>2. Facts
  BY WindowIsLine
<1>3. Inv /\ Inv' /\ Facts /\ Facts' /\ [Next]_vars => Step
  <2> SUFFICES ASSUME Inv, Inv', Facts, Facts', [Next]_vars PROVE Step
    OBVIOUS
  <2>0. short \in BOOLEAN /\ short' \in BOOLEAN
    BY DEF RxInv, TypeOK
  <2>1. CASE ~short /\ ~short'
    <3>1. LongInv /\ LongInv' /\ LineFacts /\ LineFacts'
      BY <2>1
    <3>2. Line!LineNext \/ UNCHANGED <<RingLine, Packet>>
      BY <2>1, <3>1, LineStep
    <3> QED
      BY <2>0, <2>1, <3>2 DEF Waiting, Assembly
  <2>2. CASE short'
    <3>1. short' = TRUE /\ Waiting' = <<>> /\ Assembly' = <<>>
      BY <2>0, <2>2 DEF Waiting, Assembly
    <3> QED
      BY <3>1 DEF Line!LineNext, Line!Lose
  <2>3. CASE short
    BY <2>2, <2>3, ShortStays
  <2> QED
    BY <2>1, <2>2, <2>3
<1> HIDE DEF Inv, Facts
<1>4. Spec => []Inv
  BY LongInvariant DEF Inv
<1> QED
  BY <1>1, <1>2, <1>3, <1>4, PTL DEF Spec, Line!LineSpec, Line!lineVars, Step
=============================================================================
