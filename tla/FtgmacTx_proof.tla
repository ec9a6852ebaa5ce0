--------------------------- MODULE FtgmacTx_proof ---------------------------
(***************************************************************************)
(* Proofs about FtgmacTx for every ring size and every set of skbs: facts  *)
(* about ring positions, and type correctness in all configurations.       *)
(***************************************************************************)
EXTENDS FtgmacTx, TLAPS

\* The successor of a ring position, without the remainder.
LEMMA NextPointer ==
  ASSUME NEW p \in Slots
  PROVE  /\ next_tx_pointer(p) = IF p = N - 1 THEN 0 ELSE p + 1
         /\ next_tx_pointer(p) \in Slots
<1>1. CASE p = N - 1
  <2>1. N % N = 0
    BY NAssumption
  <2> QED
    BY <1>1, <2>1, NAssumption DEF Slots, next_tx_pointer
<1>2. CASE p # N - 1
  <2>1. p + 1 \in 0 .. N - 1
    BY <1>2, NAssumption DEF Slots
  <2>2. (p + 1) % N = p + 1
    BY <2>1, NAssumption
  <2> QED
    BY <1>2, <2>1, <2>2 DEF Slots, next_tx_pointer
<1> QED
  BY <1>1, <1>2

\* Beside the types: the completion path that decrements tx_pending read it
\* as positive, and a closed interface is not being polled.
CountInv ==
  /\ ppc \in {"free", "dec"} => tx_pending > 0
  /\ netif = "down" => ppc = "idle"

TypeInv == TypeOK /\ CountInv

LEMMA FreshType == \A i \in Slots : FreshDesc(i) \in Desc
<1> TAKE i \in Slots
<1>1. (i = N - 1) \in BOOLEAN
  OBVIOUS
<1> QED
  BY <1>1, Zenon DEF FreshDesc, Desc

\* What the helpers make of a descriptor is a descriptor.
LEMMA DescFill ==
  ASSUME NEW d \in Desc, NEW s \in Skbs
  PROVE  [d EXCEPT !.skb = s, !.map = s] \in Desc
BY DEF Desc

LEMMA DescOwn ==
  ASSUME NEW d \in Desc, NEW b \in BOOLEAN
  PROVE  [d EXCEPT !.own = b] \in Desc
BY DEF Desc

LEMMA DescReset ==
  ASSUME NEW d \in Desc
  PROVE  txdes_reset(d) \in Desc
BY DEF Desc, txdes_reset

\* Writing one descriptor keeps the ring a ring.
LEMMA RingUpdate ==
  ASSUME NEW i \in Slots, NEW d \in Desc, txdes \in [Slots -> Desc],
         txdes' = [txdes EXCEPT ![i] = d]
  PROVE  txdes' \in [Slots -> Desc]
OBVIOUS

LEMMA TypeInit == Init => TypeInv
<1> SUFFICES ASSUME Init PROVE TypeInv
  OBVIOUS
<1>1. txdes \in [Slots -> Desc]
  BY FreshType DEF Init
<1>2. owner \in [Skbs -> {"stack", "driver", "sent", "freed"}]
  BY DEF Init
<1>3. 0 \in Slots /\ 0 \in 0 .. N
  BY NAssumption DEF Slots
<1> QED
  BY <1>1, <1>2, <1>3 DEF Init, TypeInv, TypeOK, CountInv

LEMMA TypeNext == TypeInv /\ [Next]_vars => TypeInv'
<1> SUFFICES ASSUME TypeInv, [Next]_vars PROVE TypeInv'
  OBVIOUS
<1> USE NAssumption DEF TypeInv, TypeOK, CountInv, Slots
<1>1. ASSUME NEW s \in Skbs, Alloc(s) PROVE TypeInv'
  BY <1>1 DEF Alloc, SetOwner, swRing, hw
<1>2. ASSUME NEW s \in Skbs, HardStartXmitDrop(s) PROVE TypeInv'
  BY <1>2 DEF HardStartXmitDrop, MayTransmit, SetOwner, swRing, hw
<1>3. ASSUME NEW s \in Skbs, HardStartXmit(s) PROVE TypeInv'
  <2>1. next_tx_pointer(tx_pointer) \in Slots
    BY NextPointer
  <2>2. txdes' \in [Slots -> Desc]
    <3> DEFINE d == [txdes[tx_pointer] EXCEPT !.skb = s, !.map = s]
    <3>1. txdes' = [txdes EXCEPT ![tx_pointer] = d]
      BY <1>3 DEF HardStartXmit
    <3>2. d \in Desc
      BY DescFill
    <3> HIDE DEF d
    <3> QED
      BY <3>1, <3>2, RingUpdate
  <2>3. owner' \in [Skbs -> {"stack", "driver", "sent", "freed"}]
    BY <1>3 DEF HardStartXmit, SetOwner
  <2>4. /\ tx_pointer' = next_tx_pointer(tx_pointer) /\ xdes' = tx_pointer
        /\ xpc' = "lock"
        /\ UNCHANGED <<tx_clean_pointer, tx_pending, xoff, netif, ppc, apc,
                       reopened, hw, isr>>
    BY <1>3 DEF HardStartXmit
  <2> QED
    BY <2>1, <2>2, <2>3, <2>4 DEF hw
<1>4. CASE XmitPend
  BY <1>4 DEF XmitPend, hw
<1>5. CASE XmitOwn
  <2>1. txdes' \in [Slots -> Desc]
    <3> DEFINE d == [txdes[xdes] EXCEPT !.own = TRUE]
    <3>1. txdes' = [txdes EXCEPT ![xdes] = d]
      BY <1>5 DEF XmitOwn
    <3>2. d \in Desc
      BY DescOwn
    <3> HIDE DEF d
    <3> QED
      BY <3>1, <3>2, RingUpdate
  <2> QED
    BY <1>5, <2>1 DEF XmitOwn, hw
<1>6. CASE XmitKick
  BY <1>6 DEF XmitKick, swRing
<1>7. CASE HwSend
  <2>1. txdes' \in [Slots -> Desc]
    <3> DEFINE d == [txdes[hwPtr] EXCEPT !.own = FALSE]
    <3>1. hwPtr \in Slots /\ txdes' = [txdes EXCEPT ![hwPtr] = d]
      BY <1>7 DEF HwSend
    <3>2. d \in Desc
      BY <3>1, DescOwn
    <3> HIDE DEF d
    <3> QED
      BY <3>1, <3>2, RingUpdate
  <2>2. owner' \in [Skbs -> {"stack", "driver", "sent", "freed"}]
    BY <1>7 DEF HwSend, SetOwner
  <2>3. hwPtr' \in 0 .. N
    BY <1>7 DEF HwSend, HwNext
  <2>4. /\ isr' = TRUE
        /\ UNCHANGED <<tx_pointer, tx_clean_pointer, tx_pending, xoff, netif,
                       xpc, xdes, ppc, apc, reopened, hwActive, hwOn>>
    BY <1>7 DEF HwSend
  <2> QED
    BY <2>1, <2>2, <2>3, <2>4
<1>8. CASE HwIdle
  BY <1>8, ZenonT(30) DEF HwIdle, swRing
<1>9. CASE PollStart
  BY <1>9 DEF PollStart, swRing, hw
<1>10. CASE CompNone
  BY <1>10 DEF CompNone, swRing, hw
<1>11. CASE CompCheck
  BY <1>11 DEF CompCheck, swRing, hw
<1>12. CASE CompFree
  <2>1. next_tx_pointer(tx_clean_pointer) \in Slots
    BY NextPointer
  <2>2. txdes' \in [Slots -> Desc]
    <3> DEFINE d == txdes_reset(CleanDesc)
    <3>1. txdes' = [txdes EXCEPT ![tx_clean_pointer] = d]
      BY <1>12 DEF CompFree
    <3>2. d \in Desc
      BY DescReset DEF CleanDesc
    <3> HIDE DEF d
    <3> QED
      BY <3>1, <3>2, RingUpdate
  <2>3. owner' \in [Skbs -> {"stack", "driver", "sent", "freed"}]
    BY <1>12 DEF CompFree, SetOwner
  <2> QED
    BY <1>12, <2>1, <2>2, <2>3 DEF CompFree, hw
<1>13. CASE CompDec
  BY <1>13 DEF CompDec, hw
<1>14. CASE CompWake
  BY <1>14 DEF CompWake, swRing, hw
<1>15. CASE AdjustStop
  BY <1>15 DEF AdjustStop, swRing
<1>16. CASE AdjustStart
  BY <1>16, ZenonT(30) DEF AdjustStart, swRing, hw
<1>17. CASE AdjustInit
  BY <1>17 DEF AdjustInit, swRing
<1>18. CASE StopQueue
  BY <1>18 DEF StopQueue, swRing, hw
<1>19. CASE StopFree
  BY <1>19 DEF StopFree, SetOwner, swRing
<1>20. CASE Open
  <2>1. txdes' \in [Slots -> Desc]
    BY <1>20, FreshType DEF Open
  <2>2. 0 \in Slots /\ 0 \in 0 .. N
    OBVIOUS
  <2> QED
    BY <1>20, <2>1, <2>2 DEF Open
<1>21. CASE UNCHANGED vars
  BY <1>21 DEF vars
<1> QED
  BY <1>1, <1>2, <1>3, <1>4, <1>5, <1>6, <1>7, <1>8, <1>9, <1>10, <1>11,
     <1>12, <1>13, <1>14, <1>15, <1>16, <1>17, <1>18, <1>19, <1>20, <1>21
  DEF Next, XmitStep, HwStep, CompStep, LinkStep

\* Every variable keeps its type in every configuration, SMP included; in
\* particular the unsigned tx_pending never wraps below zero.
THEOREM TypeCorrect == Spec => []TypeOK
<1>1. TypeInv => TypeOK
  BY DEF TypeInv
<1> QED
  BY TypeInit, TypeNext, <1>1, PTL DEF Spec
=============================================================================
