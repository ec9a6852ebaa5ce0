------------------------ MODULE FtgmacTxSafety_proof ------------------------
(***************************************************************************)
(* Safety of the transmit ring of FtgmacTx on a uniprocessor: RingInv is   *)
(* inductive, and the ring properties follow from it.  The link changes    *)
(* speed at any moment, and the DMA engine may make of its position what   *)
(* it likes when the link restarts (HwRestart is arbitrary).  The one step *)
(* after which nothing is claimed is line 822 over a full ring.  Where the *)
(* engine keeps its position, the ring is the line of TxFifo.              *)
(***************************************************************************)
EXTENDS FtgmacTx_proof, SequenceTheorems

\* Distances from the oldest descriptor identify slots; tx_pointer is the
\* slot just behind the window, or the oldest one when the ring is full.
LEMMA Window ==
  ASSUME TypeOK, PointerInv
  PROVE  /\ \A i \in Slots : Dist(i) \in 0 .. N - 1
         /\ \A i, j \in Slots : Dist(i) = Dist(j) => i = j
         /\ Dist(tx_pointer) = IF InRing = N THEN 0 ELSE InRing
         /\ Dist(tx_clean_pointer) = 0
<1>1. N \in Nat /\ N > 0 /\ tx_clean_pointer \in 0 .. N - 1 /\ InRing \in 0 .. N
  BY NAssumption DEF TypeOK, Slots, PointerInv
<1> QED
  BY <1>1 DEF Dist, PointerInv, Slots

\* A step that leaves the ring, the window, the skbs and xmit's place alone
\* preserves what is said about them.
LEMMA RingFrame ==
  ASSUME WindowInv, OwnInv, TrackInv, ppc' = "free" => ~CleanDesc.own,
         UNCHANGED <<txdes, tx_clean_pointer, owner, xdes>>,
         InRing' = InRing,
         xpc' \in {"lock", "own"} <=> xpc \in {"lock", "own"}
  PROVE  WindowInv' /\ OwnInv' /\ TrackInv'
<1>1. \A i \in Slots : Occupied(i)' = Occupied(i) /\ Filling(i)' = Filling(i)
  BY DEF Occupied, Filling, Dist
<1>2. WindowInv'
  BY <1>1 DEF WindowInv
<1>3. OwnInv'
  BY <1>1 DEF OwnInv, CleanDesc
<1>4. TrackInv'
  BY <1>1 DEF TrackInv
<1> QED
  BY <1>2, <1>3, <1>4

LEMMA RingInit == Init => RingSound
<1> SUFFICES ASSUME Init PROVE RingSound
  OBVIOUS
<1>1. InRing = 0 /\ N \in Nat \ {0}
  BY NAssumption DEF Init, InRing
<1>2. ControlInv
  BY <1>1 DEF Init, ControlInv
<1>3. PointerInv /\ QueueInv
  BY <1>1 DEF Init, PointerInv, QueueInv
<1>4. \A i \in Slots : ~Occupied(i) /\ ~Filling(i)
  BY <1>1 DEF Init, Occupied, Filling, Dist, Slots
<1>5. WindowInv
  BY <1>4 DEF WindowInv, Init
<1>6. OwnInv
  BY <1>4 DEF OwnInv, Init
<1>7. TrackInv
  BY <1>4 DEF TrackInv, Init
<1> QED
  BY <1>2, <1>3, <1>5, <1>6, <1>7 DEF RingSound, Init

\* The stack allocates an skb, or xmit drops one: only owner changes, and
\* not for an skb the driver holds.
LEMMA StackStep ==
  ASSUME TypeInv, RingSound, NEW s \in Skbs,
         owner[s] \in {"stack", "freed"},
         \E w \in {"stack", "freed"} : owner' = SetOwner({s}, w),
         UNCHANGED <<swRing, xoff, netif, xpc, xdes, ppc, apc, reopened>>
  PROVE  RingSound'
<1>0. InRing' = InRing /\ ControlInv' = ControlInv
  BY DEF InRing, ControlInv, swRing
<1>1. \A t \in Skbs : \/ owner'[t] = owner[t]
                      \/ /\ owner[t] \notin {"driver", "sent"}
                         /\ owner'[t] \notin {"driver", "sent"}
  BY DEF SetOwner, TypeInv, TypeOK
<1>2. CASE netif = "down"
  BY <1>0, <1>1, <1>2 DEF RingSound
<1>3. CASE netif # "down"
  <2>1. \A i \in Slots : Occupied(i)' = Occupied(i) /\ Filling(i)' = Filling(i)
    BY <1>0 DEF Occupied, Filling, Dist, swRing
  <2>2. PointerInv' /\ QueueInv'
    BY <1>0, <1>3 DEF RingSound, PointerInv, QueueInv, Dist, swRing
  <2>3. WindowInv'
    BY <2>1, <1>1, <1>3 DEF RingSound, WindowInv, swRing
  <2>4. OwnInv'
    BY <2>1, <1>1, <1>3 DEF RingSound, OwnInv, WindowInv, swRing, CleanDesc
  <2>5. TrackInv'
    BY <2>1, <1>1, <1>3 DEF RingSound, TrackInv, swRing
  <2> QED
    BY <1>0, <1>3, <2>2, <2>3, <2>4, <2>5 DEF RingSound
<1> QED
  BY <1>2, <1>3

\* xmit takes the descriptor at tx_pointer: the window grows by that slot.
LEMMA HardStartXmitStep ==
  ASSUME TypeInv, RingSound, SMP = FALSE, NEW s \in Skbs, HardStartXmit(s)
  PROVE  RingSound'
<1> USE DEF HardStartXmit, MayTransmit, XmitMayRun, hw
<1>1. netif = "up" /\ ~xoff /\ ppc = "idle" /\ xpc = "idle" /\ owner[s] = "stack"
  OBVIOUS
<1>2. PointerInv /\ QueueInv /\ WindowInv /\ OwnInv /\ TrackInv /\ ControlInv
  BY <1>1 DEF RingSound
<1>3. InRing < N /\ InRing \in 0 .. N /\ InRing' = InRing + 1 /\ N \in Nat \ {0}
  BY <1>1, <1>2, NAssumption DEF QueueInv, InRing, PointerInv, TypeInv, TypeOK
<1>4. /\ tx_pointer \in Slots /\ tx_clean_pointer \in Slots
      /\ tx_pointer' = IF tx_pointer = N - 1 THEN 0 ELSE tx_pointer + 1
  BY NextPointer DEF TypeInv, TypeOK
<1>5. Dist(tx_pointer) = InRing /\ ~Occupied(tx_pointer)
  BY <1>2, <1>3, Window DEF TypeInv, Occupied
<1>6. \A i \in Slots : /\ Dist(i)' = Dist(i)
                       /\ Occupied(i)' <=> Occupied(i) \/ i = tx_pointer
                       /\ Filling(i)' <=> i = tx_pointer
                       /\ ~Filling(i)
  <2>1. \A i \in Slots : Dist(i)' = Dist(i)
    BY DEF Dist
  <2>2. \A i \in Slots : Dist(i) \in 0 .. N - 1 /\ (Dist(i) = InRing => i = tx_pointer)
    BY <1>2, <1>4, <1>5, Window DEF TypeInv
  <2> QED
    BY <1>1, <1>3, <1>5, <2>1, <2>2 DEF Occupied, Filling
<1>7. /\ \A i \in Slots : i # tx_pointer => txdes'[i] = txdes[i]
      /\ txdes[tx_pointer] = FreshDesc(tx_pointer)
      /\ txdes'[tx_pointer].own = FALSE
      /\ txdes'[tx_pointer].edotr = (tx_pointer = N - 1)
      /\ txdes'[tx_pointer].skb = s /\ txdes'[tx_pointer].map = s
  <2>1. txdes[tx_pointer] = FreshDesc(tx_pointer)
    BY <1>2, <1>4, <1>5 DEF WindowInv
  <2> QED
    BY <1>4, <2>1 DEF FreshDesc, TypeInv, TypeOK
<1>8. owner'[s] = "driver" /\ \A t \in Skbs : t # s => owner'[t] = owner[t]
  BY DEF SetOwner
<1>9. \A i \in Slots : Occupied(i) => txdes[i].skb \in Skbs /\ txdes[i].skb # s
  BY <1>1, <1>2 DEF WindowInv
<1>10. ControlInv'
  BY <1>1, <1>2, <1>3 DEF ControlInv
<1>11. PointerInv'
  BY <1>1, <1>2, <1>3, <1>4, <1>5, <1>6 DEF PointerInv, Slots
<1>12. QueueInv'
  BY <1>1 DEF QueueInv
<1>p. ppc' = "idle" /\ netif' = "up"
  BY <1>1
<1>s. s \in Skbs
  OBVIOUS
<1> HIDE DEF HardStartXmit, MayTransmit, XmitMayRun, hw
<1>13. WindowInv'
  <2> SUFFICES ASSUME NEW i \in Slots
               PROVE  IF Occupied(i)'
                      THEN /\ txdes'[i].edotr = (i = N - 1)
                           /\ txdes'[i].skb \in Skbs /\ txdes'[i].map = txdes'[i].skb
                           /\ owner'[txdes'[i].skb] \in {"driver", "sent"}
                      ELSE txdes'[i] = FreshDesc(i)
    BY DEF WindowInv, FreshDesc
  <2>1. CASE i = tx_pointer
    BY <2>1, <1>6, <1>7, <1>8, <1>s
  <2>2. CASE i # tx_pointer
    BY <2>2, <1>2, <1>6, <1>7, <1>8, <1>9 DEF WindowInv
  <2> QED
    BY <2>1, <2>2
<1>14. OwnInv'
  <2>1. ASSUME NEW i \in Slots, Occupied(i)'
        PROVE  owner'[txdes'[i].skb] = "driver" <=> txdes'[i].own \/ Filling(i)'
    <3>1. CASE i = tx_pointer
      BY <3>1, <1>6, <1>7, <1>8
    <3>2. CASE i # tx_pointer
      BY <2>1, <3>2, <1>2, <1>6, <1>7, <1>8, <1>9 DEF OwnInv
    <3> QED
      BY <3>1, <3>2
  <2>2. \A i \in Slots : Filling(i)' => ~txdes'[i].own
    BY <1>6, <1>7
  <2> QED
    BY <1>p, <2>1, <2>2 DEF OwnInv
<1>15. TrackInv'
  <2>1. ASSUME NEW t \in Skbs, owner'[t] \in {"driver", "sent"}
        PROVE  \E i \in Slots : Occupied(i)' /\ txdes'[i].skb = t
    <3>1. CASE t = s
      BY <3>1, <1>4, <1>6, <1>7
    <3>2. CASE t # s
      <4>1. PICK i \in Slots : Occupied(i) /\ txdes[i].skb = t
        BY <2>1, <3>2, <1>2, <1>8 DEF TrackInv
      <4> QED
        BY <4>1, <1>5, <1>6, <1>7
    <3> QED
      BY <3>1, <3>2
  <2>2. ASSUME NEW i \in Slots, NEW j \in Slots, Occupied(i)', Occupied(j)',
               txdes'[i].skb = txdes'[j].skb
        PROVE  i = j
    <3>1. CASE i # tx_pointer /\ j # tx_pointer
      BY <2>2, <3>1, <1>2, <1>6, <1>7 DEF TrackInv
    <3>2. CASE i = tx_pointer \/ j = tx_pointer
      BY <2>2, <3>2, <1>6, <1>7, <1>9
    <3> QED
      BY <3>1, <3>2
  <2> QED
    BY <2>1, <2>2 DEF TrackInv
<1> QED
  BY <1>p, <1>10, <1>11, <1>12, <1>13, <1>14, <1>15 DEF RingSound

\* xmit counts the descriptor; the last one stops the queue.
LEMMA XmitPendStep ==
  ASSUME TypeInv, RingSound, XmitPend
  PROVE  RingSound'
<1> USE DEF XmitPend, hw
<1>1. netif = "up" /\ ppc = "idle"
  BY DEF RingSound, ControlInv, TypeInv, TypeOK
<1>2. ControlInv /\ PointerInv /\ QueueInv /\ WindowInv /\ OwnInv /\ TrackInv
  BY <1>1 DEF RingSound
<1>3. InRing' = InRing /\ InRing = tx_pending + 1
  BY <1>1 DEF InRing, TypeInv, TypeOK
<1>4. ControlInv'
  BY <1>1, <1>2, <1>3 DEF ControlInv
<1>5. PointerInv' /\ QueueInv'
  BY <1>1, <1>2, <1>3 DEF PointerInv, QueueInv, Dist
<1>6. WindowInv' /\ OwnInv' /\ TrackInv'
  BY <1>1, <1>2, <1>3, RingFrame
<1> QED
  BY <1>1, <1>4, <1>5, <1>6 DEF RingSound

\* xmit hands the descriptor over: OWN takes the place of Filling.
LEMMA XmitOwnStep ==
  ASSUME TypeInv, RingSound, XmitOwn
  PROVE  RingSound'
<1> USE DEF XmitOwn, hw
<1>1. netif = "up" /\ ppc = "idle" /\ xdes \in Slots
  BY DEF RingSound, ControlInv, TypeInv, TypeOK
<1>2. ControlInv /\ PointerInv /\ QueueInv /\ WindowInv /\ OwnInv /\ TrackInv
  BY <1>1 DEF RingSound
<1>3. InRing' = InRing
  BY <1>1 DEF InRing
<1>4. Occupied(xdes)
  BY <1>2 DEF PointerInv, Occupied
<1>5. \A i \in Slots : Occupied(i)' = Occupied(i) /\ ~Filling(i)' /\ (Filling(i) <=> i = xdes)
  BY <1>3 DEF Occupied, Filling, Dist
<1>6. /\ \A i \in Slots : i # xdes => txdes'[i] = txdes[i]
      /\ txdes'[xdes] = [txdes[xdes] EXCEPT !.own = TRUE]
      /\ txdes'[xdes].own
      /\ txdes'[xdes].skb = txdes[xdes].skb
      /\ txdes'[xdes].map = txdes[xdes].map
      /\ txdes'[xdes].edotr = txdes[xdes].edotr
  BY <1>1 DEF TypeInv, TypeOK, Desc
<1>7. ControlInv' /\ PointerInv' /\ QueueInv'
  BY <1>1, <1>2, <1>3 DEF ControlInv, PointerInv, QueueInv, Dist
<1>8. WindowInv'
  BY <1>2, <1>4, <1>5, <1>6 DEF WindowInv, FreshDesc
<1>9. OwnInv'
  BY <1>1, <1>2, <1>4, <1>5, <1>6 DEF OwnInv
<1>10. TrackInv'
  BY <1>2, <1>5, <1>6 DEF TrackInv
<1> QED
  BY <1>1, <1>7, <1>8, <1>9, <1>10 DEF RingSound

\* The engine transmits the skb of a descriptor it owns and hands it back.
LEMMA HwSendStep ==
  ASSUME TypeInv, RingSound, HwSend
  PROVE  RingSound'
<1> DEFINE d == txdes[hwPtr]
<1>0. /\ UNCHANGED <<tx_pointer, tx_clean_pointer, tx_pending, xoff, netif,
                     xpc, xdes, ppc, apc, reopened>>
      /\ hwPtr \in Slots /\ d.own
      /\ txdes' = [txdes EXCEPT ![hwPtr].own = FALSE]
      /\ owner' = SetOwner({s \in Skbs : s = d.map /\ owner[s] = "driver"}, "sent")
  BY DEF HwSend
<1>1. InRing' = InRing /\ ControlInv'
  BY <1>0 DEF InRing, RingSound, ControlInv
<1>2. CASE netif = "down"
  <2>1. \A s \in Skbs : owner'[s] = owner[s]
    BY <1>0, <1>2 DEF RingSound, SetOwner, TypeInv, TypeOK
  <2> QED
    BY <1>0, <1>1, <1>2, <2>1 DEF RingSound
<1>3. CASE netif # "down"
  <2>1. PointerInv /\ QueueInv /\ WindowInv /\ OwnInv /\ TrackInv
    BY <1>3 DEF RingSound
  <2>2. Occupied(hwPtr) /\ d.skb \in Skbs /\ d.map = d.skb /\ owner[d.skb] = "driver"
    <3>1. Occupied(hwPtr)
      <4>1. FreshDesc(hwPtr).own = FALSE
        BY DEF FreshDesc
      <4> QED
        BY <1>0, <2>1, <4>1 DEF WindowInv
    <3> QED
      BY <1>0, <2>1, <3>1 DEF WindowInv, OwnInv
  <2>3. /\ owner'[d.skb] = "sent"
        /\ \A t \in Skbs : t # d.skb => owner'[t] = owner[t]
    BY <1>0, <2>2 DEF SetOwner
  <2>4. /\ \A i \in Slots : i # hwPtr => txdes'[i] = txdes[i]
        /\ txdes'[hwPtr].own = FALSE
        /\ txdes'[hwPtr].skb = d.skb
        /\ txdes'[hwPtr].map = d.map
        /\ txdes'[hwPtr].edotr = d.edotr
    BY <1>0 DEF TypeInv, TypeOK, Desc
  <2>5. \A i \in Slots : Occupied(i)' = Occupied(i) /\ Filling(i)' = Filling(i)
    BY <1>0, <1>1 DEF Occupied, Filling, Dist
  <2>6. \A i \in Slots : Occupied(i) /\ i # hwPtr => txdes[i].skb \in Skbs /\ txdes[i].skb # d.skb
    BY <1>0, <2>1, <2>2 DEF WindowInv, TrackInv
  <2>7. PointerInv' /\ QueueInv'
    BY <1>0, <1>1, <2>1 DEF PointerInv, QueueInv, Dist
  <2>8. WindowInv'
    BY <2>1, <2>2, <2>3, <2>4, <2>5, <2>6 DEF WindowInv, FreshDesc
  <2>9. OwnInv'
    <3>1. \A i \in Slots : Occupied(i)' =>
            (owner'[txdes'[i].skb] = "driver" <=> txdes'[i].own \/ Filling(i)')
      BY <1>0, <2>1, <2>2, <2>3, <2>4, <2>5, <2>6 DEF OwnInv
    <3>2. \A i \in Slots : Filling(i)' => ~txdes'[i].own
      BY <2>1, <2>4, <2>5 DEF OwnInv
    <3>3. ppc = "free" => ~txdes'[tx_clean_pointer].own
      BY <2>1, <2>4 DEF OwnInv, CleanDesc, TypeInv, TypeOK
    <3> QED
      BY <1>0, <3>1, <3>2, <3>3 DEF OwnInv, CleanDesc
  <2>10. TrackInv'
    BY <2>1, <2>2, <2>3, <2>4, <2>5 DEF TrackInv
  <2> QED
    BY <1>0, <1>1, <1>3, <2>7, <2>8, <2>9, <2>10 DEF RingSound
<1> QED
  BY <1>2, <1>3

\* The completion frees the oldest skb: the window shrinks by that slot.
LEMMA CompFreeStep ==
  ASSUME TypeInv, RingSound, CompFree
  PROVE  RingSound'
<1> DEFINE c == tx_clean_pointer
           d == CleanDesc
<1>0. /\ UNCHANGED <<tx_pointer, tx_pending, xoff, netif, xpc, xdes, apc,
                     reopened>>
      /\ ppc = "free"
      /\ owner' = SetOwner({d.skb}, "freed")
      /\ txdes' = [txdes EXCEPT ![c] = txdes_reset(d)]
      /\ c' = next_tx_pointer(c)
      /\ ppc' = IF d.skb = NoSkb THEN "oops" ELSE "dec"
  BY DEF CompFree
<1>1. netif # "down" /\ xpc = "idle"
  BY <1>0 DEF RingSound, ControlInv
<1>2. ControlInv /\ PointerInv /\ QueueInv /\ WindowInv /\ OwnInv /\ TrackInv
  BY <1>1 DEF RingSound
<1>3. InRing \in 1 .. N /\ N \in Nat \ {0} /\ Dist(c) = 0 /\ c \in Slots
  BY <1>0, <1>2, Window, NAssumption DEF PointerInv, TypeInv, TypeOK
<1>4. Occupied(c) /\ d.skb \in Skbs /\ ~d.own /\ d.edotr = (c = N - 1)
  BY <1>0, <1>2, <1>3 DEF Occupied, WindowInv, OwnInv, CleanDesc
<1>5. ppc' = "dec" /\ InRing' = InRing - 1
  BY <1>0, <1>1, <1>3, <1>4, SkbAssumption DEF InRing, TypeInv, TypeOK
<1>6. c' = IF c = N - 1 THEN 0 ELSE c + 1
  BY <1>0, <1>3, NextPointer
<1>7. \A i \in Slots : /\ Dist(i) \in 0 .. N - 1
                       /\ Dist(i)' = IF i = c THEN N - 1 ELSE Dist(i) - 1
                       /\ i # c => Dist(i) > 0
  <2>1. \A i \in Slots : Dist(i) \in 0 .. N - 1
    BY <1>2, Window DEF TypeInv
  <2> QED
    BY <1>3, <1>6, <2>1 DEF Dist, Slots
<1>8. \A i \in Slots : /\ Occupied(i)' <=> Occupied(i) /\ i # c
                       /\ ~Filling(i)'
  BY <1>0, <1>1, <1>3, <1>5, <1>7 DEF Occupied, Filling
<1>9. /\ \A i \in Slots : i # c => txdes'[i] = txdes[i]
      /\ txdes'[c] = FreshDesc(c)
  <2>1. txdes_reset(d) = FreshDesc(c)
    BY <1>4 DEF txdes_reset, FreshDesc
  <2>2. txdes' = [txdes EXCEPT ![c] = FreshDesc(c)]
    BY <1>0, <2>1
  <2> HIDE DEF c, d
  <2> QED
    BY <1>3, <2>2 DEF TypeInv, TypeOK
<1>10. owner'[d.skb] = "freed" /\ \A t \in Skbs : t # d.skb => owner'[t] = owner[t]
  BY <1>0, <1>4 DEF SetOwner
<1>11. \A i \in Slots : Occupied(i) /\ i # c => txdes[i].skb \in Skbs /\ txdes[i].skb # d.skb
  BY <1>2, <1>3, <1>4 DEF WindowInv, TrackInv, CleanDesc
<1>12. ControlInv'
  BY <1>0, <1>1, <1>2, <1>5 DEF ControlInv
<1>13. PointerInv'
  BY <1>0, <1>1, <1>2, <1>3, <1>5, <1>6 DEF PointerInv, Slots
<1>14. QueueInv'
  BY <1>3, <1>5 DEF QueueInv
<1>15. WindowInv'
  <2>1. ASSUME NEW i \in Slots, Occupied(i)'
        PROVE  /\ txdes'[i].edotr = (i = N - 1)
               /\ txdes'[i].skb \in Skbs /\ txdes'[i].map = txdes'[i].skb
               /\ owner'[txdes'[i].skb] \in {"driver", "sent"}
    <3>1. Occupied(i) /\ i # c
      BY <1>8, <2>1
    <3>2. txdes'[i] = txdes[i]
      BY <1>9, <3>1
    <3>3. owner'[txdes[i].skb] = owner[txdes[i].skb]
      BY <1>10, <1>11, <3>1
    <3> QED
      BY <1>2, <3>1, <3>2, <3>3 DEF WindowInv
  <2>2. ASSUME NEW i \in Slots, ~Occupied(i)'
        PROVE  txdes'[i] = FreshDesc(i)
    <3>1. CASE i = c
      BY <1>9, <3>1
    <3>2. CASE i # c
      <4>1. ~Occupied(i)
        BY <1>8, <2>2, <3>2
      <4>2. txdes[i] = FreshDesc(i)
        BY <1>2, <4>1 DEF WindowInv
      <4> QED
        BY <1>9, <3>2, <4>2
    <3> QED
      BY <3>1, <3>2
  <2> QED
    BY <2>1, <2>2 DEF WindowInv
<1>16. OwnInv'
  <2>1. ASSUME NEW i \in Slots, Occupied(i)'
        PROVE  owner'[txdes'[i].skb] = "driver" <=> txdes'[i].own \/ Filling(i)'
    BY <1>1, <2>1, <1>2, <1>8, <1>9, <1>10, <1>11 DEF OwnInv, Filling
  <2> QED
    BY <1>5, <1>8, <2>1 DEF OwnInv
<1>17. TrackInv'
  BY <1>2, <1>4, <1>8, <1>9, <1>10 DEF TrackInv, CleanDesc
<1> QED
  BY <1>0, <1>1, <1>12, <1>13, <1>14, <1>15, <1>16, <1>17 DEF RingSound

\* The steps that leave the ring and the skbs alone.
LEMMA QuietStep ==
  ASSUME TypeInv, RingSound, SMP = FALSE, ~reopened',
         \/ XmitKick \/ HwIdle \/ PollStart \/ CompNone \/ CompCheck
         \/ CompDec \/ CompWake \/ AdjustStop \/ AdjustStart \/ AdjustInit
         \/ StopQueue \/ UNCHANGED vars
  PROVE  RingSound'
<1> USE DEF PollMayRun, TaskMayRun
<1>1. UNCHANGED <<txdes, tx_pointer, tx_clean_pointer, owner, xdes>>
  BY DEF XmitKick, HwIdle, PollStart, CompNone, CompCheck, CompDec, CompWake,
         AdjustStop, AdjustStart, AdjustInit, StopQueue, vars, swRing
<1>2. /\ xpc' \in {"lock", "own"} <=> xpc \in {"lock", "own"}
      /\ xpc' = "lock" <=> xpc = "lock"
  BY DEF XmitKick, HwIdle, PollStart, CompNone, CompCheck, CompDec, CompWake,
         AdjustStop, AdjustStart, AdjustInit, StopQueue, vars
<1>3. InRing' = InRing
  BY <1>2 DEF XmitKick, HwIdle, PollStart, CompNone, CompCheck, CompDec,
         CompWake, AdjustStop, AdjustStart, AdjustInit, StopQueue, vars, swRing,
         InRing, TypeInv, TypeOK
<1>4. ControlInv /\ (netif = "down" <=> netif' = "down")
  BY DEF RingSound, XmitKick, HwIdle, PollStart, CompNone, CompCheck, CompDec,
         CompWake, AdjustStop, AdjustStart, AdjustInit, StopQueue, vars
<1>5. CASE netif = "down"
  <2>1. ControlInv'
    BY <1>3, <1>4, <1>5 DEF ControlInv, XmitKick, HwIdle, PollStart, CompNone,
       CompCheck, CompDec, CompWake, AdjustStop, AdjustStart, AdjustInit,
       StopQueue, vars
  <2> QED
    BY <1>1, <1>4, <1>5, <2>1 DEF RingSound
<1>6. CASE netif # "down"
  <2>0. PointerInv /\ QueueInv /\ WindowInv /\ OwnInv /\ TrackInv
    BY <1>6 DEF RingSound
  <2>1. ppc' = "free" => ~CleanDesc.own /\ InRing > 0
    BY <1>4, <2>0 DEF XmitKick, HwIdle, PollStart, CompNone, CompCheck, CompDec,
       CompWake, AdjustStop, AdjustStart, AdjustInit, StopQueue, vars, InRing,
       OwnInv, PointerInv, ControlInv, TypeInv, TypeOK
  <2>2. WindowInv' /\ OwnInv' /\ TrackInv'
    BY <1>1, <1>2, <1>3, <2>0, <2>1, RingFrame
  <2>3. PointerInv'
    BY <1>1, <1>2, <1>3, <2>0, <2>1 DEF PointerInv, Dist
  <2>4. ControlInv' /\ QueueInv'
    <3>1. CASE XmitKick
      BY <1>3, <1>4, <2>0, <3>1 DEF XmitKick, ControlInv, QueueInv
    <3>2. CASE HwIdle
      BY <1>3, <1>4, <2>0, <3>2 DEF HwIdle, ControlInv, QueueInv
    <3>3. CASE PollStart
      BY <1>3, <1>4, <2>0, <3>3 DEF PollStart, ControlInv, QueueInv
    <3>4. CASE CompNone
      BY <1>3, <1>4, <2>0, <3>4 DEF CompNone, ControlInv, QueueInv
    <3>5. CASE CompCheck
      BY <1>3, <1>4, <2>0, <3>5 DEF CompCheck, ControlInv, QueueInv, InRing,
         TypeInv, TypeOK
    <3>6. CASE CompDec
      BY <1>3, <1>4, <2>0, <3>6 DEF CompDec, ControlInv, QueueInv
    <3>7. CASE CompWake
      <4>1. InRing # N
        BY <2>0, <3>7, NAssumption DEF CompWake, QueueInv, PointerInv
      <4> QED
        BY <1>3, <1>4, <2>0, <3>7, <4>1 DEF CompWake, ControlInv, QueueInv
    <3>8. CASE AdjustStop
      BY <1>3, <1>4, <2>0, <3>8 DEF AdjustStop, ControlInv, QueueInv
    <3>9. CASE AdjustStart
      <4>1. xpc = "idle" /\ ppc = "idle"
        BY <3>9 DEF AdjustStart
      <4>2. ~(tx_pending >= N)
        BY <3>9, Zenon DEF AdjustStart
      <4>3. InRing = tx_pending /\ tx_pending < N
        BY <4>1, <4>2, NAssumption DEF InRing, TypeInv, TypeOK
      <4> QED
        BY <1>3, <1>4, <2>0, <3>9, <4>1, <4>3, NAssumption
        DEF AdjustStart, ControlInv, QueueInv
    <3>10. CASE AdjustInit
      BY <1>3, <1>4, <2>0, <3>10 DEF AdjustInit, ControlInv, QueueInv
    <3>11. CASE StopQueue
      BY <1>3, <1>4, <2>0, <3>11 DEF StopQueue, ControlInv, QueueInv
    <3>12. CASE UNCHANGED vars
      BY <1>3, <1>4, <2>0, <3>12 DEF vars, ControlInv, QueueInv
    <3> QED
      BY <3>1, <3>2, <3>3, <3>4, <3>5, <3>6, <3>7, <3>8, <3>9, <3>10, <3>11, <3>12
  <2> QED
    BY <1>4, <1>6, <2>2, <2>3, <2>4 DEF RingSound
<1> QED
  BY <1>5, <1>6

\* stop frees every skb a descriptor names: none stays with the driver.
LEMMA StopFreeStep ==
  ASSUME TypeInv, RingSound, StopFree
  PROVE  RingSound'
<1>1. TrackInv /\ ControlInv
  BY DEF StopFree, RingSound
<1>2. ASSUME NEW s \in Skbs PROVE owner'[s] \notin {"driver", "sent"}
  <2>1. CASE s \in {txdes[i].skb : i \in Slots}
    BY <2>1 DEF StopFree, SetOwner
  <2>2. CASE s \notin {txdes[i].skb : i \in Slots}
    BY <1>1, <2>2 DEF StopFree, SetOwner, TrackInv
  <2> QED
    BY <2>1, <2>2
<1>3. ControlInv'
  BY <1>1 DEF StopFree, ControlInv, swRing, InRing
<1> QED
  BY <1>2, <1>3 DEF StopFree, RingSound

\* open starts from an empty ring.
LEMMA OpenStep ==
  ASSUME TypeInv, RingSound, Open
  PROVE  RingSound'
<1>1. /\ ppc = "idle" /\ apc = "idle" /\ xpc = "idle" /\ netif = "down"
      /\ \A s \in Skbs : owner[s] \notin {"driver", "sent"}
  BY DEF Open, RingSound, ControlInv
<1>2. /\ ppc' = "idle" /\ apc' = "idle" /\ xpc' = "idle" /\ netif' = "up"
      /\ tx_pointer' = 0 /\ tx_clean_pointer' = 0 /\ tx_pending' = 0
      /\ owner' = owner
      /\ txdes' = [i \in Slots |-> FreshDesc(i)]
  BY <1>1 DEF Open
<1>3. InRing' = 0 /\ N \in Nat \ {0}
  BY <1>2, NAssumption DEF InRing
<1>4. ControlInv'
  BY <1>2 DEF ControlInv
<1>5. PointerInv' /\ QueueInv'
  BY <1>2, <1>3 DEF PointerInv, QueueInv
<1>6. \A i \in Slots : ~Occupied(i)' /\ ~Filling(i)'
  BY <1>2, <1>3 DEF Occupied, Filling, Dist, Slots
<1>7. WindowInv'
  BY <1>2, <1>6 DEF WindowInv, FreshDesc
<1>8. OwnInv'
  BY <1>2, <1>6 DEF OwnInv
<1>9. TrackInv'
  BY <1>1, <1>2, <1>6 DEF TrackInv
<1> QED
  BY <1>2, <1>4, <1>5, <1>7, <1>8, <1>9 DEF RingSound

LEMMA RingNext ==
  ASSUME TypeInv, RingSound, SMP = FALSE, [Next]_vars, ~reopened'
  PROVE  RingSound'
<1>1. ASSUME NEW s \in Skbs, Alloc(s) \/ HardStartXmitDrop(s) PROVE RingSound'
  <2>1. \E w \in {"stack", "freed"} : owner' = SetOwner({s}, w)
    BY <1>1 DEF Alloc, HardStartXmitDrop
  <2>2. /\ owner[s] \in {"stack", "freed"}
        /\ UNCHANGED <<swRing, xoff, netif, xpc, xdes, ppc, apc, reopened>>
    BY <1>1 DEF Alloc, HardStartXmitDrop, MayTransmit
  <2> QED
    BY <2>1, <2>2, StackStep
<1>2. ASSUME NEW s \in Skbs, HardStartXmit(s) PROVE RingSound'
  BY <1>2, HardStartXmitStep
<1>3. CASE XmitPend
  BY <1>3, XmitPendStep
<1>4. CASE XmitOwn
  BY <1>4, XmitOwnStep
<1>5. CASE HwSend
  BY <1>5, HwSendStep
<1>6. CASE CompFree
  BY <1>6, CompFreeStep
<1>7. CASE StopFree
  BY <1>7, StopFreeStep
<1>8. CASE Open
  BY <1>8, OpenStep
<1>9. CASE \/ XmitKick \/ HwIdle \/ PollStart \/ CompNone \/ CompCheck
           \/ CompDec \/ CompWake \/ AdjustStop \/ AdjustStart \/ AdjustInit
           \/ StopQueue \/ UNCHANGED vars
  BY <1>9, QuietStep
<1> QED
  BY <1>1, <1>2, <1>3, <1>4, <1>5, <1>6, <1>7, <1>8, <1>9
  DEF Next, XmitStep, HwStep, CompStep, LinkStep

\* What line 822 has done to a full ring is not undone.
LEMMA ReopenedStays == TypeInv /\ reopened /\ [Next]_vars => reopened'
<1> SUFFICES ASSUME TypeInv, reopened, [Next]_vars PROVE reopened'
  OBVIOUS
<1>1. UNCHANGED reopened \/ reopened' = (reopened \/ tx_pending >= N)
  BY DEF Next, XmitStep, CompStep, HwStep, LinkStep, Alloc, HardStartXmitDrop,
     HardStartXmit, XmitPend, XmitOwn, XmitKick, HwSend, HwIdle, PollStart,
     CompNone, CompCheck, CompFree, CompDec, CompWake, AdjustStop, AdjustStart,
     AdjustInit, StopQueue, StopFree, Open, vars
<1> QED
  BY <1>1, Zenon

\* The ring invariant: window, pointers, OWN bits, queue state and skb
\* ownership agree after every step (lines 586-703, 737-767, 803-828,
\* 1072-1163), until line 822 starts the queue of a full ring.
THEOREM RingCorrect ==
  ASSUME SMP = FALSE
  PROVE  Spec => []RingInv
<1>1. TypeInv /\ RingInv /\ [Next]_vars => RingInv'
  BY RingNext, ReopenedStays DEF RingInv
<1>2. Init => RingInv
  BY RingInit DEF RingInv
<1> QED
  BY <1>2, TypeInit, TypeNext, <1>1, PTL DEF Spec

\* Lines 513-516: the engine never owns a descriptor without its buffer.
THEOREM OwnedDescriptorsAreFilled ==
  ASSUME SMP = FALSE
  PROVE  Spec => []OwnHasBuffer
<1>1. RingInv => OwnHasBuffer
  <2> SUFFICES ASSUME RingSound, netif # "down", NEW i \in Slots, txdes[i].own
               PROVE  txdes[i].skb # NoSkb /\ txdes[i].map = txdes[i].skb
    BY DEF OwnHasBuffer, RingInv
  <2>1. FreshDesc(i).own = FALSE
    BY DEF FreshDesc
  <2>2. Occupied(i)
    BY <2>1 DEF RingSound, WindowInv
  <2> QED
    BY <2>2, SkbAssumption DEF RingSound, WindowInv
<1> QED
  BY RingCorrect, <1>1, PTL

\* Line 640: an skb is freed only after it was transmitted.
THEOREM FreedAfterTransmission ==
  ASSUME SMP = FALSE
  PROVE  Spec => []NoEarlyFree
<1>1. TypeInv /\ RingInv => NoEarlyFree
  <2> SUFFICES ASSUME TypeInv, RingSound, ppc = "free"
               PROVE  CleanDesc.skb # NoSkb /\ owner[CleanDesc.skb] = "sent"
    BY DEF NoEarlyFree, RingInv
  <2>1. PointerInv /\ WindowInv /\ OwnInv /\ xpc = "idle"
    BY DEF RingSound, ControlInv
  <2>2. tx_clean_pointer \in Slots /\ Occupied(tx_clean_pointer)
    BY <2>1, Window DEF TypeInv, TypeOK, PointerInv, Occupied
  <2> QED
    BY <2>1, <2>2, SkbAssumption DEF WindowInv, OwnInv, CleanDesc, Filling
<1> QED
  BY RingCorrect, TypeInit, TypeNext, <1>1, PTL DEF Spec

\* Line 574: every skb of the driver is named by exactly one descriptor.
THEOREM SkbsAreTracked ==
  ASSUME SMP = FALSE
  PROVE  Spec => []TxSkbTracked
<1>1. RingInv => TxSkbTracked
  <2> SUFFICES ASSUME RingSound, netif # "down"
      PROVE /\ \A s \in Skbs : owner[s] \in {"driver", "sent"}
                 => \E i \in Slots : txdes[i].skb = s
            /\ \A i, j \in Slots :
                 txdes[i].skb = txdes[j].skb /\ txdes[i].skb # NoSkb => i = j
            /\ \A i \in Slots :
                 txdes[i].skb # NoSkb => owner[txdes[i].skb] \in {"driver", "sent"}
    BY DEF TxSkbTracked, RingInv
  <2>1. WindowInv /\ TrackInv
    BY DEF RingSound
  <2>2. \A i \in Slots : txdes[i].skb # NoSkb => Occupied(i)
    <3>1. \A i \in Slots : FreshDesc(i).skb = NoSkb
      BY DEF FreshDesc
    <3> QED
      BY <2>1, <3>1 DEF WindowInv
  <2>3. \A i \in Slots : Occupied(i) => txdes[i].skb \in Skbs
                                        /\ owner[txdes[i].skb] \in {"driver", "sent"}
    BY <2>1 DEF WindowInv
  <2>4. \A s \in Skbs : owner[s] \in {"driver", "sent"}
          => \E i \in Slots : txdes[i].skb = s
    BY <2>1 DEF TrackInv
  <2>5. \A i, j \in Slots :
          txdes[i].skb = txdes[j].skb /\ txdes[i].skb # NoSkb => i = j
    <3> SUFFICES ASSUME NEW i \in Slots, NEW j \in Slots,
                        txdes[i].skb = txdes[j].skb, txdes[i].skb # NoSkb
                 PROVE  i = j
      OBVIOUS
    <3>1. Occupied(i) /\ Occupied(j)
      BY <2>2
    <3> QED
      BY <2>1, <3>1 DEF TrackInv
  <2> QED
    BY <2>2, <2>3, <2>4, <2>5
<1> QED
  BY RingCorrect, <1>1, PTL

\* Lines 693-695, 646-649: the stack is let in only while there is room, and
\* lines 819-822 keep it so unless the ring is full when they run.
THEOREM QueueProtectsRing ==
  ASSUME SMP = FALSE
  PROVE  Spec => []NextDescFree
<1>1. TypeInv /\ RingInv => NextDescFree
  <2> SUFFICES ASSUME TypeInv, RingSound, netif = "up", ~xoff, xpc = "idle", ppc = "idle"
               PROVE  tx_pending < N /\ txdes[tx_pointer] = FreshDesc(tx_pointer)
    BY DEF NextDescFree, RingInv
  <2>1. PointerInv /\ QueueInv /\ WindowInv
    BY DEF RingSound
  <2>2. InRing = tx_pending /\ InRing < N /\ N \in Nat
    BY <2>1, NAssumption DEF InRing, QueueInv, PointerInv, TypeInv, TypeOK
  <2>3. tx_pointer \in Slots /\ ~Occupied(tx_pointer)
    BY <2>1, <2>2, Window DEF TypeInv, TypeOK, Occupied
  <2> QED
    BY <2>1, <2>2, <2>3 DEF WindowInv
<1> QED
  BY RingCorrect, TypeInit, TypeNext, <1>1, PTL DEF Spec

\* Lines 513-516 again, as a fact about steps: what the engine owns stays as
\* it is until the engine hands it back, whatever the link does with the
\* descriptors in flight, until line 822 starts the queue of a full ring.
THEOREM OwnedDescriptorsAreFrozen ==
  ASSUME SMP = FALSE
  PROVE  Spec => OwnFreezesDesc
<1>1. ASSUME TypeInv, RingSound, [Next]_vars
      PROVE  FreezesDesc
  <2> SUFFICES ASSUME netif # "down", NEW i \in Slots, txdes[i].own
               PROVE  txdes'[i] \in {txdes[i], [txdes[i] EXCEPT !.own = FALSE]}
    BY DEF FreezesDesc
  <2>0. FreshDesc(i).own = FALSE
    BY DEF FreshDesc
  <2>1. ASSUME NEW s \in Skbs, HardStartXmit(s) PROVE txdes'[i] = txdes[i]
    <3>1. txdes[tx_pointer] = FreshDesc(tx_pointer)
      <4>1. netif = "up" /\ ~xoff /\ xpc = "idle" /\ ppc = "idle"
        BY <1>1, <2>1 DEF HardStartXmit, MayTransmit, XmitMayRun
      <4>2. PointerInv /\ QueueInv /\ WindowInv
        BY <1>1, <4>1 DEF RingSound
      <4>3. InRing < N
        BY <4>1, <4>2, NAssumption DEF QueueInv, PointerInv
      <4>4. tx_pointer \in Slots /\ ~Occupied(tx_pointer)
        BY <1>1, <4>2, <4>3, Window DEF TypeInv, TypeOK, Occupied, PointerInv
      <4> QED
        BY <4>2, <4>4 DEF WindowInv
    <3>2. i # tx_pointer
      BY <2>0, <3>1
    <3> QED
      BY <2>1, <3>2, <1>1 DEF HardStartXmit, TypeInv, TypeOK
  <2>2. CASE XmitOwn
    <3>1. ~txdes[xdes].own
      BY <1>1, <2>2 DEF XmitOwn, RingSound, OwnInv, Filling, TypeInv, TypeOK
    <3> QED
      BY <2>2, <3>1, <1>1 DEF XmitOwn, TypeInv, TypeOK
  <2>3. CASE CompFree
    <3>1. ~CleanDesc.own
      BY <1>1, <2>3 DEF CompFree, RingSound, OwnInv
    <3> QED
      BY <2>3, <3>1, <1>1 DEF CompFree, CleanDesc, TypeInv, TypeOK
  <2>4. CASE HwSend
    BY <2>4, <1>1 DEF HwSend, TypeInv, TypeOK
  <2>5. CASE UNCHANGED txdes
    BY <2>5
  <2>6. CASE Open
    BY <2>6 DEF Open
  <2> QED
    BY <1>1, <2>1, <2>2, <2>3, <2>4, <2>5, <2>6 DEF Next, XmitStep, CompStep,
       HwStep, LinkStep, Alloc, HardStartXmitDrop, XmitPend, XmitKick, HwIdle,
       PollStart, CompNone, CompCheck, CompDec, CompWake, AdjustStop,
       AdjustStart, AdjustInit, StopQueue, StopFree, swRing, vars
<1>2. TypeInv /\ RingInv /\ [Next]_vars => [~reopened => FreezesDesc]_vars
  BY <1>1 DEF RingInv
<1> QED
  BY RingCorrect, TypeInit, TypeNext, <1>2, PTL DEF Spec, OwnFreezesDesc

-----------------------------------------------------------------------------
(* The ring implements the line of TxFifo.                                 *)

\* A function on 1 .. n is a sequence, and what Append and Tail make of it.
LEMMA FunctionIsSeq ==
  ASSUME NEW S, NEW n \in Nat, NEW f \in [1 .. n -> S]
  PROVE  f \in Seq(S) /\ Len(f) = n
OBVIOUS

LEMMA AppendIs ==
  ASSUME NEW S, NEW n \in Nat, NEW f \in [1 .. n -> S],
         NEW g \in [1 .. n + 1 -> S], \A k \in 1 .. n : g[k] = f[k]
  PROVE  g = Append(f, g[n + 1])
<1>1. f \in Seq(S) /\ Len(f) = n /\ g \in Seq(S) /\ Len(g) = n + 1
  BY FunctionIsSeq
<1>2. g[n + 1] \in S
  OBVIOUS
<1>3. /\ Append(f, g[n + 1]) \in Seq(S)
      /\ Len(Append(f, g[n + 1])) = n + 1
      /\ \A k \in 1 .. n + 1 : Append(f, g[n + 1])[k] = g[k]
  BY <1>1, <1>2, AppendProperties
<1> QED
  BY <1>1, <1>3, SeqEqual

LEMMA TailIs ==
  ASSUME NEW S, NEW n \in Nat \ {0}, NEW f \in [1 .. n -> S],
         NEW g \in [1 .. n - 1 -> S], \A k \in 1 .. n - 1 : g[k] = f[k + 1]
  PROVE  f # <<>> /\ g = Tail(f) /\ Head(f) = f[1]
<1>1. f \in Seq(S) /\ Len(f) = n /\ g \in Seq(S) /\ Len(g) = n - 1 /\ f # <<>>
  BY FunctionIsSeq
<1>2. /\ Tail(f) \in Seq(S) /\ Len(Tail(f)) = n - 1
      /\ \A k \in 1 .. n - 1 : Tail(f)[k] = f[k + 1]
  BY <1>1, HeadTailProperties
<1>3. g = Tail(f)
  BY <1>1, <1>2, SeqEqual
<1> QED
  BY <1>1, <1>3

\* What the ring invariant says of the skbs in the order of the line.
LineFacts ==
  netif # "down" =>
    /\ InRing \in 0 .. N
    /\ \A k \in 0 .. N - 1 : SlotAt(k) \in Slots /\ Dist(SlotAt(k)) = k
    /\ \A k \in 0 .. InRing - 1 : /\ SkbAt(k) \in Skbs
                                  /\ owner[SkbAt(k)] \in {"driver", "sent"}
    /\ \A j, k \in 0 .. InRing - 1 : SkbAt(j) = SkbAt(k) => j = k
    /\ \A m \in 0 .. InRing : EngineAt(m) => SentCount = m

LEMMA RingIsLine == TypeInv /\ RingSound => LineFacts
<1> SUFFICES ASSUME TypeInv, RingSound, netif # "down"
             PROVE  /\ InRing \in 0 .. N
                    /\ \A k \in 0 .. N - 1 : SlotAt(k) \in Slots /\ Dist(SlotAt(k)) = k
                    /\ \A k \in 0 .. InRing - 1 : /\ SkbAt(k) \in Skbs
                                                  /\ owner[SkbAt(k)] \in {"driver", "sent"}
                    /\ \A j, k \in 0 .. InRing - 1 : SkbAt(j) = SkbAt(k) => j = k
                    /\ \A m \in 0 .. InRing : EngineAt(m) => SentCount = m
  BY DEF LineFacts
<1>1. PointerInv /\ WindowInv /\ TrackInv /\ InRing \in 0 .. N
  BY DEF RingSound, PointerInv
<1>2. N \in Nat /\ N > 0 /\ tx_clean_pointer \in 0 .. N - 1
  BY NAssumption DEF TypeInv, TypeOK, Slots
<1>3. \A k \in 0 .. N - 1 : SlotAt(k) \in Slots /\ Dist(SlotAt(k)) = k
  BY <1>2 DEF SlotAt, Dist, Slots
<1>4. \A k \in 0 .. InRing - 1 : k \in 0 .. N - 1 /\ Occupied(SlotAt(k))
  BY <1>1, <1>2, <1>3 DEF Occupied
<1>5. \A k \in 0 .. InRing - 1 : /\ SkbAt(k) \in Skbs
                                 /\ owner[SkbAt(k)] \in {"driver", "sent"}
  BY <1>1, <1>3, <1>4 DEF WindowInv, SkbAt
<1>6. ASSUME NEW j \in 0 .. InRing - 1, NEW k \in 0 .. InRing - 1,
             SkbAt(j) = SkbAt(k)
      PROVE  j = k
  <2>1. SlotAt(j) = SlotAt(k)
    BY <1>1, <1>3, <1>4, <1>6 DEF TrackInv, SkbAt
  <2> QED
    BY <1>3, <1>4, <2>1
<1>7. ASSUME NEW m \in 0 .. InRing, EngineAt(m) PROVE SentCount = m
  <2> DEFINE Prefix(n) == /\ \A k \in 0 .. n - 1 : IsSent(k)
                          /\ n < InRing => ~IsSent(n)
  <2>1. \A k \in 0 .. InRing - 1 : IsSent(k) <=> k < m
    BY <1>5, <1>7 DEF EngineAt, IsSent
  <2>2. Prefix(m)
    BY <1>1, <1>2, <2>1
  <2>3. ASSUME NEW n \in 0 .. InRing, Prefix(n) PROVE n = m
    <3>1. CASE n < m
      BY <1>1, <1>2, <2>1, <2>3, <3>1
    <3>2. CASE n > m
      <4>1. m \in 0 .. n - 1 /\ m \in 0 .. InRing - 1
        BY <1>1, <1>2, <3>2
      <4> QED
        BY <2>1, <2>3, <4>1
    <3> QED
      BY <1>1, <1>2, <3>1, <3>2
  <2>4. SentCount = CHOOSE n \in 0 .. InRing : Prefix(n)
    BY DEF SentCount
  <2> HIDE DEF Prefix
  <2> QED
    BY <2>2, <2>3, <2>4
<1> QED
  BY <1>1, <1>3, <1>5, <1>6, <1>7

USE DEF NoLine

\* The line before and after a step that keeps the interface open, given how
\* many skbs of the ring are sent then.
LEMMA LineParts ==
  ASSUME LineFacts, ~NoLine, NEW m \in 0 .. InRing, EngineAt(m)
  PROVE  /\ Waiting = RingPart(m, InRing) /\ Done = RingPart(0, m)
         /\ RingPart(m, InRing) \in [1 .. InRing - m -> Skbs]
         /\ RingPart(0, m) \in [1 .. m -> Skbs]
         /\ InRing \in Nat /\ m \in Nat /\ N \in Nat
<1>1. SentCount = m /\ InRing \in 0 .. N /\ N \in Nat
  BY NAssumption DEF LineFacts
<1>2. \A k \in 1 .. InRing - m : m + k - 1 \in 0 .. InRing - 1
  BY <1>1
<1>3. \A k \in 1 .. m : 0 + k - 1 \in 0 .. InRing - 1
  BY <1>1
<1>4. \A k \in 0 .. InRing - 1 : SkbAt(k) \in Skbs
  BY DEF LineFacts
<1> QED
  BY <1>1, <1>2, <1>3, <1>4 DEF Waiting, Done, RingPart

LEMMA PartRanges ==
  ASSUME NEW r \in Nat, NEW m \in 0 .. r
  PROVE  /\ m \in Nat /\ \A k \in 1 .. r - m : m + k - 1 \in 0 .. r - 1
         /\ \A k \in 1 .. m : 0 + k - 1 \in 0 .. r - 1
         /\ 1 .. m - 0 = 1 .. m
OBVIOUS

LEMMA LinePartsAfter ==
  ASSUME LineFacts', ~NoLine', NEW m, m \in 0 .. InRing', EngineAt(m)'
  PROVE  /\ Waiting' = RingPart(m, InRing)' /\ Done' = RingPart(0, m)'
         /\ RingPart(m, InRing)' \in [1 .. InRing' - m -> Skbs]
         /\ RingPart(0, m)' \in [1 .. m -> Skbs]
         /\ InRing' \in Nat
<1> DEFINE r == InRing'
<1>1. SentCount' = m /\ r \in 0 .. N /\ N \in Nat
  BY NAssumption DEF LineFacts
<1>2. \A k \in 0 .. r - 1 : SkbAt(k)' \in Skbs
  BY DEF LineFacts
<1>3. Waiting' = RingPart(m, InRing)' /\ Done' = RingPart(0, m)'
  BY <1>1 DEF Waiting, Done
<1>4. /\ RingPart(m, InRing)' = [k \in 1 .. r - m |-> SkbAt(m + k - 1)']
      /\ RingPart(0, m)' = [k \in 1 .. m - 0 |-> SkbAt(0 + k - 1)']
  BY DEF RingPart
<1>5. m \in 0 .. r
  OBVIOUS
<1> HIDE DEF r
<1>6. r \in Nat /\ m \in Nat
  BY <1>1, <1>5
<1>7. /\ \A k \in 1 .. r - m : m + k - 1 \in 0 .. r - 1
      /\ \A k \in 1 .. m : 0 + k - 1 \in 0 .. r - 1
      /\ 1 .. m - 0 = 1 .. m
  BY <1>5, <1>6, PartRanges
<1>8. /\ RingPart(m, InRing)' \in [1 .. r - m -> Skbs]
      /\ RingPart(0, m)' \in [1 .. m -> Skbs]
  BY <1>2, <1>4, <1>7
<1> QED
  BY <1>3, <1>6, <1>8 DEF r

\* A step that leaves the skbs of the ring, their owners and the engine's
\* place alone leaves the line alone.
LEMMA LineKept ==
  ASSUME LineFacts, LineFacts', ~NoLine, ~NoLine',
         UNCHANGED <<tx_clean_pointer, hwPtr>>, InRing' = InRing,
         \A k \in 0 .. InRing - 1 : /\ SkbAt(k)' = SkbAt(k)
                                    /\ owner'[SkbAt(k)] = owner[SkbAt(k)],
         EngineInv
  PROVE  EngineInv' /\ UNCHANGED <<Waiting, Done>>
<1>1. PICK m \in 0 .. InRing : EngineAt(m)
  BY DEF EngineInv
<1>2. m \in 0 .. InRing' /\ EngineAt(m)'
  BY <1>1 DEF EngineAt, SlotAt
<1>3. /\ Waiting = RingPart(m, InRing) /\ Done = RingPart(0, m)
      /\ Waiting' = RingPart(m, InRing)' /\ Done' = RingPart(0, m)'
  BY <1>1, <1>2, LineParts, LinePartsAfter
<1>4. InRing \in Nat /\ m \in 0 .. InRing
  BY <1>1, NAssumption DEF LineFacts
<1>5. /\ \A k \in 1 .. InRing - m : m + k - 1 \in 0 .. InRing - 1
      /\ \A k \in 1 .. m : 0 + k - 1 \in 0 .. InRing - 1
      /\ 1 .. m - 0 = 1 .. m
  BY <1>4, PartRanges
<1>6. /\ RingPart(m, InRing)' = [k \in 1 .. InRing - m |-> SkbAt(m + k - 1)']
      /\ RingPart(0, m)' = [k \in 1 .. m - 0 |-> SkbAt(0 + k - 1)']
  BY DEF RingPart
<1>7. /\ RingPart(m, InRing) = [k \in 1 .. InRing - m |-> SkbAt(m + k - 1)]
      /\ RingPart(0, m) = [k \in 1 .. m - 0 |-> SkbAt(0 + k - 1)]
  BY DEF RingPart
<1>8. /\ \A k \in 1 .. InRing - m : SkbAt(m + k - 1)' = SkbAt(m + k - 1)
      /\ \A k \in 1 .. m - 0 : SkbAt(0 + k - 1)' = SkbAt(0 + k - 1)
  BY <1>5
<1>9. /\ RingPart(m, InRing)' = RingPart(m, InRing)
      /\ RingPart(0, m)' = RingPart(0, m)
  BY <1>6, <1>7, <1>8
<1> QED
  BY <1>2, <1>3, <1>9 DEF EngineInv

\* xmit puts its skb at the back: Accept.
LEMMA LineAccept ==
  ASSUME TypeInv, RingSound, RingSound', LineFacts, LineFacts', EngineInv,
         SMP = FALSE, ~reopened, NEW s \in Skbs, HardStartXmit(s)
  PROVE  EngineInv' /\ Fifo!Accept(s)
<1>1. /\ netif = "up" /\ ~xoff /\ ppc = "idle" /\ xpc = "idle" /\ owner[s] = "stack"
      /\ UNCHANGED <<tx_clean_pointer, hwPtr, netif, reopened>>
      /\ txdes' = [txdes EXCEPT ![tx_pointer].skb = s, ![tx_pointer].map = s]
      /\ owner' = SetOwner({s}, "driver")
  BY DEF HardStartXmit, MayTransmit, XmitMayRun, hw
<1>2. InRing' = InRing + 1 /\ InRing \in Nat /\ InRing < N /\ N \in Nat
  BY <1>1, NAssumption DEF HardStartXmit, RingSound, QueueInv, PointerInv, InRing,
     TypeInv, TypeOK
<1>r. PICK r \in Nat : r = InRing
  BY <1>2
<1>3. tx_pointer = SlotAt(InRing) /\ tx_pointer \in Slots
  BY <1>1, <1>2 DEF RingSound, PointerInv, SlotAt, TypeInv, TypeOK
<1>4. /\ SkbAt(r)' = s
      /\ \A k \in 0 .. InRing - 1 : SkbAt(k)' = SkbAt(k)
  <2>1. \A k \in 0 .. InRing - 1 : SlotAt(k) \in Slots /\ SlotAt(k) # tx_pointer
    BY <1>1, <1>2, <1>3 DEF LineFacts
  <2>2. \A k : SlotAt(k)' = SlotAt(k)
    BY <1>1 DEF SlotAt
  <2>3. /\ txdes'[tx_pointer].skb = s
        /\ \A i \in Slots : i # tx_pointer => txdes'[i] = txdes[i]
    BY <1>1, <1>3 DEF TypeInv, TypeOK
  <2> QED
    BY <1>3, <1>r, <2>1, <2>2, <2>3 DEF SkbAt
<1>5. \A k \in 0 .. InRing - 1 : SkbAt(k) \in Skbs /\ SkbAt(k) # s
  BY <1>1 DEF LineFacts
<1>6. owner'[s] = "driver" /\ \A t \in Skbs : t # s => owner'[t] = owner[t]
  BY <1>1 DEF SetOwner
<1>7. PICK m \in 0 .. InRing : EngineAt(m)
  BY <1>1 DEF EngineInv
<1>8. m \in Nat /\ m <= InRing
  BY <1>2, <1>7
<1>9. m \in 0 .. InRing' /\ EngineAt(m)'
  <2>1. m \in 0 .. InRing + 1 /\ m # N
    BY <1>2, <1>8
  <2>2. hwPtr' = SlotAt(m)'
    BY <1>1, <1>7, <2>1 DEF EngineAt, SlotAt
  <2>3. ASSUME NEW k \in 0 .. InRing PROVE owner'[SkbAt(k)'] = "sent" <=> k < m
    <3>1. CASE k = InRing
      BY <1>4, <1>6, <1>8, <1>r, <3>1
    <3>2. CASE k # InRing
      <4>1. k \in 0 .. InRing - 1
        BY <1>2, <3>2
      <4> QED
        BY <1>4, <1>5, <1>6, <1>7, <4>1 DEF EngineAt
    <3> QED
      BY <3>1, <3>2
  <2>4. 0 .. InRing' - 1 = 0 .. InRing
    BY <1>2
  <2> QED
    BY <1>2, <2>1, <2>2, <2>3, <2>4 DEF EngineAt
<1>10. /\ Waiting = RingPart(m, InRing) /\ Done = RingPart(0, m)
       /\ RingPart(m, InRing) \in [1 .. InRing - m -> Skbs]
       /\ RingPart(0, m) \in [1 .. m -> Skbs]
  BY <1>1, <1>7, LineParts
<1>11. /\ Waiting' = RingPart(m, InRing)' /\ Done' = RingPart(0, m)'
       /\ RingPart(m, InRing)' \in [1 .. InRing' - m -> Skbs]
  BY <1>1, <1>9, LinePartsAfter
<1>12. /\ RingPart(m, InRing)' = [k \in 1 .. InRing + 1 - m |-> SkbAt(m + k - 1)']
       /\ RingPart(0, m)' = [k \in 1 .. m - 0 |-> SkbAt(0 + k - 1)']
  BY <1>2 DEF RingPart
<1>13. /\ RingPart(m, InRing) = [k \in 1 .. InRing - m |-> SkbAt(m + k - 1)]
       /\ RingPart(0, m) = [k \in 1 .. m - 0 |-> SkbAt(0 + k - 1)]
  BY DEF RingPart
<1>14. /\ \A k \in 1 .. InRing - m : m + k - 1 \in 0 .. InRing - 1
       /\ \A k \in 1 .. m - 0 : 0 + k - 1 \in 0 .. InRing - 1
       /\ InRing - m \in Nat /\ InRing + 1 - m = InRing - m + 1
       /\ m + (InRing - m + 1) - 1 = InRing
  BY <1>2, <1>8
<1>15. Done' = Done
  BY <1>4, <1>10, <1>11, <1>12, <1>13, <1>14
<1>16. Waiting' = Append(Waiting, s)
  <2> DEFINE n == InRing - m
             f == Waiting
             g == Waiting'
  <2>1. n \in Nat /\ f \in [1 .. n -> Skbs] /\ g \in [1 .. n + 1 -> Skbs]
    BY <1>2, <1>10, <1>11, <1>14
  <2>2. g[n + 1] = s
    BY <1>4, <1>11, <1>12, <1>14, <1>r
  <2>3. \A k \in 1 .. n : g[k] = f[k]
    BY <1>4, <1>10, <1>11, <1>12, <1>13, <1>14
  <2> HIDE DEF n, f, g
  <2>4. g = Append(f, g[n + 1])
    BY <2>1, <2>3, AppendIs
  <2> QED
    BY <2>2, <2>4 DEF f, g
<1>17. /\ Len(Waiting) + Len(Done) < N
       /\ \A k \in 1 .. Len(Waiting) : Waiting[k] # s
       /\ \A k \in 1 .. Len(Done) : Done[k] # s
  <2>1. Len(Waiting) = InRing - m /\ Len(Done) = m
    BY <1>8, <1>10, <1>14, FunctionIsSeq
  <2>2. Len(Waiting) + Len(Done) < N
    BY <1>2, <1>8, <2>1
  <2> QED
    BY <1>5, <1>10, <1>13, <1>14, <1>8, <2>1, <2>2
<1> QED
  BY <1>1, <1>9, <1>15, <1>16, <1>17 DEF Fifo!Accept, EngineInv

\* The engine sends the oldest skb that is not sent: Transmit.
LEMMA LineTransmit ==
  ASSUME TypeInv, RingSound, LineFacts, LineFacts', EngineInv,
         ~NoLine, HwSend
  PROVE  EngineInv' /\ Fifo!Transmit
<1> DEFINE d == txdes[hwPtr]
<1>1. /\ UNCHANGED <<tx_clean_pointer, tx_pending, netif, xpc, xdes, ppc, reopened>>
      /\ hwPtr \in Slots /\ d.own
      /\ txdes' = [txdes EXCEPT ![hwPtr].own = FALSE]
      /\ owner' = SetOwner({s \in Skbs : s = d.map /\ owner[s] = "driver"}, "sent")
      /\ hwPtr' = HwNext(d, hwPtr)
  BY DEF HwSend
<1>2. PointerInv /\ WindowInv /\ OwnInv /\ InRing \in 0 .. N /\ N \in Nat \ {0}
  BY NAssumption DEF RingSound, PointerInv
<1>3. InRing' = InRing
  BY <1>1 DEF InRing
<1>4. Occupied(hwPtr)
  <2>1. FreshDesc(hwPtr).own = FALSE
    BY DEF FreshDesc
  <2> QED
    BY <1>1, <1>2, <2>1 DEF WindowInv
<1>5. /\ d.skb \in Skbs /\ d.map = d.skb /\ owner[d.skb] = "driver"
      /\ d.edotr = (hwPtr = N - 1)
  BY <1>1, <1>2, <1>4 DEF WindowInv, OwnInv
<1>6. PICK m \in 0 .. InRing : EngineAt(m)
  BY DEF EngineInv
<1>7. m \in Nat /\ m < InRing /\ hwPtr = SlotAt(m) /\ SkbAt(m) = d.skb
  <2>1. \A k \in 0 .. InRing - 1 : SkbAt(k) = d.skb => ~(k < m)
    BY <1>5, <1>6 DEF EngineAt
  <2>2. hwPtr = IF m = N THEN tx_clean_pointer ELSE SlotAt(m)
    BY <1>6 DEF EngineAt
  <2>3. m # N
    <3> SUFFICES ASSUME m = N PROVE FALSE
      OBVIOUS
    <3>1. hwPtr = SlotAt(0) /\ 0 \in 0 .. InRing - 1 /\ 0 < m
      BY <1>2, <1>6, <2>2 DEF SlotAt, TypeInv, TypeOK, Slots
    <3> QED
      BY <2>1, <3>1 DEF SkbAt
  <2>4. hwPtr = SlotAt(m) /\ m \in 0 .. N - 1
    BY <1>2, <1>6, <2>2, <2>3
  <2>5. Dist(hwPtr) = m
    BY <2>4 DEF LineFacts
  <2> QED
    BY <1>2, <1>4, <1>6, <2>4, <2>5 DEF Occupied, SkbAt
<1>8. /\ owner'[d.skb] = "sent"
      /\ \A t \in Skbs : t # d.skb => owner'[t] = owner[t]
  BY <1>1, <1>5 DEF SetOwner
<1>9. \A k \in 0 .. InRing - 1 : SkbAt(k)' = SkbAt(k)
  <2>1. \A i \in Slots : txdes'[i].skb = txdes[i].skb
    BY <1>1 DEF TypeInv, TypeOK, Desc
  <2>2. \A k \in 0 .. InRing - 1 : SlotAt(k)' = SlotAt(k) /\ SlotAt(k) \in Slots
    BY <1>1, <1>2 DEF LineFacts, SlotAt
  <2> QED
    BY <2>1, <2>2 DEF SkbAt
<1>10. \A k \in 0 .. InRing - 1 : /\ SkbAt(k) \in Skbs
                                  /\ SkbAt(k) = d.skb <=> k = m
  BY <1>2, <1>7 DEF LineFacts
<1>11. hwPtr' = IF m + 1 = N THEN tx_clean_pointer ELSE SlotAt(m + 1)
  <2>1. hwPtr' = IF hwPtr = N - 1 THEN 0 ELSE hwPtr + 1
    BY <1>1, <1>5 DEF HwNext
  <2>2. tx_clean_pointer \in 0 .. N - 1 /\ m < N
    BY <1>2, <1>7 DEF TypeInv, TypeOK, Slots
  <2> QED
    BY <1>2, <1>7, <2>1, <2>2 DEF SlotAt
<1>12. m + 1 \in 0 .. InRing' /\ EngineAt(m + 1)'
  <2>1. ASSUME NEW k \in 0 .. InRing - 1
        PROVE  owner'[SkbAt(k)'] = "sent" <=> k < m + 1
    BY <1>2, <1>6, <1>7, <1>8, <1>9, <1>10 DEF EngineAt
  <2>2. SlotAt(m + 1)' = SlotAt(m + 1)
    BY <1>1 DEF SlotAt
  <2> QED
    BY <1>1, <1>2, <1>3, <1>7, <1>11, <2>1, <2>2 DEF EngineAt
<1>13. /\ Waiting = RingPart(m, InRing) /\ Done = RingPart(0, m)
       /\ RingPart(m, InRing) \in [1 .. InRing - m -> Skbs]
       /\ RingPart(0, m) \in [1 .. m -> Skbs]
  BY <1>6, LineParts
<1>14. /\ Waiting' = RingPart(m + 1, InRing)' /\ Done' = RingPart(0, m + 1)'
       /\ RingPart(m + 1, InRing)' \in [1 .. InRing' - (m + 1) -> Skbs]
       /\ RingPart(0, m + 1)' \in [1 .. m + 1 -> Skbs]
  BY <1>1, <1>12, LinePartsAfter
<1>15. /\ RingPart(m + 1, InRing)' = [k \in 1 .. InRing - (m + 1) |-> SkbAt(m + 1 + k - 1)']
       /\ RingPart(0, m + 1)' = [k \in 1 .. m + 1 - 0 |-> SkbAt(0 + k - 1)']
  BY <1>3 DEF RingPart
<1>16. /\ RingPart(m, InRing) = [k \in 1 .. InRing - m |-> SkbAt(m + k - 1)]
       /\ RingPart(0, m) = [k \in 1 .. m - 0 |-> SkbAt(0 + k - 1)]
  BY DEF RingPart
<1> DEFINE n == InRing - m
           f == Waiting
           g == Waiting'
           u == Done
           v == Done'
<1>17. /\ n \in Nat \ {0} /\ f \in [1 .. n -> Skbs] /\ g \in [1 .. n - 1 -> Skbs]
       /\ u \in [1 .. m -> Skbs] /\ v \in [1 .. m + 1 -> Skbs]
  <2>1. n \in Nat \ {0} /\ InRing - (m + 1) = n - 1
    BY <1>2, <1>7
  <2> QED
    BY <1>3, <1>13, <1>14, <2>1
<1>18. \A k \in 1 .. n - 1 : g[k] = f[k + 1]
  BY <1>2, <1>7, <1>9, <1>13, <1>14, <1>15, <1>16
<1>19. \A k \in 1 .. m : v[k] = u[k]
  BY <1>2, <1>7, <1>9, <1>13, <1>14, <1>15, <1>16
<1>20. f[1] = d.skb /\ v[m + 1] = d.skb
  BY <1>2, <1>7, <1>9, <1>13, <1>14, <1>15, <1>16
<1> HIDE DEF n, f, g, u, v
<1>21. f # <<>> /\ g = Tail(f) /\ Head(f) = f[1]
  BY <1>17, <1>18, TailIs
<1>22. v = Append(u, v[m + 1])
  BY <1>7, <1>17, <1>19, AppendIs
<1> QED
  BY <1>1, <1>12, <1>20, <1>21, <1>22 DEF f, g, u, v, Fifo!Transmit, EngineInv

\* The completion gives the oldest skb back: Release.
LEMMA LineRelease ==
  ASSUME TypeInv, RingSound, LineFacts, LineFacts', EngineInv, CompFree,
         ~reopened
  PROVE  EngineInv' /\ Fifo!Release
<1> DEFINE c == tx_clean_pointer
           d == CleanDesc
<1>1. /\ UNCHANGED <<tx_pending, netif, xpc, hwPtr, reopened>>
      /\ ppc = "free"
      /\ owner' = SetOwner({d.skb}, "freed")
      /\ txdes' = [txdes EXCEPT ![c] = txdes_reset(d)]
      /\ c' = next_tx_pointer(c)
      /\ ppc' = IF d.skb = NoSkb THEN "oops" ELSE "dec"
  BY DEF CompFree, hw
<1>2. /\ netif # "down" /\ xpc = "idle"
      /\ PointerInv /\ WindowInv /\ OwnInv
      /\ InRing \in 1 .. N /\ N \in Nat \ {0} /\ c \in Slots
  BY <1>1, NAssumption DEF RingSound, ControlInv, PointerInv, TypeInv, TypeOK
<1>3. SlotAt(0) = c /\ SkbAt(0) = d.skb /\ d.skb \in Skbs
  <2>1. SlotAt(0) = c
    BY <1>2 DEF SlotAt, Slots
  <2> QED
    BY <1>2, <2>1 DEF SkbAt, CleanDesc, LineFacts
<1>4. owner[d.skb] = "sent"
  BY <1>1, <1>2, <1>3, Window DEF Occupied, OwnInv, WindowInv, Filling, CleanDesc,
     TypeInv
<1>5. ppc' = "dec" /\ InRing' = InRing - 1
  BY <1>1, <1>2, <1>3, SkbAssumption DEF InRing, TypeInv, TypeOK
<1>6. c' = IF c = N - 1 THEN 0 ELSE c + 1
  BY <1>1, <1>2, NextPointer
<1>7. \A k \in 0 .. N - 1 : SlotAt(k)' = IF k = N - 1 THEN c ELSE SlotAt(k + 1)
  BY <1>2, <1>6 DEF SlotAt, Slots
<1>8. \A k \in 0 .. InRing - 2 : SkbAt(k)' = SkbAt(k + 1)
  <2>1. \A k \in 0 .. InRing - 2 : /\ SlotAt(k)' = SlotAt(k + 1)
                                   /\ SlotAt(k + 1) \in Slots
                                   /\ Dist(SlotAt(k + 1)) = k + 1
    BY <1>2, <1>7 DEF LineFacts
  <2>2. \A k \in 0 .. InRing - 2 : SlotAt(k + 1) # c
    BY <1>2, <2>1, Window DEF TypeInv
  <2>3. \A i \in Slots : i # c => txdes'[i] = txdes[i]
    BY <1>1, <1>2 DEF TypeInv, TypeOK
  <2> QED
    BY <2>1, <2>2, <2>3 DEF SkbAt
<1>9. \A k \in 1 .. InRing - 1 : SkbAt(k) \in Skbs /\ SkbAt(k) # d.skb
  BY <1>2, <1>3 DEF LineFacts
<1>10. \A t \in Skbs : t # d.skb => owner'[t] = owner[t]
  BY <1>1 DEF SetOwner
<1>11. PICK m \in 0 .. InRing : EngineAt(m)
  BY <1>2 DEF EngineInv
<1>12. m \in Nat \ {0} /\ m <= InRing
  BY <1>2, <1>3, <1>4, <1>11 DEF EngineAt
<1>13. m - 1 \in 0 .. InRing' /\ EngineAt(m - 1)'
  <2>1. ASSUME NEW k \in 0 .. InRing - 2
        PROVE  owner'[SkbAt(k)'] = "sent" <=> k < m - 1
    <3>1. k + 1 \in 1 .. InRing - 1
      BY <1>2
    <3>2. owner'[SkbAt(k)'] = owner[SkbAt(k + 1)]
      BY <1>8, <1>9, <1>10, <3>1
    <3>3. owner[SkbAt(k + 1)] = "sent" <=> k + 1 < m
      BY <1>2, <1>11, <3>1 DEF EngineAt
    <3> QED
      BY <1>12, <3>2, <3>3
  <2>2. hwPtr' = SlotAt(m - 1)'
    <3>1. m - 1 \in 0 .. N - 1
      BY <1>2, <1>12
    <3>2. SlotAt(m - 1)' = IF m = N THEN c ELSE SlotAt(m)
      BY <1>2, <1>7, <1>12, <3>1
    <3> QED
      BY <1>1, <1>11, <3>2 DEF EngineAt
  <2>3. 0 .. InRing' - 1 = 0 .. InRing - 2 /\ m - 1 # N /\ m - 1 \in 0 .. InRing'
    BY <1>2, <1>5, <1>12
  <2> QED
    BY <2>1, <2>2, <2>3 DEF EngineAt
<1>14. /\ Waiting = RingPart(m, InRing) /\ Done = RingPart(0, m)
       /\ RingPart(m, InRing) \in [1 .. InRing - m -> Skbs]
       /\ RingPart(0, m) \in [1 .. m -> Skbs]
  BY <1>2, <1>11, LineParts
<1>15. /\ Waiting' = RingPart(m - 1, InRing)' /\ Done' = RingPart(0, m - 1)'
       /\ RingPart(0, m - 1)' \in [1 .. m - 1 -> Skbs]
  BY <1>1, <1>2, <1>13, LinePartsAfter
<1>16. /\ RingPart(m - 1, InRing)' = [k \in 1 .. InRing - m |-> SkbAt(m - 1 + k - 1)']
       /\ RingPart(0, m - 1)' = [k \in 1 .. m - 1 |-> SkbAt(0 + k - 1)']
  <2>1. InRing' - (m - 1) = InRing - m /\ m - 1 - 0 = m - 1
    BY <1>2, <1>5, <1>12
  <2> QED
    BY <2>1 DEF RingPart
<1>17. /\ RingPart(m, InRing) = [k \in 1 .. InRing - m |-> SkbAt(m + k - 1)]
       /\ RingPart(0, m) = [k \in 1 .. m |-> SkbAt(0 + k - 1)]
  <2>1. m - 0 = m
    BY <1>12
  <2> QED
    BY <2>1 DEF RingPart
<1>18. Waiting' = Waiting
  <2>1. \A k \in 1 .. InRing - m : /\ m - 1 + k - 1 \in 0 .. InRing - 2
                                   /\ m - 1 + k - 1 + 1 = m + k - 1
    BY <1>2, <1>12
  <2>2. \A k \in 1 .. InRing - m : SkbAt(m - 1 + k - 1)' = SkbAt(m + k - 1)
    BY <1>8, <2>1
  <2> QED
    BY <1>14, <1>15, <1>16, <1>17, <2>2
<1>19. \A k \in 1 .. m - 1 : Done'[k] = Done[k + 1]
  <2>1. \A k \in 1 .. m - 1 : /\ 0 + k - 1 \in 0 .. InRing - 2
                              /\ 0 + (k + 1) - 1 = 0 + k - 1 + 1
                              /\ k + 1 \in 1 .. m
    BY <1>2, <1>12
  <2>2. \A k \in 1 .. m - 1 : SkbAt(0 + k - 1)' = SkbAt(0 + (k + 1) - 1)
    BY <1>8, <2>1
  <2> QED
    BY <1>14, <1>15, <1>16, <1>17, <2>1, <2>2
<1> DEFINE f == Done
           g == Done'
<1>20. f \in [1 .. m -> Skbs] /\ g \in [1 .. m - 1 -> Skbs]
  BY <1>14, <1>15
<1> HIDE DEF f, g
<1>21. f # <<>> /\ g = Tail(f)
  BY <1>12, <1>19, <1>20, TailIs DEF f, g
<1> QED
  BY <1>1, <1>2, <1>13, <1>18, <1>21 DEF f, g, Fifo!Release, EngineInv

\* stop gives everything back: Flush.
LEMMA LineFlush ==
  ASSUME StopFree
  PROVE  EngineInv' /\ Fifo!Flush
BY DEF StopFree, EngineInv, Waiting, Done, Fifo!Flush

\* open finds and leaves an empty line.
LEMMA LineOpen ==
  ASSUME RingSound, LineFacts', ~reopened, Open
  PROVE  EngineInv' /\ UNCHANGED <<Waiting, Done>>
<1>1. /\ netif = "down" /\ netif' = "up"
      /\ InRing' = 0 /\ tx_clean_pointer' = 0 /\ hwPtr' = 0
  BY DEF Open, RingSound, ControlInv, InRing
<1>2. 0 \in 0 .. InRing' /\ EngineAt(0)'
  BY <1>1, NAssumption DEF EngineAt, SlotAt
<1>3. SentCount' = 0
  BY <1>1, <1>2 DEF LineFacts
<1>4. Waiting' = <<>> /\ Done' = <<>>
  BY <1>1, <1>3 DEF Waiting, Done, RingPart
<1> QED
  BY <1>1, <1>2, <1>4 DEF EngineInv, Waiting, Done

\* Every other step leaves the line alone.
LEMMA LineQuiet ==
  ASSUME TypeInv, RingSound, LineFacts, LineFacts', EngineInv,
         HwRestart = {"keep"}, ~NoLine, ~reopened',
         \/ \E s \in Skbs : Alloc(s) \/ HardStartXmitDrop(s)
         \/ XmitPend \/ XmitOwn
         \/ XmitKick \/ HwIdle \/ PollStart \/ CompNone \/ CompCheck
         \/ CompDec \/ CompWake \/ AdjustStop \/ AdjustStart \/ AdjustInit
         \/ StopQueue \/ UNCHANGED vars
  PROVE  EngineInv' /\ UNCHANGED <<Waiting, Done>>
<1>1. UNCHANGED <<tx_clean_pointer, hwPtr>> /\ netif' # "down"
  BY DEF Alloc, HardStartXmitDrop, XmitPend, XmitOwn, XmitKick, HwIdle,
         PollStart, CompNone, CompCheck, CompDec, CompWake, AdjustStop,
         AdjustStart, AdjustInit, StopQueue, vars, swRing, hw
<1>2. InRing' = InRing
  <2>1. CASE XmitPend
    BY <2>1 DEF XmitPend, InRing, TypeInv, TypeOK
  <2>2. CASE CompDec
    BY <2>2 DEF CompDec, InRing, TypeInv, TypeOK
  <2>3. CASE XmitOwn \/ PollStart \/ CompNone \/ CompCheck \/ CompWake
    BY <2>3 DEF XmitOwn, PollStart, CompNone, CompCheck, CompWake, InRing, swRing
  <2>4. CASE \/ \E s \in Skbs : Alloc(s) \/ HardStartXmitDrop(s)
             \/ XmitKick \/ HwIdle \/ AdjustStop \/ AdjustStart \/ AdjustInit
             \/ StopQueue \/ UNCHANGED vars
    BY <2>4 DEF Alloc, HardStartXmitDrop, XmitKick, HwIdle, AdjustStop,
       AdjustStart, AdjustInit, StopQueue, vars, swRing, InRing
  <2> QED
    BY <2>1, <2>2, <2>3, <2>4
<1>3. \A k \in 0 .. InRing - 1 : /\ SlotAt(k)' = SlotAt(k) /\ SlotAt(k) \in Slots
                                 /\ SkbAt(k) \in Skbs
                                 /\ owner[SkbAt(k)] \in {"driver", "sent"}
  BY <1>1, NAssumption DEF LineFacts, SlotAt
<1>4. \A i \in Slots : txdes'[i].skb = txdes[i].skb
  <2>1. CASE XmitOwn
    BY <2>1 DEF XmitOwn, TypeInv, TypeOK, Desc
  <2>2. CASE ~XmitOwn
    <3>1. UNCHANGED txdes
      BY <2>2 DEF Alloc, HardStartXmitDrop, XmitPend, XmitKick, HwIdle,
         PollStart, CompNone, CompCheck, CompDec, CompWake, AdjustStop,
         AdjustStart, AdjustInit, StopQueue, vars, swRing
    <3> QED
      BY <3>1
  <2> QED
    BY <2>1, <2>2
<1>5. \A t \in Skbs : owner[t] \in {"driver", "sent"} => owner'[t] = owner[t]
  BY DEF Alloc, HardStartXmitDrop, MayTransmit, SetOwner, XmitPend, XmitOwn,
         XmitKick, HwIdle, PollStart, CompNone, CompCheck, CompDec, CompWake,
         AdjustStop, AdjustStart, AdjustInit, StopQueue, vars
<1>6. \A k \in 0 .. InRing - 1 : /\ SkbAt(k)' = SkbAt(k)
                                 /\ owner'[SkbAt(k)] = owner[SkbAt(k)]
  BY <1>3, <1>4, <1>5 DEF SkbAt
<1> QED
  BY <1>1, <1>2, <1>6, LineKept

\* A closed interface has an empty line until open.
LEMMA LineClosed ==
  ASSUME RingSound, netif = "down", [Next]_vars, ~Open
  PROVE  EngineInv' /\ UNCHANGED <<Waiting, Done>>
<1>1. xpc = "idle" /\ ppc = "idle" /\ apc = "idle"
  BY DEF RingSound, ControlInv
<1>2. netif' = "down"
  BY <1>1 DEF Next, Alloc, HardStartXmitDrop, HardStartXmit, MayTransmit,
     XmitStep, XmitPend, XmitOwn, XmitKick, HwStep, HwSend, HwIdle, PollStart,
     CompStep, CompNone, CompCheck, CompFree, CompDec, CompWake, AdjustStop,
     LinkStep, AdjustStart, AdjustInit, StopQueue, StopFree, vars
<1> QED
  BY <1>2 DEF EngineInv, Waiting, Done

LEMMA LineStep ==
  ASSUME TypeInv, RingSound, RingSound', LineFacts, LineFacts', EngineInv,
         SMP = FALSE, HwRestart = {"keep"}, [Next]_vars, ~reopened'
  PROVE  EngineInv' /\ [Fifo!FifoNext]_<<Waiting, Done>>
<1>0. ~reopened
  BY ReopenedStays
<1>1. CASE netif = "down" /\ ~Open
  BY <1>1, LineClosed
<1>2. CASE Open
  BY <1>0, <1>2, LineOpen
<1>3. CASE netif # "down"
  <2>1. ASSUME NEW s \in Skbs, HardStartXmit(s)
        PROVE  EngineInv' /\ Fifo!FifoNext
    BY <1>0, <2>1, LineAccept DEF Fifo!FifoNext
  <2>2. CASE HwSend
    BY <1>0, <1>3, <2>2, LineTransmit DEF Fifo!FifoNext
  <2>3. CASE CompFree
    BY <1>0, <2>3, LineRelease DEF Fifo!FifoNext
  <2>4. CASE StopFree
    BY <2>4, LineFlush DEF Fifo!FifoNext
  <2>5. CASE \/ \E s \in Skbs : Alloc(s) \/ HardStartXmitDrop(s)
             \/ XmitPend \/ XmitOwn
             \/ XmitKick \/ HwIdle \/ PollStart \/ CompNone \/ CompCheck
             \/ CompDec \/ CompWake \/ AdjustStop \/ AdjustStart \/ AdjustInit
             \/ StopQueue \/ UNCHANGED vars
    BY <1>0, <1>3, <2>5, LineQuiet
  <2> QED
    BY <1>2, <2>1, <2>2, <2>3, <2>4, <2>5
    DEF Next, XmitStep, HwStep, CompStep, LinkStep
<1> QED
  BY <1>1, <1>2, <1>3

\* Line 822 over a full ring drops the line, and no line comes back.
LEMMA LineLost ==
  ASSUME reopened'
  PROVE  EngineInv' /\ [Fifo!FifoNext]_<<Waiting, Done>>
<1>1. Waiting' = <<>> /\ Done' = <<>>
  BY DEF Waiting, Done
<1> QED
  BY <1>1 DEF EngineInv, Fifo!FifoNext, Fifo!Flush

LEMMA LineStart == Init /\ LineFacts => EngineInv /\ Fifo!FifoInit
<1> SUFFICES ASSUME Init, LineFacts PROVE EngineInv /\ Fifo!FifoInit
  OBVIOUS
<1>1. /\ InRing = 0 /\ tx_clean_pointer = 0 /\ hwPtr = 0 /\ netif = "up" /\ ~reopened
  BY DEF Init, InRing
<1>2. 0 \in 0 .. InRing /\ EngineAt(0)
  BY <1>1, NAssumption DEF EngineAt, SlotAt
<1>3. SentCount = 0
  BY <1>1, <1>2 DEF LineFacts
<1> QED
  BY <1>1, <1>2, <1>3 DEF EngineInv, Waiting, Done, RingPart, Fifo!FifoInit

\* Whatever runs between the unlocked tests and the lock, the transmit path
\* is a first-in first-out line of N skbs: accepted at the back by xmit
\* (lines 667-690), transmitted and given back in that order (line 640),
\* flushed by stop (line 1163).  A change of speed (lines 809-827) moves
\* nothing in it, provided that the engine finds its place again (HwRestart)
\* and line 822 does not start the queue of a full ring, which ends the line.
THEOREM RingIsFifo ==
  ASSUME SMP = FALSE, HwRestart = {"keep"}
  PROVE  Spec => Fifo!FifoSpec
<1> DEFINE Inv == TypeInv /\ RingInv
           Facts == reopened \/ LineFacts
           Step == [Fifo!FifoNext]_<<Waiting, Done>>
<1>1. Init => Inv
  BY TypeInit, RingInit DEF RingInv
<1>2. Inv /\ [Next]_vars => Inv'
  BY TypeNext, RingNext, ReopenedStays DEF RingInv
<1>3. Inv => Facts
  BY RingIsLine DEF RingInv
<1>4. Inv /\ Inv' /\ Facts /\ Facts' /\ EngineInv /\ [Next]_vars
      => EngineInv' /\ Step
  <2> SUFFICES ASSUME Inv, Inv', Facts, Facts', EngineInv, [Next]_vars
               PROVE  EngineInv' /\ Step
    OBVIOUS
  <2>1. CASE reopened'
    BY <2>1, LineLost
  <2>2. CASE ~reopened'
    <3>1. ~reopened
      BY <2>2, ReopenedStays
    <3> QED
      BY <2>2, <3>1, LineStep DEF RingInv
  <2> QED
    BY <2>1, <2>2
<1>5. Init /\ Facts => EngineInv /\ Fifo!FifoInit
  BY LineStart DEF Init
<1> HIDE DEF Inv, Facts
<1> QED
  BY <1>1, <1>2, <1>3, <1>4, <1>5, PTL DEF Spec, Fifo!FifoSpec, Fifo!fifoVars
=============================================================================
