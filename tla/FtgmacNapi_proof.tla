-------------------------- MODULE FtgmacNapi_proof --------------------------
(***************************************************************************)
(* Proofs about FtgmacNapi for every ring size, budget and set of speeds,  *)
(* whatever the order of link changes, polls and stops: the acknowledgement *)
(* loses no packet but those a poll with an exhausted budget left, and     *)
(* nothing uses the rings once they are freed.                             *)
(***************************************************************************)
EXTENDS FtgmacNapi, TLAPS

RxCovered == rxq >= left /\ (rxq > left => "rx" \in isr)
TxCovered == txdone > 0 => "tx" \in isr

\* What each phase of the life cycle excludes.
PhaseInv ==
  /\ ppc # "idle" => napi = "sched"
  /\ tpc \in {"closed", "o_phy", "o_napi", "s_phy", "s_hw", "s_irq", "s_free"}
       => napi = "disabled"
  /\ ~phyOn => apc = "idle" /\ ~linkEvent
  /\ tpc \in {"closed", "o_phy", "s_hw", "s_irq", "s_free"} => ~phyOn
  /\ tpc \in {"closed", "s_irq", "s_free"} => ~hwOn
  /\ tpc \in {"closed", "s_free"} => ipc = "idle"
  /\ linkEvent \/ apc # "idle" => phySpeed \in Speeds

\* The loop of poll ends at the budget.
LoopInv ==
  /\ ppc = "ack" => rx = 0
  /\ ppc = "rx" => rx < Budget

\* Which packets an acknowledged cause still accounts for.  While poll takes
\* packets nothing need hold: the loop ends with an empty ring, or with the
\* budget used up and left set to what it walks away from.
CoverInv ==
  /\ ppc # "rx" => RxCovered
  /\ ppc \in {"idle", "ack"} => TxCovered
  /\ ppc = "ack" => status \subseteq isr
  /\ ppc \in {"rx", "tx"} => TxCovered \/ "tx" \in status
  /\ ppc = "end" => TxCovered

\* The Boolean variables of TypeOK, on their own.
BoolTypes ==
  /\ ier \in BOOLEAN /\ saved \in BOOLEAN
  /\ hwOn \in BOOLEAN
  /\ running \in BOOLEAN /\ disabling \in BOOLEAN
  /\ more \in BOOLEAN /\ enabling \in BOOLEAN /\ deaf \in BOOLEAN
  /\ phyOn \in BOOLEAN /\ linkEvent \in BOOLEAN

\* The strengthening that makes the types and the phases inductive.
NapiInv == TypeOK /\ PhaseInv /\ LoopInv

\* Each step keeps the Boolean types.
LEMMA BoolStep ==
  ASSUME TypeOK, [Next]_vars
  PROVE  BoolTypes'
<1> USE DEF TypeOK, BoolTypes, regs, ring, mac, core, poll, phy
<1>1. CASE HwRx
  BY <1>1 DEF HwRx
<1>2. CASE HwNoBuf
  BY <1>2 DEF HwNoBuf
<1>3. CASE HwTx
  BY <1>3 DEF HwTx
<1>4. CASE IrqMask
  BY <1>4 DEF IrqMask, IrqRequested
<1>5. CASE IrqSched
  BY <1>5 DEF IrqSched
<1>6. CASE PollRead
  BY <1>6 DEF PollRead
<1>7. CASE PollAck
  BY <1>7 DEF PollAck, AfterAck
<1>8. CASE PollRxOne
  BY <1>8 DEF PollRxOne
<1>9. CASE PollRxDrop
  BY <1>9 DEF PollRxDrop
<1>10. CASE PollRxNone
  BY <1>10 DEF PollRxNone
<1>11. CASE PollTx
  BY <1>11 DEF PollTx
<1>12. CASE PollComplete
  BY <1>12 DEF PollComplete, PollReturns
<1>13. CASE PollAgain
  BY <1>13 DEF PollAgain, PollReturns
<1>14. CASE PollEnable
  BY <1>14 DEF PollEnable
<1>15. ASSUME NEW v \in Speeds, LinkUp(v) PROVE BoolTypes'
  BY <1>15 DEF LinkUp
<1>16. CASE AdjustSame
  BY <1>16 DEF AdjustSame
<1>17. CASE AdjustRead
  BY <1>17 DEF AdjustRead
<1>18. CASE AdjustMask
  BY <1>18 DEF AdjustMask
<1>19. CASE AdjustHw
  BY <1>19 DEF AdjustHw
<1>20. CASE AdjustRestore
  BY <1>20 DEF AdjustRestore
<1>21. CASE OpenHw
  BY <1>21 DEF OpenHw
<1>22. CASE OpenPhy
  BY <1>22 DEF OpenPhy
<1>23. CASE OpenNapi
  BY <1>23 DEF OpenNapi
<1>24. CASE OpenIer
  BY <1>24 DEF OpenIer
<1>25. CASE StopIer
  BY <1>25 DEF StopIer
<1>26. CASE StopNapi
  BY <1>26 DEF StopNapi
<1>27. CASE StopWait
  BY <1>27 DEF StopWait
<1>28. CASE StopPhy
  BY <1>28 DEF StopPhy
<1>29. CASE StopHw
  BY <1>29 DEF StopHw
<1>30. CASE StopIrq
  BY <1>30 DEF StopIrq
<1>31. CASE StopFree
  BY <1>31 DEF StopFree
<1>32. CASE UNCHANGED vars
  BY <1>32 DEF vars
<1> QED
  BY <1>1, <1>2, <1>3, <1>4, <1>5, <1>6, <1>7, <1>8, <1>9, <1>10,
     <1>11, <1>12, <1>13, <1>14, <1>15, <1>16, <1>17, <1>18, <1>19,
     <1>20, <1>21, <1>22, <1>23, <1>24, <1>25, <1>26, <1>27, <1>28,
     <1>29, <1>30, <1>31, <1>32
  DEF Next, HwStep, PollStep, AdjustStep, OpenStep, StopStep

\* Each step keeps the types.
LEMMA TypeStep ==
  ASSUME TypeOK, PhaseInv, LoopInv, BoolTypes', [Next]_vars
  PROVE  TypeOK'
<1> USE RxAssumption, SpeedAssumption DEF TypeOK, BoolTypes, regs, ring, mac, core, poll, phy
<1>1. CASE HwRx
  BY <1>1 DEF HwRx, Causes
<1>2. CASE HwNoBuf
  BY <1>2 DEF HwNoBuf, Causes
<1>3. CASE HwTx
  BY <1>3 DEF HwTx, Causes
<1>4. CASE IrqMask
  BY <1>4 DEF IrqMask, IrqRequested
<1>5. CASE IrqSched
  BY <1>5 DEF IrqSched
<1>6. CASE PollRead
  BY <1>6 DEF PollRead
<1>7. CASE PollAck
  BY <1>7 DEF PollAck, AfterAck
<1>8. CASE PollRxOne
  BY <1>8 DEF PollRxOne, LoopInv
<1>9. CASE PollRxDrop
  BY <1>9 DEF PollRxDrop
<1>10. CASE PollRxNone
  BY <1>10 DEF PollRxNone
<1>11. CASE PollTx
  BY <1>11 DEF PollTx
<1>12. CASE PollComplete
  BY <1>12 DEF PollComplete, PollReturns
<1>13. CASE PollAgain
  BY <1>13 DEF PollAgain, PollReturns
<1>14. CASE PollEnable
  BY <1>14 DEF PollEnable
<1>15. ASSUME NEW v \in Speeds, LinkUp(v) PROVE TypeOK'
  BY <1>15 DEF LinkUp
<1>16. CASE AdjustSame
  BY <1>16 DEF AdjustSame
<1>17. CASE AdjustRead
  BY <1>17 DEF AdjustRead
<1>18. CASE AdjustMask
  BY <1>18 DEF AdjustMask
<1>19. CASE AdjustHw
  BY <1>19 DEF AdjustHw, PhaseInv
<1>20. CASE AdjustRestore
  BY <1>20 DEF AdjustRestore
<1>21. CASE OpenHw
  BY <1>21 DEF OpenHw, Opening, Stopping
<1>22. CASE OpenPhy
  BY <1>22 DEF OpenPhy, Opening, Stopping
<1>23. CASE OpenNapi
  BY <1>23 DEF OpenNapi, Opening, Stopping
<1>24. CASE OpenIer
  BY <1>24 DEF OpenIer, Opening, Stopping
<1>25. CASE StopIer
  BY <1>25 DEF StopIer, Opening, Stopping
<1>26. CASE StopNapi
  BY <1>26 DEF StopNapi, Opening, Stopping
<1>27. CASE StopWait
  BY <1>27 DEF StopWait, Opening, Stopping
<1>28. CASE StopPhy
  BY <1>28 DEF StopPhy, Opening, Stopping
<1>29. CASE StopHw
  BY <1>29 DEF StopHw, Opening, Stopping
<1>30. CASE StopIrq
  BY <1>30 DEF StopIrq, Opening, Stopping
<1>31. CASE StopFree
  BY <1>31 DEF StopFree, Opening, Stopping
<1>32. CASE UNCHANGED vars
  BY <1>32 DEF vars
<1> QED
  BY <1>1, <1>2, <1>3, <1>4, <1>5, <1>6, <1>7, <1>8, <1>9, <1>10,
     <1>11, <1>12, <1>13, <1>14, <1>15, <1>16, <1>17, <1>18, <1>19,
     <1>20, <1>21, <1>22, <1>23, <1>24, <1>25, <1>26, <1>27, <1>28,
     <1>29, <1>30, <1>31, <1>32
  DEF Next, HwStep, PollStep, AdjustStep, OpenStep, StopStep

\* Each step keeps the phases apart.
LEMMA PhaseStep ==
  ASSUME TypeOK, PhaseInv, [Next]_vars
  PROVE  PhaseInv'
<1> USE DEF TypeOK, PhaseInv, regs, ring, mac, core, poll, phy
<1>1. CASE HwRx
  BY <1>1 DEF HwRx
<1>2. CASE HwNoBuf
  BY <1>2 DEF HwNoBuf
<1>3. CASE HwTx
  BY <1>3 DEF HwTx
<1>4. CASE IrqMask
  BY <1>4 DEF IrqMask, IrqRequested
<1>5. CASE IrqSched
  BY <1>5 DEF IrqSched
<1>6. CASE PollRead
  BY <1>6 DEF PollRead
<1>7. CASE PollAck
  BY <1>7 DEF PollAck, AfterAck
<1>8. CASE PollRxOne
  BY <1>8 DEF PollRxOne
<1>9. CASE PollRxDrop
  BY <1>9 DEF PollRxDrop
<1>10. CASE PollRxNone
  BY <1>10 DEF PollRxNone
<1>11. CASE PollTx
  BY <1>11 DEF PollTx
<1>12. CASE PollComplete
  BY <1>12 DEF PollComplete, PollReturns
<1>13. CASE PollAgain
  BY <1>13 DEF PollAgain, PollReturns
<1>14. CASE PollEnable
  BY <1>14 DEF PollEnable
<1>15. ASSUME NEW v \in Speeds, LinkUp(v) PROVE PhaseInv'
  BY <1>15 DEF LinkUp
<1>16. CASE AdjustSame
  BY <1>16 DEF AdjustSame
<1>17. CASE AdjustRead
  BY <1>17 DEF AdjustRead
<1>18. CASE AdjustMask
  BY <1>18 DEF AdjustMask
<1>19. CASE AdjustHw
  BY <1>19 DEF AdjustHw
<1>20. CASE AdjustRestore
  BY <1>20 DEF AdjustRestore
<1>21. CASE OpenHw
  BY <1>21 DEF OpenHw
<1>22. CASE OpenPhy
  BY <1>22 DEF OpenPhy
<1>23. CASE OpenNapi
  BY <1>23 DEF OpenNapi
<1>24. CASE OpenIer
  BY <1>24 DEF OpenIer
<1>25. CASE StopIer
  BY <1>25 DEF StopIer
<1>26. CASE StopNapi
  BY <1>26 DEF StopNapi
<1>27. CASE StopWait
  BY <1>27 DEF StopWait
<1>28. CASE StopPhy
  BY <1>28 DEF StopPhy
<1>29. CASE StopHw
  BY <1>29 DEF StopHw
<1>30. CASE StopIrq
  BY <1>30 DEF StopIrq
<1>31. CASE StopFree
  BY <1>31 DEF StopFree
<1>32. CASE UNCHANGED vars
  BY <1>32 DEF vars
<1> QED
  BY <1>1, <1>2, <1>3, <1>4, <1>5, <1>6, <1>7, <1>8, <1>9, <1>10,
     <1>11, <1>12, <1>13, <1>14, <1>15, <1>16, <1>17, <1>18, <1>19,
     <1>20, <1>21, <1>22, <1>23, <1>24, <1>25, <1>26, <1>27, <1>28,
     <1>29, <1>30, <1>31, <1>32
  DEF Next, HwStep, PollStep, AdjustStep, OpenStep, StopStep

\* Each step keeps the loop within the budget.
LEMMA LoopStep ==
  ASSUME TypeOK, LoopInv, [Next]_vars
  PROVE  LoopInv'
<1> USE RxAssumption DEF TypeOK, LoopInv, regs, ring, mac, core, poll, phy
<1>1. CASE HwRx
  BY <1>1 DEF HwRx
<1>2. CASE HwNoBuf
  BY <1>2 DEF HwNoBuf
<1>3. CASE HwTx
  BY <1>3 DEF HwTx
<1>4. CASE IrqMask
  BY <1>4 DEF IrqMask, IrqRequested
<1>5. CASE IrqSched
  BY <1>5 DEF IrqSched
<1>6. CASE PollRead
  BY <1>6 DEF PollRead
<1>7. CASE PollAck
  BY <1>7 DEF PollAck, AfterAck
<1>8. CASE PollRxOne
  BY <1>8 DEF PollRxOne
<1>9. CASE PollRxDrop
  BY <1>9 DEF PollRxDrop
<1>10. CASE PollRxNone
  BY <1>10 DEF PollRxNone
<1>11. CASE PollTx
  BY <1>11 DEF PollTx
<1>12. CASE PollComplete
  BY <1>12 DEF PollComplete, PollReturns
<1>13. CASE PollAgain
  BY <1>13 DEF PollAgain, PollReturns
<1>14. CASE PollEnable
  BY <1>14 DEF PollEnable
<1>15. ASSUME NEW v \in Speeds, LinkUp(v) PROVE LoopInv'
  BY <1>15 DEF LinkUp
<1>16. CASE AdjustSame
  BY <1>16 DEF AdjustSame
<1>17. CASE AdjustRead
  BY <1>17 DEF AdjustRead
<1>18. CASE AdjustMask
  BY <1>18 DEF AdjustMask
<1>19. CASE AdjustHw
  BY <1>19 DEF AdjustHw
<1>20. CASE AdjustRestore
  BY <1>20 DEF AdjustRestore
<1>21. CASE OpenHw
  BY <1>21 DEF OpenHw
<1>22. CASE OpenPhy
  BY <1>22 DEF OpenPhy
<1>23. CASE OpenNapi
  BY <1>23 DEF OpenNapi
<1>24. CASE OpenIer
  BY <1>24 DEF OpenIer
<1>25. CASE StopIer
  BY <1>25 DEF StopIer
<1>26. CASE StopNapi
  BY <1>26 DEF StopNapi
<1>27. CASE StopWait
  BY <1>27 DEF StopWait
<1>28. CASE StopPhy
  BY <1>28 DEF StopPhy
<1>29. CASE StopHw
  BY <1>29 DEF StopHw
<1>30. CASE StopIrq
  BY <1>30 DEF StopIrq
<1>31. CASE StopFree
  BY <1>31 DEF StopFree
<1>32. CASE UNCHANGED vars
  BY <1>32 DEF vars
<1> QED
  BY <1>1, <1>2, <1>3, <1>4, <1>5, <1>6, <1>7, <1>8, <1>9, <1>10,
     <1>11, <1>12, <1>13, <1>14, <1>15, <1>16, <1>17, <1>18, <1>19,
     <1>20, <1>21, <1>22, <1>23, <1>24, <1>25, <1>26, <1>27, <1>28,
     <1>29, <1>30, <1>31, <1>32
  DEF Next, HwStep, PollStep, AdjustStep, OpenStep, StopStep

\* Each step keeps the packets accounted for.
LEMMA CoverStep ==
  ASSUME TypeOK, PhaseInv, CoverInv, [Next]_vars
  PROVE  CoverInv'
<1> USE RxAssumption DEF TypeOK, CoverInv, RxCovered, TxCovered, regs, ring, mac, core, poll, phy
<1>1. CASE HwRx
  BY <1>1 DEF HwRx
<1>2. CASE HwNoBuf
  BY <1>2 DEF HwNoBuf
<1>3. CASE HwTx
  BY <1>3 DEF HwTx
<1>4. CASE IrqMask
  BY <1>4 DEF IrqMask, IrqRequested
<1>5. CASE IrqSched
  BY <1>5 DEF IrqSched
<1>6. CASE PollRead
  BY <1>6 DEF PollRead
<1>7. CASE PollAck
  BY <1>7 DEF PollAck, AfterAck
<1>8. CASE PollRxOne
  BY <1>8 DEF PollRxOne
<1>9. CASE PollRxDrop
  BY <1>9 DEF PollRxDrop
<1>10. CASE PollRxNone
  BY <1>10 DEF PollRxNone
<1>11. CASE PollTx
  BY <1>11 DEF PollTx
<1>12. CASE PollComplete
  BY <1>12 DEF PollComplete, PollReturns
<1>13. CASE PollAgain
  BY <1>13 DEF PollAgain, PollReturns
<1>14. CASE PollEnable
  BY <1>14 DEF PollEnable
<1>15. ASSUME NEW v \in Speeds, LinkUp(v) PROVE CoverInv'
  BY <1>15 DEF LinkUp
<1>16. CASE AdjustSame
  BY <1>16 DEF AdjustSame
<1>17. CASE AdjustRead
  BY <1>17 DEF AdjustRead
<1>18. CASE AdjustMask
  BY <1>18 DEF AdjustMask
<1>19. CASE AdjustHw
  BY <1>19 DEF AdjustHw
<1>20. CASE AdjustRestore
  BY <1>20 DEF AdjustRestore
<1>21. CASE OpenHw
  BY <1>21 DEF OpenHw, PhaseInv
<1>22. CASE OpenPhy
  BY <1>22 DEF OpenPhy
<1>23. CASE OpenNapi
  BY <1>23 DEF OpenNapi
<1>24. CASE OpenIer
  BY <1>24 DEF OpenIer
<1>25. CASE StopIer
  BY <1>25 DEF StopIer
<1>26. CASE StopNapi
  BY <1>26 DEF StopNapi
<1>27. CASE StopWait
  BY <1>27 DEF StopWait
<1>28. CASE StopPhy
  BY <1>28 DEF StopPhy
<1>29. CASE StopHw
  BY <1>29 DEF StopHw
<1>30. CASE StopIrq
  BY <1>30 DEF StopIrq
<1>31. CASE StopFree
  BY <1>31 DEF StopFree, PhaseInv
<1>32. CASE UNCHANGED vars
  BY <1>32 DEF vars
<1> QED
  BY <1>1, <1>2, <1>3, <1>4, <1>5, <1>6, <1>7, <1>8, <1>9, <1>10,
     <1>11, <1>12, <1>13, <1>14, <1>15, <1>16, <1>17, <1>18, <1>19,
     <1>20, <1>21, <1>22, <1>23, <1>24, <1>25, <1>26, <1>27, <1>28,
     <1>29, <1>30, <1>31, <1>32
  DEF Next, HwStep, PollStep, AdjustStep, OpenStep, StopStep

-----------------------------------------------------------------------------
\* The driver right after probe.
LEMMA NapiInit ==
  ASSUME Init
  PROVE  NapiInv /\ CoverInv
<1> USE RxAssumption, SpeedAssumption DEF Init
<1>1. BoolTypes
  BY DEF BoolTypes
<1>2. TypeOK
  BY <1>1 DEF TypeOK, BoolTypes, Causes, Opening, Stopping
<1>3. PhaseInv /\ LoopInv
  BY DEF PhaseInv, LoopInv
<1>4. CoverInv
  BY DEF CoverInv, RxCovered, TxCovered
<1> QED
  BY <1>2, <1>3, <1>4 DEF NapiInv

LEMMA NapiStep ==
  ASSUME NapiInv, [Next]_vars
  PROVE  NapiInv'
<1>1. TypeOK /\ PhaseInv /\ LoopInv
  BY DEF NapiInv
<1>2. BoolTypes'
  BY <1>1, BoolStep
<1>3. TypeOK'
  BY <1>1, <1>2, TypeStep
<1>4. PhaseInv' /\ LoopInv'
  BY <1>1, PhaseStep, LoopStep
<1> QED
  BY <1>3, <1>4 DEF NapiInv

LEMMA NapiInvariant == Spec => []NapiInv
<1>1. Init => NapiInv
  BY NapiInit
<1>2. NapiInv /\ [Next]_vars => NapiInv'
  BY NapiStep
<1> QED
  BY <1>1, <1>2, PTL DEF Spec

\* The registers, the rings, the poll and the link machinery stay in range,
\* whatever the budget and whenever the interface is stopped.
THEOREM NapiTypeCorrect == Spec => []TypeOK
<1>1. NapiInv => TypeOK
  BY DEF NapiInv
<1> QED
  BY <1>1, NapiInvariant, PTL

\* Lines 1126-1131: for every ring, budget and order of calls, stop frees the
\* rings only when nothing is left that could use them.
THEOREM StopIsOrderly == Spec => []NothingUsesFreedRings
<1>1. NapiInv => NothingUsesFreedRings
  BY DEF NapiInv, PhaseInv, NothingUsesFreedRings
<1> QED
  BY <1>1, NapiInvariant, PTL

\* Lines 1004-1036: for every ring size, every budget (the driver polls 256
\* descriptors with a budget of 64) and every order of the steps, a completed
\* poll leaves no packet without a cause in ISR but the ones the last poll
\* with an exhausted budget walked away from.
THEOREM NothingIsForgotten == Spec => []RestMeansDone
<1>1. Init => CoverInv
  BY NapiInit
<1>2. NapiInv /\ CoverInv /\ [Next]_vars => CoverInv'
  BY CoverStep DEF NapiInv
<1>3. CoverInv => RestMeansDone
  BY DEF CoverInv, RestMeansDone, PollOver, RxCovered, TxCovered
<1> QED
  BY <1>1, <1>2, <1>3, NapiInvariant, PTL DEF Spec
=============================================================================
