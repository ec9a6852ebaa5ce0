--------------------------- MODULE FtgmacDev_proof ---------------------------
(***************************************************************************)
(* Proofs about FtgmacDev for every number of PHY addresses, every set of  *)
(* register values and every number of looks at PHYCR and MACCR.           *)
(***************************************************************************)
EXTENDS FtgmacDev, TLAPS

\* What is held is what comes before the step that probe or remove is at.
HeldInv ==
  /\ pc = "unbound" => held = {}
  /\ pc = "get" => held = netdev .. step - 1
  /\ pc = "scan" => step = busreg /\ held = netdev .. bus
  /\ pc \in {"test", "random", "bound"} => held = netdev .. iface
  /\ pc = "put" => held = netdev .. step

\* Who can be calling, and that the loops end.
UseInv ==
  /\ by = "scan" => pc = "scan"
  /\ by = "user" => iface \in held
  /\ by = "phy" => phyOn
  /\ phyOn => net = "up"
  /\ net # "down" => iface \in held
  /\ mpc \in {"data", "cmd", "look"} => looks < Looks
  /\ net = "reset" => tries < ResetLooks

\* The command of a call is the one the MAC has, or the one it had last.
CmdInv ==
  /\ mpc = "cmd" /\ todo \in Writes => wdata = todo.val
  /\ mpc = "look" => cmd = todo \/ (cmd = None /\ done = todo)
  /\ mpc = "ok" => cmd = None /\ done = todo

\* Where an address can come from.
AddressInv ==
  /\ net # "down" => dev_addr # "zero"
  /\ pc \in {"get", "scan", "test", "random"} /\ ~(pc = "get" /\ step = netdev)
       => dev_addr # "random"
  /\ AddressWhileUp

\* The Boolean variables of TypeOK, on their own.
BoolTypes == phyOn \in BOOLEAN /\ swrst \in BOOLEAN

DevInv == TypeOK /\ HeldInv /\ UseInv

\* The commands the driver gives are commands.
LEMMA ReadIsCmd == ASSUME NEW a \in Phys PROVE Read(a) \in Reads /\ Read(a) \in Cmds
  BY DEF Reads, Cmds

LEMMA WriteParts == ASSUME NEW c \in Writes PROVE c.phy \in Phys /\ c.val \in Vals
  BY DEF Writes, Write

\* What the MAC takes from PHYCR is a command, and the one meant if PHYDATA
\* was written before.
LEMMA LatchIsCmd ==
  ASSUME NEW c \in Cmds, wdata \in Vals
  PROVE  /\ Latch(c) \in Cmds
         /\ (c \in Writes => wdata = c.val) => Latch(c) = c
<1>1. CASE c \in Writes
  <2>1. PICK a \in Phys, v \in Vals : c = Write(a, v)
    BY <1>1 DEF Writes
  <2>2. c.phy = a /\ c.val = v
    BY <2>1 DEF Write
  <2>3. Latch(c) = Write(a, wdata)
    BY <1>1, <2>2 DEF Latch
  <2> QED
    BY <2>1, <2>2, <2>3 DEF Cmds, Writes
<1>2. CASE c \notin Writes
  BY <1>2 DEF Latch
<1> QED
  BY <1>1, <1>2

\* Each step keeps the Boolean types.
LEMMA BoolStep ==
  ASSUME TypeOK, [Next]_vars
  PROVE  BoolTypes'
<1> USE DEF TypeOK, BoolTypes, driver, ifc, mdio, phycr, mac
<1>1. CASE MdioData
  BY <1>1 DEF MdioData
<1>2. CASE MdioCmd
  BY <1>2 DEF MdioCmd
<1>3. CASE MdioLook
  BY <1>3 DEF MdioLook, Pending, TimedOut
<1>4. CASE ScanFound
  BY <1>4 DEF ScanFound, Returned, Hangup
<1>5. CASE ScanFails
  BY <1>5 DEF ScanFails, Returned, Hangup, Fail
<1>6. CASE UserReturn
  BY <1>6 DEF UserReturn, Returned, Hangup
<1>7. CASE PhyReturn
  BY <1>7 DEF PhyReturn, Returned, Hangup
<1>8. CASE ResetLook
  BY <1>8 DEF ResetLook
<1>9. CASE init_hw
  BY <1>9 DEF init_hw
<1>10. CASE Acquire
  BY <1>10 DEF Acquire
<1>11. CASE AcquireFails
  BY <1>11 DEF AcquireFails, Fail
<1>12. CASE RegisterBus
  BY <1>12 DEF RegisterBus
<1>13. CASE ScanCall
  BY <1>13 DEF ScanCall, MdioStart
<1>14. CASE TestAddress
  BY <1>14 DEF TestAddress
<1>15. CASE random_ether_addr
  BY <1>15 DEF random_ether_addr
<1>16. CASE Release
  BY <1>16 DEF Release
<1>17. CASE Probe
  BY <1>17 DEF Probe
<1>18. CASE Remove
  BY <1>18 DEF Remove
<1>19. CASE SetAddress
  BY <1>19 DEF SetAddress, rtnl
<1>20. CASE Open
  BY <1>20 DEF Open, rtnl, validate_addr
<1>21. CASE Stop
  BY <1>21 DEF Stop
<1>22. CASE UserCall
  BY <1>22 DEF UserCall, rtnl, MdioStart
<1>23. CASE PhyCall
  BY <1>23 DEF PhyCall, MdioStart
<1>24. CASE AdjustLink
  BY <1>24 DEF AdjustLink
<1>25. CASE HwMdio
  BY <1>25 DEF HwMdio
<1>26. CASE HwReset
  BY <1>26 DEF HwReset
<1>27. CASE UNCHANGED vars
  BY <1>27 DEF vars
<1> QED
  BY <1>1, <1>2, <1>3, <1>4, <1>5, <1>6, <1>7, <1>8, <1>9, <1>10, <1>11, <1>12, <1>13, <1>14, <1>15, <1>16, <1>17, <1>18, <1>19, <1>20, <1>21, <1>22, <1>23, <1>24, <1>25, <1>26, <1>27
     DEF Next, MdioStep, OpenStep, ProbeStep

\* Each step keeps the types.
LEMMA TypeStep ==
  ASSUME DevInv, BoolTypes', [Next]_vars
  PROVE  TypeOK'
<1> USE BusAssumption, LookAssumption
<1> USE DEF DevInv, TypeOK, HeldInv, UseInv, BoolTypes, Addresses, Phys, driver, ifc, mdio, phycr, mac,
        netdev, mem, regs, bus, busreg, phy, iface
<1>1. CASE MdioData
  BY <1>1, WriteParts DEF MdioData
<1>2. CASE MdioCmd
  BY <1>2, LatchIsCmd DEF MdioCmd
<1>3. CASE MdioLook
  BY <1>3 DEF MdioLook, Pending, TimedOut
<1>4. CASE ScanFound
  BY <1>4 DEF ScanFound, Returned, Hangup
<1>5. CASE ScanFails
  BY <1>5 DEF ScanFails, Returned, Hangup, Fail
<1>6. CASE UserReturn
  BY <1>6 DEF UserReturn, Returned, Hangup
<1>7. CASE PhyReturn
  BY <1>7 DEF PhyReturn, Returned, Hangup
<1>8. CASE ResetLook
  BY <1>8 DEF ResetLook
<1>9. CASE init_hw
  BY <1>9 DEF init_hw
<1>10. CASE Acquire
  BY <1>10 DEF Acquire
<1>11. CASE AcquireFails
  BY <1>11 DEF AcquireFails, Fail
<1>12. CASE RegisterBus
  BY <1>12 DEF RegisterBus
<1>13. CASE ScanCall
  BY <1>13, ReadIsCmd DEF ScanCall, MdioStart, Cmds
<1>14. CASE TestAddress
  BY <1>14 DEF TestAddress
<1>15. CASE random_ether_addr
  BY <1>15 DEF random_ether_addr
<1>16. CASE Release
  <2>1. held' \subseteq netdev .. iface /\ phy_map' \subseteq present
    BY <1>16 DEF Release
  <2>2. step' \in netdev .. iface /\ pc' \in {"put", "unbound"}
    BY <1>16 DEF Release
  <2> QED
    BY <1>16, <2>1, <2>2 DEF Release
<1>17. CASE Probe
  BY <1>17 DEF Probe
<1>18. CASE Remove
  BY <1>18 DEF Remove
<1>19. CASE SetAddress
  BY <1>19 DEF SetAddress, rtnl
<1>20. CASE Open
  BY <1>20 DEF Open, rtnl, validate_addr
<1>21. CASE Stop
  BY <1>21 DEF Stop
<1>22. CASE UserCall
  BY <1>22 DEF UserCall, rtnl, MdioStart
<1>23. CASE PhyCall
  BY <1>23 DEF PhyCall, MdioStart
<1>24. CASE AdjustLink
  BY <1>24 DEF AdjustLink
<1>25. CASE HwMdio
  BY <1>25 DEF HwMdio
<1>26. CASE HwReset
  BY <1>26 DEF HwReset
<1>27. CASE UNCHANGED vars
  BY <1>27 DEF vars
<1> QED
  BY <1>1, <1>2, <1>3, <1>4, <1>5, <1>6, <1>7, <1>8, <1>9, <1>10, <1>11, <1>12, <1>13, <1>14, <1>15, <1>16, <1>17, <1>18, <1>19, <1>20, <1>21, <1>22, <1>23, <1>24, <1>25, <1>26, <1>27
     DEF Next, MdioStep, OpenStep, ProbeStep

\* Each step keeps what is held in order.
LEMMA HeldStep ==
  ASSUME DevInv, [Next]_vars
  PROVE  HeldInv'
<1> USE DEF DevInv, TypeOK, HeldInv, UseInv, driver, ifc, mdio, phycr, mac,
        netdev, mem, regs, bus, busreg, phy, iface
<1>1. CASE MdioData
  BY <1>1 DEF MdioData
<1>2. CASE MdioCmd
  BY <1>2 DEF MdioCmd
<1>3. CASE MdioLook
  BY <1>3 DEF MdioLook, Pending, TimedOut
<1>4. CASE ScanFound
  <2>1. pc = "scan" /\ step = busreg /\ held = netdev .. bus
    BY <1>4 DEF ScanFound, Returned
  <2>2. CASE at + 1 < PHY_MAX_ADDR
    BY <1>4, <2>1, <2>2 DEF ScanFound
  <2>3. CASE ~(at + 1 < PHY_MAX_ADDR)
    <3>1. pc' = "get" /\ step' = phy /\ held' = held \cup {busreg}
      BY <1>4, <2>3 DEF ScanFound
    <3>2. held' = netdev .. step' - 1
      BY <2>1, <3>1
    <3> QED
      BY <3>1, <3>2
  <2> QED
    BY <2>2, <2>3
<1>5. CASE ScanFails
  BY <1>5 DEF ScanFails, Returned, Hangup, Fail
<1>6. CASE UserReturn
  BY <1>6 DEF UserReturn, Returned, Hangup
<1>7. CASE PhyReturn
  BY <1>7 DEF PhyReturn, Returned, Hangup
<1>8. CASE ResetLook
  BY <1>8 DEF ResetLook
<1>9. CASE init_hw
  BY <1>9 DEF init_hw
<1>10. CASE Acquire
  BY <1>10 DEF Acquire
<1>11. CASE AcquireFails
  BY <1>11 DEF AcquireFails, Fail
<1>12. CASE RegisterBus
  BY <1>12 DEF RegisterBus
<1>13. CASE ScanCall
  BY <1>13 DEF ScanCall, MdioStart
<1>14. CASE TestAddress
  BY <1>14 DEF TestAddress
<1>15. CASE random_ether_addr
  BY <1>15 DEF random_ether_addr
<1>16. CASE Release
  BY <1>16 DEF Release
<1>17. CASE Probe
  BY <1>17 DEF Probe
<1>18. CASE Remove
  BY <1>18 DEF Remove
<1>19. CASE SetAddress
  BY <1>19 DEF SetAddress, rtnl
<1>20. CASE Open
  BY <1>20 DEF Open, rtnl, validate_addr
<1>21. CASE Stop
  BY <1>21 DEF Stop
<1>22. CASE UserCall
  BY <1>22 DEF UserCall, rtnl, MdioStart
<1>23. CASE PhyCall
  BY <1>23 DEF PhyCall, MdioStart
<1>24. CASE AdjustLink
  BY <1>24 DEF AdjustLink
<1>25. CASE HwMdio
  BY <1>25 DEF HwMdio
<1>26. CASE HwReset
  BY <1>26 DEF HwReset
<1>27. CASE UNCHANGED vars
  BY <1>27 DEF vars
<1> QED
  BY <1>1, <1>2, <1>3, <1>4, <1>5, <1>6, <1>7, <1>8, <1>9, <1>10, <1>11, <1>12, <1>13, <1>14, <1>15, <1>16, <1>17, <1>18, <1>19, <1>20, <1>21, <1>22, <1>23, <1>24, <1>25, <1>26, <1>27
     DEF Next, MdioStep, OpenStep, ProbeStep

\* Each step keeps the callers where they may be.
LEMMA UseStep ==
  ASSUME DevInv, [Next]_vars
  PROVE  UseInv'
<1> USE LookAssumption
<1> USE DEF DevInv, TypeOK, HeldInv, UseInv, driver, ifc, mdio, phycr, mac,
        netdev, mem, regs, bus, busreg, phy, iface
<1>1. CASE MdioData
  BY <1>1 DEF MdioData
<1>2. CASE MdioCmd
  BY <1>2 DEF MdioCmd
<1>3. CASE MdioLook
  BY <1>3 DEF MdioLook, Pending, TimedOut
<1>4. CASE ScanFound
  BY <1>4 DEF ScanFound, Returned, Hangup
<1>5. CASE ScanFails
  BY <1>5 DEF ScanFails, Returned, Hangup, Fail
<1>6. CASE UserReturn
  BY <1>6 DEF UserReturn, Returned, Hangup
<1>7. CASE PhyReturn
  BY <1>7 DEF PhyReturn, Returned, Hangup
<1>8. CASE ResetLook
  BY <1>8 DEF ResetLook
<1>9. CASE init_hw
  BY <1>9 DEF init_hw
<1>10. CASE Acquire
  BY <1>10 DEF Acquire
<1>11. CASE AcquireFails
  BY <1>11 DEF AcquireFails, Fail
<1>12. CASE RegisterBus
  BY <1>12 DEF RegisterBus
<1>13. CASE ScanCall
  BY <1>13 DEF ScanCall, MdioStart
<1>14. CASE TestAddress
  BY <1>14 DEF TestAddress
<1>15. CASE random_ether_addr
  BY <1>15 DEF random_ether_addr
<1>16. CASE Release
  BY <1>16 DEF Release
<1>17. CASE Probe
  BY <1>17 DEF Probe
<1>18. CASE Remove
  BY <1>18 DEF Remove
<1>19. CASE SetAddress
  BY <1>19 DEF SetAddress, rtnl
<1>20. CASE Open
  BY <1>20 DEF Open, rtnl, validate_addr
<1>21. CASE Stop
  BY <1>21 DEF Stop
<1>22. CASE UserCall
  BY <1>22 DEF UserCall, rtnl, MdioStart
<1>23. CASE PhyCall
  BY <1>23 DEF PhyCall, MdioStart
<1>24. CASE AdjustLink
  BY <1>24 DEF AdjustLink
<1>25. CASE HwMdio
  BY <1>25 DEF HwMdio
<1>26. CASE HwReset
  BY <1>26 DEF HwReset
<1>27. CASE UNCHANGED vars
  BY <1>27 DEF vars
<1> QED
  BY <1>1, <1>2, <1>3, <1>4, <1>5, <1>6, <1>7, <1>8, <1>9, <1>10, <1>11, <1>12, <1>13, <1>14, <1>15, <1>16, <1>17, <1>18, <1>19, <1>20, <1>21, <1>22, <1>23, <1>24, <1>25, <1>26, <1>27
     DEF Next, MdioStep, OpenStep, ProbeStep

\* With a MAC that takes a new command for the old one, each step keeps the
\* command of the call where it must be.
LEMMA CmdStep ==
  ASSUME BusyWrite = "restart", DevInv, CmdInv, [Next]_vars
  PROVE  CmdInv'
<1> USE NoneAssumption
<1> USE DEF DevInv, TypeOK, HeldInv, UseInv, CmdInv, driver, ifc, mdio, phycr, mac,
        netdev, mem, regs, bus, busreg, phy, iface
<1>1. CASE MdioData
  BY <1>1 DEF MdioData
<1>2. CASE MdioCmd
  <2>1. Latch(todo) = todo
    BY <1>2, LatchIsCmd DEF MdioCmd
  <2>2. cmd' = todo /\ todo' = todo /\ mpc' = "look"
    BY <1>2, <2>1 DEF MdioCmd
  <2> QED
    BY <2>2
<1>3. CASE MdioLook
  BY <1>3 DEF MdioLook, Pending, TimedOut
<1>4. CASE ScanFound
  BY <1>4 DEF ScanFound, Returned, Hangup
<1>5. CASE ScanFails
  BY <1>5 DEF ScanFails, Returned, Hangup, Fail
<1>6. CASE UserReturn
  BY <1>6 DEF UserReturn, Returned, Hangup
<1>7. CASE PhyReturn
  BY <1>7 DEF PhyReturn, Returned, Hangup
<1>8. CASE ResetLook
  BY <1>8 DEF ResetLook
<1>9. CASE init_hw
  BY <1>9 DEF init_hw
<1>10. CASE Acquire
  BY <1>10 DEF Acquire
<1>11. CASE AcquireFails
  BY <1>11 DEF AcquireFails, Fail
<1>12. CASE RegisterBus
  BY <1>12 DEF RegisterBus
<1>13. CASE ScanCall
  BY <1>13 DEF ScanCall, MdioStart
<1>14. CASE TestAddress
  BY <1>14 DEF TestAddress
<1>15. CASE random_ether_addr
  BY <1>15 DEF random_ether_addr
<1>16. CASE Release
  BY <1>16 DEF Release
<1>17. CASE Probe
  BY <1>17 DEF Probe
<1>18. CASE Remove
  BY <1>18 DEF Remove
<1>19. CASE SetAddress
  BY <1>19 DEF SetAddress, rtnl
<1>20. CASE Open
  BY <1>20 DEF Open, rtnl, validate_addr
<1>21. CASE Stop
  BY <1>21 DEF Stop
<1>22. CASE UserCall
  BY <1>22 DEF UserCall, rtnl, MdioStart
<1>23. CASE PhyCall
  BY <1>23 DEF PhyCall, MdioStart
<1>24. CASE AdjustLink
  BY <1>24 DEF AdjustLink
<1>25. CASE HwMdio
  BY <1>25 DEF HwMdio
<1>26. CASE HwReset
  BY <1>26 DEF HwReset
<1>27. CASE UNCHANGED vars
  BY <1>27 DEF vars
<1> QED
  BY <1>1, <1>2, <1>3, <1>4, <1>5, <1>6, <1>7, <1>8, <1>9, <1>10, <1>11, <1>12, <1>13, <1>14, <1>15, <1>16, <1>17, <1>18, <1>19, <1>20, <1>21, <1>22, <1>23, <1>24, <1>25, <1>26, <1>27
     DEF Next, MdioStep, OpenStep, ProbeStep

\* Each step keeps the addresses.
LEMMA AddressStep ==
  ASSUME DevInv, AddressInv, [Next]_vars
  PROVE  AddressInv'
<1> USE DEF DevInv, TypeOK, HeldInv, UseInv, AddressInv, AddressWhileUp,
        Addresses, driver, ifc, mdio, phycr, mac,
        netdev, mem, regs, bus, busreg, phy, iface
<1>1. CASE MdioData
  BY <1>1 DEF MdioData
<1>2. CASE MdioCmd
  BY <1>2 DEF MdioCmd
<1>3. CASE MdioLook
  BY <1>3 DEF MdioLook, Pending, TimedOut
<1>4. CASE ScanFound
  BY <1>4 DEF ScanFound, Returned, Hangup
<1>5. CASE ScanFails
  BY <1>5 DEF ScanFails, Returned, Hangup, Fail
<1>6. CASE UserReturn
  BY <1>6 DEF UserReturn, Returned, Hangup
<1>7. CASE PhyReturn
  BY <1>7 DEF PhyReturn, Returned, Hangup
<1>8. CASE ResetLook
  BY <1>8 DEF ResetLook
<1>9. CASE init_hw
  BY <1>9 DEF init_hw
<1>10. CASE Acquire
  BY <1>10 DEF Acquire
<1>11. CASE AcquireFails
  BY <1>11 DEF AcquireFails, Fail
<1>12. CASE RegisterBus
  BY <1>12 DEF RegisterBus
<1>13. CASE ScanCall
  BY <1>13 DEF ScanCall, MdioStart
<1>14. CASE TestAddress
  BY <1>14 DEF TestAddress
<1>15. CASE random_ether_addr
  BY <1>15 DEF random_ether_addr
<1>16. CASE Release
  BY <1>16 DEF Release
<1>17. CASE Probe
  BY <1>17 DEF Probe
<1>18. CASE Remove
  BY <1>18 DEF Remove
<1>19. CASE SetAddress
  BY <1>19 DEF SetAddress, rtnl
<1>20. CASE Open
  BY <1>20 DEF Open, rtnl, validate_addr
<1>21. CASE Stop
  BY <1>21 DEF Stop
<1>22. CASE UserCall
  BY <1>22 DEF UserCall, rtnl, MdioStart
<1>23. CASE PhyCall
  BY <1>23 DEF PhyCall, MdioStart
<1>24. CASE AdjustLink
  BY <1>24 DEF AdjustLink
<1>25. CASE HwMdio
  BY <1>25 DEF HwMdio
<1>26. CASE HwReset
  BY <1>26 DEF HwReset
<1>27. CASE UNCHANGED vars
  BY <1>27 DEF vars
<1> QED
  BY <1>1, <1>2, <1>3, <1>4, <1>5, <1>6, <1>7, <1>8, <1>9, <1>10, <1>11, <1>12, <1>13, <1>14, <1>15, <1>16, <1>17, <1>18, <1>19, <1>20, <1>21, <1>22, <1>23, <1>24, <1>25, <1>26, <1>27
     DEF Next, MdioStep, OpenStep, ProbeStep

LEMMA DevInit ==
  ASSUME Init
  PROVE  DevInv /\ CmdInv /\ AddressInv
<1>1. at \in Phys /\ tries \in 0 .. ResetLooks /\ looks \in 0 .. Looks
  BY BusAssumption, LookAssumption DEF Init, Phys
<1>2. step \in netdev .. iface /\ held \subseteq netdev .. iface
  BY DEF Init, netdev, iface
<1>3. TypeOK
  BY <1>1, <1>2, BusAssumption DEF Init, TypeOK, Addresses
<1>4. HeldInv /\ UseInv /\ CmdInv /\ AddressInv
  BY DEF Init, HeldInv, UseInv, CmdInv, AddressInv, AddressWhileUp
<1> QED
  BY <1>3, <1>4 DEF DevInv

LEMMA DevStep ==
  ASSUME DevInv, [Next]_vars
  PROVE  DevInv'
<1>1. TypeOK
  BY DEF DevInv
<1>2. BoolTypes'
  BY <1>1, BoolStep
<1> QED
  BY <1>2, TypeStep, HeldStep, UseStep DEF DevInv

LEMMA DevInvariant == Spec => []DevInv
<1>1. Init => DevInv
  BY DevInit
<1>2. DevInv /\ [Next]_vars => DevInv'
  BY DevStep
<1> QED
  BY <1>1, <1>2, PTL DEF Spec

\* The states of probe, of the interface and of the MDIO call stay in range;
\* the loops never look once too often.
THEOREM DevTypeCorrect == Spec => []TypeOK
<1>1. DevInv => TypeOK
  BY DEF DevInv
<1> QED
  BY <1>1, DevInvariant, PTL

\* Lines 1296-1311 and 1322-1333: whichever step of probe fails and whenever
\* remove comes, nobody uses what was given back and nothing is left behind.
THEOREM DevLifetimes == Spec => []Lifetimes
<1>1. DevInv => Lifetimes
  BY DEF DevInv, TypeOK, HeldInv, UseInv, Lifetimes, netdev, mem, regs, bus,
         busreg, phy, iface
<1> QED
  BY <1>1, DevInvariant, PTL

\* Lines 868-937: as long as the MAC takes a command written over another, a
\* call that succeeds succeeded with its own command, for any number of looks.
THEOREM MdioAnswersFit ==
  ASSUME BusyWrite = "restart"
  PROVE  Spec => []AnswersFit
<1>1. Init => CmdInv
  BY DevInit
<1>2. DevInv /\ CmdInv /\ [Next]_vars => CmdInv'
  BY CmdStep
<1>3. CmdInv => AnswersFit
  BY DEF CmdInv, AnswersFit
<1> QED
  BY <1>1, <1>2, <1>3, DevInvariant, PTL DEF Spec

\* Lines 1178 and 1280-1292: no open interface has the zero address, and an
\* address is only lost to random_ether_addr.
THEOREM AddressIsValid == Spec => []AddressWhileUp
<1>1. Init => AddressInv
  BY DevInit
<1>2. DevInv /\ AddressInv /\ [Next]_vars => AddressInv'
  BY AddressStep
<1>3. AddressInv => AddressWhileUp
  BY DEF AddressInv
<1> QED
  BY <1>1, <1>2, <1>3, DevInvariant, PTL DEF Spec
=============================================================================
