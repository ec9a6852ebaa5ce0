------------------------------ MODULE FtgmacDev ------------------------------
(***************************************************************************)
(* Bringing the Linux FTGMAC100 driver up and down, and its MDIO bus       *)
(* (faraday-tech/drivers/net/ftgmac100.c):                                 *)
(*                                                                         *)
(*   - ftgmac100_probe acquires seven things, one after the other, each of *)
(*     which can fail, and unwinds; ftgmac100_remove gives them back;      *)
(*   - ftgmac100_mdiobus_read and _write look at PHYCR a few times and     *)
(*     give up; the command they gave up on is still under way;            *)
(*   - ftgmac100_open resets the MAC, which may not come back either, and  *)
(*     loads the station address, which probe makes up after it has        *)
(*     registered the interface.                                           *)
(*                                                                         *)
(* The callers: the scan of mdiobus_register, the PHY state machine while  *)
(* the interface is up, and users (ethtool, ioctl, ifconfig) under the     *)
(* rtnl lock as soon as the interface is registered.                       *)
(*                                                                         *)
(* Definitions named Mut_... are plausible bugs, each in place of the      *)
(* definition that follows it; the specification never uses them.          *)
(***************************************************************************)
EXTENDS Integers

CONSTANTS
  PHY_MAX_ADDR,       \* addresses on the bus
  Vals,               \* values of PHY registers
  Looks,              \* at PHYCR, before MDIO gives up (10 in the code)
  ResetLooks,         \* at MACCR, before reset_hw gives up (5 in the code)
  None,               \* no command
  BusyWrite           \* PHYCR written during a command: "restart" or "ignore"

Phys == 0 .. PHY_MAX_ADDR - 1

\* The register number goes with the address.
Read(a)     == [op |-> "rd", phy |-> a]
Write(a, v) == [op |-> "wr", phy |-> a, val |-> v]
Reads  == {Read(a) : a \in Phys}
Writes == {Write(a, v) : a \in Phys, v \in Vals}
Cmds   == Reads \cup Writes

ASSUME BusAssumption  == PHY_MAX_ADDR \in Nat \ {0} /\ 0 \in Vals
ASSUME LookAssumption == Looks \in Nat \ {0} /\ ResetLooks \in Nat \ {0}
ASSUME NoneAssumption == None \notin Cmds
ASSUME BusyAssumption == BusyWrite \in {"restart", "ignore"}

\* what probe acquires, in this order
netdev == 1      \* alloc_etherdev
mem    == 2      \* request_mem_region
regs   == 3      \* ioremap
bus    == 4      \* mdiobus_alloc
busreg == 5      \* mdiobus_register
phy    == 6      \* phy_connect
iface  == 7      \* register_netdev

VARIABLES
  pc, step,           \* of probe and remove; step is what they are at
  held,               \* what they acquired and have not given back
  at,                 \* the address mdiobus_register looks at
  present, phy_map,   \* PHYs on the board, PHYs found
  dev_addr,           \* of the interface
  net, tries,         \* ftgmac100_open; its looks at MACCR
  phyOn,              \* the PHY state machine runs
  mpc, by, todo, looks, \* the one MDIO call (mdio_lock): by whom, and for what
  wdata, cmd,         \* PHYDATA as written; the command PHYCR shows
  swrst, hw_addr      \* MACCR_SW_RST; MAC_MADR and MAC_LADR

VARIABLE done         \* observing only: the last command the MAC carried out
                      \* since the present call began

driver == <<pc, step, held, at, phy_map>>
ifc    == <<dev_addr, net, tries, phyOn>>
mdio   == <<mpc, by, todo, looks>>
phycr  == <<wdata, cmd, done>>
mac    == <<swrst, hw_addr>>
vars   == <<driver, present, ifc, mdio, phycr, mac>>

Addresses == {"zero", "user", "random"}

TypeOK ==
  /\ pc \in {"unbound", "get", "scan", "test", "random", "bound", "put"}
  /\ step \in netdev .. iface
  /\ held \subseteq netdev .. iface
  /\ at \in Phys /\ present \subseteq Phys /\ phy_map \subseteq present
  /\ dev_addr \in Addresses /\ hw_addr \in Addresses
  /\ net \in {"down", "reset", "up"} /\ tries \in 0 .. ResetLooks
  /\ phyOn \in BOOLEAN /\ swrst \in BOOLEAN
  /\ mpc \in {"idle", "data", "cmd", "look", "ok", "eio"}
  /\ by \in {"nobody", "scan", "phy", "user"}
  /\ looks \in 0 .. Looks
  /\ todo \in Cmds \cup {None} /\ cmd \in Cmds \cup {None}
  /\ done \in Cmds \cup {None} /\ wdata \in Vals
  /\ mpc = "idle" <=> by = "nobody"
  /\ mpc # "idle" => todo \in Cmds
  /\ mpc = "data" => todo \in Writes

Init ==
  /\ pc = "unbound" /\ step = netdev /\ held = {}
  /\ at = 0 /\ present \in SUBSET Phys /\ phy_map = {}
  /\ dev_addr = "zero" /\ net = "down" /\ tries = 0 /\ phyOn = FALSE
  /\ mpc = "idle" /\ by = "nobody" /\ todo = None /\ looks = 0
  /\ wdata = 0 /\ cmd = None /\ done = None
  /\ swrst = FALSE /\ hw_addr = "zero"

-----------------------------------------------------------------------------
(* ftgmac100_mdiobus_read and ftgmac100_mdiobus_write                      *)

\* forgets PHYDATA
Mut_MdioStart(b, c) ==
  /\ mpc = "idle"
  /\ by' = b /\ todo' = c /\ looks' = 0
  /\ mpc' = "cmd"
  /\ done' = None
  /\ UNCHANGED <<wdata, cmd>>

\* one at a time: the bus has a lock
MdioStart(b, c) ==
  /\ mpc = "idle"
  /\ by' = b /\ todo' = c /\ looks' = 0
  /\ mpc' = IF c \in Writes THEN "data" ELSE "cmd"
  /\ done' = None
  /\ UNCHANGED <<wdata, cmd>>

MdioData ==
  /\ mpc = "data"
  /\ wdata' = todo.val
  /\ mpc' = "cmd"
  /\ UNCHANGED <<driver, present, ifc, by, todo, looks, cmd, done, mac>>

\* what the MAC does when PHYCR is written for c
Latch(c) == IF c \in Writes THEN Write(c.phy, wdata) ELSE c

MdioCmd ==
  /\ mpc = "cmd"
  /\ cmd' = IF cmd # None /\ BusyWrite = "ignore" THEN cmd ELSE Latch(todo)
  /\ mpc' = "look"
  /\ UNCHANGED <<driver, present, ifc, by, todo, looks, wdata, done, mac>>

\* MIIRD, of the one and of the other call
Mut_Pending == cmd # None /\ cmd.op = "rd"

\* the bit of the call's own operation, MIIRD or MIIWR
Pending == cmd # None /\ cmd.op = todo.op

\* looks on until the bit is clear
Mut_MdioLook ==
  /\ mpc = "look"
  /\ IF Pending THEN UNCHANGED <<mpc, looks>> ELSE mpc' = "ok" /\ UNCHANGED looks
  /\ UNCHANGED <<driver, present, ifc, by, todo, phycr, mac>>

\* one look more
Mut_TimedOut(n) == n > Looks

TimedOut(n) == n = Looks

MdioLook ==
  /\ mpc = "look"
  /\ IF ~Pending THEN mpc' = "ok" /\ UNCHANGED looks
     ELSE /\ looks' = looks + 1
          /\ mpc' = IF TimedOut(looks + 1) THEN "eio" ELSE "look"
  /\ UNCHANGED <<driver, present, ifc, by, todo, phycr, mac>>

\* the call has returned to b
Returned(b) == mpc \in {"ok", "eio"} /\ by = b
Hangup      == mpc' = "idle" /\ by' = "nobody" /\ todo' = None /\ looks' = 0

-----------------------------------------------------------------------------
(* ftgmac100_probe and ftgmac100_remove                                    *)

Probe ==
  /\ pc = "unbound"
  /\ pc' = "get" /\ step' = netdev
  /\ UNCHANGED <<held, at, phy_map, present, ifc, mdio, phycr, mac>>

\* everything but the bus, which takes a scan; no PHY, no phy_connect
Acquire ==
  /\ pc = "get" /\ step # busreg
  /\ step = phy => phy_map # {}
  /\ held' = held \cup {step}
  /\ IF step = iface THEN pc' = "test" /\ UNCHANGED step
                     ELSE step' = step + 1 /\ UNCHANGED pc
  /\ dev_addr' = IF step = netdev THEN "zero" ELSE dev_addr
  /\ UNCHANGED <<at, phy_map, present, net, tries, phyOn, mdio, phycr, mac>>

\* one label too low: what was acquired last is not given back
Mut_Fail(s) ==
  IF s <= mem THEN pc' = "unbound" /\ UNCHANGED step
              ELSE pc' = "put" /\ step' = s - 2

\* the label that gives back what was acquired before s
Fail(s) ==
  IF s = netdev THEN pc' = "unbound" /\ UNCHANGED step
                ELSE pc' = "put" /\ step' = s - 1

AcquireFails ==
  /\ pc = "get"
  /\ Fail(step)
  /\ UNCHANGED <<held, at, phy_map, present, ifc, mdio, phycr, mac>>

(* mdiobus_register looks for a PHY at every address; an error ends it     *)
RegisterBus ==
  /\ pc = "get" /\ step = busreg
  /\ pc' = "scan" /\ at' = 0
  /\ UNCHANGED <<step, held, phy_map, present, ifc, mdio, phycr, mac>>

ScanCall ==
  /\ pc = "scan"
  /\ MdioStart("scan", Read(at))
  /\ UNCHANGED <<driver, present, ifc, mac>>

ScanFound ==
  /\ Returned("scan") /\ mpc = "ok"
  /\ phy_map' = phy_map \cup ({at} \cap present)
  /\ IF at + 1 < PHY_MAX_ADDR
       THEN at' = at + 1 /\ UNCHANGED <<pc, step, held>>
       ELSE /\ pc' = "get" /\ step' = phy /\ held' = held \cup {busreg}
            /\ UNCHANGED at
  /\ Hangup
  /\ UNCHANGED <<present, ifc, phycr, mac>>

ScanFails ==
  /\ Returned("scan") /\ mpc = "eio"
  /\ phy_map' = {}
  /\ Fail(busreg)
  /\ Hangup
  /\ UNCHANGED <<held, at, present, ifc, phycr, mac>>

\* the first that ftgmac100_mii_probe finds
phydev == CHOOSE a \in phy_map : \A b \in phy_map : a <= b

(* the interface can be used from here on, and has no address *)
TestAddress ==
  /\ pc = "test"
  /\ pc' = IF dev_addr = "zero" THEN "random" ELSE "bound"
  /\ UNCHANGED <<step, held, at, phy_map, present, ifc, mdio, phycr, mac>>

random_ether_addr ==
  /\ pc = "random"
  /\ dev_addr' = "random"
  /\ pc' = "bound"
  /\ UNCHANGED <<step, held, at, phy_map, present, net, tries, phyOn, mdio, phycr, mac>>

Remove ==
  /\ pc = "bound"
  /\ pc' = "put" /\ step' = iface
  /\ UNCHANGED <<held, at, phy_map, present, ifc, mdio, phycr, mac>>

\* from the label `step` downwards.  unregister_netdev waits for rtnl and
\* for ftgmac100_stop.
Release ==
  /\ pc = "put"
  /\ step = iface => net = "down" /\ by # "user"
  /\ held' = held \ {step}
  /\ phy_map' = IF step = busreg THEN {} ELSE phy_map
  /\ IF step = netdev THEN pc' = "unbound" /\ UNCHANGED step
                      ELSE step' = step - 1 /\ UNCHANGED pc
  /\ UNCHANGED <<at, present, ifc, mdio, phycr, mac>>

-----------------------------------------------------------------------------
(* The interface                                                           *)

rtnl == net # "reset" /\ by # "user" /\ pc # "put"     \* is free

SetAddress ==
  /\ iface \in held /\ rtnl /\ net = "down"
  /\ dev_addr' = "user"
  /\ UNCHANGED <<driver, present, net, tries, phyOn, mdio, phycr, mac>>

\* no ndo_validate_addr
Mut_validate_addr == TRUE

validate_addr == dev_addr # "zero"

(* up to the write of ftgmac100_reset_hw, which clears all registers *)
Open ==
  /\ iface \in held /\ rtnl /\ net = "down"
  /\ validate_addr
  /\ net' = "reset" /\ tries' = 0
  /\ swrst' = TRUE /\ hw_addr' = "zero"
  /\ wdata' = 0 /\ cmd' = None
  /\ UNCHANGED <<driver, present, dev_addr, phyOn, mdio, done>>

ResetLook ==
  /\ net = "reset" /\ swrst
  /\ tries' = tries + 1
  /\ net' = IF tries + 1 = ResetLooks THEN "down" ELSE net
  /\ UNCHANGED <<driver, present, dev_addr, phyOn, mdio, phycr, mac>>

(* init_hw, start_hw and phy_start *)
init_hw ==
  /\ net = "reset" /\ ~swrst
  /\ hw_addr' = dev_addr
  /\ net' = "up" /\ phyOn' = TRUE
  /\ UNCHANGED <<driver, present, dev_addr, tries, mdio, phycr, swrst>>

\* the PHY state machine goes on
Mut_Stop ==
  /\ net = "up" /\ by # "user"
  /\ net' = "down"
  /\ UNCHANGED <<driver, present, dev_addr, tries, phyOn, mdio, phycr, mac>>

(* ftgmac100_stop, for a user or for unregister_netdev; phy_stop waits for *)
(* the state machine *)
Stop ==
  /\ net = "up" /\ by \notin {"user", "phy"}
  /\ net' = "down" /\ phyOn' = FALSE
  /\ UNCHANGED <<driver, present, dev_addr, tries, mdio, phycr, mac>>

(* ethtool and SIOCxMIIREG *)
UserCall ==
  /\ iface \in held /\ rtnl
  /\ \E c \in Cmds : MdioStart("user", c)
  /\ UNCHANGED <<driver, present, ifc, mac>>

UserReturn ==
  /\ Returned("user")
  /\ Hangup
  /\ UNCHANGED <<driver, present, ifc, phycr, mac>>

PhyCall ==
  /\ phyOn
  /\ \E c \in Cmds : c.phy = phydev /\ MdioStart("phy", c)
  /\ UNCHANGED <<driver, present, ifc, mac>>

(* an error halts the PHY state machine *)
PhyReturn ==
  /\ Returned("phy")
  /\ phyOn' = (mpc = "ok")
  /\ Hangup
  /\ UNCHANGED <<driver, present, dev_addr, net, tries, phycr, mac>>

(* ftgmac100_adjust_link after a change of speed: init_hw again *)
AdjustLink ==
  /\ phyOn /\ by # "phy"
  /\ hw_addr' = dev_addr
  /\ UNCHANGED <<driver, present, ifc, mdio, phycr, swrst>>

-----------------------------------------------------------------------------
(* The MAC (external): as slowly as it likes, if at all                    *)

HwMdio ==
  /\ cmd # None
  /\ done' = cmd /\ cmd' = None
  /\ UNCHANGED <<driver, present, ifc, mdio, wdata, mac>>

HwReset ==
  /\ swrst
  /\ swrst' = FALSE
  /\ UNCHANGED <<driver, present, ifc, mdio, phycr, hw_addr>>

MdioStep == MdioData \/ MdioCmd \/ MdioLook \/ ScanFound \/ ScanFails
            \/ UserReturn \/ PhyReturn
OpenStep == ResetLook \/ init_hw
ProbeStep == Acquire \/ AcquireFails \/ RegisterBus \/ ScanCall \/ TestAddress
             \/ random_ether_addr \/ Release

Next == MdioStep \/ OpenStep \/ ProbeStep \/ Probe \/ Remove \/ SetAddress
        \/ Open \/ Stop \/ UserCall \/ PhyCall \/ AdjustLink \/ HwMdio \/ HwReset

\* The code of the driver runs on; nobody has to call it, and the MAC owes
\* nothing.  A mutex is granted at some time to who waits for it: to
\* phy_stop in ftgmac100_stop, which unregister_netdev waits for.
Fairness ==
  /\ WF_vars(MdioStep) /\ WF_vars(OpenStep) /\ WF_vars(ProbeStep)
  /\ SF_vars(pc = "put" /\ Stop)

Spec == Init /\ [][Next]_vars /\ Fairness

-----------------------------------------------------------------------------
(* Properties *)

\* Lines 1296-1311 and 1322-1333: whoever touches the registers or the PHY
\* finds them there, an interface in use is registered, and after a failed
\* probe or a remove nothing is left, with a PHY state machine, a user and a
\* call that timed out in whatever order.
Lifetimes ==
  /\ mpc # "idle" => {netdev, regs, bus} \subseteq held
  /\ by \in {"phy", "user"} => phy \in held
  /\ net # "down" => netdev .. iface \subseteq held
  /\ phyOn => phy \in held
  /\ pc = "unbound" => held = {} /\ mpc = "idle" /\ net = "down"

\* Lines 886-900 and 926-936: a call that says it succeeded had its own
\* command carried out, with its own data, whatever an earlier call that gave
\* up left under way.
AnswersFit == mpc = "ok" => done = todo

\* Lines 1178 and 1280-1292: an open interface never receives at the zero
\* address it is registered with; and its MAC has the address of the
\* interface, unless probe replaced the one a user set between its test and
\* random_ether_addr.
AddressWhileUp ==
  net = "up" =>
    /\ hw_addr # "zero"
    /\ hw_addr # dev_addr => hw_addr = "user" /\ dev_addr = "random"

\* Lines 123-134, 886-900 and 926-936: every MDIO call returns, every open
\* leaves its reset, and every probe and remove comes to its end, be the MAC
\* as dead as it may.
EveryCallReturns ==
  /\ mpc # "idle" ~> mpc = "idle"
  /\ net = "reset" ~> net # "reset"
  /\ pc \notin {"unbound", "bound"} ~> pc \in {"unbound", "bound"}
=============================================================================
