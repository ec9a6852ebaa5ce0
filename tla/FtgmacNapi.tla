----------------------------- MODULE FtgmacNapi -----------------------------
(***************************************************************************)
(* Interrupts, polling and life cycle of the Linux FTGMAC100 driver        *)
(* (faraday-tech/drivers/net/ftgmac100.c).  Five parties write the same    *)
(* two registers, IER and ISR, and no lock orders them:                    *)
(*                                                                         *)
(*   - the MAC raises bits in ISR (external),                              *)
(*   - ftgmac100_interrupt masks and schedules the poll,                   *)
(*   - ftgmac100_poll acknowledges, works and unmasks,                     *)
(*   - ftgmac100_adjust_link saves, clears and restores IER,               *)
(*   - ftgmac100_open and ftgmac100_stop, under the rtnl lock.             *)
(*                                                                         *)
(* The rings are abstracted to counters (FtgmacTx and FtgmacRx have them). *)
(* Every order of the steps below can occur on a multiprocessor; on a      *)
(* uniprocessor a poll that used up its budget is continued by ksoftirqd,  *)
(* so that the tasks run while it is scheduled.                            *)
(*                                                                         *)
(* Two variables are history: left counts the packets a poll with an       *)
(* exhausted budget walked away from, deaf says that adjust_link put back  *)
(* a 0 it had read from IER.  No step depends on them; the properties do.  *)
(*                                                                         *)
(* Definitions named Mut_... are plausible bugs, each in place of the      *)
(* definition that follows it; the specification never uses them.          *)
(***************************************************************************)
EXTENDS Integers

CONSTANTS
  RxRing,             \* RX_QUEUE_ENTRIES: packets that fit in the ring
  MaxTx,              \* bound on transmitted and not completed packets
  Budget,             \* the budget the core hands to poll
  Speeds              \* speeds of the line

ASSUME RxAssumption == RxRing \in Nat \ {0} /\ Budget \in Nat \ {0} /\ MaxTx \in Nat
ASSUME SpeedAssumption == 0 \notin Speeds /\ 10 \in Speeds

VARIABLES
  isr, ier,                 \* ISR as a set of causes; IER is all or nothing
  rxq, txdone,              \* packets for the driver to take / to complete
  left, deaf,               \* history, see above
  hwOn, macSpeed,           \* MACCR: DMA enabled, speed bits
  running,                  \* netif_running
  napi, disabling,          \* NAPI_STATE_SCHED and NAPI_STATE_DISABLE
  ipc,                      \* ftgmac100_interrupt
  ppc, status, rx, more,    \* ftgmac100_poll; more is ~completed
  enabling,                 \* a poll completed and has not written IER yet
  apc, saved,               \* ftgmac100_adjust_link and its local ier
  phyOn, phySpeed, old_speed, linkEvent,  \* the PHY state machine; speed 0
                            \* while the line has none since phy_start
  tpc                       \* ftgmac100_open and ftgmac100_stop

regs == <<isr, ier, deaf>>
ring == <<rxq, txdone, left>>
mac  == <<hwOn, macSpeed>>
core == <<running, napi, disabling>>
poll == <<ppc, status, rx, more, enabling>>
phy  == <<apc, saved, phyOn, phySpeed, old_speed, linkEvent>>
vars == <<regs, ring, mac, core, ipc, poll, phy, tpc>>

\* "rx" is RPKT_BUF or NO_RXBUF, "tx" is XPKT_ETH or XPKT_LOST: poll tests
\* each pair as one.  (One bit for two can only be cleared more often.)
Causes == {"rx", "tx"}

Opening  == {"o_phy", "o_napi", "o_ier"}
Stopping == {"s_napi", "s_wait", "s_phy", "s_hw", "s_irq", "s_free"}

TypeOK ==
  /\ isr \subseteq Causes /\ status \subseteq Causes
  /\ ier \in BOOLEAN /\ saved \in BOOLEAN
  /\ rxq \in 0 .. RxRing /\ txdone \in 0 .. MaxTx
  /\ left \in 0 .. RxRing /\ deaf \in BOOLEAN
  /\ hwOn \in BOOLEAN /\ macSpeed \in Speeds
  /\ running \in BOOLEAN
  /\ napi \in {"idle", "sched", "disabled"} /\ disabling \in BOOLEAN
  /\ ipc \in {"idle", "sched"}
  /\ ppc \in {"idle", "ack", "rx", "tx", "end"}
  /\ rx \in 0 .. Budget /\ more \in BOOLEAN /\ enabling \in BOOLEAN
  /\ apc \in {"idle", "mask", "hw", "restore"}
  /\ phyOn \in BOOLEAN /\ linkEvent \in BOOLEAN
  /\ phySpeed \in Speeds \cup {0} /\ old_speed \in Speeds \cup {0}
  /\ tpc \in {"closed", "open"} \cup Opening \cup Stopping

\* after probe: registered, never opened
Init ==
  /\ isr = {} /\ ier = FALSE /\ rxq = 0 /\ txdone = 0
  /\ left = 0 /\ deaf = FALSE
  /\ hwOn = FALSE /\ macSpeed = 10
  /\ running = FALSE /\ napi = "disabled" /\ disabling = FALSE
  /\ ipc = "idle"
  /\ ppc = "idle" /\ status = {} /\ rx = 0 /\ more = FALSE /\ enabling = FALSE
  /\ apc = "idle" /\ saved = FALSE
  /\ phyOn = FALSE /\ phySpeed = 0 /\ old_speed = 0 /\ linkEvent = FALSE
  /\ tpc = "closed"

-----------------------------------------------------------------------------
(* The MAC (external)                                                      *)

HwRx ==
  /\ hwOn /\ rxq < RxRing
  /\ rxq' = rxq + 1
  /\ isr' = isr \cup {"rx"}
  /\ UNCHANGED <<ier, deaf, txdone, left, mac, core, ipc, poll, phy, tpc>>

HwNoBuf ==
  /\ hwOn /\ rxq = RxRing
  /\ isr' = isr \cup {"rx"}
  /\ UNCHANGED <<ier, deaf, ring, mac, core, ipc, poll, phy, tpc>>

HwTx ==
  /\ hwOn /\ txdone < MaxTx
  /\ txdone' = txdone + 1
  /\ isr' = isr \cup {"tx"}
  /\ UNCHANGED <<ier, deaf, rxq, left, mac, core, ipc, poll, phy, tpc>>

-----------------------------------------------------------------------------
(* ftgmac100_interrupt.  While ~running it returns and the level-triggered *)
(* line stays up: that changes no state.                                   *)

IrqRequested == tpc \notin {"closed", "s_free"}

(* netif_running, then IER is cleared *)
IrqMask ==
  /\ IrqRequested /\ ier /\ isr # {}
  /\ ipc = "idle"
  /\ running
  /\ ier' = FALSE
  /\ ipc' = "sched"
  /\ UNCHANGED <<isr, deaf, ring, mac, core, poll, phy, tpc>>

(* napi_schedule: refused while the poll is scheduled, disabled or being   *)
(* disabled *)
IrqSched ==
  /\ ipc = "sched"
  /\ napi' = IF napi = "idle" /\ ~disabling THEN "sched" ELSE napi
  /\ ipc' = "idle"
  /\ UNCHANGED <<regs, ring, mac, running, disabling, poll, phy, tpc>>

-----------------------------------------------------------------------------
(* ftgmac100_poll, called by net_rx_action while the poll is scheduled     *)

PollRead ==
  /\ napi = "sched" /\ ppc = "idle"
  /\ status' = isr
  /\ rx' = 0 /\ more' = FALSE
  /\ ppc' = "ack"
  /\ UNCHANGED <<regs, ring, mac, core, ipc, enabling, phy, tpc>>

AfterAck == IF "rx" \in status THEN "rx" ELSE "tx"

\* acknowledges whatever ISR shows now instead of what was read
Mut_PollAck ==
  /\ ppc = "ack"
  /\ isr' = {}
  /\ ppc' = AfterAck
  /\ UNCHANGED <<ier, deaf, ring, mac, core, ipc, status, rx, more, enabling,
                 phy, tpc>>

(* ISR is written with what was read: exactly those bits are cleared *)
PollAck ==
  /\ ppc = "ack"
  /\ isr' = isr \ status
  /\ ppc' = AfterAck
  /\ UNCHANGED <<ier, deaf, ring, mac, core, ipc, status, rx, more, enabling,
                 phy, tpc>>

\* leaves the loop one packet late
Mut_PollRxOne ==
  /\ ppc = "rx" /\ rxq > 0
  /\ rxq' = rxq - 1
  /\ rx' = rx + 1
  /\ left' = IF rx = Budget THEN rxq - 1 ELSE left
  /\ more' = (rx = Budget)
  /\ ppc' = IF rx = Budget THEN "tx" ELSE "rx"
  /\ UNCHANGED <<regs, txdone, mac, core, ipc, status, enabling, phy, tpc>>

(* rx_packet delivered a packet; the loop ends at the budget with retry    *)
(* still set, whatever waits in the ring: its cause is acknowledged        *)
PollRxOne ==
  /\ ppc = "rx" /\ rxq > 0
  /\ rxq' = rxq - 1
  /\ rx' = rx + 1
  /\ left' = IF rx + 1 = Budget THEN rxq - 1 ELSE left
  /\ more' = (rx + 1 = Budget)
  /\ ppc' = IF rx + 1 = Budget THEN "tx" ELSE "rx"
  /\ UNCHANGED <<regs, txdone, mac, core, ipc, status, enabling, phy, tpc>>

(* rx_packet dropped a packet with an error, or for want of an skb: it     *)
(* returns true and the budget is not charged *)
PollRxDrop ==
  /\ ppc = "rx" /\ rxq > 0
  /\ rxq' = rxq - 1
  /\ UNCHANGED <<regs, txdone, left, mac, core, ipc, ppc, status, rx, more, enabling,
                 phy, tpc>>

(* rx_packet found no packet *)
PollRxNone ==
  /\ ppc = "rx" /\ rxq = 0
  /\ ppc' = "tx"
  /\ left' = 0
  /\ UNCHANGED <<regs, rxq, txdone, mac, core, ipc, status, rx, more, enabling,
                 phy, tpc>>

\* leaves the completion to the next poll when the budget is used up
Mut_PollTx ==
  /\ ppc = "tx"
  /\ txdone' = IF "tx" \in status /\ ~more THEN 0 ELSE txdone
  /\ ppc' = "end"
  /\ UNCHANGED <<regs, rxq, left, mac, core, ipc, status, rx, more, enabling,
                 phy, tpc>>

(* tx_complete, if ISR asked for it; over-run counters are left out *)
PollTx ==
  /\ ppc = "tx"
  /\ txdone' = IF "tx" \in status THEN 0 ELSE txdone
  /\ ppc' = "end"
  /\ UNCHANGED <<regs, rxq, left, mac, core, ipc, status, rx, more, enabling,
                 phy, tpc>>

\* the local variables of poll die
PollReturns == ppc' = "idle" /\ status' = {} /\ rx' = 0 /\ more' = FALSE

(* napi_complete *)
PollComplete ==
  /\ ppc = "end" /\ ~more
  /\ ~enabling             \* bound: one IER write is outstanding
  /\ napi' = "idle"
  /\ enabling' = TRUE
  /\ PollReturns
  /\ UNCHANGED <<regs, ring, mac, running, disabling, ipc, phy, tpc>>

\* completes the poll although the budget was used up, and IER stays 0
Mut_PollAgain ==
  /\ ppc = "end" /\ more
  /\ napi' = "idle"
  /\ PollReturns
  /\ UNCHANGED <<regs, ring, mac, running, disabling, ipc, enabling, phy, tpc>>

(* returns the whole budget: net_rx_action polls again, or completes the   *)
(* poll itself when napi_disable is waiting                                *)
PollAgain ==
  /\ ppc = "end" /\ more
  /\ napi' = IF disabling THEN "idle" ELSE "sched"
  /\ PollReturns
  /\ UNCHANGED <<regs, ring, mac, running, disabling, ipc, enabling, phy, tpc>>

(* the write of IER after napi_complete: the poll may be scheduled again,  *)
(* or the interface be closed, before it arrives                           *)
PollEnable ==
  /\ enabling
  /\ ier' = TRUE /\ deaf' = FALSE
  /\ enabling' = FALSE
  /\ UNCHANGED <<isr, ring, mac, core, ipc, ppc, status, rx, more, phy, tpc>>

-----------------------------------------------------------------------------
(* The PHY state machine (external) and ftgmac100_adjust_link              *)

LinkUp(v) ==
  /\ phyOn /\ apc = "idle"
  /\ phySpeed' = v
  /\ linkEvent' = TRUE
  /\ UNCHANGED <<regs, ring, mac, core, ipc, poll, apc, saved, phyOn, old_speed, tpc>>

(* adjust_link, the speed did not change *)
AdjustSame ==
  /\ linkEvent /\ apc = "idle" /\ phySpeed = old_speed
  /\ linkEvent' = FALSE
  /\ UNCHANGED <<regs, ring, mac, core, ipc, poll, apc, saved, phyOn, phySpeed,
                 old_speed, tpc>>

(* adjust_link: remember the speed, read IER, which the handler may have   *)
(* cleared *)
AdjustRead ==
  /\ linkEvent /\ apc = "idle" /\ phySpeed # old_speed
  /\ linkEvent' = FALSE
  /\ old_speed' = phySpeed
  /\ saved' = ier
  /\ apc' = "mask"
  /\ UNCHANGED <<regs, ring, mac, core, ipc, poll, phyOn, phySpeed, tpc>>

AdjustMask ==
  /\ apc = "mask"
  /\ ier' = FALSE
  /\ apc' = "hw"
  /\ UNCHANGED <<isr, deaf, ring, mac, core, ipc, poll, saved, phyOn, phySpeed,
                 old_speed, linkEvent, tpc>>

(* stop_hw, init_hw, start_hw with the new speed *)
AdjustHw ==
  /\ apc = "hw"
  /\ hwOn' = TRUE
  /\ macSpeed' = phySpeed
  /\ apc' = "restore"
  /\ UNCHANGED <<regs, ring, core, ipc, poll, saved, phyOn, phySpeed, old_speed,
                 linkEvent, tpc>>

(* IER gets the value read before *)
AdjustRestore ==
  /\ apc = "restore"
  /\ ier' = saved /\ deaf' = ~saved
  /\ apc' = "idle" /\ saved' = FALSE
  /\ UNCHANGED <<isr, ring, mac, core, ipc, poll, phyOn, phySpeed, old_speed,
                 linkEvent, tpc>>

-----------------------------------------------------------------------------
(* ftgmac100_open; the core sets netif_running before the call *)

(* alloc_buffers, request_irq, ring pointers, reset_hw (clears all         *)
(* registers), init_hw, start_hw at 10 *)
OpenHw ==
  /\ tpc = "closed"
  /\ running' = TRUE
  /\ isr' = {} /\ ier' = FALSE /\ deaf' = FALSE
  /\ rxq' = 0 /\ txdone' = 0 /\ left' = 0
  /\ hwOn' = TRUE /\ macSpeed' = 10
  /\ tpc' = "o_phy"
  /\ UNCHANGED <<napi, disabling, ipc, poll, phy>>

(* phy_start: the PHY state machine may call adjust_link from here on *)
OpenPhy ==
  /\ tpc = "o_phy"
  /\ phyOn' = TRUE
  /\ tpc' = "o_napi"
  /\ UNCHANGED <<regs, ring, mac, core, ipc, poll, apc, saved, phySpeed,
                 old_speed, linkEvent>>

(* napi_enable and netif_start_queue *)
OpenNapi ==
  /\ tpc = "o_napi"
  /\ napi' = "idle"
  /\ tpc' = "o_ier"
  /\ UNCHANGED <<regs, ring, mac, running, disabling, ipc, poll, phy>>

OpenIer ==
  /\ tpc = "o_ier"
  /\ ier' = TRUE /\ deaf' = FALSE
  /\ tpc' = "open"
  /\ UNCHANGED <<isr, ring, mac, core, ipc, poll, phy>>

-----------------------------------------------------------------------------
(* ftgmac100_stop; the core clears netif_running before the call *)

(* IER is cleared, the queue stopped *)
StopIer ==
  /\ tpc = "open"
  /\ running' = FALSE
  /\ ier' = FALSE
  /\ tpc' = "s_napi"
  /\ UNCHANGED <<isr, deaf, ring, mac, napi, disabling, ipc, poll, phy>>

(* napi_disable: announce, wait for the poll, keep it *)
StopNapi ==
  /\ tpc = "s_napi"
  /\ disabling' = TRUE
  /\ tpc' = "s_wait"
  /\ UNCHANGED <<regs, ring, mac, running, napi, ipc, poll, phy>>

StopWait ==
  /\ tpc = "s_wait" /\ napi = "idle"
  /\ napi' = "disabled"
  /\ disabling' = FALSE
  /\ tpc' = "s_phy"
  /\ UNCHANGED <<regs, ring, mac, running, ipc, poll, phy>>

\* does not wait for adjust_link
Mut_StopPhy ==
  /\ tpc = "s_phy"
  /\ phyOn' = FALSE
  /\ linkEvent' = FALSE /\ phySpeed' = 0
  /\ tpc' = "s_hw"
  /\ UNCHANGED <<regs, ring, mac, core, ipc, poll, apc, saved, old_speed>>

(* phy_stop: takes the lock adjust_link runs under *)
StopPhy ==
  /\ tpc = "s_phy" /\ apc = "idle"
  /\ phyOn' = FALSE
  /\ linkEvent' = FALSE /\ phySpeed' = 0
  /\ tpc' = "s_hw"
  /\ UNCHANGED <<regs, ring, mac, core, ipc, poll, apc, saved, old_speed>>

StopHw ==
  /\ tpc = "s_hw"
  /\ hwOn' = FALSE
  /\ tpc' = "s_irq"
  /\ UNCHANGED <<regs, ring, macSpeed, core, ipc, poll, phy>>

(* free_irq: waits for a running handler *)
StopIrq ==
  /\ tpc = "s_irq" /\ ipc = "idle"
  /\ tpc' = "s_free"
  /\ UNCHANGED <<regs, ring, mac, core, ipc, poll, phy>>

(* free_buffers *)
StopFree ==
  /\ tpc = "s_free"
  /\ rxq' = 0 /\ txdone' = 0 /\ left' = 0
  /\ tpc' = "closed"
  /\ UNCHANGED <<regs, mac, core, ipc, poll, phy>>

-----------------------------------------------------------------------------
HwStep     == HwRx \/ HwNoBuf \/ HwTx
PollStep   == PollRead \/ PollAck \/ PollRxOne \/ PollRxDrop \/ PollRxNone
              \/ PollTx \/ PollComplete \/ PollAgain
AdjustStep == AdjustMask \/ AdjustHw \/ AdjustRestore
OpenStep   == OpenPhy \/ OpenNapi \/ OpenIer
StopStep   == StopNapi \/ StopWait \/ StopPhy \/ StopHw \/ StopIrq \/ StopFree

Next ==
  \/ HwStep
  \/ IrqMask \/ IrqSched
  \/ PollStep \/ PollEnable
  \/ (\E v \in Speeds : LinkUp(v)) \/ AdjustSame \/ AdjustRead \/ AdjustStep
  \/ OpenHw \/ OpenStep
  \/ StopIer \/ StopStep

Spec == Init /\ [][Next]_vars

(* An interrupt that is asserted again and again is taken, code that was   *)
(* entered runs on.  StopWait and StopPhy wait for something that may come *)
(* and go.                                                                 *)
Fairness ==
  /\ SF_vars(IrqMask) /\ WF_vars(IrqSched)
  /\ WF_vars(PollStep) /\ WF_vars(PollEnable)
  /\ WF_vars(AdjustStep)
  /\ WF_vars(OpenStep)
  /\ SF_vars(StopStep)

(* An assumption about the line: frames are not all bad for ever.  Without *)
(* it the loop of poll never ends, since dropped frames are not counted.   *)
SomeFramesAreGood == SF_vars(PollRxOne)

FairSpec == Spec /\ Fairness /\ SomeFramesAreGood

-----------------------------------------------------------------------------
(* Properties                                                              *)

PollOver == napi = "idle" /\ ppc = "idle"

\* Lines 1004-1036: the acknowledgement loses nothing but what an exhausted
\* budget leaves.  When no poll is scheduled or running, every packet waiting
\* in the rings, beyond the left ones of the last poll that used up its
\* budget, has its cause standing in ISR, so that the next interrupt finds it
\* (unless the handler has just masked and will schedule the poll).
RestMeansDone ==
  PollOver =>
    /\ rxq >= left
    /\ rxq > left => "rx" \in isr
    /\ txdone > 0 => "tx" \in isr

\* Lines 1126-1131: the rings are freed only when the engine is off and no
\* poll, handler or link change is left that could touch them or turn the
\* engine on again.
NothingUsesFreedRings ==
  tpc = "closed" => ~hwOn /\ ppc = "idle" /\ ipc = "idle" /\ apc = "idle"

\* Line 826: "re-enable interrupts".  An open interface does not stay deaf:
\* again and again its interrupts are enabled or a poll is at work.
InterruptsComeBack == tpc = "open" ~> ier \/ ppc # "idle" \/ tpc # "open"

\* Lines 987-988, 1059-1063, 814-827: nothing but a 0 which adjust_link read
\* from IER and wrote back makes an open interface deaf, in no order of its
\* five writers and also when polls use up their budget.
DeafOnlyByRelink ==
  tpc = "open" ~> ier \/ ppc # "idle" \/ deaf \/ tpc # "open"

\* Lines 1004-1036: while the interface is open and hears, a frame received
\* since a poll used up its budget gets a poll that looks at the ring (and
\* with it at the packets that poll left), and sent packets are completed.
RingsServed ==
  /\ rxq > left /\ tpc = "open" ~> ppc = "rx" \/ deaf \/ tpc # "open"
  /\ txdone > 0 /\ tpc = "open" ~> txdone = 0 \/ deaf \/ tpc # "open"
=============================================================================
