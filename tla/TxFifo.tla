------------------------------- MODULE TxFifo -------------------------------
(***************************************************************************)
(* What the transmit path of the FTGMAC100 driver promises the network     *)
(* stack: a first-in first-out line of at most Capacity socket buffers.    *)
(* Buffers are accepted at the back, transmitted in that order, and given  *)
(* back in that order, each after its transmission; closing the interface  *)
(* gives everything back at once.                                          *)
(***************************************************************************)
EXTENDS Naturals, Sequences

CONSTANTS Capacity, Buffers

VARIABLES
  waiting,    \* accepted, not yet transmitted, oldest first
  done        \* transmitted, not yet given back, oldest first

fifoVars == <<waiting, done>>

FifoInit == waiting = <<>> /\ done = <<>>

Accept(b) ==
  /\ Len(waiting) + Len(done) < Capacity
  /\ \A k \in 1 .. Len(waiting) : waiting[k] # b
  /\ \A k \in 1 .. Len(done) : done[k] # b
  /\ waiting' = Append(waiting, b)
  /\ UNCHANGED done

Transmit ==
  /\ waiting # <<>>
  /\ waiting' = Tail(waiting)
  /\ done' = Append(done, Head(waiting))

Release ==
  /\ done # <<>>
  /\ done' = Tail(done)
  /\ UNCHANGED waiting

Flush == waiting' = <<>> /\ done' = <<>>

FifoNext == (\E b \in Buffers : Accept(b)) \/ Transmit \/ Release \/ Flush

FifoSpec == FifoInit /\ [][FifoNext]_fifoVars

\* Nothing stays in the line for ever.
FifoFairSpec == FifoSpec /\ WF_fifoVars(Transmit) /\ WF_fifoVars(Release)
=============================================================================
