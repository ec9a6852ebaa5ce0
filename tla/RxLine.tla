------------------------------- MODULE RxLine -------------------------------
(***************************************************************************)
(* What the receive path of the FTGMAC100 driver promises the network      *)
(* stack.  The segments the MAC received wait in a line; each leaves it    *)
(* once, from the front, and is thrown away or put into the packet being   *)
(* assembled; and what goes up to the stack is one whole, good frame.  A   *)
(* receiver may lose its line: it says so, and promises nothing more.      *)
(***************************************************************************)
EXTENDS Naturals, Sequences

CONSTANTS Capacity, Segs   \* segments: [frame, n, last, good]

VARIABLES
  line,      \* received and not looked at, oldest first
  packet,    \* taken for the stack, in order
  lost       \* the line is lost

lineVars == <<line, packet, lost>>

LineInit == line = <<>> /\ packet = <<>> /\ lost = FALSE

\* Segments 1, 2, ... of one frame, up to its last, and without error.
Whole(s) ==
  /\ s # <<>>
  /\ \A k \in 1 .. Len(s) :
       /\ s[k].frame = s[1].frame /\ s[k].n = k /\ s[k].good
       /\ s[k].last <=> k = Len(s)

Arrive ==
  /\ UNCHANGED <<packet, lost>>
  /\ Len(line') \in Len(line) + 1 .. Capacity
  /\ SubSeq(line', 1, Len(line)) = line
  /\ \A k \in 1 .. Len(line') : line'[k] \in Segs

Discard ==
  line # <<>> /\ packet = <<>> /\ line' = Tail(line) /\ UNCHANGED <<packet, lost>>

Take ==
  /\ line # <<>>
  /\ line' = Tail(line) /\ packet' = Append(packet, Head(line))
  /\ UNCHANGED lost

Deliver == Whole(packet) /\ packet' = <<>> /\ UNCHANGED <<line, lost>>

Close == packet = <<>> /\ packet' = <<>> /\ line' = <<>> /\ UNCHANGED lost

Lose == lost' = TRUE /\ line' = <<>> /\ packet' = <<>>

LineNext == Arrive \/ Discard \/ Take \/ Deliver \/ Close \/ Lose

LineSpec == LineInit /\ [][LineNext]_lineVars

\* Nothing stays in the line, or half assembled, for ever.
LineFairSpec == LineSpec /\ WF_lineVars(Discard \/ Take) /\ WF_lineVars(Deliver)
=============================================================================
