----------------------------- MODULE MCFtgmacRx -----------------------------
(* FtgmacRx on a small ring.                                               *)
EXTENDS FtgmacRx

\* Pages are all alike: the allocator takes the first.
MCFirst(p, free) == p = CHOOSE q \in free : TRUE

\* No property says anything of a ring that has lost track of a page, so the
\* run does not follow it further.
MCOnTrack == ~short
=============================================================================
