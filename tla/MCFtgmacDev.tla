----------------------------- MODULE MCFtgmacDev -----------------------------
(* FtgmacDev with two addresses on the bus. *)
EXTENDS FtgmacDev
=============================================================================
