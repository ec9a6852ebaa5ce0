---------------------------- MODULE MCFtgmacNapi ----------------------------
(* FtgmacNapi with rings of two and two line speeds. *)
EXTENDS FtgmacNapi

MCSpeeds == {10, 1000}
=============================================================================
