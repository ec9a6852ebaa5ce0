----------------------------- MODULE MCFtmac100 -----------------------------
(* Ftmac100 on small rings.                                                *)
EXTENDS Ftmac100

MCOneBuffer  == {1}
MCAnyBuffers == 1 .. MaxSegs
=============================================================================
