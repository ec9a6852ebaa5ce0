----------------------------- MODULE MCFtgmacTx -----------------------------
(* FtgmacTx with a small ring and one skb more than the ring holds, so     *)
(* that it fills up, wraps around and can be overrun.                      *)
EXTENDS FtgmacTx

MCKeep == {"keep"}
MCAnyRestart == {"keep", "rewind", "forget"}
=============================================================================
