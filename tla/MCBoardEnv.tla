----------------------------- MODULE MCBoardEnv -----------------------------
(* BoardEnv on a flash of two sectors of two words, the second one for the *)
(* environment.                                                            *)
EXTENDS BoardEnv, TLC

MCstart == 0 :> 0 @@ 1 :> 8 @@ 2 :> 16
MCImage(s) == [b \in 8 .. 15 |-> s[b - 7]]
MCOld  == MCImage(<<0, 1, 1, 1, 1, 0, 1, 1>>)
MCNew  == MCImage(<<1, 0, 1, 1, 0, 1, 1, 1>>)
MCEnvs == {MCOld, MCNew}

\* inside of a word, and over a head and a tail; environments come in whole words
MCRequests == {[addr |-> 1, src |-> <<0, 1>>], [addr |-> 2, src |-> <<1, 0, 1, 0>>]}
=============================================================================
