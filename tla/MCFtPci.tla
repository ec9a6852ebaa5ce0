------------------------------- MODULE MCFtPci -------------------------------
(* FtPci with two buses of two devices of two functions, two BARs each, and *)
(* spaces small enough to be used up.                                       *)
EXTENDS FtPci, TLC

CONSTANTS card, disk

Bar(k, n) == [kind |-> k, size |-> n]
MCKinds == {<<Bar("mem", 16), Bar("io", 4)>>, <<Bar("mem", 32), Bar("mem", 16)>>,
            <<Bar("io", 8), Bar("io", 4)>>, <<Bar("mem", 32), Bar("high", 0)>>,
            <<Bar("none", 0), Bar("io", 8)>>}
Numbered(s) == [k \in BarNos |-> s[k + 1]]

\* a card on bus 0 with one function that answers at both numbers or at one,
\* a disk in its second function or on bus 1
MCAnswers == {[n \in Ids |-> CASE n = place       -> disk
                               [] n = <<0, 1, 0>> -> card
                               [] n = <<0, 1, 1>> -> second
                               [] OTHER           -> NoFunction] :
                second \in {card, NoFunction},
                place \in {<<0, 1, 1>>, <<1, 0, 0>>, <<1, 1, 0>>}}
MCBoards == [answers : MCAnswers,
             bars : {card :> Numbered(c) @@ disk :> Numbered(d) : c, d \in MCKinds}]

MCBase  == "mem" :> 160 @@ "io" :> 20
MCSize  == "mem" :> 80 @@ "io" :> 24
MCAlign == "mem" :> 16 @@ "io" :> 4
=============================================================================
