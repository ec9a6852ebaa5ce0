---------------------------- MODULE FtPci_proof ----------------------------
(***************************************************************************)
(* Proofs about FtPci for every board, every number of buses, devices,     *)
(* functions and BARs, and every size of the windows: the windows given    *)
(* out are apart, and the ones of the sizing stay in upper halves only.    *)
(***************************************************************************)
EXTENDS FtPci, TLAPS

-----------------------------------------------------------------------------
(* Arithmetic of the windows *)

LEMMA MultipleMod == ASSUME NEW q \in Nat, NEW a \in Nat \ {0} PROVE (q * a) % a = 0
  OBVIOUS

LEMMA DivNat == ASSUME NEW p \in Nat, NEW a \in Nat \ {0} PROVE (p \div a) \in Nat
  OBVIOUS

LEMMA DivNext ==
  ASSUME NEW p \in Nat, NEW a \in Nat \ {0} PROVE p < ((p \div a) + 1) * a
  OBVIOUS

LEMMA ModFact ==
  ASSUME NEW x \in Nat, NEW w \in Nat \ {0}
  PROVE  x % w \in 0 .. w - 1 /\ (x < w => x % w = x)
  OBVIOUS

\* AlignUp is a multiple of the alignment that is not below.
LEMMA AlignUpFact ==
  ASSUME NEW p \in Nat, NEW a \in Nat \ {0}
  PROVE  /\ AlignUp(p, a) \in Nat
         /\ AlignUp(p, a) >= p
         /\ AlignUp(p, a) % a = 0
<1>1. CASE p % a = 0
  BY <1>1 DEF AlignUp
<1>2. CASE p % a # 0
  <2>1. PICK q \in Nat : q = (p \div a) + 1
    BY DivNat
  <2>2. AlignUp(p, a) = q * a
    BY <1>2, <2>1 DEF AlignUp
  <2>3. q * a > p
    BY <2>1, DivNext
  <2>4. q * a \in Nat
    OBVIOUS
  <2> QED
    BY <2>2, <2>3, <2>4, MultipleMod
<1> QED
  BY <1>1, <1>2

-----------------------------------------------------------------------------
(* What the board looks like *)

LEMMA BarFact ==
  ASSUME board \in Boards, NEW g \in Functions, NEW k \in BarNos
  PROVE  /\ BarSize(g, k) \in Nat
         /\ Kind(g, k) \in Spaces \cup {"none", "high"}
         /\ Kind(g, k) \in Spaces =>
              /\ BarSize(g, k) \in Nat \ {0}
              /\ dwAlignmentSize(Kind(g, k), BarSize(g, k)) = BarSize(g, k)
<1>1. board \in Board
  BY BoardAssumption
<1>2. board.bars[g][k] \in BarKind
  BY <1>1 DEF Board
<1>3. BarSize(g, k) \in Nat /\ Kind(g, k) \in Spaces \cup {"none", "high"}
  BY <1>2 DEF BarKind, BarSize, Kind
<1>4. ASSUME Kind(g, k) \in Spaces
      PROVE  /\ BarSize(g, k) \in Nat \ {0}
             /\ dwAlignmentSize(Kind(g, k), BarSize(g, k)) = BarSize(g, k)
  <2>1. BarSize(g, k) >= Alignment[Kind(g, k)]
    BY <1>4, BoardAssumption DEF Kind, BarSize
  <2>2. Alignment[Kind(g, k)] \in Nat \ {0}
    BY <1>4, WindowAssumption
  <2> QED
    BY <1>3, <2>1, <2>2 DEF dwAlignmentSize
<1> QED
  BY <1>3, <1>4

LEMMA WhoAnswers ==
  ASSUME board \in Boards, NEW n \in Ids
  PROVE  board.answers[n] \in Functions \cup {NoFunction}
<1>1. board \in Board
  BY BoardAssumption
<1> QED
  BY <1>1 DEF Board

-----------------------------------------------------------------------------
(* The walk *)

\* The order of the three loops.
Before(n, m) ==
  \/ n[1] < m[1]
  \/ n[1] = m[1] /\ n[2] < m[2]
  \/ n[1] = m[1] /\ n[2] = m[2] /\ n[3] < m[3]

LEMMA IdParts ==
  ASSUME NEW n \in Ids
  PROVE  /\ n = <<n[1], n[2], n[3]>>
         /\ n[1] \in 0 .. PCI_MAX_BUS_NUM - 1
         /\ n[2] \in 0 .. PCI_MAX_DEVICE_NUM - 1
         /\ n[3] \in 0 .. PCI_MAX_FUNCTION_NUM - 1
  BY DEF Ids

LEMMA IdIsIn ==
  ASSUME NEW b \in 0 .. PCI_MAX_BUS_NUM - 1, NEW d \in 0 .. PCI_MAX_DEVICE_NUM - 1,
         NEW n \in 0 .. PCI_MAX_FUNCTION_NUM - 1
  PROVE  <<b, d, n>> \in Ids
  BY DEF Ids

\* Two different numbers are ordered.
LEMMA Trichotomy ==
  ASSUME NEW n \in Ids, NEW m \in Ids
  PROVE  Before(n, m) \/ n = m \/ Before(m, n)
<1>1. CASE n[1] = m[1] /\ n[2] = m[2] /\ n[3] = m[3]
  BY <1>1, IdParts
<1>2. CASE ~(n[1] = m[1] /\ n[2] = m[2] /\ n[3] = m[3])
  BY <1>2, IdParts, MaxAssumption DEF Before
<1> QED
  BY <1>1, <1>2

\* Advance passes over no number.
LEMMA AdvanceFact ==
  ASSUME id \in Ids, Advance
  PROVE  /\ id' \in Ids
         /\ pc' \in {"look", "done"}
         /\ pc' = "look" => \A n \in Ids : Before(n, id') => Before(n, id) \/ n = id
         /\ pc' = "done" => \A n \in Ids : Before(n, id) \/ n = id
<1> USE MaxAssumption
<1> DEFINE b == id[1] d == id[2] n == id[3]
<1>0. /\ b \in 0 .. PCI_MAX_BUS_NUM - 1 /\ d \in 0 .. PCI_MAX_DEVICE_NUM - 1
      /\ n \in 0 .. PCI_MAX_FUNCTION_NUM - 1
  BY IdParts
<1>1. CASE n + 1 < PCI_MAX_FUNCTION_NUM /\ id' = <<b, d, n + 1>> /\ pc' = "look"
  <2>1. id' \in Ids
    BY <1>0, <1>1, IdIsIn
  <2>2. ASSUME NEW m \in Ids, Before(m, id'), Before(id, m) PROVE FALSE
    BY <1>0, <1>1, <2>2, IdParts DEF Before
  <2> QED
    BY <1>1, <2>1, <2>2, Trichotomy
<1>2. CASE /\ n + 1 = PCI_MAX_FUNCTION_NUM /\ d + 1 < PCI_MAX_DEVICE_NUM
           /\ id' = <<b, d + 1, 0>> /\ pc' = "look"
  <2>1. id' \in Ids
    BY <1>0, <1>2, IdIsIn
  <2>2. ASSUME NEW m \in Ids, Before(m, id'), Before(id, m) PROVE FALSE
    BY <1>0, <1>2, <2>2, IdParts DEF Before
  <2> QED
    BY <1>2, <2>1, <2>2, Trichotomy
<1>3. CASE /\ n + 1 = PCI_MAX_FUNCTION_NUM /\ d + 1 = PCI_MAX_DEVICE_NUM
           /\ b + 1 < PCI_MAX_BUS_NUM /\ id' = <<b + 1, 0, 0>> /\ pc' = "look"
  <2>1. id' \in Ids
    BY <1>0, <1>3, IdIsIn
  <2>2. ASSUME NEW m \in Ids, Before(m, id'), Before(id, m) PROVE FALSE
    BY <1>0, <1>3, <2>2, IdParts DEF Before
  <2> QED
    BY <1>3, <2>1, <2>2, Trichotomy
<1>4. CASE /\ n + 1 = PCI_MAX_FUNCTION_NUM /\ d + 1 = PCI_MAX_DEVICE_NUM
           /\ b + 1 = PCI_MAX_BUS_NUM /\ pc' = "done" /\ UNCHANGED id
  <2>1. ASSUME NEW m \in Ids, Before(id, m) PROVE FALSE
    BY <1>0, <1>4, <2>1, IdParts DEF Before
  <2> QED
    BY <1>4, <2>1, Trichotomy
<1> QED
  BY <1>1, <1>2, <1>3, <1>4 DEF Advance

\* What the code keeps of an address.
LEMMA WordFact ==
  ASSUME NEW x \in Nat
  PROVE  /\ x % Word \in 0 .. Word - 1 /\ x % Word \in Nat
         /\ x < Word => x % Word = x
<1>1. PICK w \in Nat \ {0} : w = Word
  BY WindowAssumption
<1>2. x % w \in 0 .. w - 1 /\ (x < w => x % w = x)
  BY ModFact
<1> QED
  BY <1>1, <1>2

-----------------------------------------------------------------------------
(* Invariants *)

Busy == pc \in {"size", "assign", "master"}

\* The windows of a space lie one after the other up to next, as long as
\* they fit; nothing is given out while the start is at hand, and the BAR
\* about to be assigned has none.
PlaceInv ==
  /\ pc = "start" => fresh = {} /\ overrun = {}
  /\ pc # "start" => \A s \in Spaces : s \notin overrun =>
                        Base[s] <= next[s] /\ next[s] <= Base[s] + Size[s]
  /\ \A w \in fresh : bar[w[1]][w[2]] \in Nat
  /\ \A w \in fresh : Kind(w[1], w[2]) \notin overrun =>
       LET s == Kind(w[1], w[2]) a == bar[w[1]][w[2]] IN
       /\ Base[s] <= a /\ a + BarSize(w[1], w[2]) <= next[s]
       /\ a % BarSize(w[1], w[2]) = 0
       /\ \A v \in fresh \ {w} : Kind(v[1], v[2]) = s => Apart(v, w)
  /\ pc = "assign" => <<f, i>> \notin fresh

\* What the walk has done with a function.
Clean(g)  == \A k \in BarNos : bar[g][k] = Ones <=> Kind(g, k) = "high"
Given(g)  == \A k \in BarNos : Kind(g, k) \in Spaces => <<g, k>> \in fresh
Served(g) == cmd[g] = Decode \cup {"master"} /\ Given(g)

DecodeInv ==
  /\ \A g \in Functions : cmd[g] \cap Decode # {} => Clean(g)
  /\ pc \in {"size", "assign"} => cmd[f] \cap Decode = {}
  /\ pc \in {"size", "assign"} => \A k \in BarNos : k < i =>
       /\ bar[f][k] = Ones <=> Kind(f, k) = "high"
       /\ Kind(f, k) \in Spaces => <<f, k>> \in fresh
  /\ \A g \in Functions, k \in BarNos : Kind(g, k) = "none" => bar[g][k] # Ones
  /\ pc = "master" => Decode \subseteq cmd[f] /\ Given(f)

\* Everything before the number the walk is at has been served, but for the
\* function at work, which may answer at earlier numbers too.
WalkInv ==
  pc # "start" => \A n \in Scanned :
    LET g == board.answers[n] IN
    /\ g # NoFunction
    /\ Before(n, id) \/ pc = "done"
    /\ ~(Busy /\ g = f)
    => Served(g)

-----------------------------------------------------------------------------
LEMMA TypeStep ==
  ASSUME TypeOK, [Next]_vars
  PROVE  TypeOK'
<1> USE MaxAssumption, WindowAssumption
<1> USE DEF TypeOK
<1>0. <<0, 1, 0>> \in Ids
  BY IdIsIn
<1>1. CASE Start
  <2>1. next' \in [Spaces -> 0 .. Word - 1]
    BY <1>1 DEF Start, Spaces
  <2> QED
    BY <1>0, <1>1, <2>1 DEF Start, Windows, Kind
<1>2. CASE Skip
  BY <1>2, AdvanceFact DEF Skip, Windows, Kind
<1>3. CASE Found
  <2>1. f \in Functions
    BY <1>3, WhoAnswers DEF Found, f
  <2>2. cmd' \in [Functions -> SUBSET (Decode \cup {"master"})]
    BY <1>3, <2>1 DEF Found, flib_DisablePCIDevice, WriteCommand, ReadCommand
  <2> QED
    BY <1>3, <2>1, <2>2 DEF Found, Windows, Kind, f
<1>4. CASE SizeBar
  <2>1. f \in Functions
    BY <1>4 DEF SizeBar, WriteBar
  <2>2. bar' \in [Functions -> [BarNos -> Nat \cup {Ones}]]
    BY <1>4, <2>1 DEF SizeBar, WriteBar
  <2>3. i' \in 0 .. PCI_MAX_BAR_NUM /\ pc' \in {"size", "assign"}
    BY <1>4 DEF SizeBar, WriteBar, BarNos
  <2>4. pc' = "assign" => i' \in BarNos /\ Kind(f, i)' \in Spaces
    BY <1>4 DEF SizeBar, WriteBar, Kind, f
  <2> QED
    BY <1>4, <2>1, <2>2, <2>3, <2>4 DEF SizeBar, WriteBar, Windows, Kind, f
<1>5. ASSUME NEW s \in Spaces, Assign(s) PROVE TypeOK'
  <2> DEFINE a == AlignUp(next[s], dwAlignmentSize(s, BarSize(f, i)))
  <2>1. f \in Functions /\ i \in BarNos /\ Kind(f, i) = s
    BY <1>5 DEF Assign, WriteBar
  <2>2. a \in Nat /\ BarSize(f, i) \in Nat
    <3>1. dwAlignmentSize(s, BarSize(f, i)) \in Nat \ {0} /\ BarSize(f, i) \in Nat
      BY <2>1, BarFact
    <3>2. next[s] \in Nat
      OBVIOUS
    <3> QED
      BY <3>1, <3>2, AlignUpFact
  <2> HIDE DEF a
  <2>3. a % Word \in 0 .. Word - 1 /\ (a + BarSize(f, i)) % Word \in 0 .. Word - 1
    BY <2>2, WordFact
  <2>4. bar' \in [Functions -> [BarNos -> Nat \cup {Ones}]]
    BY <1>5, <2>1, <2>3 DEF Assign, WriteBar, a
  <2>5. next' \in [Spaces -> 0 .. Word - 1]
    BY <1>5, <2>3 DEF Assign, WriteBar, a
  <2>6. <<f, i>> \in Windows
    BY <1>5, <2>1 DEF Windows
  <2>7. i' \in 0 .. PCI_MAX_BAR_NUM /\ pc' = "size"
    BY <1>5, <2>1 DEF Assign, WriteBar, BarNos
  <2>8. fresh' \subseteq Windows /\ overrun' \subseteq Spaces
    BY <1>5, <2>6 DEF Assign, WriteBar
  <2> QED
    BY <1>5, <2>1, <2>4, <2>5, <2>7, <2>8 DEF Assign, WriteBar, Windows, Kind, f
<1>6. CASE Enable
  <2>1. cmd' \in [Functions -> SUBSET (Decode \cup {"master"})]
    BY <1>6 DEF Enable, flib_EnablePCIDevice, WriteCommand, ReadCommand
  <2> QED
    BY <1>6, <2>1 DEF Enable, Windows, Kind, f
<1>7. CASE Master
  <2>1. cmd' \in [Functions -> SUBSET (Decode \cup {"master"})]
    BY <1>7 DEF Master, flib_SetPCIMaster, WriteCommand, ReadCommand
  <2> QED
    BY <1>7, <2>1, AdvanceFact DEF Master, Windows, Kind
<1>8. CASE Reset
  BY <1>8 DEF Reset, Windows, Kind
<1>9. CASE UNCHANGED vars
  BY <1>9 DEF vars, Windows, Kind, f
<1> QED
  BY <1>1, <1>2, <1>3, <1>4, <1>5, <1>6, <1>7, <1>8, <1>9
     DEF Next, AssignIo, AssignMem, Spaces

\* The steps that change no window.
LEMMA PlaceKept ==
  ASSUME TypeOK, PlaceInv, UNCHANGED <<board, bar, next, fresh, overrun>>,
         pc # "start", pc' # "start", pc' # "assign"
  PROVE  PlaceInv'
  BY DEF PlaceInv, Kind, BarSize, Apart

\* A window is a pair.
LEMMA WindowParts ==
  ASSUME TypeOK, NEW w \in fresh
  PROVE  /\ w = <<w[1], w[2]>> /\ w[1] \in Functions /\ w[2] \in BarNos
         /\ Kind(w[1], w[2]) \in Spaces
  BY DEF TypeOK, Windows

LEMMA PlaceStep ==
  ASSUME TypeOK, PlaceInv, [Next]_vars
  PROVE  PlaceInv'
<1>1. CASE Start
  BY <1>1, WindowAssumption DEF Start, PlaceInv, TypeOK
<1>2. CASE Skip
  BY <1>2, PlaceKept, AdvanceFact DEF Skip, TypeOK
<1>3. CASE Found
  BY <1>3, PlaceKept DEF Found
<1>4. CASE SizeBar
  <2>1. f \in Functions /\ i \in BarNos /\ pc = "size"
    BY <1>4 DEF SizeBar, WriteBar, TypeOK
  <2>2. fresh' = fresh \ {<<f, i>>} /\ UNCHANGED <<board, next, overrun, id>>
    BY <1>4 DEF SizeBar, WriteBar
  <2>3. ASSUME NEW w \in fresh'
        PROVE  /\ w \in fresh
               /\ bar'[w[1]][w[2]] = bar[w[1]][w[2]]
               /\ Kind(w[1], w[2])' = Kind(w[1], w[2])
               /\ BarSize(w[1], w[2])' = BarSize(w[1], w[2])
    <3>1. w \in fresh /\ w # <<f, i>>
      BY <2>2, <2>3
    <3>2. w[1] # f \/ w[2] # i
      BY <3>1, WindowParts
    <3>3. bar'[w[1]][w[2]] = bar[w[1]][w[2]]
      BY <1>4, <2>1, <3>1, <3>2, WindowParts DEF SizeBar, WriteBar, TypeOK
    <3> QED
      BY <2>2, <3>1, <3>3 DEF Kind, BarSize
  <2>4. \A v, w \in fresh' : Apart(v, w)' <=> Apart(v, w)
    BY <2>3 DEF Apart
  <2>5. pc' = "assign" => <<f, i>>' \notin fresh'
    BY <1>4, <2>2 DEF SizeBar, WriteBar, f
  <2>6. pc' # "start"
    BY <1>4, <2>1 DEF SizeBar, WriteBar
  <2> QED
    BY <2>1, <2>2, <2>3, <2>4, <2>5, <2>6 DEF PlaceInv
<1>5. ASSUME NEW s \in Spaces, Assign(s) PROVE PlaceInv'
  <2> DEFINE size == BarSize(f, i)
             a == AlignUp(next[s], dwAlignmentSize(s, BarSize(f, i)))
  <2>1. /\ f \in Functions /\ i \in BarNos /\ Kind(f, i) = s
        /\ pc = "assign" /\ <<f, i>> \notin fresh
    BY <1>5 DEF Assign, WriteBar, TypeOK, PlaceInv
  <2>2. size \in Nat \ {0} /\ next[s] \in Nat
    BY <2>1, BarFact, WindowAssumption DEF TypeOK
  <2>3. a \in Nat /\ a >= next[s] /\ a % size = 0
    BY <2>1, <2>2, BarFact, AlignUpFact DEF TypeOK
  <2>4. /\ bar' = [bar EXCEPT ![f][i] = a % Word]
        /\ next' = [next EXCEPT ![s] = (a + size) % Word]
        /\ fresh' = fresh \cup {<<f, i>>}
        /\ overrun' = IF a + size <= Base[s] + Size[s] THEN overrun
                                                     ELSE overrun \cup {s}
        /\ pc' = "size" /\ UNCHANGED board
    BY <1>5 DEF Assign, WriteBar
  <2> HIDE DEF a
  <2>5. /\ Base[s] \in Nat /\ Size[s] \in Nat /\ Word \in Nat \ {0}
        /\ Base[s] + Size[s] < Word
    BY WindowAssumption
  <2>6. a % Word \in Nat /\ (a + size) % Word \in Nat
    BY <2>2, <2>3, <2>5, ModFact
  <2>7. s \notin overrun' =>
          /\ s \notin overrun /\ a + size <= Base[s] + Size[s]
          /\ a % Word = a /\ (a + size) % Word = a + size
    <3>1. ASSUME a + size <= Base[s] + Size[s]
          PROVE  a % Word = a /\ (a + size) % Word = a + size
      <4>1. a < Word /\ a + size < Word /\ a + size \in Nat
        BY <2>2, <2>3, <2>5, <3>1
      <4> QED
        BY <2>3, <2>5, <4>1, ModFact
    <3>2. s \notin overrun' => s \notin overrun /\ a + size <= Base[s] + Size[s]
      BY <2>4
    <3> QED
      BY <3>1, <3>2
  <2>8. bar'[f][i] = a % Word
    BY <2>1, <2>4 DEF TypeOK
  <2>9. ASSUME NEW w \in fresh
        PROVE  /\ bar'[w[1]][w[2]] = bar[w[1]][w[2]] /\ w # <<f, i>>
    BY <2>1, <2>4, WindowParts DEF TypeOK
  <2>10. next'[s] = (a + size) % Word /\ \A t \in Spaces \ {s} : next'[t] = next[t]
    BY <2>4 DEF TypeOK
  <2>11. \A g, k : Kind(g, k)' = Kind(g, k) /\ BarSize(g, k)' = BarSize(g, k)
    BY <2>4 DEF Kind, BarSize
  <2>12. pc' # "start" => \A t \in Spaces : t \notin overrun' =>
           Base[t] <= next'[t] /\ next'[t] <= Base[t] + Size[t]
    BY <2>1, <2>2, <2>3, <2>4, <2>5, <2>7, <2>10 DEF PlaceInv
  <2>13. \A w \in fresh' : bar'[w[1]][w[2]] \in Nat
    BY <2>4, <2>6, <2>8, <2>9 DEF PlaceInv
  <2>14. ASSUME NEW w \in fresh, Kind(w[1], w[2]) = s, s \notin overrun'
         PROVE  /\ bar'[w[1]][w[2]] + BarSize(w[1], w[2]) <= a
                /\ bar'[w[1]][w[2]] \in Nat /\ BarSize(w[1], w[2]) \in Nat
    <3>1. bar[w[1]][w[2]] \in Nat /\ bar[w[1]][w[2]] + BarSize(w[1], w[2]) <= next[s]
      BY <2>7, <2>14 DEF PlaceInv
    <3>2. BarSize(w[1], w[2]) \in Nat
      BY WindowParts, BarFact DEF TypeOK
    <3> QED
      BY <2>2, <2>3, <2>9, <3>1, <3>2
  <2>15. ASSUME NEW w \in fresh', Kind(w[1], w[2]) \notin overrun'
         PROVE  LET t == Kind(w[1], w[2]) b == bar'[w[1]][w[2]] IN
                /\ Base[t] <= b /\ b + BarSize(w[1], w[2]) <= next'[t]
                /\ b % BarSize(w[1], w[2]) = 0
                /\ \A v \in fresh' \ {w} : Kind(v[1], v[2]) = t => Apart(v, w)'
    <3>1. CASE w = <<f, i>>
      <4>1. Kind(w[1], w[2]) = s /\ BarSize(w[1], w[2]) = size
        BY <2>1, <3>1
      <4>2. bar'[w[1]][w[2]] = a /\ next'[s] = a + size
        BY <2>7, <2>8, <2>10, <2>15, <3>1, <4>1
      <4>3. Base[s] <= a
        BY <2>1, <2>2, <2>3, <2>5, <2>7, <2>15, <4>1 DEF PlaceInv
      <4>4. ASSUME NEW v \in fresh' \ {w}, Kind(v[1], v[2]) = s PROVE Apart(v, w)'
        <5>1. v \in fresh
          BY <2>4, <3>1, <4>4
        <5>2. bar'[v[1]][v[2]] + BarSize(v[1], v[2]) <= a
          BY <2>14, <2>15, <4>1, <4>4, <5>1
        <5> QED
          BY <2>11, <4>2, <5>2 DEF Apart
      <4> QED
        BY <2>2, <2>3, <4>1, <4>2, <4>3, <4>4
    <3>2. CASE w # <<f, i>>
      <4>1. w \in fresh /\ Kind(w[1], w[2]) \in Spaces
        BY <2>4, <3>2, WindowParts
      <4> DEFINE t == Kind(w[1], w[2])  b == bar[w[1]][w[2]]
      <4>2. t \notin overrun
        BY <2>4, <2>15
      <4>3. /\ Base[t] <= b /\ b + BarSize(w[1], w[2]) <= next[t]
            /\ b % BarSize(w[1], w[2]) = 0
            /\ \A v \in fresh \ {w} : Kind(v[1], v[2]) = t => Apart(v, w)
        BY <4>1, <4>2 DEF PlaceInv
      <4>4. bar'[w[1]][w[2]] = b
        BY <2>9, <4>1
      <4>5. b \in Nat /\ BarSize(w[1], w[2]) \in Nat
        BY <4>1, WindowParts, BarFact DEF TypeOK, PlaceInv
      <4>6. next[t] \in Nat /\ next'[t] \in Nat /\ next[t] <= next'[t]
        <5>1. CASE t = s
          BY <2>2, <2>3, <2>7, <2>10, <2>15, <5>1
        <5>2. CASE t # s
          BY <2>10, <4>1, <5>2, WindowAssumption DEF TypeOK
        <5> QED
          BY <5>1, <5>2
      <4>7. ASSUME NEW v \in fresh' \ {w}, Kind(v[1], v[2]) = t PROVE Apart(v, w)'
        <5>1. CASE v = <<f, i>>
          <6>1. t = s /\ Kind(v[1], v[2]) = s /\ bar'[v[1]][v[2]] = a
            BY <2>1, <2>7, <2>8, <2>15, <4>7, <5>1
          <6>2. b + BarSize(w[1], w[2]) <= a
            BY <2>14, <2>15, <4>1, <4>4, <6>1
          <6> QED
            BY <2>11, <4>4, <6>1, <6>2 DEF Apart
        <5>2. CASE v # <<f, i>>
          <6>1. v \in fresh \ {w}
            BY <2>4, <4>7, <5>2
          <6>2. Apart(v, w)
            BY <4>3, <4>7, <6>1
          <6>3. bar'[v[1]][v[2]] = bar[v[1]][v[2]]
            BY <2>9, <6>1
          <6> QED
            BY <2>11, <4>4, <6>2, <6>3 DEF Apart
        <5> QED
          BY <5>1, <5>2
      <4> HIDE DEF t, b
      <4>8. b + BarSize(w[1], w[2]) <= next'[t]
        BY <4>3, <4>5, <4>6
      <4>9. /\ Base[t] <= bar'[w[1]][w[2]]
            /\ bar'[w[1]][w[2]] + BarSize(w[1], w[2]) <= next'[t]
            /\ bar'[w[1]][w[2]] % BarSize(w[1], w[2]) = 0
        BY <4>3, <4>4, <4>8
      <4> QED
        BY <4>7, <4>9 DEF t
    <3> QED
      BY <3>1, <3>2
  <2> QED
    BY <2>4, <2>11, <2>12, <2>13, <2>15 DEF PlaceInv
<1>6. CASE Enable
  BY <1>6, PlaceKept DEF Enable
<1>7. CASE Master
  BY <1>7, PlaceKept, AdvanceFact DEF Master, TypeOK
<1>8. CASE Reset
  BY <1>8 DEF Reset, PlaceInv
<1>9. CASE UNCHANGED vars
  BY <1>9 DEF vars, PlaceInv, Kind, BarSize, Apart, f
<1> QED
  BY <1>1, <1>2, <1>3, <1>4, <1>5, <1>6, <1>7, <1>8, <1>9
     DEF Next, AssignIo, AssignMem, Spaces

\* What the walk leaves alone.
LEMMA DecodeKept ==
  ASSUME TypeOK, DecodeInv, UNCHANGED <<board, bar, cmd>>,
         fresh \subseteq fresh', pc' \notin {"size", "assign", "master"}
  PROVE  DecodeInv'
  BY DEF DecodeInv, Clean, Kind

LEMMA DecodeStep ==
  ASSUME TypeOK, DecodeInv, [Next]_vars
  PROVE  DecodeInv'
<1> USE MaxAssumption
<1>1. CASE Start
  BY <1>1, DecodeKept DEF Start
<1>2. CASE Skip
  BY <1>2, DecodeKept, AdvanceFact DEF Skip, TypeOK
<1>3. CASE Found
  <2>1. f \in Functions /\ f' = f /\ i' = 0 /\ pc' = "size"
    BY <1>3, WhoAnswers DEF Found, f, TypeOK
  <2>2. cmd' = [cmd EXCEPT ![f] = cmd[f] \ Decode] /\ UNCHANGED <<board, bar, fresh>>
    BY <1>3 DEF Found, flib_DisablePCIDevice, WriteCommand, ReadCommand
  <2>3. \A g \in Functions : cmd'[g] = IF g = f THEN cmd[f] \ Decode ELSE cmd[g]
    BY <2>1, <2>2 DEF TypeOK
  <2>4. \A g \in Functions : Clean(g)' <=> Clean(g)
    BY <2>2 DEF Clean, Kind
  <2>5. \A g \in Functions : cmd'[g] \cap Decode # {} => Clean(g)'
    BY <2>3, <2>4 DEF DecodeInv
  <2>6. cmd'[f] \cap Decode = {}
    BY <2>1, <2>3
  <2>7. \A k \in BarNos : ~(k < 0)
    BY DEF BarNos
  <2>8. \A g \in Functions, k \in BarNos : Kind(g, k)' = "none" => bar'[g][k] # Ones
    BY <2>2 DEF DecodeInv, Kind
  <2> QED
    BY <2>1, <2>5, <2>6, <2>7, <2>8 DEF DecodeInv
<1>4. CASE SizeBar
  <2>1. /\ f \in Functions /\ i \in BarNos /\ pc = "size"
        /\ UNCHANGED <<board, cmd, id>> /\ f' = f
        /\ fresh' = fresh \ {<<f, i>>}
    BY <1>4 DEF SizeBar, WriteBar, TypeOK, f
  <2>2. \A g \in Functions, k \in BarNos : g # f \/ k # i => bar'[g][k] = bar[g][k]
    BY <1>4, <2>1 DEF SizeBar, WriteBar, TypeOK
  <2>3. \A g \in Functions, k \in BarNos : Kind(g, k)' = Kind(g, k)
    BY <2>1 DEF Kind
  <2>4. ASSUME NEW g \in Functions, cmd'[g] \cap Decode # {} PROVE Clean(g)'
    <3>1. g # f /\ Clean(g)
      BY <2>1, <2>4 DEF DecodeInv
    <3> QED
      BY <2>2, <2>3, <3>1 DEF Clean
  <2>5. cmd'[f'] \cap Decode = {}
    BY <2>1 DEF DecodeInv
  <2>6. bar'[f][i] = IF Kind(f, i) = "none" THEN bar[f][i] ELSE Ones
    BY <1>4, <2>1 DEF SizeBar, WriteBar, TypeOK
  <2>7. Kind(f, i) \in Spaces \cup {"none", "high"}
    BY <2>1, BarFact DEF TypeOK
  <2>8. ASSUME NEW k \in BarNos, k < i'
        PROVE  /\ bar'[f][k] = Ones <=> Kind(f, k) = "high"
               /\ Kind(f, k) \in Spaces => <<f, k>> \in fresh'
    <3>1. CASE k < i
      <4>1. k # i
        BY <3>1, <2>1 DEF BarNos
      <4> QED
        BY <2>1, <2>2, <3>1, <4>1 DEF DecodeInv
    <3>2. CASE ~(k < i)
      <4>1. Kind(f, i) \notin Spaces /\ i' = i + 1
        BY <1>4, <2>8, <3>2 DEF SizeBar, WriteBar
      <4>2. k = i
        BY <2>1, <2>8, <3>2, <4>1 DEF BarNos
      <4>3. bar'[f][i] = Ones <=> Kind(f, i) = "high"
        BY <2>1, <2>6, <2>7, <4>1 DEF DecodeInv
      <4> QED
        BY <4>1, <4>2, <4>3
    <3> QED
      BY <3>1, <3>2
  <2>9. pc' \in {"size", "assign"}
    BY <1>4, <2>1 DEF SizeBar, WriteBar
  <2>10. \A g \in Functions, k \in BarNos : Kind(g, k)' = "none" => bar'[g][k] # Ones
    BY <2>2, <2>3, <2>6 DEF DecodeInv
  <2> QED
    BY <2>1, <2>3, <2>4, <2>5, <2>8, <2>9, <2>10 DEF DecodeInv
<1>5. ASSUME NEW s \in Spaces, Assign(s) PROVE DecodeInv'
  <2> DEFINE a == AlignUp(next[s], dwAlignmentSize(s, BarSize(f, i)))
  <2>1. /\ f \in Functions /\ i \in BarNos /\ pc = "assign" /\ Kind(f, i) = s
        /\ UNCHANGED <<board, cmd, id>> /\ f' = f
        /\ fresh' = fresh \cup {<<f, i>>} /\ pc' = "size" /\ i' = i + 1
        /\ bar' = [bar EXCEPT ![f][i] = a % Word]
    BY <1>5 DEF Assign, WriteBar, TypeOK, f
  <2>2. a % Word \in Nat
    <3>1. dwAlignmentSize(s, BarSize(f, i)) \in Nat \ {0}
      BY <2>1, BarFact DEF TypeOK
    <3>2. next[s] \in Nat
      BY WindowAssumption DEF TypeOK
    <3>3. a \in Nat
      BY <3>1, <3>2, AlignUpFact
    <3> QED
      BY <3>3, WordFact
  <2> HIDE DEF a
  <2>3. \A g \in Functions, k \in BarNos :
          bar'[g][k] = IF g = f /\ k = i THEN a % Word ELSE bar[g][k]
    BY <2>1 DEF TypeOK
  <2>4. a % Word # Ones
    BY <2>2 DEF Ones
  <2>5. \A g \in Functions, k \in BarNos : Kind(g, k)' = Kind(g, k)
    BY <2>1 DEF Kind
  <2>6. ASSUME NEW g \in Functions, cmd'[g] \cap Decode # {} PROVE Clean(g)'
    BY <2>1, <2>3, <2>4, <2>5, <2>6 DEF DecodeInv, Clean
  <2>7. ASSUME NEW k \in BarNos, k < i'
        PROVE  /\ bar'[f][k] = Ones <=> Kind(f, k) = "high"
               /\ Kind(f, k) \in Spaces => <<f, k>> \in fresh'
    <3>1. k < i \/ k = i
      BY <2>1, <2>7 DEF BarNos
    <3>2. ~(i < i)
      BY <2>1 DEF BarNos
    <3>3. "high" \notin Spaces
      BY DEF Spaces
    <3> QED
      BY <2>1, <2>3, <2>4, <3>1, <3>2, <3>3 DEF DecodeInv
  <2>8. \A g \in Functions, k \in BarNos : Kind(g, k)' = "none" => bar'[g][k] # Ones
    BY <2>3, <2>4, <2>5 DEF DecodeInv
  <2> QED
    BY <2>1, <2>5, <2>6, <2>7, <2>8 DEF DecodeInv
<1>6. CASE Enable
  <2>1. /\ f \in Functions /\ pc = "size" /\ i = PCI_MAX_BAR_NUM /\ pc' = "master"
        /\ cmd' = [cmd EXCEPT ![f] = cmd[f] \cup Decode]
        /\ UNCHANGED <<board, bar, fresh, id>> /\ f' = f
    BY <1>6 DEF Enable, flib_EnablePCIDevice, WriteCommand, ReadCommand, TypeOK, f
  <2>2. \A k \in BarNos : k < i
    BY <2>1 DEF BarNos
  <2>3. Clean(f) /\ Given(f)
    BY <2>1, <2>2 DEF DecodeInv, Clean, Given
  <2>4. \A g \in Functions : (Clean(g)' <=> Clean(g)) /\ (Given(g)' <=> Given(g))
    BY <2>1 DEF Clean, Given, Kind
  <2>5. \A g \in Functions : cmd'[g] = IF g = f THEN cmd[f] \cup Decode ELSE cmd[g]
    BY <2>1 DEF TypeOK
  <2>6. \A g \in Functions : cmd'[g] \cap Decode # {} => Clean(g)'
    BY <2>3, <2>4, <2>5 DEF DecodeInv
  <2>7. Decode \subseteq cmd'[f'] /\ Given(f)'
    BY <2>1, <2>3, <2>4, <2>5
  <2>8. \A g \in Functions, k \in BarNos : Kind(g, k)' = "none" => bar'[g][k] # Ones
    BY <2>1 DEF DecodeInv, Kind
  <2> QED
    BY <2>1, <2>6, <2>7, <2>8 DEF DecodeInv
<1>7. CASE Master
  <2>1. /\ f \in Functions /\ pc' \in {"look", "done"}
        /\ cmd' = [cmd EXCEPT ![f] = cmd[f] \cup {"master"}]
        /\ UNCHANGED <<board, bar, fresh>>
    BY <1>7, AdvanceFact DEF Master, flib_SetPCIMaster, WriteCommand, ReadCommand, TypeOK
  <2>2. \A g \in Functions : Clean(g)' <=> Clean(g)
    BY <2>1 DEF Clean, Kind
  <2>3. \A g \in Functions : cmd'[g] \cap Decode = cmd[g] \cap Decode
    BY <2>1 DEF TypeOK, Decode
  <2>4. \A g \in Functions, k \in BarNos : Kind(g, k)' = "none" => bar'[g][k] # Ones
    BY <2>1 DEF DecodeInv, Kind
  <2> QED
    BY <2>1, <2>2, <2>3, <2>4 DEF DecodeInv
<1>8. CASE Reset
  BY <1>8 DEF Reset, DecodeInv, Clean, Kind
<1>9. CASE UNCHANGED vars
  BY <1>9 DEF vars, DecodeInv, Clean, Given, Kind, f
<1> QED
  BY <1>1, <1>2, <1>3, <1>4, <1>5, <1>6, <1>7, <1>8, <1>9
     DEF Next, AssignIo, AssignMem, Spaces

\* A function stays served while others are at work.
LEMMA ServedKept ==
  ASSUME NEW g, Served(g), UNCHANGED board, cmd'[g] = cmd[g],
         \A k \in BarNos : <<g, k>> \in fresh => <<g, k>> \in fresh'
  PROVE  Served(g)'
  BY DEF Served, Given, Kind

LEMMA WalkStep ==
  ASSUME TypeOK, DecodeInv, WalkInv, [Next]_vars
  PROVE  WalkInv'
<1>0. ASSUME NEW n \in Scanned PROVE n \in Ids
  BY <1>0 DEF Scanned
<1>1. CASE Start
  <2>1. ASSUME NEW n \in Scanned, Before(n, <<0, 1, 0>>) PROVE FALSE
    <3>1. n[1] = 0 /\ n[2] = 0 /\ n[3] \in 0 .. PCI_MAX_FUNCTION_NUM - 1
      BY <1>0, <2>1, IdParts, MaxAssumption DEF Before
    <3>2. n = <<0, 0, n[3]>>
      BY <1>0, <2>1, <3>1, IdParts
    <3> QED
      BY <2>1, <3>1, <3>2 DEF Scanned
  <2> QED
    BY <1>1, <2>1 DEF Start, WalkInv
<1>2. CASE Skip
  <2>1. /\ pc = "look" /\ f = NoFunction /\ Advance /\ id \in Ids
        /\ UNCHANGED <<board, cmd, fresh>>
    BY <1>2 DEF Skip, TypeOK
  <2>2. pc' \in {"look", "done"}
    BY <2>1, AdvanceFact
  <2>3. ASSUME NEW n \in Scanned, board.answers[n] # NoFunction,
               Before(n, id') \/ pc' = "done"
        PROVE  Served(board.answers[n])'
    <3>1. Before(n, id) \/ n = id
      BY <1>0, <2>1, <2>2, <2>3, AdvanceFact
    <3>2. n # id
      BY <2>1, <2>3 DEF f
    <3>3. Served(board.answers[n])
      BY <2>1, <2>3, <3>1, <3>2 DEF WalkInv, Busy
    <3> QED
      BY <2>1, <3>3, ServedKept DEF Served, Given, Kind
  <2> QED
    BY <2>1, <2>3 DEF WalkInv
<1>3. CASE Found
  <2>1. /\ pc = "look" /\ pc' = "size" /\ UNCHANGED <<board, id, fresh>> /\ f' = f
        /\ cmd' = [cmd EXCEPT ![f] = cmd[f] \ Decode]
    BY <1>3 DEF Found, flib_DisablePCIDevice, WriteCommand, ReadCommand, f
  <2>2. ASSUME NEW n \in Scanned, board.answers[n] # NoFunction,
               Before(n, id), board.answers[n] # f
        PROVE  Served(board.answers[n])'
    <3>1. Served(board.answers[n])
      BY <2>1, <2>2 DEF WalkInv, Busy
    <3>2. cmd'[board.answers[n]] = cmd[board.answers[n]]
      BY <1>0, <2>1, <2>2, WhoAnswers DEF TypeOK
    <3> QED
      BY <2>1, <3>1, <3>2, ServedKept
  <2> QED
    BY <2>1, <2>2 DEF WalkInv, Busy
<1>4. CASE SizeBar
  <2>1. /\ pc = "size" /\ pc' \in {"size", "assign"} /\ f' = f
        /\ UNCHANGED <<board, id, cmd>> /\ fresh' = fresh \ {<<f, i>>}
    BY <1>4 DEF SizeBar, WriteBar, f
  <2>2. ASSUME NEW n \in Scanned, board.answers[n] # NoFunction,
               Before(n, id), board.answers[n] # f
        PROVE  Served(board.answers[n])'
    <3>1. Served(board.answers[n])
      BY <2>1, <2>2 DEF WalkInv
    <3>2. \A k \in BarNos : <<board.answers[n], k>> \in fresh
                              => <<board.answers[n], k>> \in fresh'
      BY <2>1, <2>2
    <3> QED
      BY <2>1, <3>1, <3>2, ServedKept
  <2> QED
    BY <2>1, <2>2 DEF WalkInv, Busy
<1>5. ASSUME NEW s \in Spaces, Assign(s) PROVE WalkInv'
  <2>1. /\ pc = "assign" /\ pc' = "size" /\ f' = f
        /\ UNCHANGED <<board, id, cmd>> /\ fresh' = fresh \cup {<<f, i>>}
    BY <1>5 DEF Assign, WriteBar, f
  <2>2. ASSUME NEW n \in Scanned, board.answers[n] # NoFunction,
               Before(n, id), board.answers[n] # f
        PROVE  Served(board.answers[n])'
    <3>1. Served(board.answers[n])
      BY <2>1, <2>2 DEF WalkInv
    <3> QED
      BY <2>1, <3>1, ServedKept
  <2> QED
    BY <2>1, <2>2 DEF WalkInv, Busy
<1>6. CASE Enable
  <2>1. /\ pc = "size" /\ pc' = "master" /\ UNCHANGED <<board, id, fresh>> /\ f' = f
        /\ cmd' = [cmd EXCEPT ![f] = cmd[f] \cup Decode]
    BY <1>6 DEF Enable, flib_EnablePCIDevice, WriteCommand, ReadCommand, f
  <2>2. ASSUME NEW n \in Scanned, board.answers[n] # NoFunction,
               Before(n, id), board.answers[n] # f
        PROVE  Served(board.answers[n])'
    <3>1. Served(board.answers[n])
      BY <2>1, <2>2 DEF WalkInv
    <3>2. cmd'[board.answers[n]] = cmd[board.answers[n]]
      BY <1>0, <2>1, <2>2, WhoAnswers DEF TypeOK
    <3> QED
      BY <2>1, <3>1, <3>2, ServedKept
  <2> QED
    BY <2>1, <2>2 DEF WalkInv, Busy
<1>7. CASE Master
  <2>1. /\ pc = "master" /\ Advance /\ id \in Ids /\ f \in Functions
        /\ UNCHANGED <<board, fresh>>
        /\ cmd' = [cmd EXCEPT ![f] = cmd[f] \cup {"master"}]
    BY <1>7 DEF Master, flib_SetPCIMaster, WriteCommand, ReadCommand, TypeOK
  <2>2. pc' \in {"look", "done"}
    BY <2>1, AdvanceFact
  <2>3. ASSUME NEW g, g = f PROVE Served(g)'
    <3>1. Decode \subseteq cmd[f] /\ cmd[f] \subseteq Decode \cup {"master"} /\ Given(f)
      BY <2>1 DEF DecodeInv, TypeOK
    <3>2. cmd'[g] = cmd[g] \cup {"master"}
      BY <2>1, <2>3 DEF TypeOK
    <3>3. cmd'[g] = Decode \cup {"master"} /\ Given(g)
      BY <2>3, <3>1, <3>2
    <3> QED
      BY <2>1, <3>3 DEF Served, Given, Kind
  <2>4. ASSUME NEW n \in Scanned, board.answers[n] # NoFunction,
               Before(n, id') \/ pc' = "done"
        PROVE  Served(board.answers[n])'
    <3>1. Before(n, id) \/ n = id
      BY <1>0, <2>1, <2>2, <2>4, AdvanceFact
    <3>2. CASE board.answers[n] = f
      BY <2>1, <2>3, <3>2
    <3>3. CASE board.answers[n] # f
      <4>1. Served(board.answers[n])
        BY <2>1, <2>4, <3>1, <3>3 DEF WalkInv, f
      <4>2. cmd'[board.answers[n]] = cmd[board.answers[n]]
        BY <1>0, <2>1, <2>4, <3>3, WhoAnswers DEF TypeOK
      <4> QED
        BY <2>1, <4>1, <4>2, ServedKept
    <3> QED
      BY <3>2, <3>3
  <2> QED
    BY <2>1, <2>4 DEF WalkInv
<1>8. CASE Reset
  BY <1>8 DEF Reset, WalkInv
<1>9. CASE UNCHANGED vars
  BY <1>9 DEF vars, WalkInv, Busy, Served, Given, Kind, f
<1> QED
  BY <1>1, <1>2, <1>3, <1>4, <1>5, <1>6, <1>7, <1>8, <1>9
     DEF Next, AssignIo, AssignMem, Spaces

-----------------------------------------------------------------------------
(* Theorems *)

PciInv == TypeOK /\ PlaceInv /\ DecodeInv /\ WalkInv

LEMMA PciInit ==
  ASSUME Init
  PROVE  PciInv
<1>1. <<0, 1, 0>> \in Ids
  BY IdIsIn, MaxAssumption
<1>2. TypeOK
  BY <1>1, WindowAssumption, MaxAssumption DEF Init, TypeOK
<1>3. PlaceInv /\ WalkInv
  BY DEF Init, PlaceInv, WalkInv
<1>4. DecodeInv
  <2>1. \A g \in Functions, k \in BarNos : bar[g][k] = 0 /\ cmd[g] = {}
    BY DEF Init
  <2>2. 0 # Ones
    BY DEF Ones
  <2>3. \A g \in Functions : ~(cmd[g] \cap Decode # {})
    BY DEF Init
  <2>4. pc \notin {"size", "assign", "master"}
    BY DEF Init
  <2>5. \A g \in Functions, k \in BarNos : Kind(g, k) = "none" => bar[g][k] # Ones
    BY <2>1, <2>2
  <2> QED
    BY <2>3, <2>4, <2>5 DEF DecodeInv
<1> QED
  BY <1>2, <1>3, <1>4 DEF PciInv

LEMMA PciInvariant == Spec => []PciInv
<1>1. Init => PciInv
  BY PciInit
<1>2. PciInv /\ [Next]_vars => PciInv'
  BY TypeStep, PlaceStep, DecodeStep, WalkStep DEF PciInv
<1> QED
  BY <1>1, <1>2, PTL DEF Spec

\* The walk stays among the numbers there are, and assigns a BAR only to a
\* function that has it, on every board.
THEOREM PciTypeCorrect == Spec => []TypeOK
<1>1. PciInv => TypeOK
  BY DEF PciInv
<1> QED
  BY <1>1, PciInvariant, PTL

\* Lines 214-278: for every board, and every number of buses, devices,
\* functions and BARs, the windows of a space that is large enough lie in it,
\* aligned, and apart.
THEOREM PciWindowsApart == Spec => []WindowsApart
<1>1. ASSUME PciInv PROVE WindowsApart
  <2>1. fresh # {} => pc # "start"
    BY <1>1 DEF PciInv, PlaceInv
  <2>2. ASSUME NEW w \in fresh, Kind(w[1], w[2]) \notin overrun
        PROVE  LET s == Kind(w[1], w[2]) a == bar[w[1]][w[2]] IN
               /\ Base[s] <= a /\ a + BarSize(w[1], w[2]) <= Base[s] + Size[s]
               /\ a % BarSize(w[1], w[2]) = 0
               /\ \A v \in fresh \ {w} : Kind(v[1], v[2]) = s => Apart(v, w)
    <3> DEFINE s == Kind(w[1], w[2])  a == bar[w[1]][w[2]]
    <3>1. /\ Base[s] <= a /\ a + BarSize(w[1], w[2]) <= next[s]
          /\ a % BarSize(w[1], w[2]) = 0
          /\ \A v \in fresh \ {w} : Kind(v[1], v[2]) = s => Apart(v, w)
      BY <1>1, <2>2 DEF PciInv, PlaceInv
    <3>2. s \in Spaces /\ w[1] \in Functions /\ w[2] \in BarNos
      BY <1>1, <2>2, WindowParts DEF PciInv
    <3>3. next[s] <= Base[s] + Size[s]
      BY <1>1, <2>1, <2>2, <3>2 DEF PciInv, PlaceInv
    <3>4. a \in Nat /\ BarSize(w[1], w[2]) \in Nat /\ next[s] \in Nat
      BY <1>1, <2>2, <3>2, BarFact, WindowAssumption DEF PciInv, PlaceInv, TypeOK
    <3>5. Base[s] \in Nat /\ Size[s] \in Nat
      BY <3>2, WindowAssumption
    <3> HIDE DEF s, a
    <3>6. a + BarSize(w[1], w[2]) <= Base[s] + Size[s]
      BY <3>1, <3>3, <3>4, <3>5
    <3> QED
      BY <3>1, <3>6 DEF s, a
  <2> QED
    BY <2>2 DEF WindowsApart
<1> QED
  BY <1>1, PciInvariant, PTL

\* Lines 217-226 and 355-369: for every board, and a reset of the processor
\* wherever it comes, what decodes has the ones of the sizing in the upper
\* halves of its BARs of 64 bits, and nowhere else; and a completed walk has
\* switched on all it saw.
THEOREM PciOnesOnlyInUpperHalves == Spec => []OnesOnlyInUpperHalves
<1>1. ASSUME PciInv PROVE OnesOnlyInUpperHalves
  <2>1. \A g \in Functions : cmd[g] \cap Decode # {} =>
          \A k \in BarNos : bar[g][k] = Ones <=> Kind(g, k) = "high"
    BY <1>1 DEF PciInv, DecodeInv, Clean
  <2>2. ASSUME pc = "done", NEW n \in Scanned, board.answers[n] # NoFunction
        PROVE  Served(board.answers[n])
    BY <1>1, <2>2 DEF PciInv, WalkInv, Busy
  <2> QED
    BY <2>1, <2>2 DEF OnesOnlyInUpperHalves, Served, Given
<1> QED
  BY <1>1, PciInvariant, PTL
=============================================================================
