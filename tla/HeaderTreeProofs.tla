--------------------------- MODULE HeaderTreeProofs ---------------------------
(***************************************************************************)
(* What holds of every tree of headers, whatever blocks exist, in whatever *)
(* order they arrive, wherever the checkpoints are and whatever a file cut *)
(* short by a crash gives back: the tree is connected, it follows a chain  *)
(* with the most work, below a checkpoint it holds one chain, the tips it  *)
(* tells of are those of its branches, and what was saved is loaded again. *)
(*                                                                         *)
(* What holds of sessions on one tree, however many there are, whatever    *)
(* chains their peers follow and however their answers are cut: the tree   *)
(* under them is the same tree, a sync that ends as finished is, and no    *)
(* peer on our chain is left for being on another.                         *)
(***************************************************************************)
EXTENDS HeaderSync, SequenceTheorems, FiniteSetTheorems, WellFoundedInduction, TLAPS

----------------------------------------------------------------------------
(* The inductive invariant *)

\* A tree of entries: its root, and every other block one above its parent.
IsTree(map) ==
  /\ DOMAIN map \subseteq Blocks /\ Genesis \in DOMAIN map
  /\ \A b \in DOMAIN map : map[b].height \in Nat /\ map[b].chain_work \in Nat
  /\ map[Genesis].height = 0
  /\ \A b \in DOMAIN map \ {Genesis} :
       /\ Parent[b] \in DOMAIN map
       /\ map[b].height = map[Parent[b]].height + 1
       /\ map[b].chain_work = map[Parent[b]].chain_work + Work[b]

\* Up to a held checkpoint there is its ancestry and nothing else.
OneChain(map, at) ==
  \A c \in Checkpoints : c.height = at =>
    /\ c.hash \in DOMAIN map
    /\ {b \in DOMAIN map : map[b].height <= at} = Ancestry(map, c.hash)

\* A list of refusals, none of them twice.
Refusals == HeaderError \ {"OrphanHeader"}
IsList(list) ==
  /\ \E H : list \in Seq([hash : H, reason : Refusals])
  /\ \A i, j \in 1..Len(list) : list[i].hash = list[j].hash => i = j

TreeInv ==
  /\ IsTree(headers) /\ reached \in Int
  /\ TipHasMostWork
  /\ OneChain(headers, reached)
  /\ IsList(rejected) /\ Len(rejected) <= REJECTED_REMEMBERED

----------------------------------------------------------------------------
(* Branches *)

\* Below every block of a set that has its members' parents is the root: walking back
\* ends there (prune_below_checkpoint, rebuild_best_chain).
LEMMA RootReached ==
  ASSUME NEW map, IsTree(map), NEW S \in SUBSET DOMAIN map, ParentClosed(S), S # {}
  PROVE  Genesis \in S
<1> DEFINE H == {map[x].height : x \in S}
<1>1. H \in SUBSET Nat /\ H # {}
  BY DEF IsTree
<1>2. PICK n \in H : \A m \in H : ~(<<m, n>> \in OpToRel(<, Nat))
  BY <1>1, WFMin, NatLessThanWellFounded
<1>3. PICK x \in S : map[x].height = n
  BY <1>2
<1>4. CASE x = Genesis
  BY <1>3, <1>4
<1>5. CASE x # Genesis
  <2>1. Parent[x] \in S
    BY <1>3, <1>5 DEF ParentClosed
  <2>2. map[Parent[x]].height \in H /\ map[Parent[x]].height \in Nat /\ n \in Nat
    BY <1>1, <2>1
  <2>3. n = map[Parent[x]].height + 1
    BY <1>3, <1>5 DEF IsTree
  <2>4. map[Parent[x]].height < n
    BY <2>2, <2>3
  <2> DEFINE m == map[Parent[x]].height
  <2>5. <<m, n>> \in Nat \X Nat /\ <<m, n>>[1] < <<m, n>>[2]
    BY <2>2, <2>4
  <2> HIDE DEF m
  <2>6. <<m, n>> \in OpToRel(<, Nat)
    BY <2>5, Zenon DEF OpToRel
  <2>7. m \in H
    BY <2>2 DEF m
  <2> QED
    BY <1>2, <2>6, <2>7
<1> QED
  BY <1>4, <1>5

\* The ancestry of a block: it is closed, has the block and the root, and is no higher
\* than the block.
LEMMA AncestryOf ==
  ASSUME NEW map, IsTree(map), NEW b \in DOMAIN map
  PROVE  /\ Ancestry(map, b) \subseteq DOMAIN map /\ b \in Ancestry(map, b)
         /\ ParentClosed(Ancestry(map, b)) /\ Genesis \in Ancestry(map, b)
         /\ \A x \in Ancestry(map, b) : map[x].height <= map[b].height
<1>1. Ancestry(map, b) \subseteq DOMAIN map /\ b \in Ancestry(map, b)
  BY DEF Ancestry
<1>2. ParentClosed(Ancestry(map, b))
  <2> SUFFICES ASSUME NEW x \in Ancestry(map, b) \ {Genesis}
               PROVE  Parent[x] \in Ancestry(map, b)
    BY DEF ParentClosed
  <2>1. Parent[x] \in DOMAIN map
    BY <1>1 DEF IsTree
  <2>2. ASSUME NEW S \in SUBSET DOMAIN map, b \in S, ParentClosed(S) PROVE Parent[x] \in S
    <3>1. x \in S
      BY <2>2 DEF Ancestry
    <3> QED
      BY <2>2, <3>1 DEF ParentClosed
  <2> QED
    BY <2>1, <2>2 DEF Ancestry
<1>3. Genesis \in Ancestry(map, b)
  BY <1>1, <1>2, RootReached
<1>4. ASSUME NEW x \in Ancestry(map, b) PROVE map[x].height <= map[b].height
  <2> DEFINE S == {y \in DOMAIN map : map[y].height <= map[b].height}
  <2>1. b \in S /\ S \in SUBSET DOMAIN map
    BY DEF IsTree
  <2>2. ParentClosed(S)
    <3> SUFFICES ASSUME NEW y \in DOMAIN map \ {Genesis}, map[y].height <= map[b].height
                 PROVE  Parent[y] \in DOMAIN map /\ map[Parent[y]].height <= map[b].height
      BY DEF ParentClosed
    <3>1. Parent[y] \in DOMAIN map /\ map[y].height = map[Parent[y]].height + 1
      BY DEF IsTree
    <3>2. map[Parent[y]].height \in Nat /\ map[y].height \in Nat /\ map[b].height \in Nat
      BY <3>1 DEF IsTree
    <3> QED
      BY <3>1, <3>2
  <2>3. x \in S
    BY <2>1, <2>2 DEF Ancestry
  <2> QED
    BY <2>3
<1> QED
  BY <1>1, <1>2, <1>3, <1>4

\* The ancestry of a block is the same in every part of a tree that has all of it.
LEMMA SameAncestry ==
  ASSUME NEW map, NEW part, NEW b \in DOMAIN part, DOMAIN part \subseteq DOMAIN map,
         ParentClosed(DOMAIN part)
  PROVE  Ancestry(part, b) = Ancestry(map, b)
<1>1. ASSUME NEW x \in Ancestry(part, b) PROVE x \in Ancestry(map, b)
  <2>1. x \in DOMAIN map
    BY DEF Ancestry
  <2>2. ASSUME NEW S \in SUBSET DOMAIN map, b \in S, ParentClosed(S) PROVE x \in S
    <3>1. S \cap DOMAIN part \in SUBSET DOMAIN part /\ b \in S \cap DOMAIN part
      BY <2>2
    <3>2. ParentClosed(S \cap DOMAIN part)
      BY <2>2 DEF ParentClosed
    <3> QED
      BY <3>1, <3>2 DEF Ancestry
  <2> QED
    BY <2>1, <2>2 DEF Ancestry
<1>2. ASSUME NEW x \in Ancestry(map, b) PROVE x \in Ancestry(part, b)
  <2>1. x \in DOMAIN part
    BY DEF Ancestry
  <2>2. ASSUME NEW S \in SUBSET DOMAIN part, b \in S, ParentClosed(S) PROVE x \in S
    BY <2>2 DEF Ancestry
  <2> QED
    BY <2>1, <2>2 DEF Ancestry
<1> QED
  BY <1>1, <1>2

\* A prune keeps the ancestry of its checkpoint, what stands above it and has all its
\* parents, and nothing else (prune_below_checkpoint).
LEMMA SurvivorsOf ==
  ASSUME NEW map, IsTree(map), NEW b \in DOMAIN map
  PROVE  LET stay == Survivors(map, b)
         IN  /\ stay \subseteq DOMAIN map /\ ParentClosed(stay)
             /\ b \in stay /\ Genesis \in stay
             /\ \A x \in stay : map[x].height <= map[b].height => x \in Ancestry(map, b)
             /\ Ancestry(map, b) \subseteq stay
<1> DEFINE keep     == Ancestry(map, b)
           retained == {x \in DOMAIN map : map[x].height > map[b].height \/ x \in keep}
           stay     == Survivors(map, b)
<1>1. stay = UNION {S \in SUBSET retained : ParentClosed(S)}
  BY DEF Survivors
<1>2. keep \subseteq DOMAIN map /\ b \in keep /\ ParentClosed(keep) /\ Genesis \in keep
  BY AncestryOf
<1>3. keep \subseteq stay
  <2>1. keep \in SUBSET retained
    BY <1>2
  <2> HIDE DEF keep, retained
  <2> QED
    BY <1>1, <1>2, <2>1
<1>4. stay \subseteq retained
  BY <1>1
<1>5. ParentClosed(stay)
  <2> SUFFICES ASSUME NEW x \in stay \ {Genesis} PROVE Parent[x] \in stay
    BY DEF ParentClosed
  <2> HIDE DEF retained, stay
  <2>1. PICK S \in SUBSET retained : ParentClosed(S) /\ x \in S
    BY <1>1
  <2>2. Parent[x] \in S
    BY <2>1 DEF ParentClosed
  <2> QED
    BY <1>1, <2>1, <2>2
<1>6. \A x \in stay : map[x].height <= map[b].height => x \in keep
  <2> SUFFICES ASSUME NEW x \in stay, map[x].height <= map[b].height PROVE x \in keep
    OBVIOUS
  <2>1. x \in DOMAIN map /\ (map[x].height > map[b].height \/ x \in keep)
    BY <1>4
  <2>2. map[x].height \in Nat /\ map[b].height \in Nat
    BY <2>1 DEF IsTree
  <2> HIDE DEF keep
  <2> QED
    BY <2>1, <2>2
<1> QED
  BY <1>2, <1>3, <1>4, <1>5, <1>6

----------------------------------------------------------------------------
(* The refusals *)

\* The end of a list, and a list with one more.
LEMMA Dropped ==
  ASSUME NEW S, NEW list \in Seq(S), NEW n \in 0..Len(list)
  PROVE  /\ Drop(list, n) \in Seq(S) /\ Len(Drop(list, n)) = Len(list) - n
         /\ \A i \in 1..(Len(list) - n) : Drop(list, n)[i] = list[n + i]
<1>1. Len(list) \in Nat /\ n + 1 \in Int /\ Len(list) \in Int
  OBVIOUS
<1>2. \A i \in (n + 1)..Len(list) : list[i] \in S
  BY ElementOfSeq
<1> DEFINE d == SubSeq(list, n + 1, Len(list))
<1>3. /\ d \in Seq(S) /\ Len(d) = IF n + 1 <= Len(list) THEN Len(list) - (n + 1) + 1 ELSE 0
      /\ \A i \in 1..(Len(list) - (n + 1) + 1) : d[i] = list[n + 1 + i - 1]
  BY <1>1, <1>2, SubSeqProperties
<1>4. d = Drop(list, n)
  BY DEF Drop
<1> HIDE DEF d
<1>5. Len(d) = Len(list) - n
  BY <1>1, <1>3
<1>6. \A i \in 1..(Len(list) - n) : d[i] = list[n + i]
  <2> SUFFICES ASSUME NEW i \in 1..(Len(list) - n) PROVE d[i] = list[n + i]
    OBVIOUS
  <2>1. d[i] = list[n + 1 + i - 1] /\ n + 1 + i - 1 = n + i
    BY <1>1, <1>3
  <2> QED
    BY <2>1
<1> QED
  BY <1>3, <1>4, <1>5, <1>6

\* A refusal that is used moves to the back: the same refusals, that one last
\* (touch_rejected).
LEMMA Touched ==
  ASSUME NEW list, IsList(list), NEW b
  PROVE  LET t == touch_rejected(list, b)
         IN  /\ IsList(t) /\ Len(t) = Len(list) /\ Remembered(t) = Remembered(list)
             /\ b \in Remembered(list) => Len(t) \in Nat \ {0} /\ t[Len(t)].hash = b
<1>1. CASE b \notin Remembered(list)
  BY <1>1 DEF touch_rejected
<1>2. CASE b \in Remembered(list)
  <2> DEFINE n  == Len(list)
             at == CHOOSE i \in DOMAIN list : list[i].hash = b
             t  == touch_rejected(list, b)
             front == SubSeq(list, 1, at - 1)
             back  == Drop(list, at)
             Pos(i) == IF i < at THEN i ELSE IF i < n THEN i + 1 ELSE at
  <2>1. PICK H : list \in Seq([hash : H, reason : Refusals])
    BY DEF IsList
  <2> DEFINE S == [hash : H, reason : Refusals]
  <2>2. list \in Seq(S) /\ n \in Nat /\ DOMAIN list = 1..n
    BY <2>1, LenProperties
  <2>3. at \in 1..n /\ list[at].hash = b
    <3>1. \E i \in DOMAIN list : list[i].hash = b
      BY <1>2 DEF Remembered
    <3> QED
      BY <2>2, <3>1
  <2>4. t = front \o back \o <<list[at]>>
    BY <1>2 DEF touch_rejected
  <2> HIDE DEF S, at, n, t
  <2>5. /\ front \in Seq(S) /\ Len(front) = at - 1
        /\ \A i \in 1..(at - 1) : front[i] = list[i]
    <3>1. 1 \in Int /\ at - 1 \in Int /\ (\A i \in 1..(at - 1) : list[i] \in S)
      BY <2>2, <2>3, ElementOfSeq DEF n
    <3>2. /\ front \in Seq(S) /\ Len(front) = IF 1 <= at - 1 THEN (at - 1) - 1 + 1 ELSE 0
          /\ \A i \in 1..((at - 1) - 1 + 1) : front[i] = list[1 + i - 1]
      BY <3>1, SubSeqProperties
    <3> HIDE DEF front
    <3>3. ASSUME NEW i \in 1..(at - 1) PROVE front[i] = list[i]
      <4>1. i \in 1..((at - 1) - 1 + 1) /\ 1 + i - 1 = i
        BY <2>2, <2>3
      <4> QED
        BY <3>2, <4>1
    <3>4. Len(front) = at - 1
      BY <2>2, <2>3, <3>2
    <3> QED
      BY <3>2, <3>3, <3>4
  <2>6. /\ back \in Seq(S) /\ Len(back) = n - at
        /\ \A i \in 1..(n - at) : back[i] = list[at + i]
    <3>1. at \in 0..Len(list) /\ list \in Seq(S)
      BY <2>2, <2>3 DEF n
    <3> HIDE DEF back
    <3>2. /\ back \in Seq(S) /\ Len(back) = Len(list) - at
          /\ \A i \in 1..(Len(list) - at) : back[i] = list[at + i]
      BY <3>1, Dropped DEF back
    <3> QED
      BY <3>2 DEF n
  <2> HIDE DEF front, back
  <2> DEFINE both == front \o back
  <2>7. /\ both \in Seq(S) /\ Len(both) = n - 1
        /\ \A i \in 1..(n - 1) : both[i] = IF i < at THEN front[i] ELSE back[i - (at - 1)]
    <3>1. /\ both \in Seq(S) /\ Len(both) = Len(front) + Len(back)
          /\ \A i \in 1..(Len(front) + Len(back)) : both[i] = IF i <= Len(front) THEN front[i] ELSE back[i - Len(front)]
      BY <2>5, <2>6, ConcatProperties
    <3> HIDE DEF both
    <3>2. Len(front) + Len(back) = n - 1 /\ Len(front) = at - 1
      BY <2>2, <2>3, <2>5, <2>6
    <3>3. \A i \in 1..(n - 1) : i <= at - 1 <=> i < at
      BY <2>2, <2>3
    <3> QED
      BY <3>1, <3>2, <3>3
  <2> HIDE DEF both
  <2>8. <<list[at]>> \in Seq(S) /\ Len(<<list[at]>>) = 1 /\ <<list[at]>>[1] = list[at]
    BY <2>2, <2>3, ElementOfSeq DEF n
  <2>9. /\ t \in Seq(S) /\ Len(t) = n
        /\ \A i \in 1..n : t[i] = IF i < n THEN both[i] ELSE list[at]
    <3> DEFINE z == <<list[at]>>
    <3>1. z \in Seq(S) /\ Len(z) = 1 /\ z[1] = list[at] /\ t = both \o z
      BY <2>4, <2>8 DEF both
    <3> HIDE DEF z
    <3>2. /\ t \in Seq(S) /\ Len(t) = Len(both) + Len(z)
          /\ \A i \in 1..(Len(both) + Len(z)) : t[i] = IF i <= Len(both) THEN both[i] ELSE z[i - Len(both)]
      BY <2>7, <3>1, ConcatProperties
    <3>3. Len(both) + Len(z) = n /\ Len(both) = n - 1
      BY <2>2, <2>7, <3>1
    <3>4. ASSUME NEW i \in 1..n PROVE t[i] = IF i < n THEN both[i] ELSE list[at]
      <4>1. CASE i < n
        <5>1. i <= Len(both)
          BY <2>2, <3>3, <4>1
        <5> QED
          BY <3>2, <3>3, <4>1, <5>1
      <4>2. CASE ~(i < n)
        <5>1. ~(i <= Len(both)) /\ i - Len(both) = 1
          BY <2>2, <3>3, <4>2
        <5> QED
          BY <3>1, <3>2, <3>3, <4>2, <5>1
      <4> QED
        BY <4>1, <4>2
    <3> QED
      BY <3>2, <3>3, <3>4
  <2>10. ASSUME NEW i \in 1..n PROVE t[i] = list[Pos(i)] /\ Pos(i) \in 1..n
    <3>1. CASE i < n /\ i < at
      <4>1. i \in 1..(n - 1) /\ i \in 1..(at - 1)
        BY <2>2, <2>3, <3>1
      <4>2. t[i] = both[i] /\ both[i] = front[i] /\ front[i] = list[i]
        BY <2>5, <2>7, <2>9, <3>1, <4>1
      <4> QED
        BY <3>1, <4>2
    <3>2. CASE i < n /\ ~(i < at)
      <4>1. t[i] = back[i - (at - 1)] /\ i - (at - 1) \in 1..(n - at) /\ at + (i - (at - 1)) = i + 1
        BY <2>2, <2>3, <2>7, <2>9, <3>2
      <4> QED
        BY <2>2, <2>3, <2>6, <3>2, <4>1
    <3>3. CASE ~(i < n)
      <4>1. i = n /\ t[i] = list[at]
        BY <2>2, <2>9, <3>3
      <4> QED
        BY <2>3, <4>1
    <3> QED
      BY <3>1, <3>2, <3>3
  <2>11. \A i, j \in 1..n : Pos(i) = Pos(j) => i = j
    BY <2>2, <2>3
  <2>12. \A j \in 1..n : \E i \in 1..n : Pos(i) = j
    <3> SUFFICES ASSUME NEW j \in 1..n PROVE \E i \in 1..n : Pos(i) = j
      OBVIOUS
    <3>1. CASE j < at
      BY <2>2, <2>3, <3>1
    <3>2. CASE j = at
      <4>1. Pos(n) = j /\ n \in 1..n
        BY <2>2, <2>3, <3>2
      <4> QED
        BY <4>1
    <3>3. CASE j > at
      <4>1. Pos(j - 1) = j /\ j - 1 \in 1..n
        BY <2>2, <2>3, <3>3
      <4> QED
        BY <4>1
    <3> QED
      BY <2>2, <2>3, <3>1, <3>2, <3>3
  <2>13. t[n].hash = b
    <3>1. n \in 1..n /\ Pos(n) = at
      BY <2>2, <2>3
    <3> QED
      BY <2>3, <2>10, <3>1
  <2> HIDE DEF Pos
  <2>14. IsList(t)
    <3>1. \A i, j \in 1..Len(list) : list[i].hash = list[j].hash => i = j
      BY DEF IsList
    <3>2. \A i, j \in 1..n : t[i].hash = t[j].hash => i = j
      BY <2>10, <2>11, <3>1 DEF n
    <3>3. t \in Seq([hash : H, reason : Refusals])
      BY <2>9 DEF S
    <3> QED
      BY <2>9, <3>2, <3>3 DEF IsList
  <2>15. Remembered(t) = Remembered(list)
    <3>1. DOMAIN t = 1..n
      BY <2>9, LenProperties
    <3>2. Remembered(t) = {t[i].hash : i \in 1..n} /\ Remembered(list) = {list[i].hash : i \in 1..n}
      BY <2>2, <3>1 DEF Remembered
    <3>3. \A i \in 1..n : t[i].hash \in Remembered(list)
      BY <2>10, <3>2
    <3>4. \A j \in 1..n : list[j].hash \in Remembered(t)
      BY <2>10, <2>12, <3>2
    <3> QED
      BY <3>2, <3>3, <3>4
  <2>16. n \in Nat \ {0}
    BY <2>2, <2>3
  <2> QED
    BY <2>9, <2>13, <2>14, <2>15, <2>16 DEF n, t
<1> QED
  BY <1>1, <1>2

\* A new refusal goes to the back, and the memory of them stays within its bound without
\* losing it or the one before it (remember_rejected).
LEMMA RefusalRemembered ==
  ASSUME NEW list, IsList(list), Len(list) <= REJECTED_REMEMBERED, NEW b, NEW reason \in Refusals
  PROVE  LET r == remember_rejected(list, b, reason)
         IN  /\ IsList(r) /\ Len(r) <= REJECTED_REMEMBERED
             /\ b \in Remembered(r)
             /\ b \notin Remembered(list) => ReasonFor(r, b) = reason
             /\ Len(list) # 0 => list[Len(list)].hash \in Remembered(r)
             /\ Remembered(r) \subseteq Remembered(list) \cup {b}
<1> DEFINE n == Len(list)
           r == remember_rejected(list, b, reason)
           e == [hash |-> b, reason |-> reason]
           longer == Append(list, e)
<1>1. PICK H : list \in Seq([hash : H, reason : Refusals])
  BY DEF IsList
<1> DEFINE S == [hash : H \cup {b}, reason : Refusals]
<1>2. list \in Seq(S) /\ n \in Nat /\ DOMAIN list = 1..n
  <2>1. [hash : H, reason : Refusals] \subseteq S
    OBVIOUS
  <2> HIDE DEF S
  <2> QED
    BY <1>1, <2>1, SeqMonotonic, LenProperties
<1>3. e \in S /\ e.hash = b /\ e.reason = reason
  OBVIOUS
<1>4. REJECTED_REMEMBERED \in Nat \ {0, 1}
  BY TreeAssumption
<1>5. \A i, j \in 1..n : list[i].hash = list[j].hash => i = j
  BY DEF IsList
<1>6. Remembered(list) = {list[i].hash : i \in 1..n}
  BY <1>2 DEF Remembered
<1>7. CASE b \in Remembered(list)
  <2>1. r = list
    BY <1>7 DEF remember_rejected
  <2>2. n # 0 => list[n].hash \in Remembered(list)
    <3>1. n # 0 => n \in 1..n
      BY <1>2
    <3> QED
      BY <1>6, <3>1
  <2> QED
    BY <1>7, <2>1, <2>2
<1>8. CASE b \notin Remembered(list)
  <2> HIDE DEF S, e, n
  <2>1. /\ longer \in Seq(S) /\ Len(longer) = n + 1
        /\ \A i \in 1..n : longer[i] = list[i]
        /\ longer[n + 1] = e
    BY <1>2, <1>3, AppendProperties DEF n
  <2>2. r = IF Len(longer) > REJECTED_REMEMBERED
              THEN Drop(longer, Len(longer) - REJECTED_REMEMBERED) ELSE longer
    BY <1>8 DEF remember_rejected, e
  <2> HIDE DEF longer, r
  <2>3. \E d \in 0..(n + 1) : /\ r \in Seq(S) /\ Len(r) = n + 1 - d /\ Len(r) <= REJECTED_REMEMBERED
                              /\ (n # 0 => d < n) /\ d < n + 1
                              /\ \A i \in 1..(n + 1 - d) : r[i] = longer[d + i]
    <3>1. CASE Len(longer) > REJECTED_REMEMBERED
      <4> DEFINE d == Len(longer) - REJECTED_REMEMBERED
      <4>1. d \in 0..Len(longer) /\ d \in 0..(n + 1) /\ n + 1 - d <= REJECTED_REMEMBERED /\ d < n
        BY <1>2, <1>4, <2>1, <3>1
      <4>2. r = Drop(longer, d)
        BY <2>2, <3>1
      <4> HIDE DEF d
      <4>3. /\ r \in Seq(S) /\ Len(r) = Len(longer) - d
            /\ \A i \in 1..(Len(longer) - d) : r[i] = longer[d + i]
        BY <2>1, <4>1, <4>2, Dropped
      <4>4. d < n + 1
        BY <1>2, <4>1
      <4>5. Len(r) = n + 1 - d /\ Len(longer) - d = n + 1 - d
        <5>1. Len(longer) = n + 1 /\ Len(r) = Len(longer) - d
          BY <2>1, <4>3
        <5> QED
          BY <1>2, <4>1, <5>1
      <4>6. \A i \in 1..(n + 1 - d) : r[i] = longer[d + i]
        BY <4>3, <4>5
      <4>7. Len(r) <= REJECTED_REMEMBERED
        BY <4>1, <4>5
      <4> QED
        BY <4>1, <4>3, <4>4, <4>5, <4>6, <4>7
    <3>2. CASE ~(Len(longer) > REJECTED_REMEMBERED)
      <4>1. r = longer /\ n + 1 <= REJECTED_REMEMBERED
        BY <1>2, <1>4, <2>1, <2>2, <3>2
      <4>2. 0 \in 0..(n + 1) /\ n + 1 - 0 = n + 1 /\ (n # 0 => 0 < n) /\ 0 < n + 1
        BY <1>2
      <4>3. \A i \in 1..(n + 1 - 0) : r[i] = longer[0 + i]
        BY <1>2, <4>1
      <4> QED
        BY <2>1, <4>1, <4>2, <4>3
    <3> QED
      BY <3>1, <3>2
  <2>4. PICK d \in 0..(n + 1) :
           /\ r \in Seq(S) /\ Len(r) = n + 1 - d /\ Len(r) <= REJECTED_REMEMBERED
           /\ (n # 0 => d < n) /\ d < n + 1
           /\ \A i \in 1..(n + 1 - d) : r[i] = longer[d + i]
    BY <2>3
  <2>5. DOMAIN r = 1..(n + 1 - d)
    BY <2>4, LenProperties
  <2>6. \A i \in 1..n : list[i].hash # b
    BY <1>6, <1>8 DEF n
  <2>7. \A i, j \in 1..(n + 1) : longer[i].hash = longer[j].hash => i = j
    <3>1. \A i \in 1..(n + 1) : i \in 1..n \/ i = n + 1
      BY <1>2
    <3> QED
      BY <1>3, <1>5, <2>1, <2>6, <3>1
  <2>8. \A i \in 1..(n + 1 - d) : d + i \in 1..(n + 1) /\ r[i] = longer[d + i]
    BY <1>2, <2>4
  <2>9. \A i, j \in 1..(n + 1 - d) : r[i].hash = r[j].hash => i = j
    <3> SUFFICES ASSUME NEW i \in 1..(n + 1 - d), NEW j \in 1..(n + 1 - d), r[i].hash = r[j].hash
                 PROVE  i = j
      OBVIOUS
    <3>1. d + i = d + j
      BY <2>7, <2>8
    <3> QED
      BY <1>2, <3>1
  <2>10. IsList(r)
    <3>1. r \in Seq([hash : H \cup {b}, reason : Refusals])
      BY <2>4 DEF S
    <3> QED
      BY <2>4, <2>9, <3>1 DEF IsList
  <2>11. n + 1 - d \in 1..(n + 1 - d) /\ r[n + 1 - d] = e
    <3>1. n + 1 - d \in 1..(n + 1 - d) /\ d + (n + 1 - d) = n + 1
      BY <1>2, <2>4
    <3> QED
      BY <2>1, <2>8, <3>1
  <2>12. b \in Remembered(r)
    BY <1>3, <2>5, <2>11 DEF Remembered
  <2>13. ReasonFor(r, b) = reason
    <3>1. e \in {r[i] : i \in DOMAIN r} /\ e.hash = b
      BY <1>3, <2>5, <2>11
    <3>2. \A x \in {r[i] : i \in DOMAIN r} : x.hash = b => x = e
      BY <1>3, <2>5, <2>9, <2>11
    <3> QED
      BY <1>3, <3>1, <3>2 DEF ReasonFor
  <2>14. n # 0 => list[n].hash \in Remembered(r)
    <3> SUFFICES ASSUME n # 0 PROVE list[n].hash \in Remembered(r)
      OBVIOUS
    <3>1. n - d \in 1..(n + 1 - d) /\ d + (n - d) = n /\ n \in 1..n
      BY <1>2, <2>4
    <3>2. r[n - d] = list[n]
      BY <2>1, <2>8, <3>1
    <3> QED
      BY <2>5, <3>1, <3>2 DEF Remembered
  <2>15. Remembered(r) \subseteq Remembered(list) \cup {b}
    <3>1. \A i \in 1..(n + 1) : longer[i].hash \in {list[j].hash : j \in 1..n} \cup {b}
      <4>1. \A i \in 1..(n + 1) : i \in 1..n \/ i = n + 1
        BY <1>2
      <4> QED
        BY <1>3, <2>1, <4>1
    <3>2. \A i \in 1..(n + 1 - d) : r[i].hash \in Remembered(list) \cup {b}
      BY <1>6, <2>8, <3>1 DEF n
    <3> QED
      BY <2>5, <3>2 DEF Remembered
  <2> QED
    BY <2>4, <2>10, <2>12, <2>13, <2>14, <2>15 DEF n, r
<1> QED
  BY <1>7, <1>8

\* The reason a remembered refusal gives is one of an error (rejection_of).
LEMMA Reasons ==
  ASSUME NEW list, IsList(list), NEW b \in Remembered(list)
  PROVE  ReasonFor(list, b) \in Refusals
<1>1. PICK H : list \in Seq([hash : H, reason : Refusals])
  BY DEF IsList
<1> DEFINE S == [hash : H, reason : Refusals]
<1>2. \A x \in {list[i] : i \in DOMAIN list} : x \in S
  <2> HIDE DEF S
  <2>1. list \in Seq(S)
    BY <1>1 DEF S
  <2>2. DOMAIN list = 1..Len(list)
    BY <2>1, LenProperties
  <2> QED
    BY <2>1, <2>2, ElementOfSeq
<1>3. \E x \in {list[i] : i \in DOMAIN list} : x.hash = b
  BY DEF Remembered
<1>4. (CHOOSE x \in {list[i] : i \in DOMAIN list} : x.hash = b) \in S
  BY <1>2, <1>3
<1> QED
  BY <1>4 DEF ReasonFor

----------------------------------------------------------------------------
(* insert_inner *)

\* A header that enters is one that is not held, that meets its target, whose parent is
\* held and that stands above the last checkpoint reached (validate_header).
LEMMA Valid ==
  ASSUME NEW b, Verdict(b) = "ok", reached \in Int, IsList(rejected),
         \A x \in Held : headers[x].height \in Nat
  PROVE  /\ b \in Blocks /\ b \notin Held /\ Parent[b] \in Held
         /\ headers[Parent[b]].height + 1 > reached
<1>1. b \notin Held /\ Parent[b] \in Held
  <2>1. b \notin Held
    BY DEF Verdict
  <2>2. Parent[b] \in Remembered(rejected) => rejection_of(Parent[b]) # "ok"
    BY Reasons DEF rejection_of, Refusals, HeaderError
  <2> QED
    BY <2>1, <2>2 DEF Verdict
<1>2. validate_header(b, headers[Parent[b]].height + 1) = "ok"
  BY <1>1 DEF Verdict
<1> DEFINE h == headers[Parent[b]].height + 1
<1>3. h \in Nat
  BY <1>1
<1> HIDE DEF h
<1>4. b \in Mined /\ ~(h <= reached)
  BY <1>2 DEF validate_header, h
<1> QED
  BY <1>1, <1>3, <1>4, TreeAssumption DEF h

\* A tree with one more block above one of its own is a tree (insert_inner).
LEMMA Grown ==
  ASSUME NEW map, IsTree(map), NEW b \in Blocks, b \notin DOMAIN map, Parent[b] \in DOMAIN map,
         NEW more,
         more = [x \in DOMAIN map \cup {b} |->
                   IF x = b THEN [height     |-> map[Parent[b]].height + 1,
                                  chain_work |-> map[Parent[b]].chain_work + Work[b]]
                   ELSE map[x]]
  PROVE  IsTree(more)
<1> DEFINE entry == [height     |-> map[Parent[b]].height + 1,
                     chain_work |-> map[Parent[b]].chain_work + Work[b]]
<1>1. /\ DOMAIN more = DOMAIN map \cup {b} /\ more[b] = entry
      /\ \A x \in DOMAIN map : more[x] = map[x]
  OBVIOUS
<1>2. Work[b] \in Nat
  BY TreeAssumption
<1>3. entry.height \in Nat /\ entry.chain_work \in Nat
  BY <1>2 DEF IsTree
<1>4. /\ entry.height = map[Parent[b]].height + 1
      /\ entry.chain_work = map[Parent[b]].chain_work + Work[b]
  OBVIOUS
<1> HIDE DEF entry
<1>5. DOMAIN more \subseteq Blocks /\ Genesis \in DOMAIN more /\ b # Genesis
  BY <1>1 DEF IsTree
<1>6. \A x \in DOMAIN more : more[x].height \in Nat /\ more[x].chain_work \in Nat
  BY <1>1, <1>3 DEF IsTree
<1>7. more[Genesis].height = 0
  BY <1>1 DEF IsTree
<1>8. ASSUME NEW x \in DOMAIN more \ {Genesis}
      PROVE  /\ Parent[x] \in DOMAIN more
             /\ more[x].height = more[Parent[x]].height + 1
             /\ more[x].chain_work = more[Parent[x]].chain_work + Work[x]
  <2>1. CASE x = b
    BY <1>1, <1>4, <2>1
  <2>2. CASE x # b
    <3>1. /\ Parent[x] \in DOMAIN map
          /\ map[x].height = map[Parent[x]].height + 1
          /\ map[x].chain_work = map[Parent[x]].chain_work + Work[x]
      BY <1>1, <2>2 DEF IsTree
    <3>2. more[x] = map[x] /\ more[Parent[x]] = map[Parent[x]]
      BY <1>1, <2>2, <3>1
    <3> QED
      BY <1>1, <3>1, <3>2
  <2> QED
    BY <2>1, <2>2
<1> QED
  BY <1>5, <1>6, <1>7, <1>8 DEF IsTree

\* A part of a tree that has its root and its members' parents is a tree
\* (prune_below_checkpoint).
LEMMA Part ==
  ASSUME NEW map, IsTree(map), NEW S \in SUBSET DOMAIN map, ParentClosed(S), Genesis \in S,
         NEW part, part = [x \in S |-> map[x]]
  PROVE  IsTree(part)
<1>1. DOMAIN part = S /\ \A x \in S : part[x] = map[x]
  OBVIOUS
<1>2. \A x \in S \ {Genesis} : Parent[x] \in S
  BY DEF ParentClosed
<1> QED
  BY <1>1, <1>2 DEF IsTree

\* A tree that starts afresh holds the root, and the root may be a checkpoint
\* (with_checkpoints).
LEMMA AtGenesis ==
  /\ IsTree(GenesisTree) /\ GenesisReached \in Int
  /\ OneChain(GenesisTree, GenesisReached)
  /\ DOMAIN GenesisTree = {Genesis}
<1>1. DOMAIN GenesisTree = {Genesis}
  BY DEF GenesisTree
<1>2. GenesisTree[Genesis].height = 0 /\ GenesisTree[Genesis].chain_work \in Nat /\ Genesis \in Blocks
  BY TreeAssumption DEF GenesisTree
<1>3. IsTree(GenesisTree)
  BY <1>1, <1>2 DEF IsTree
<1>4. GenesisReached \in Int
  BY DEF GenesisReached
<1>5. ASSUME NEW c \in Checkpoints, c.height = GenesisReached
      PROVE  /\ c.hash \in DOMAIN GenesisTree
             /\ {b \in DOMAIN GenesisTree : GenesisTree[b].height <= GenesisReached}
                  = Ancestry(GenesisTree, c.hash)
  <2>1. c.height \in Nat
    BY TreeAssumption
  <2>2. GenesisReached = 0 /\ IsCheckpoint(Genesis, 0)
    BY <1>5, <2>1 DEF GenesisReached
  <2>3. PICK d \in Checkpoints : d.height = 0 /\ d.hash = Genesis
    BY <2>2 DEF IsCheckpoint
  <2>4. c.hash = Genesis
    BY <1>5, <2>2, <2>3, TreeAssumption
  <2>5. Ancestry(GenesisTree, Genesis) = {Genesis}
    BY <1>1, <1>3, AncestryOf
  <2>6. {b \in DOMAIN GenesisTree : GenesisTree[b].height <= GenesisReached} = {Genesis}
    BY <1>1, <1>2, <2>2
  <2> QED
    BY <1>1, <2>4, <2>5, <2>6
<1> QED
  BY <1>1, <1>3, <1>4, <1>5 DEF OneChain

\* A header that enters leaves a tree whose tip has the most work and that is one chain
\* up to the last checkpoint, whether it is a checkpoint itself, prunes the chain that
\* was followed, or neither (insert_inner, prune_below_checkpoint).
LEMMA Entered ==
  ASSUME IsTree(headers), reached \in Int, TipHasMostWork, OneChain(headers, reached),
         IsList(rejected), NEW b, Verdict(b) = "ok", Accept(b)
  PROVE  IsTree(headers') /\ reached' \in Int /\ TipHasMostWork' /\ OneChain(headers', reached')
<1> DEFINE entry == [height     |-> headers[Parent[b]].height + 1,
                     chain_work |-> headers[Parent[b]].chain_work + Work[b]]
           map   == [x \in Held \cup {b} |-> IF x = b THEN entry ELSE headers[x]]
           noted == IsCheckpoint(b, entry.height) /\ entry.height > reached
           stay  == IF noted THEN Survivors(map, b) ELSE DOMAIN map
           cut   == stay # DOMAIN map
<1>1. /\ b \in Blocks /\ b \notin Held /\ Parent[b] \in Held
      /\ headers[Parent[b]].height + 1 > reached
  BY Valid, SMTT(30) DEF IsTree, Held
<1>2. PICK t \in IF tip \in stay THEN {tip} ELSE MostWork(map, stay) :
         tip' = IF Overtakes(map, b, t) THEN b ELSE t
  BY SMTT(30) DEF Accept
<1>3. headers' = [x \in stay |-> map[x]] /\ reached' = IF noted THEN entry.height ELSE reached
  BY DEF Accept
<1>4. IsTree(map)
  BY <1>1, Grown DEF Held
<1>5. /\ DOMAIN map = Held \cup {b} /\ map[b].height = entry.height
      /\ \A x \in Held : map[x] = headers[x]
  BY <1>1
<1>6. entry.height \in Int /\ entry.height > reached
  <2>1. entry.height = headers[Parent[b]].height + 1 /\ headers[Parent[b]].height \in Nat
    BY <1>1 DEF IsTree, Held
  <2> QED
    BY <1>1, <2>1
<1> HIDE DEF map, entry
<1>7. stay \subseteq DOMAIN map /\ ParentClosed(stay) /\ b \in stay /\ Genesis \in stay
  <2>1. CASE noted
    BY <1>4, <1>5, <2>1, SurvivorsOf
  <2>2. CASE ~noted
    <3>1. ParentClosed(DOMAIN map) /\ Genesis \in DOMAIN map
      BY <1>4 DEF IsTree, ParentClosed
    <3> QED
      BY <1>5, <2>2, <3>1
  <2> QED
    BY <2>1, <2>2
<1> HIDE DEF stay
<1>8. DOMAIN headers' = stay /\ \A x \in stay : headers'[x] = map[x]
  BY <1>3
<1>9. IsTree(headers')
  BY <1>3, <1>4, <1>7, Part
<1>10. reached' \in Int
  BY <1>3, <1>6
<1>11. tip' \in stay /\ \A x \in stay : map[x].chain_work <= map[tip'].chain_work
  <2>1. \A x \in stay : map[x].chain_work \in Nat
    BY <1>4, <1>7 DEF IsTree
  <2>2. t \in stay /\ \A x \in stay \ {b} : map[x].chain_work <= map[t].chain_work
    <3>1. CASE tip \in stay
      <4>1. t = tip /\ tip \in Held
        BY <1>2, <3>1 DEF TipHasMostWork
      <4>2. \A x \in stay \ {b} : x \in Held
        BY <1>5, <1>7
      <4> QED
        BY <1>5, <3>1, <4>1, <4>2 DEF TipHasMostWork
    <3>2. CASE tip \notin stay
      BY <1>2, <3>2 DEF MostWork
    <3> QED
      BY <3>1, <3>2
  <2>3. CASE map[b].chain_work > map[t].chain_work
    <3>1. tip' = b
      BY <1>2, <2>3 DEF Overtakes
    <3>2. ASSUME NEW x \in stay PROVE map[x].chain_work <= map[b].chain_work
      BY <1>7, <2>1, <2>2, <2>3
    <3> QED
      BY <1>7, <3>1, <3>2
  <2>4. CASE ~(map[b].chain_work > map[t].chain_work)
    <3>1. tip' = t
      BY <1>2, <2>4 DEF Overtakes
    <3>2. map[b].chain_work <= map[t].chain_work
      BY <1>7, <2>1, <2>2, <2>4
    <3> QED
      BY <2>2, <3>1, <3>2
  <2> QED
    BY <2>3, <2>4
<1>12. TipHasMostWork'
  BY <1>8, <1>11 DEF TipHasMostWork, Held
<1>13. CASE noted
  <2>1. stay = Survivors(map, b) /\ reached' = entry.height
    BY <1>3, <1>13 DEF stay
  <2>2. PICK d \in Checkpoints : d.height = entry.height /\ d.hash = b
    BY <1>13 DEF IsCheckpoint
  <2>3. ASSUME NEW c \in Checkpoints, c.height = reached'
        PROVE  c.hash \in stay /\ {x \in stay : headers'[x].height <= reached'} = Ancestry(headers', c.hash)
    <3>1. c.hash = b
      BY <2>1, <2>2, <2>3, TreeAssumption
    <3>2. Ancestry(headers', b) = Ancestry(map, b)
      BY <1>7, <1>8, SameAncestry
    <3>3. /\ Ancestry(map, b) \subseteq stay
          /\ \A x \in stay : map[x].height <= map[b].height => x \in Ancestry(map, b)
      BY <1>4, <1>5, <2>1, SurvivorsOf
    <3>4. \A x \in Ancestry(map, b) : map[x].height <= map[b].height
      BY <1>4, <1>5, AncestryOf
    <3>5. {x \in stay : headers'[x].height <= reached'} = {x \in stay : map[x].height <= map[b].height}
      BY <1>5, <1>8, <2>1
    <3> QED
      BY <1>7, <3>1, <3>2, <3>3, <3>4, <3>5
  <2> QED
    BY <1>8, <1>9, <1>10, <1>12, <2>3 DEF OneChain
<1>14. CASE ~noted
  <2>1. stay = DOMAIN map /\ reached' = reached
    BY <1>3, <1>14 DEF stay
  <2>2. ASSUME NEW c \in Checkpoints, c.height = reached'
        PROVE  c.hash \in stay /\ {x \in stay : headers'[x].height <= reached'} = Ancestry(headers', c.hash)
    <3>1. c.hash \in Held /\ {x \in Held : headers[x].height <= reached} = Ancestry(headers, c.hash)
      BY <2>1, <2>2 DEF OneChain, Held
    <3>2. ParentClosed(Held)
      BY DEF IsTree, ParentClosed, Held
    <3>3. Ancestry(headers, c.hash) = Ancestry(headers', c.hash)
      BY <1>5, <1>8, <2>1, <3>1, <3>2, SameAncestry DEF Held
    <3>4. ~(headers'[b].height <= reached')
      BY <1>5, <1>6, <1>7, <1>8, <2>1
    <3>5. {x \in stay : headers'[x].height <= reached'} = {x \in Held : headers[x].height <= reached}
      BY <1>5, <1>8, <2>1, <3>4
    <3> QED
      BY <1>5, <2>1, <3>1, <3>3, <3>5
  <2> QED
    BY <1>8, <1>9, <1>10, <1>12, <2>2 DEF OneChain
<1> QED
  BY <1>13, <1>14

\* What a refusal leaves: the memory of refusals within its bound, and when the parent's
\* refusal was the reason, that one still in it (insert_inner).
LEMMA Refused ==
  ASSUME IsTree(headers), reached \in Int, IsList(rejected), Len(rejected) <= REJECTED_REMEMBERED,
         NEW b, Verdict(b) \notin {"ok", "known", "OrphanHeader"},
         NEW used, used = IF Parent[b] \in Held THEN rejected ELSE touch_rejected(rejected, Parent[b]),
         NEW r, r = remember_rejected(used, b, Verdict(b))
  PROVE  /\ IsList(r) /\ Len(r) <= REJECTED_REMEMBERED
         /\ Remembered(r) \subseteq Remembered(rejected) \cup {b}
         /\ Parent[b] \notin Held /\ Parent[b] \in Remembered(rejected) =>
              /\ Parent[b] \in Remembered(r) /\ b \in Remembered(r)
              /\ b \notin Remembered(rejected) => ReasonFor(r, b) = rejection_of(Parent[b])
<1>1. Verdict(b) \in Refusals
  <2>1. CASE Parent[b] \in Held
    <3> DEFINE v == validate_header(b, headers[Parent[b]].height + 1)
    <3>1. b \notin Held
      BY DEF Verdict
    <3>2. Verdict(b) = v
      BY <2>1, <3>1 DEF Verdict
    <3>3. v = "ok" \/ v \in Refusals
      BY DEF validate_header, Refusals, HeaderError
    <3> QED
      BY <3>2, <3>3
  <2>2. CASE Parent[b] \notin Held
    <3>1. Parent[b] \in Remembered(rejected) => rejection_of(Parent[b]) \in Refusals
      BY Reasons DEF rejection_of
    <3>2. Verdict(b) \in Refusals \/ Verdict(b) \in {"known", "WeakerChain", "OrphanHeader"}
      BY <2>2, <3>1 DEF Verdict
    <3>3. "WeakerChain" \in Refusals
      BY DEF Refusals, HeaderError
    <3> QED
      BY <3>2, <3>3
  <2> QED
    BY <2>1, <2>2
<1>2. /\ IsList(used) /\ Len(used) = Len(rejected) /\ Remembered(used) = Remembered(rejected)
      /\ Parent[b] \notin Held /\ Parent[b] \in Remembered(rejected) =>
           Len(used) \in Nat \ {0} /\ used[Len(used)].hash = Parent[b]
  BY Touched
<1>3. /\ IsList(r) /\ Len(r) <= REJECTED_REMEMBERED
      /\ b \in Remembered(r)
      /\ b \notin Remembered(used) => ReasonFor(r, b) = Verdict(b)
      /\ Len(used) # 0 => used[Len(used)].hash \in Remembered(r)
      /\ Remembered(r) \subseteq Remembered(used) \cup {b}
  BY <1>1, <1>2, RefusalRemembered
<1>4. ASSUME Parent[b] \notin Held, Parent[b] \in Remembered(rejected)
      PROVE  /\ Parent[b] \in Remembered(r) /\ b \in Remembered(r)
             /\ b \notin Remembered(rejected) => ReasonFor(r, b) = rejection_of(Parent[b])
  <2>1. Verdict(b) = rejection_of(Parent[b])
    BY <1>4 DEF Verdict
  <2> QED
    BY <1>2, <1>3, <1>4, <2>1
<1> QED
  BY <1>2, <1>3, <1>4

----------------------------------------------------------------------------
(* Every step *)

\* A header of a batch or of the file keeps the tree, whatever the verdict on it
\* (insert_inner).
LEMMA InsertKeeps ==
  ASSUME TreeInv, NEW b, insert_inner(b)
  PROVE  /\ IsTree(headers') /\ reached' \in Int /\ TipHasMostWork' /\ OneChain(headers', reached')
         /\ IsList(rejected') /\ Len(rejected') <= REJECTED_REMEMBERED
         /\ Verdict(b) \in {"ok", "known", "OrphanHeader"} => rejected' = rejected
         /\ Remembered(rejected') \subseteq Remembered(rejected) \cup {b}
         /\ rejected' # rejected /\ Parent[b] \notin Held /\ Parent[b] \in Remembered(rejected) =>
              /\ Parent[b] \in Remembered(rejected') /\ b \in Remembered(rejected')
              /\ b \notin Remembered(rejected) => ReasonFor(rejected', b) = rejection_of(Parent[b])
<1> DEFINE used == IF Parent[b] \in Held THEN rejected ELSE touch_rejected(rejected, Parent[b])
           v == Verdict(b)
<1>0. /\ IsTree(headers) /\ reached \in Int /\ TipHasMostWork /\ OneChain(headers, reached)
      /\ IsList(rejected) /\ Len(rejected) <= REJECTED_REMEMBERED
  BY DEF TreeInv
<1>1. CASE v = "ok"
  <2>1. Accept(b)
    BY <1>1, SMTT(30) DEF insert_inner
  <2>2. rejected' = rejected
    BY <2>1 DEF Accept
  <2> QED
    BY <1>0, <1>1, <2>1, <2>2, Entered
<1>2. CASE v \in {"known", "OrphanHeader"}
  <2>1. UNCHANGED tree
    BY <1>2 DEF insert_inner
  <2>2. UNCHANGED <<headers, tip, reached, rejected>>
    BY <2>1 DEF tree
  <2>3. TipHasMostWork'
    BY <1>0, <2>2 DEF TipHasMostWork, Held
  <2> QED
    BY <1>0, <2>2, <2>3
<1>3. CASE v \notin {"ok", "known", "OrphanHeader"}
  <2>1. Refuse(used, b, v)
    BY <1>3 DEF insert_inner
  <2>2. rejected' = remember_rejected(used, b, v) /\ UNCHANGED <<headers, tip, reached>>
    BY <2>1 DEF Refuse
  <2>3. TipHasMostWork'
    BY <1>0, <2>2 DEF TipHasMostWork, Held
  <2>4. /\ IsList(rejected') /\ Len(rejected') <= REJECTED_REMEMBERED
        /\ Remembered(rejected') \subseteq Remembered(rejected) \cup {b}
        /\ Parent[b] \notin Held /\ Parent[b] \in Remembered(rejected) =>
             /\ Parent[b] \in Remembered(rejected') /\ b \in Remembered(rejected')
             /\ b \notin Remembered(rejected) => ReasonFor(rejected', b) = rejection_of(Parent[b])
    BY <1>0, <1>3, <2>2, Refused
  <2> QED
    BY <1>0, <1>3, <2>2, <2>3, <2>4
<1> QED
  BY <1>1, <1>2, <1>3

\* Every tree the process starts with, now or after a crash, satisfies the invariant
\* (new, with_checkpoints, load).
LEMMA FreshTree ==
  /\ IsTree(GenesisTree) /\ GenesisReached \in Int /\ OneChain(GenesisTree, GenesisReached)
  /\ IsList(<<>>) /\ Len(<<>>) <= REJECTED_REMEMBERED
  /\ \A b \in DOMAIN GenesisTree :
       b = Genesis /\ GenesisTree[b].chain_work <= GenesisTree[Genesis].chain_work
<1>1. IsList(<<>>) /\ Len(<<>>) <= REJECTED_REMEMBERED
  <2>1. <<>> \in Seq([hash : {}, reason : Refusals]) /\ Len(<<>>) = 0
    BY EmptySeq
  <2>2. \A i, j \in 1..0 : <<>>[i].hash = <<>>[j].hash => i = j
    OBVIOUS
  <2> QED
    BY <2>1, <2>2, TreeAssumption DEF IsList
<1>2. GenesisTree[Genesis].chain_work <= GenesisTree[Genesis].chain_work
  BY AtGenesis DEF IsTree
<1> QED
  BY <1>1, <1>2, AtGenesis

\* The inductive invariant of the tree.
LEMMA TreeInvariant == Spec => [](TreeInv /\ crashes \in Nat)
<1>1. Init => TreeInv /\ crashes \in Nat
  <2> SUFFICES ASSUME Init PROVE TreeInv /\ crashes \in Nat
    OBVIOUS
  <2>1. headers = GenesisTree /\ tip = Genesis /\ reached = GenesisReached /\ rejected = <<>> /\ crashes = 0
    BY DEF Init
  <2>2. TipHasMostWork
    BY <2>1, FreshTree, AtGenesis DEF TipHasMostWork, Held
  <2> QED
    BY <2>1, <2>2, FreshTree DEF TreeInv
<1>2. (TreeInv /\ crashes \in Nat) /\ [Next]_vars => (TreeInv /\ crashes \in Nat)'
  <2> SUFFICES ASSUME TreeInv, crashes \in Nat, [Next]_vars
               PROVE  TreeInv' /\ crashes' \in Nat
    OBVIOUS
  <2>0. ASSUME UNCHANGED <<headers, tip, reached, rejected>> PROVE TreeInv'
    <3>1. TipHasMostWork'
      BY <2>0 DEF TreeInv, TipHasMostWork, Held
    <3> QED
      BY <2>0, <3>1 DEF TreeInv
  <2>1. ASSUME NEW batch \in Batches, BeginBatch(batch) PROVE TreeInv' /\ crashes' \in Nat
    BY <2>0, <2>1 DEF BeginBatch, tree
  <2>2. CASE InsertOne
    <3>1. insert_inner(Head(lock.left)) /\ crashes' = crashes
      BY <2>2 DEF InsertOne
    <3> QED
      BY <3>1, InsertKeeps DEF TreeInv
  <2>3. CASE EndBatch
    BY <2>0, <2>3 DEF EndBatch
  <2>4. ASSUME NEW b \in Announced, NEW proven \in BOOLEAN, recovery_due(b, proven)
        PROVE  TreeInv' /\ crashes' \in Nat
    BY <2>0, <2>4 DEF recovery_due
  <2>5. ASSUME NEW n \in 0..Cardinality(Held), NEW partial \in BOOLEAN, save(n, partial)
        PROVE  TreeInv' /\ crashes' \in Nat
    BY <2>0, <2>5 DEF save
  <2>6. CASE Restart
    <3>1. /\ headers' = GenesisTree /\ tip' = Genesis /\ reached' = GenesisReached
          /\ rejected' = <<>> /\ crashes' = crashes + 1
      BY <2>6 DEF Restart
    <3>2. TipHasMostWork'
      BY <3>1, FreshTree, AtGenesis DEF TipHasMostWork, Held
    <3> QED
      BY <3>1, <3>2, FreshTree DEF TreeInv
  <2>7. CASE EndLoad
    BY <2>0, <2>7 DEF EndLoad
  <2>8. CASE Advance
    BY <2>0, <2>8 DEF Advance, tree
  <2>9. CASE UNCHANGED vars
    BY <2>0, <2>9 DEF vars
  <2> QED
    BY <2>1, <2>2, <2>3, <2>4, <2>5, <2>6, <2>7, <2>8, <2>9 DEF Next
<1> QED
  BY <1>1, <1>2, PTL DEF Spec

----------------------------------------------------------------------------
(* The theorems *)

\* Whatever arrives, is pruned or is read back, every header but genesis has its parent in
\* the tree, one lower and with less work by its own: chain_tips, rebuild_best_chain and
\* the walk to the start of an epoch never miss a parent.
THEOREM TreeIsConnected == Spec => []TreeConnected
<1>1. TreeInv => TreeConnected
  BY DEF TreeInv, IsTree, TreeConnected, Held
<1> QED
  BY <1>1, TreeInvariant, PTL

\* The tip is never outworked by a header the tree holds, also when a prune takes the chain
\* that was followed (insert_inner).
THEOREM MostWorkIsFollowed == Spec => []TipHasMostWork
<1>1. TreeInv => TipHasMostWork
  BY DEF TreeInv
<1> QED
  BY <1>1, TreeInvariant, PTL

\* Refusing a header because its parent was refused leaves the parent's refusal in the
\* memory, and the header's own with the parent's reason, however full the memory is
\* (touch_rejected, remember_rejected).
THEOREM RefusalsInUseAreKept == Spec => RefusalInUseIsKept
<1>1. TreeInv /\ crashes \in Nat /\ [Next]_vars =>
        [lock.left # <<>> /\ rejected' # rejected /\ crashes' = crashes =>
           LET b == Head(lock.left)
           IN  (Parent[b] \notin Held /\ Parent[b] \in Remembered(rejected)) =>
                 /\ Parent[b] \in Remembered(rejected')
                 /\ b \in Remembered(rejected')
                 /\ b \notin Remembered(rejected) => ReasonFor(rejected', b) = rejection_of(Parent[b])]_vars
  <2> DEFINE b == Head(lock.left)
  <2> SUFFICES ASSUME TreeInv, crashes \in Nat, Next,
                      rejected' # rejected, crashes' = crashes,
                      Parent[b] \notin Held, Parent[b] \in Remembered(rejected)
               PROVE  /\ Parent[b] \in Remembered(rejected')
                      /\ b \in Remembered(rejected')
                      /\ b \notin Remembered(rejected) => ReasonFor(rejected', b) = rejection_of(Parent[b])
    OBVIOUS
  <2>1. InsertOne
    <3>1. \A batch \in Batches : ~BeginBatch(batch)
      BY DEF BeginBatch, tree
    <3>2. \A x \in Announced, proven \in BOOLEAN : ~recovery_due(x, proven)
      BY DEF recovery_due
    <3>3. \A n \in 0..Cardinality(Held), partial \in BOOLEAN : ~save(n, partial)
      BY DEF save
    <3>4. ~EndBatch /\ ~EndLoad /\ ~Advance
      BY DEF EndBatch, EndLoad, Advance, tree
    <3>5. ~Restart
      BY DEF Restart
    <3> QED
      BY <3>1, <3>2, <3>3, <3>4, <3>5 DEF Next
  <2>2. insert_inner(b)
    BY <2>1 DEF InsertOne
  <2> HIDE DEF b
  <2> QED
    BY <2>2, InsertKeeps
<1> QED
  BY <1>1, TreeInvariant, PTL DEF Spec, RefusalInUseIsKept

----------------------------------------------------------------------------
(* Induction, for sets *)

\* A set of numbers with zero and every successor has them all.
LEMMA AllNumbers ==
  ASSUME NEW S \in SUBSET Nat, 0 \in S, \A n \in S : n + 1 \in S
  PROVE  S = Nat
<1>1. SUFFICES ASSUME Nat \ S # {} PROVE FALSE
  OBVIOUS
<1>2. PICK n \in Nat \ S : \A m \in Nat \ S : ~(<<m, n>> \in OpToRel(<, Nat))
  BY <1>1, WFMin, NatLessThanWellFounded
<1>3. n - 1 \in Nat /\ n - 1 < n /\ (n - 1) + 1 = n
  <2>1. n \in Nat /\ n # 0
    BY <1>2, Zenon
  <2> QED
    BY <2>1
<1>4. <<n - 1, n>> \in OpToRel(<, Nat)
  BY <1>2, <1>3 DEF OpToRel
<1>5. n - 1 \in S
  BY <1>2, <1>3, <1>4
<1> QED
  BY <1>2, <1>3, <1>5

\* A set of numbers below a bound has a greatest.
LEMMA Greatest ==
  ASSUME NEW S \in SUBSET Int, S # {}, NEW n \in Int, \A i \in S : i <= n
  PROVE  \E i \in S : \A j \in S : j <= i
<1> DEFINE D == {n - i : i \in S}
<1>1. D \in SUBSET Nat /\ D # {}
  <2>1. \A i \in S : n - i \in Nat
    OBVIOUS
  <2> QED
    BY <2>1
<1>2. PICK d \in D : \A m \in D : ~(<<m, d>> \in OpToRel(<, Nat))
  BY <1>1, WFMin, NatLessThanWellFounded
<1>3. PICK i \in S : d = n - i
  BY <1>2
<1>4. ASSUME NEW j \in S PROVE j <= i
  <2>1. n - j \in D /\ n - j \in Nat /\ d \in Nat
    BY <1>1, <1>2
  <2>2. ~(n - j < d)
    <3>1. ASSUME n - j < d PROVE <<n - j, d>> \in OpToRel(<, Nat)
      BY <2>1, <3>1 DEF OpToRel
    <3> QED
      BY <1>2, <2>1, <3>1
  <2> QED
    BY <1>3, <2>1, <2>2
<1> QED
  BY <1>4

----------------------------------------------------------------------------
(* Walking back *)

\* The first n + 1 blocks of a walk from b.
Walk(b, n, f)  == f = [k \in 0..n |-> IF k = 0 THEN b ELSE Parent[f[k - 1]]]
Steps(b, n, f) == f[0] = b /\ \A k \in 0..n : k # 0 => f[k] = Parent[f[k - 1]]

\* A walk starts at its block, and each step goes to the parent.
LEMMA WalkSteps ==
  ASSUME NEW b, NEW n \in Nat, NEW f, Walk(b, n, f)
  PROVE  Steps(b, n, f)
<1>1. \A k \in 0..n : f[k] = IF k = 0 THEN b ELSE Parent[f[k - 1]]
  BY DEF Walk
<1>2. 0 \in 0..n
  OBVIOUS
<1> QED
  BY <1>1, <1>2, Zenon DEF Steps

\* There is a walk of every length from every block.
LEMMA WalkExists ==
  ASSUME NEW b, NEW n \in Nat
  PROVE  \E f : Walk(b, n, f)
<1> DEFINE S == {k \in Nat : \E f : Walk(b, k, f)}
<1>1. 0 \in S
  <2> DEFINE g == [k \in 0..0 |-> b]
  <2>1. Walk(b, 0, g)
    <3>1. g = [k \in 0..0 |-> g[k]] /\ \A k \in 0..0 : k = 0 /\ g[k] = b
      OBVIOUS
    <3>2. \A k \in 0..0 : g[k] = IF k = 0 THEN b ELSE Parent[g[k - 1]]
      BY <3>1, Zenon
    <3> HIDE DEF g
    <3> QED
      BY <3>1, <3>2, Zenon DEF Walk
  <2> QED
    BY <2>1
<1>2. ASSUME NEW m \in S PROVE m + 1 \in S
  <2>1. m \in Nat /\ \E f : Walk(b, m, f)
    OBVIOUS
  <2>2. PICK f : Walk(b, m, f)
    BY <2>1
  <2> HIDE DEF S
  <2> DEFINE g == [k \in 0..(m + 1) |-> IF k = m + 1 THEN Parent[f[m]] ELSE f[k]]
  <2>3. ASSUME NEW k \in 0..(m + 1)
        PROVE  g[k] = IF k = 0 THEN b ELSE Parent[g[k - 1]]
    <3>1. f[0] = b /\ \A j \in 0..m : j # 0 => f[j] = Parent[f[j - 1]]
      BY <2>1, <2>2, WalkSteps DEF Steps
    <3>2. CASE k = 0
      BY <2>1, <3>1, <3>2
    <3>3. CASE k # 0 /\ k = m + 1
      <4>1. k - 1 = m /\ m \in 0..(m + 1) /\ m # m + 1
        BY <2>1, <3>3
      <4>2. g[k] = Parent[f[m]] /\ g[k - 1] = f[m]
        BY <3>3, <4>1
      <4> HIDE DEF g
      <4> QED
        BY <3>3, <4>2
    <3>4. CASE k # 0 /\ k # m + 1
      <4>1. k \in 0..m /\ k - 1 \in 0..(m + 1) /\ k - 1 # m + 1
        BY <2>1, <3>4
      <4>2. g[k] = f[k] /\ g[k - 1] = f[k - 1]
        BY <3>4, <4>1
      <4> HIDE DEF g
      <4> QED
        BY <3>1, <3>4, <4>1, <4>2
    <3> QED
      BY <3>2, <3>3, <3>4
  <2>4. Walk(b, m + 1, g)
    <3>1. g = [k \in 0..(m + 1) |-> g[k]]
      OBVIOUS
    <3> HIDE DEF g
    <3> QED
      BY <2>3, <3>1 DEF Walk
  <2> QED
    BY <2>1, <2>4 DEF S
<1> HIDE DEF S
<1>3. S = Nat
  <2>1. S \in SUBSET Nat
    BY DEF S
  <2> QED
    BY <1>1, <1>2, <2>1, AllNumbers
<1> QED
  BY <1>3 DEF S

\* Walks from one block agree as far as both go.
LEMMA WalksAgree ==
  ASSUME NEW b, NEW n \in Nat, NEW f, Steps(b, n, f), NEW m \in Nat, NEW g, Steps(b, m, g)
  PROVE  \A k \in Nat : k <= n /\ k <= m => f[k] = g[k]
<1> DEFINE S == {k \in Nat : k <= n /\ k <= m => f[k] = g[k]}
<1>0. /\ f[0] = b /\ \A k \in 0..n : k # 0 => f[k] = Parent[f[k - 1]]
      /\ g[0] = b /\ \A k \in 0..m : k # 0 => g[k] = Parent[g[k - 1]]
  BY DEF Steps
<1>1. 0 \in S
  BY <1>0
<1>2. ASSUME NEW k \in S PROVE k + 1 \in S
  <2> SUFFICES ASSUME k + 1 <= n, k + 1 <= m PROVE f[k + 1] = g[k + 1]
    OBVIOUS
  <2>1. k <= n /\ k <= m /\ k + 1 \in 0..n /\ k + 1 \in 0..m /\ k + 1 # 0 /\ (k + 1) - 1 = k
    OBVIOUS
  <2>2. f[k] = g[k]
    BY <2>1
  <2> QED
    BY <1>0, <2>1, <2>2
<1>3. S = Nat
  BY <1>1, <1>2, AllNumbers
<1> QED
  BY <1>3

\* One more step back is to the parent.
LEMMA BackSteps ==
  ASSUME NEW b
  PROVE  Back(b, 0) = b /\ \A n \in Nat : Back(b, n + 1) = Parent[Back(b, n)]
<1> DEFINE w(n) == CHOOSE f : Walk(b, n, f)
<1>1. \A n \in Nat : Steps(b, n, w(n)) /\ Back(b, n) = w(n)[n]
  <2> SUFFICES ASSUME NEW n \in Nat PROVE Steps(b, n, w(n)) /\ Back(b, n) = w(n)[n]
    OBVIOUS
  <2>1. Walk(b, n, w(n))
    BY WalkExists
  <2>2. Back(b, n) = w(n)[n]
    BY Zenon DEF Back, Walk
  <2> HIDE DEF w
  <2> QED
    BY <2>1, <2>2, WalkSteps
<1> HIDE DEF w
<1>2. Back(b, 0) = b
  BY <1>1 DEF Steps
<1>3. ASSUME NEW n \in Nat PROVE Back(b, n + 1) = Parent[Back(b, n)]
  <2>1. n + 1 \in Nat /\ n <= n + 1 /\ n <= n /\ n + 1 \in 0..(n + 1) /\ n + 1 # 0 /\ (n + 1) - 1 = n
    OBVIOUS
  <2>2. w(n + 1)[n + 1] = Parent[w(n + 1)[n]]
    BY <1>1, <2>1 DEF Steps
  <2>3. w(n + 1)[n] = w(n)[n]
    BY <1>1, <2>1, WalksAgree
  <2> QED
    BY <1>1, <2>1, <2>2, <2>3
<1> QED
  BY <1>2, <1>3

\* Going back m blocks and then n is going back m + n.
LEMMA BackAdds ==
  ASSUME NEW b, NEW m \in Nat
  PROVE  \A n \in Nat : Back(Back(b, m), n) = Back(b, m + n)
<1> DEFINE S == {n \in Nat : Back(Back(b, m), n) = Back(b, m + n)}
<1>1. 0 \in S
  BY BackSteps
<1>2. ASSUME NEW n \in S PROVE n + 1 \in S
  <2>1. Back(Back(b, m), n + 1) = Parent[Back(Back(b, m), n)]
    BY BackSteps
  <2>2. Back(b, (m + n) + 1) = Parent[Back(b, m + n)] /\ (m + n) + 1 = m + (n + 1)
    BY BackSteps
  <2> QED
    BY <2>1, <2>2
<1>3. S = Nat
  BY <1>1, <1>2, AllNumbers
<1> QED
  BY <1>3

----------------------------------------------------------------------------
(* Heights *)

\* What holds of genesis, and of a block when it holds of its parent, holds of all.
LEMMA BlockInduction ==
  ASSUME NEW S, Genesis \in S, \A b \in Blocks \ {Genesis} : Parent[b] \in S => b \in S
  PROVE  Blocks \subseteq S
<1> DEFINE Bad == Blocks \ S
<1>1. Bad \in SUBSET (Blocks \ {Genesis})
  OBVIOUS
<1>2. \A b \in Bad : Parent[b] \in Bad
  BY <1>1, TreeAssumption
<1>3. Bad = {}
  BY <1>1, <1>2, SyncAssumption
<1> QED
  BY <1>3

\* Going back from the parent is going back one block more.
LEMMA ParentBack ==
  ASSUME NEW b
  PROVE  \A n \in Nat : Back(Parent[b], n) = Back(b, n + 1)
<1>1. Back(b, 1) = Parent[b]
  <2>1. 0 \in Nat /\ 0 + 1 = 1
    OBVIOUS
  <2> QED
    BY <2>1, BackSteps
<1>2. \A n \in Nat : Back(Back(b, 1), n) = Back(b, 1 + n)
  BY BackAdds
<1>3. \A n \in Nat : 1 + n = n + 1
  OBVIOUS
<1> QED
  BY <1>1, <1>2, <1>3

\* Walking back from any block ends at genesis.
LEMMA Rooted == \A b \in Blocks : \E n \in Nat : Back(b, n) = Genesis
<1> DEFINE S == {b \in Blocks : \E n \in Nat : Back(b, n) = Genesis}
<1>1. Genesis \in S
  BY BackSteps, TreeAssumption
<1>2. ASSUME NEW b \in Blocks \ {Genesis}, Parent[b] \in S PROVE b \in S
  <2>1. PICK n \in Nat : Back(Parent[b], n) = Genesis
    BY <1>2
  <2>2. n + 1 \in Nat /\ Back(b, n + 1) = Genesis
    BY <2>1, ParentBack
  <2> QED
    BY <2>2
<1> HIDE DEF S
<1>3. Blocks \subseteq S
  BY <1>1, <1>2, BlockInduction
<1> QED
  BY <1>3 DEF S

\* How far genesis is.
Distance(b, n) == Back(b, n) = Genesis /\ \A m \in Nat : m < n => Back(b, m) # Genesis

\* Every block is some number of blocks away from genesis ...
LEMMA DistanceIs ==
  ASSUME NEW b \in Blocks
  PROVE  \E n \in Nat : Distance(b, n)
<1> DEFINE D == {n \in Nat : Back(b, n) = Genesis}
<1>1. D \in SUBSET Nat /\ D # {}
  BY Rooted
<1>2. PICK n \in D : \A m \in D : ~(<<m, n>> \in OpToRel(<, Nat))
  BY <1>1, WFMin, NatLessThanWellFounded
<1>3. n \in Nat /\ Back(b, n) = Genesis
  BY <1>2, Zenon
<1>4. ASSUME NEW m \in Nat, m < n, Back(b, m) = Genesis PROVE FALSE
  <2>1. <<m, n>> \in OpToRel(<, Nat)
    BY <1>3, <1>4 DEF OpToRel
  <2>2. m \in D
    BY <1>4
  <2> QED
    BY <1>2, <2>1, <2>2
<1> QED
  BY <1>3, <1>4 DEF Distance

\* ... and only one.
LEMMA DistanceAgrees ==
  ASSUME NEW b, NEW m \in Nat, NEW n \in Nat, Distance(b, m), Distance(b, n)
  PROVE  m = n
BY DEF Distance

\* Genesis is at height 0, and every other block one above its parent.
LEMMA HeightIs ==
  /\ Height \in [Blocks -> Nat] /\ Height[Genesis] = 0
  /\ \A b \in Blocks \ {Genesis} : Height[b] = Height[Parent[b]] + 1
<1> DEFINE far(b) == CHOOSE n \in Nat : Distance(b, n)
           H == [b \in Blocks |-> far(b)]
<1>1. \A b \in Blocks : far(b) \in Nat /\ Distance(b, far(b))
  BY DistanceIs
<1> HIDE DEF far
<1>2. ASSUME NEW b \in Blocks PROVE H[b] = IF b = Genesis THEN 0 ELSE H[Parent[b]] + 1
  <2>1. CASE b = Genesis
    <3>1. Distance(b, 0)
      BY <2>1, BackSteps DEF Distance
    <3>2. far(b) = 0
      BY <1>1, <3>1, DistanceAgrees
    <3> QED
      BY <2>1, <3>2
  <2>2. CASE b # Genesis
    <3> DEFINE a == Parent[b]
    <3>1. a \in Blocks
      BY <2>2, TreeAssumption
    <3>2. far(a) \in Nat /\ Distance(a, far(a))
      BY <1>1, <3>1
    <3>3. Distance(b, far(a) + 1)
      <4>1. Back(b, far(a) + 1) = Genesis
        BY <3>2, ParentBack DEF Distance
      <4>2. ASSUME NEW m \in Nat, m < far(a) + 1 PROVE Back(b, m) # Genesis
        <5>1. CASE m = 0
          BY <2>2, <5>1, BackSteps
        <5>2. CASE m # 0
          <6>1. m - 1 \in Nat /\ m - 1 < far(a) /\ (m - 1) + 1 = m
            BY <3>2, <4>2, <5>2
          <6>2. Back(a, m - 1) = Back(b, (m - 1) + 1)
            BY <6>1, ParentBack
          <6> QED
            BY <3>2, <6>1, <6>2 DEF Distance
        <5> QED
          BY <5>1, <5>2
      <4> QED
        BY <4>1, <4>2 DEF Distance
    <3>4. far(b) = far(a) + 1
      BY <1>1, <3>2, <3>3, DistanceAgrees
    <3> QED
      BY <2>2, <3>1, <3>4
  <2> QED
    BY <2>1, <2>2
<1>3. H = [b \in Blocks |-> IF b = Genesis THEN 0 ELSE H[Parent[b]] + 1]
  <2>1. H = [b \in Blocks |-> H[b]]
    OBVIOUS
  <2> HIDE DEF H
  <2> QED
    BY <1>2, <2>1
<1> HIDE DEF H
<1>4. Height = [b \in Blocks |-> IF b = Genesis THEN 0 ELSE Height[Parent[b]] + 1]
  BY <1>3, Zenon DEF Height
<1>5. Genesis \in Blocks /\ \A b \in Blocks \ {Genesis} : Parent[b] \in Blocks
  BY TreeAssumption
<1>6. DOMAIN Height = Blocks /\ Height = [b \in Blocks |-> Height[b]]
  BY <1>4
<1>7. Height[Genesis] = 0 /\ \A b \in Blocks \ {Genesis} : Height[b] = Height[Parent[b]] + 1
  BY <1>4, <1>5
<1>8. Blocks \subseteq {b \in Blocks : Height[b] \in Nat}
  <2> DEFINE S == {b \in Blocks : Height[b] \in Nat}
  <2>1. Genesis \in S
    BY <1>5, <1>7
  <2>2. \A b \in Blocks \ {Genesis} : Parent[b] \in S => b \in S
    BY <1>7
  <2> HIDE DEF S
  <2>3. Blocks \subseteq S
    BY <2>1, <2>2, BlockInduction
  <2> QED
    BY <2>3 DEF S
<1> QED
  BY <1>6, <1>7, <1>8

\* A part of the work of every chain.
Sums(S, f) ==
  /\ S \subseteq Blocks /\ Genesis \in S /\ f[Genesis] = Work[Genesis]
  /\ \A b \in S \ {Genesis} : Parent[b] \in S /\ f[b] = f[Parent[b]] + Work[b]

\* Any two sums of the work of ancestors agree where both are defined ...
LEMMA SumsAgree ==
  ASSUME NEW S, NEW f, Sums(S, f), NEW T, NEW g, Sums(T, g)
  PROVE  \A b \in Blocks : b \in S /\ b \in T => f[b] = g[b]
<1> DEFINE E == {b \in Blocks : b \in S /\ b \in T => f[b] = g[b]}
<1>1. Genesis \in E
  BY TreeAssumption DEF Sums
<1>2. ASSUME NEW b \in Blocks \ {Genesis}, Parent[b] \in E PROVE b \in E
  BY <1>2 DEF Sums
<1> HIDE DEF E
<1>3. Blocks \subseteq E
  BY <1>1, <1>2, BlockInduction
<1> QED
  BY <1>3 DEF E

\* ... and some sum is defined on any block.
LEMMA SumsExist == \A b \in Blocks : \E S, f : b \in S /\ Sums(S, f)
<1> DEFINE E == {b \in Blocks : \E S, f : b \in S /\ Sums(S, f)}
<1>1. Genesis \in E
  <2> DEFINE f == [b \in {Genesis} |-> Work[Genesis]]
  <2>1. Sums({Genesis}, f)
    BY TreeAssumption DEF Sums
  <2> QED
    BY <2>1, TreeAssumption
<1>2. ASSUME NEW b \in Blocks \ {Genesis}, Parent[b] \in E PROVE b \in E
  <2>1. PICK S, f : Parent[b] \in S /\ Sums(S, f)
    BY <1>2
  <2>2. CASE b \in S
    BY <2>1, <2>2
  <2>3. CASE b \notin S
    <3> DEFINE g == [x \in S \cup {b} |-> IF x = b THEN f[Parent[b]] + Work[b] ELSE f[x]]
    <3>1. g[b] = f[Parent[b]] + Work[b] /\ \A x \in S : g[x] = f[x]
      BY <2>3
    <3> HIDE DEF g
    <3>2. Sums(S \cup {b}, g)
      BY <2>1, <2>3, <3>1 DEF Sums
    <3> QED
      BY <3>2
  <2> QED
    BY <2>2, <2>3
<1> HIDE DEF E
<1>3. Blocks \subseteq E
  BY <1>1, <1>2, BlockInduction
<1> QED
  BY <1>3 DEF E

\* The work of a chain is that of the chain to the parent and the block's own.
LEMMA ChainWorkIs ==
  /\ ChainWork \in [Blocks -> Nat] /\ ChainWork[Genesis] = Work[Genesis]
  /\ \A b \in Blocks \ {Genesis} : ChainWork[b] = ChainWork[Parent[b]] + Work[b]
<1> DEFINE sum(b) == CHOOSE f : \E S : b \in S /\ Sums(S, f)
           F == [b \in Blocks |-> sum(b)[b]]
<1>1. \A b \in Blocks : \E S : b \in S /\ Sums(S, sum(b))
  BY SumsExist
<1> HIDE DEF sum
<1>2. ASSUME NEW b \in Blocks, NEW S, NEW f, Sums(S, f), b \in S PROVE F[b] = f[b]
  <2>1. PICK T : b \in T /\ Sums(T, sum(b))
    BY <1>1
  <2>2. sum(b)[b] = f[b]
    BY <1>2, <2>1, SumsAgree
  <2> QED
    BY <2>2
<1>3. ASSUME NEW b \in Blocks
      PROVE  F[b] = IF b = Genesis THEN Work[b] ELSE F[Parent[b]] + Work[b]
  <2>1. PICK S : b \in S /\ Sums(S, sum(b))
    BY <1>1
  <2> DEFINE f == sum(b)
  <2>2. F[b] = f[b]
    BY <1>2, <2>1
  <2>3. CASE b = Genesis
    BY <2>1, <2>2, <2>3 DEF Sums
  <2>4. CASE b # Genesis
    <3>1. Parent[b] \in S /\ Parent[b] \in Blocks /\ f[b] = f[Parent[b]] + Work[b]
      BY <2>1, <2>4 DEF Sums
    <3>2. F[Parent[b]] = f[Parent[b]]
      BY <1>2, <2>1, <3>1
    <3> HIDE DEF F, f
    <3> QED
      BY <2>2, <2>4, <3>1, <3>2
  <2> QED
    BY <2>3, <2>4
<1>4. F = [b \in Blocks |-> IF b = Genesis THEN Work[b] ELSE F[Parent[b]] + Work[b]]
  <2>1. F = [b \in Blocks |-> F[b]]
    OBVIOUS
  <2> HIDE DEF F
  <2> QED
    BY <1>3, <2>1
<1> HIDE DEF F
<1>5. ChainWork = [b \in Blocks |-> IF b = Genesis THEN Work[b] ELSE ChainWork[Parent[b]] + Work[b]]
  BY <1>4, Zenon DEF ChainWork
<1>6. /\ Genesis \in Blocks /\ \A b \in Blocks \ {Genesis} : Parent[b] \in Blocks
      /\ \A b \in Blocks : Work[b] \in Nat
  BY TreeAssumption
<1>7. DOMAIN ChainWork = Blocks /\ ChainWork = [b \in Blocks |-> ChainWork[b]]
  BY <1>5
<1>8. /\ ChainWork[Genesis] = Work[Genesis]
      /\ \A b \in Blocks \ {Genesis} : ChainWork[b] = ChainWork[Parent[b]] + Work[b]
  BY <1>5, <1>6
<1>9. Blocks \subseteq {b \in Blocks : ChainWork[b] \in Nat}
  <2> DEFINE S == {b \in Blocks : ChainWork[b] \in Nat}
  <2>1. Genesis \in S
    BY <1>6, <1>8
  <2>2. \A b \in Blocks \ {Genesis} : Parent[b] \in S => b \in S
    BY <1>6, <1>8
  <2> HIDE DEF S
  <2>3. Blocks \subseteq S
    BY <2>1, <2>2, BlockInduction
  <2> QED
    BY <2>3 DEF S
<1> QED
  BY <1>7, <1>8, <1>9

----------------------------------------------------------------------------
(* Chains *)

\* Walking back from t by n steps lands n below t.
LEMMA BackHeight ==
  ASSUME NEW t \in Blocks
  PROVE  \A n \in Nat : n <= Height[t] =>
           Back(t, n) \in Blocks /\ Height[Back(t, n)] = Height[t] - n
<1> DEFINE S == {n \in Nat : n <= Height[t] => Back(t, n) \in Blocks /\ Height[Back(t, n)] = Height[t] - n}
<1>0. Height[t] \in Nat
  BY HeightIs
<1>1. 0 \in S
  BY <1>0, BackSteps
<1>2. ASSUME NEW n \in S PROVE n + 1 \in S
  <2> SUFFICES ASSUME n + 1 <= Height[t]
               PROVE  Back(t, n + 1) \in Blocks /\ Height[Back(t, n + 1)] = Height[t] - (n + 1)
    OBVIOUS
  <2> DEFINE a == Back(t, n)
  <2>1. a \in Blocks /\ Height[a] = Height[t] - n /\ Back(t, n + 1) = Parent[a]
    BY <1>0, BackSteps
  <2> HIDE DEF a
  <2>2. a # Genesis
    BY <1>0, <2>1, HeightIs
  <2>3. Parent[a] \in Blocks /\ Height[a] = Height[Parent[a]] + 1 /\ Height[Parent[a]] \in Nat
    BY <2>1, <2>2, HeightIs, TreeAssumption
  <2> QED
    BY <1>0, <2>1, <2>3
<1> HIDE DEF S
<1>3. S = Nat
  <2>1. S \in SUBSET Nat
    BY DEF S
  <2> QED
    BY <1>1, <1>2, <2>1, AllNumbers
<1> QED
  BY <1>3 DEF S

\* The chain a block ends: one block at each height, from genesis to itself.
LEMMA ChainIs ==
  ASSUME NEW t \in Blocks
  PROVE  /\ ChainOf[t] \in Seq(Blocks) /\ Len(ChainOf[t]) = Height[t] + 1
         /\ DOMAIN ChainOf[t] = 1..(Height[t] + 1)
         /\ \A i \in 1..(Height[t] + 1) :
              /\ ChainOf[t][i] = Back(t, Height[t] + 1 - i)
              /\ ChainOf[t][i] \in Blocks /\ Height[ChainOf[t][i]] = i - 1
<1> DEFINE h == Height[t]
           c == [i \in 1..h + 1 |-> Back(t, h + 1 - i)]
<1>1. h \in Nat
  BY HeightIs
<1>2. ChainOf[t] = c
  BY DEF ChainOf, ChainTo
<1>3. ASSUME NEW i \in 1..(h + 1)
      PROVE  c[i] = Back(t, h + 1 - i) /\ c[i] \in Blocks /\ Height[c[i]] = i - 1
  <2>1. h + 1 - i \in Nat /\ h + 1 - i <= h /\ h - (h + 1 - i) = i - 1
    BY <1>1
  <2>2. c[i] = Back(t, h + 1 - i)
    OBVIOUS
  <2>3. Back(t, h + 1 - i) \in Blocks /\ Height[Back(t, h + 1 - i)] = h - (h + 1 - i)
    BY <2>1, BackHeight
  <2> HIDE DEF c, h
  <2> QED
    BY <2>1, <2>2, <2>3
<1>4. c \in [1..(h + 1) -> Blocks] /\ DOMAIN c = 1..(h + 1)
  BY <1>3
<1> HIDE DEF c, h
<1>5. c \in Seq(Blocks) /\ Len(c) = h + 1
  BY <1>1, <1>4
<1> QED
  BY <1>2, <1>3, <1>4, <1>5 DEF h

\* A block on a chain is so many steps back from its end as it is lower.
LEMMA OnChainBack ==
  ASSUME NEW t \in Blocks, NEW b
  PROVE  OnChain(b, t) <=> \E n \in Nat : n <= Height[t] /\ Back(t, n) = b
<1>1. Height[t] \in Nat
  BY HeightIs
<1>2. DOMAIN ChainOf[t] = 1..(Height[t] + 1)
  BY ChainIs
<1>3. \A i \in 1..(Height[t] + 1) : ChainOf[t][i] = Back(t, Height[t] + 1 - i)
  BY ChainIs
<1>4. ASSUME NEW i \in 1..(Height[t] + 1), ChainOf[t][i] = b
      PROVE  \E n \in Nat : n <= Height[t] /\ Back(t, n) = b
  <2>1. Height[t] + 1 - i \in Nat /\ Height[t] + 1 - i <= Height[t]
    BY <1>1
  <2> QED
    BY <1>3, <1>4, <2>1
<1>5. ASSUME NEW n \in Nat, n <= Height[t], Back(t, n) = b
      PROVE  \E i \in 1..(Height[t] + 1) : ChainOf[t][i] = b
  <2> DEFINE i == Height[t] + 1 - n
  <2>1. i \in 1..(Height[t] + 1) /\ Height[t] + 1 - i = n
    BY <1>1, <1>5
  <2> HIDE DEF i
  <2> QED
    BY <1>3, <1>5, <2>1
<1> QED
  BY <1>2, <1>4, <1>5 DEF OnChain

\* A block on a chain stands at its height in it.
LEMMA OnChainIs ==
  ASSUME NEW t \in Blocks, NEW b, OnChain(b, t)
  PROVE  /\ b \in Blocks /\ Height[b] <= Height[t] /\ Height[b] \in Nat /\ Height[t] \in Nat
         /\ Back(t, Height[t] - Height[b]) = b
         /\ ChainOf[t][Height[b] + 1] = b
<1>1. PICK n \in Nat : n <= Height[t] /\ Back(t, n) = b
  BY OnChainBack
<1>2. Height[t] \in Nat /\ b \in Blocks /\ Height[b] = Height[t] - n
  BY <1>1, BackHeight, HeightIs
<1>3. Height[t] - Height[b] = n /\ Height[b] + 1 \in 1..(Height[t] + 1)
      /\ Height[t] + 1 - (Height[b] + 1) = n /\ Height[b] \in Nat /\ Height[b] <= Height[t]
  BY <1>1, <1>2
<1>4. ChainOf[t][Height[b] + 1] = Back(t, Height[t] + 1 - (Height[b] + 1))
  BY <1>3, ChainIs
<1> QED
  BY <1>1, <1>2, <1>3, <1>4

\* A chain ends in its tip.
LEMMA OnItsChain ==
  ASSUME NEW t \in Blocks
  PROVE  OnChain(t, t) /\ ChainOf[t][Height[t] + 1] = t
<1>1. Height[t] \in Nat /\ 0 \in Nat /\ 0 <= Height[t] /\ Back(t, 0) = t
  BY HeightIs, BackSteps
<1>2. OnChain(t, t)
  BY <1>1, OnChainBack
<1> QED
  BY <1>2, OnChainIs

\* A chain is its end and the chain to the parent.
LEMMA OnChainOfParent ==
  ASSUME NEW t \in Blocks \ {Genesis}, NEW b
  PROVE  OnChain(b, t) <=> b = t \/ OnChain(b, Parent[t])
<1> DEFINE a == Parent[t]
<1>1. a \in Blocks /\ Height[t] = Height[a] + 1 /\ Height[a] \in Nat
  BY HeightIs, TreeAssumption
<1>2. \A n \in Nat : Back(a, n) = Back(t, n + 1)
  BY ParentBack
<1>3. ASSUME OnChain(b, t) PROVE b = t \/ OnChain(b, a)
  <2>1. PICK n \in Nat : n <= Height[t] /\ Back(t, n) = b
    BY <1>3, OnChainBack
  <2>2. CASE n = 0
    BY <2>1, <2>2, BackSteps
  <2>3. CASE n # 0
    <3>1. n - 1 \in Nat /\ n - 1 <= Height[a] /\ (n - 1) + 1 = n
      BY <1>1, <2>1, <2>3
    <3>2. Back(a, n - 1) = b
      BY <1>2, <2>1, <3>1
    <3> QED
      BY <1>1, <3>1, <3>2, OnChainBack
  <2> QED
    BY <2>2, <2>3
<1>4. ASSUME OnChain(b, a) PROVE OnChain(b, t)
  <2>1. PICK n \in Nat : n <= Height[a] /\ Back(a, n) = b
    BY <1>1, <1>4, OnChainBack
  <2>2. n + 1 \in Nat /\ n + 1 <= Height[t] /\ Back(t, n + 1) = b
    BY <1>1, <1>2, <2>1
  <2> QED
    BY <2>2, OnChainBack
<1> QED
  BY <1>3, <1>4, OnItsChain

\* On the chain of genesis there is genesis only.
LEMMA OnGenesis == \A b : OnChain(b, Genesis) <=> b = Genesis
<1> SUFFICES ASSUME NEW b PROVE OnChain(b, Genesis) <=> b = Genesis
  OBVIOUS
<1>1. Genesis \in Blocks /\ Height[Genesis] = 0
  BY HeightIs, TreeAssumption
<1>2. OnChain(b, Genesis) <=> \E n \in Nat : n <= 0 /\ Back(Genesis, n) = b
  BY <1>1, OnChainBack
<1>3. \A n \in Nat : n <= 0 => n = 0
  OBVIOUS
<1> QED
  BY <1>2, <1>3, BackSteps

\* Every chain begins with genesis.
LEMMA GenesisOnChain == \A t \in Blocks : OnChain(Genesis, t)
<1> DEFINE S == {t \in Blocks : OnChain(Genesis, t)}
<1>1. Genesis \in S
  BY OnGenesis, TreeAssumption
<1>2. \A t \in Blocks \ {Genesis} : Parent[t] \in S => t \in S
  BY OnChainOfParent
<1> HIDE DEF S
<1>3. Blocks \subseteq S
  BY <1>1, <1>2, BlockInduction
<1> QED
  BY <1>3 DEF S

\* What is on the chain of a block of a chain is on that chain.
LEMMA OnChainTrans ==
  ASSUME NEW t \in Blocks, NEW b, OnChain(b, t), NEW a, OnChain(a, b)
  PROVE  OnChain(a, t)
<1>1. b \in Blocks /\ Height[b] \in Nat /\ Height[t] \in Nat /\ Height[b] <= Height[t]
  BY OnChainIs
<1> DEFINE m == Height[t] - Height[b]
           n == Height[b] - Height[a]
<1>2. Height[a] \in Nat /\ Height[a] <= Height[b] /\ Back(b, n) = a
  BY <1>1, OnChainIs
<1>3. Back(t, m) = b
  BY OnChainIs
<1>4. m \in Nat /\ n \in Nat /\ m + n \in Nat /\ m + n <= Height[t]
  BY <1>1, <1>2
<1> HIDE DEF m, n
<1>5. Back(t, m + n) = a
  BY <1>2, <1>3, <1>4, BackAdds
<1> QED
  BY <1>4, <1>5, OnChainBack

\* Of two blocks of one chain the lower is on the chain of the higher.
LEMMA OnChainOrder ==
  ASSUME NEW t \in Blocks, NEW a, OnChain(a, t), NEW b, OnChain(b, t), Height[a] <= Height[b]
  PROVE  OnChain(a, b)
<1>1. /\ a \in Blocks /\ b \in Blocks
      /\ Height[a] \in Nat /\ Height[b] \in Nat /\ Height[t] \in Nat
      /\ Height[b] <= Height[t]
  BY OnChainIs
<1> DEFINE m == Height[t] - Height[b]
           n == Height[b] - Height[a]
<1>2. Back(t, m) = b /\ Back(t, Height[t] - Height[a]) = a
  BY OnChainIs
<1>3. m \in Nat /\ n \in Nat /\ n <= Height[b] /\ m + n = Height[t] - Height[a]
  BY <1>1
<1> HIDE DEF m, n
<1>4. Back(b, n) = a
  BY <1>2, <1>3, BackAdds
<1> QED
  BY <1>1, <1>3, <1>4, OnChainBack

\* A chain has one block at a height.
LEMMA OneAtAHeight ==
  ASSUME NEW t \in Blocks, NEW a, OnChain(a, t), NEW b, OnChain(b, t), Height[a] = Height[b]
  PROVE  a = b
BY OnChainIs

\* A set that has its members' parents has their chains.
LEMMA ChainInside ==
  ASSUME NEW S, ParentClosed(S), NEW t \in Blocks, t \in S
  PROVE  \A b : OnChain(b, t) => b \in S
<1> DEFINE T == {x \in Blocks : x \in S => \A b : OnChain(b, x) => b \in S}
<1>1. Genesis \in T
  BY OnGenesis, TreeAssumption
<1>2. ASSUME NEW x \in Blocks \ {Genesis}, Parent[x] \in T PROVE x \in T
  <2> SUFFICES ASSUME x \in S, NEW b, OnChain(b, x) PROVE b \in S
    OBVIOUS
  <2>1. Parent[x] \in S
    BY DEF ParentClosed
  <2> QED
    BY <1>2, <2>1, OnChainOfParent
<1> HIDE DEF T
<1>3. Blocks \subseteq T
  BY <1>1, <1>2, BlockInduction
<1> QED
  BY <1>3 DEF T

----------------------------------------------------------------------------
(* Chains of a tree *)

\* The heights a tree keeps are the heights the blocks have.
LEMMA HeldHeight ==
  ASSUME NEW map, IsTree(map)
  PROVE  \A b \in DOMAIN map : map[b].height = Height[b]
<1> DEFINE S == {b \in Blocks : b \in DOMAIN map => map[b].height = Height[b]}
<1>1. Genesis \in S
  BY HeightIs, TreeAssumption DEF IsTree
<1>2. \A b \in Blocks \ {Genesis} : Parent[b] \in S => b \in S
  BY HeightIs DEF IsTree
<1> HIDE DEF S
<1>3. Blocks \subseteq S
  BY <1>1, <1>2, BlockInduction
<1> QED
  BY <1>3 DEF S, IsTree

\* The ancestry of a held block is its chain.
LEMMA AncestryIsChain ==
  ASSUME NEW map, IsTree(map), NEW b \in DOMAIN map
  PROVE  \A x : x \in Ancestry(map, b) <=> OnChain(x, b)
<1>1. b \in Blocks /\ DOMAIN map \subseteq Blocks /\ ParentClosed(DOMAIN map)
  BY DEF IsTree, ParentClosed
<1>2. ASSUME NEW x, OnChain(x, b) PROVE x \in Ancestry(map, b)
  <2>1. x \in DOMAIN map
    BY <1>1, <1>2, ChainInside
  <2>2. \A S \in SUBSET DOMAIN map : b \in S /\ ParentClosed(S) => x \in S
    BY <1>1, <1>2, ChainInside
  <2> QED
    BY <2>1, <2>2 DEF Ancestry
<1>3. ASSUME NEW x \in Ancestry(map, b) PROVE OnChain(x, b)
  <2> DEFINE S == {y \in DOMAIN map : OnChain(y, b)}
  <2>1. S \in SUBSET DOMAIN map /\ b \in S
    BY <1>1, OnItsChain
  <2>2. ParentClosed(S)
    <3> SUFFICES ASSUME NEW y \in DOMAIN map \ {Genesis}, OnChain(y, b)
                 PROVE  Parent[y] \in DOMAIN map /\ OnChain(Parent[y], b)
      BY DEF ParentClosed
    <3>1. y \in Blocks \ {Genesis} /\ Parent[y] \in Blocks /\ Parent[y] \in DOMAIN map
      BY <1>1, TreeAssumption DEF ParentClosed
    <3>2. OnChain(Parent[y], y)
      BY <3>1, OnItsChain, OnChainOfParent
    <3> QED
      BY <1>1, <3>1, <3>2, OnChainTrans
  <2>3. x \in S
    BY <2>1, <2>2 DEF Ancestry
  <2> QED
    BY <2>3
<1> QED
  BY <1>2, <1>3

\* The path back from a held block is its ancestry.
LEMMA PathIsAncestry ==
  ASSUME IsTree(headers), NEW b \in Held
  PROVE  Path(b) = Ancestry(headers, b)
<1>1. b \in Blocks /\ b \in DOMAIN headers /\ headers[b].height = Height[b] /\ Height[b] \in Nat
  BY HeldHeight, HeightIs DEF IsTree, Held
<1>2. \A x : x \in Path(b) <=> \E n \in Nat : n <= Height[b] /\ Back(b, n) = x
  BY <1>1 DEF Path
<1>3. \A x : x \in Path(b) <=> OnChain(x, b)
  BY <1>1, <1>2, OnChainBack
<1>4. \A x : x \in Ancestry(headers, b) <=> OnChain(x, b)
  BY <1>1, AncestryIsChain
<1> QED
  BY <1>3, <1>4

\* What the tree is kept to up to a checkpoint is what a walk back from it finds.
LEMMA OneChainIsSeen == IsTree(headers) /\ OneChain(headers, reached) => OneChainUpToCheckpoint
<1> SUFFICES ASSUME IsTree(headers), OneChain(headers, reached),
                    NEW c \in Checkpoints, c.height = reached
             PROVE  c.hash \in Held /\ {b \in Held : headers[b].height <= reached} = Path(c.hash)
  BY DEF OneChainUpToCheckpoint
<1>1. c.hash \in Held /\ {b \in Held : headers[b].height <= reached} = Ancestry(headers, c.hash)
  BY DEF OneChain, Held
<1> QED
  BY <1>1, PathIsAncestry

\* Up to the height of the last checkpoint reached the tree is that checkpoint's chain:
\* nothing enters below it and what was there is pruned (validate_header,
\* prune_below_checkpoint).
THEOREM CheckpointsAreFinal == Spec => []OneChainUpToCheckpoint
<1>1. TreeInv => OneChainUpToCheckpoint
  BY OneChainIsSeen DEF TreeInv
<1> QED
  BY <1>1, TreeInvariant, PTL

\* The best chain, rebuilt to a held block, is the chain of that block, all of it held.
LEMMA Rebuilt ==
  ASSUME NEW map, IsTree(map), NEW t \in DOMAIN map
  PROVE  /\ ChainTo(t, map[t].height) = ChainOf[t]
         /\ ChainOf[t] \in Seq(DOMAIN map)
<1>1. t \in Blocks /\ map[t].height = Height[t] /\ ParentClosed(DOMAIN map)
  BY HeldHeight DEF IsTree, ParentClosed
<1>2. ChainTo(t, Height[t]) = ChainOf[t]
  BY <1>1 DEF ChainOf
<1>3. \A b : OnChain(b, t) => b \in DOMAIN map
  BY <1>1, ChainInside
<1>4. /\ ChainOf[t] \in Seq(Blocks) /\ DOMAIN ChainOf[t] = 1..(Height[t] + 1)
      /\ Len(ChainOf[t]) = Height[t] + 1
  BY <1>1, ChainIs
<1>5. \A i \in 1..(Height[t] + 1) : ChainOf[t][i] \in DOMAIN map
  BY <1>3, <1>4 DEF OnChain
<1> DEFINE c == ChainOf[t]
           n == Height[t] + 1
<1>6. c \in Seq(Blocks) /\ Len(c) = n /\ \A i \in 1..n : c[i] \in DOMAIN map
  BY <1>4, <1>5
<1> HIDE DEF c, n
<1>7. c \in Seq(DOMAIN map)
  <2>1. Len(c) \in Nat /\ c = [i \in 1..Len(c) |-> c[i]]
    BY <1>6
  <2> QED
    BY <1>6, <2>1
<1> QED
  BY <1>1, <1>2, <1>7 DEF c

----------------------------------------------------------------------------
(* The tree under the sessions *)

\* The tree as the sessions find it: its best chain is of headers held, and the last
\* checkpoint reached stands at its height.
SyncTree ==
  /\ TreeInv
  /\ best_chain \in Seq(Held)
  /\ \A c \in Checkpoints : c.height = reached => Height[c.hash] = reached
  /\ reached = -1 \/ \E c \in Checkpoints : c.height = reached

\* The tips the tree holds, or that a checkpoint rules out.
Known(t) == t \in Held \cup RuledOut

\* A tree loaded from a file that holds a chain (load).
LEMMA LoadedTree ==
  ASSUME NEW t \in Blocks, Loaded(t), rejected = <<>>
  PROVE  SyncTree
<1> DEFINE S == {x \in Blocks : OnChain(x, t)}
           passed == {c.height : c \in {d \in Checkpoints : OnChain(d.hash, t) /\ Height[d.hash] = d.height}}
<1>1. /\ headers = [b \in S |-> [height |-> Height[b], chain_work |-> ChainWork[b]]]
      /\ tip = t /\ best_chain = ChainOf[t]
      /\ reached = CHOOSE h \in passed \cup {-1} : \A k \in passed : k <= h
  BY DEF Loaded
<1>2. /\ Held = S
      /\ \A b \in S : headers[b].height = Height[b] /\ headers[b].chain_work = ChainWork[b]
  BY <1>1 DEF Held
<1>3. IsTree(headers)
  <2>1. \A b \in S \ {Genesis} : Parent[b] \in S
    <3> SUFFICES ASSUME NEW b \in Blocks \ {Genesis}, OnChain(b, t)
                 PROVE  Parent[b] \in Blocks /\ OnChain(Parent[b], t)
      OBVIOUS
    <3>1. Parent[b] \in Blocks
      BY TreeAssumption
    <3>2. OnChain(Parent[b], b)
      BY <3>1, OnItsChain, OnChainOfParent
    <3> QED
      BY <3>1, <3>2, OnChainTrans
  <2>2. Genesis \in S /\ S \subseteq Blocks
    BY GenesisOnChain, TreeAssumption
  <2> HIDE DEF S
  <2>3. \A b \in S : Height[b] \in Nat /\ ChainWork[b] \in Nat
    BY <2>2, HeightIs, ChainWorkIs
  <2>4. \A b \in S \ {Genesis} : Height[b] = Height[Parent[b]] + 1 /\ ChainWork[b] = ChainWork[Parent[b]] + Work[b]
    BY <2>2, HeightIs, ChainWorkIs
  <2>5. Height[Genesis] = 0
    BY HeightIs
  <2> QED
    BY <1>2, <2>1, <2>2, <2>3, <2>4, <2>5 DEF IsTree, Held
<1>4. TipHasMostWork
  <2> DEFINE L == {x \in Blocks : \A b : OnChain(b, x) => ChainWork[b] <= ChainWork[x]}
  <2>1. Genesis \in L
    BY OnGenesis, ChainWorkIs, TreeAssumption
  <2>2. ASSUME NEW x \in Blocks \ {Genesis}, Parent[x] \in L PROVE x \in L
    <3> SUFFICES ASSUME NEW b, OnChain(b, x) PROVE ChainWork[b] <= ChainWork[x]
      OBVIOUS
    <3>1. Parent[x] \in Blocks /\ Work[x] \in Nat
      BY TreeAssumption
    <3>2. ChainWork[x] = ChainWork[Parent[x]] + Work[x] /\ ChainWork[x] \in Nat /\ ChainWork[Parent[x]] \in Nat
      BY <3>1, ChainWorkIs
    <3>3. b \in Blocks /\ ChainWork[b] \in Nat
      BY OnChainIs, ChainWorkIs
    <3>4. CASE b = x
      BY <3>2, <3>4
    <3>5. CASE OnChain(b, Parent[x])
      <4>1. ChainWork[b] <= ChainWork[Parent[x]]
        BY <2>2, <3>5
      <4> QED
        BY <3>1, <3>2, <3>3, <4>1
    <3> QED
      BY <3>4, <3>5, OnChainOfParent
  <2> HIDE DEF L
  <2>3. Blocks \subseteq L
    BY <2>1, <2>2, BlockInduction
  <2>4. \A b : OnChain(b, t) => ChainWork[b] <= ChainWork[t]
    BY <2>3 DEF L
  <2>5. tip \in S
    BY <1>1, OnItsChain
  <2>6. \A b \in S : OnChain(b, t)
    OBVIOUS
  <2> HIDE DEF S
  <2>7. \A b \in S : headers[b].chain_work <= headers[tip].chain_work
    BY <1>1, <1>2, <2>4, <2>5, <2>6
  <2> QED
    BY <1>2, <2>5, <2>7 DEF TipHasMostWork
<1>5. /\ reached \in Int
      /\ reached = -1 \/ \E d \in Checkpoints : /\ OnChain(d.hash, t)
                                                /\ Height[d.hash] = d.height /\ d.height = reached
  <2>1. passed \subseteq Nat
    BY TreeAssumption
  <2>2. \A h \in passed : h <= Height[t]
    <3> SUFFICES ASSUME NEW d \in Checkpoints, OnChain(d.hash, t), Height[d.hash] = d.height
                 PROVE  d.height <= Height[t]
      OBVIOUS
    <3> QED
      BY OnChainIs
  <2> HIDE DEF passed
  <2>3. Height[t] \in Int /\ passed \cup {-1} \in SUBSET Int /\ passed \cup {-1} # {}
    BY <2>1, HeightIs
  <2>4. \A h \in passed \cup {-1} : h <= Height[t]
    BY <2>2, HeightIs
  <2>5. \E h \in passed \cup {-1} : \A k \in passed \cup {-1} : k <= h
    BY <2>3, <2>4, Greatest
  <2>6. \E h \in passed \cup {-1} : \A k \in passed : k <= h
    BY <2>5
  <2>7. reached \in passed \cup {-1}
    BY <1>1, <2>6
  <2> QED
    BY <2>3, <2>7 DEF passed
<1>6. ASSUME NEW c \in Checkpoints, c.height = reached
      PROVE  Height[c.hash] = reached /\ OnChain(c.hash, t)
  <2>1. c.height \in Nat
    BY TreeAssumption
  <2>2. PICK d \in Checkpoints : OnChain(d.hash, t) /\ Height[d.hash] = d.height /\ d.height = reached
    BY <1>5, <1>6, <2>1
  <2>3. c = d
    BY <1>6, <2>2, TreeAssumption
  <2> QED
    BY <2>2, <2>3
<1>7. ASSUME NEW c \in Checkpoints, c.height = reached
      PROVE  /\ c.hash \in DOMAIN headers
             /\ {b \in DOMAIN headers : headers[b].height <= reached} = Ancestry(headers, c.hash)
  <2>1. Height[c.hash] = reached /\ OnChain(c.hash, t) /\ c.hash \in Blocks
    BY <1>6, <1>7, OnChainIs
  <2>2. c.hash \in DOMAIN headers
    BY <1>2, <2>1 DEF Held
  <2>3. \A x : x \in Ancestry(headers, c.hash) <=> OnChain(x, c.hash)
    BY <1>3, <2>2, AncestryIsChain
  <2>4. ASSUME NEW b, OnChain(b, c.hash)
        PROVE  b \in DOMAIN headers /\ headers[b].height <= reached
    <3>1. b \in Blocks /\ Height[b] <= Height[c.hash] /\ OnChain(b, t)
      BY <2>1, <2>4, OnChainIs, OnChainTrans
    <3> QED
      BY <1>2, <2>1, <3>1 DEF Held
  <2>5. ASSUME NEW b \in DOMAIN headers, headers[b].height <= reached
        PROVE  OnChain(b, c.hash)
    <3>1. OnChain(b, t) /\ Height[b] <= Height[c.hash]
      BY <1>2, <2>1, <2>5 DEF Held
    <3> QED
      BY <2>1, <3>1, OnChainOrder
  <2> QED
    BY <2>2, <2>3, <2>4, <2>5
<1>8. best_chain \in Seq(Held)
  <2>1. t \in DOMAIN headers
    BY <1>2, OnItsChain DEF Held
  <2> QED
    BY <1>1, <1>3, <2>1, Rebuilt DEF Held
<1>9. TreeInv
  BY <1>3, <1>4, <1>5, <1>7, FreshTree DEF TreeInv, OneChain
<1> QED
  BY <1>5, <1>6, <1>8, <1>9 DEF SyncTree

\* The last checkpoint reached is behind every header that enters (validate_header).
LEMMA AboveCheckpoint ==
  ASSUME SyncTree, NEW b, Verdict(b) = "ok", NEW c \in Checkpoints, c.height = reached
  PROVE  OnChain(c.hash, b)
<1> DEFINE a == Parent[b]
<1>1. /\ IsTree(headers) /\ reached \in Int /\ OneChain(headers, reached) /\ IsList(rejected)
  BY DEF SyncTree, TreeInv
<1>2. /\ b \in Blocks \ {Genesis} /\ a \in Held /\ headers[a].height + 1 > reached
  BY <1>1, Valid DEF IsTree, Held
<1>3. /\ c.hash \in Held /\ c.hash \in Blocks /\ Height[c.hash] = reached
      /\ {x \in Held : headers[x].height <= reached} = Ancestry(headers, c.hash)
  BY <1>1 DEF SyncTree, OneChain, Held, IsTree
<1>4. /\ a \in Blocks /\ Height[a] \in Nat /\ Height[c.hash] \in Nat /\ Height[c.hash] <= Height[a]
  <2>1. headers[a].height = Height[a]
    BY <1>1, <1>2, HeldHeight DEF Held
  <2> QED
    BY <1>2, <1>3, <2>1, HeightIs, TreeAssumption
<1> DEFINE n == Height[a] - Height[c.hash]
           x == Back(a, n)
<1>5. n \in Nat /\ n <= Height[a] /\ Height[a] - n = Height[c.hash]
  BY <1>4
<1> HIDE DEF n
<1>6. OnChain(x, a) /\ Height[x] = Height[c.hash]
  BY <1>4, <1>5, OnChainBack, BackHeight
<1> HIDE DEF x
<1>7. x \in Held
  <2>1. ParentClosed(Held)
    BY <1>1 DEF IsTree, ParentClosed, Held
  <2> QED
    BY <1>2, <1>4, <1>6, <2>1, ChainInside
<1>8. x \in Ancestry(headers, c.hash)
  <2>1. headers[x].height = Height[x]
    BY <1>1, <1>7, HeldHeight DEF Held
  <2> QED
    BY <1>1, <1>3, <1>6, <1>7, <2>1
<1>9. OnChain(x, c.hash)
  BY <1>1, <1>3, <1>8, AncestryIsChain DEF Held
<1>10. x = c.hash
  BY <1>3, <1>6, <1>9, OnItsChain, OneAtAHeight
<1> QED
  BY <1>2, <1>6, <1>10, OnChainOfParent

\* A header enters the tree: what was known stays known, also when a checkpoint prunes
\* the branches that do not lead to it (prune_below_checkpoint).
LEMMA AcceptKnows ==
  ASSUME SyncTree, NEW b, Verdict(b) = "ok", Accept(b), TreeInv'
  PROVE  SyncTree' /\ \A t \in Blocks : Known(t) => Known(t)'
<1> DEFINE entry == [height     |-> headers[Parent[b]].height + 1,
                     chain_work |-> headers[Parent[b]].chain_work + Work[b]]
           map   == [x \in Held \cup {b} |-> IF x = b THEN entry ELSE headers[x]]
           noted == IsCheckpoint(b, entry.height) /\ entry.height > reached
           stay  == IF noted THEN Survivors(map, b) ELSE DOMAIN map
           cut   == stay # DOMAIN map
<1>0. /\ IsTree(headers) /\ reached \in Int /\ TipHasMostWork /\ OneChain(headers, reached)
      /\ IsList(rejected) /\ IsTree(headers')
  BY DEF SyncTree, TreeInv
<1>1. /\ b \in Blocks /\ b \notin Held /\ Parent[b] \in Held
      /\ headers[Parent[b]].height + 1 > reached /\ b # Genesis
  BY <1>0, Valid, SMTT(30) DEF IsTree, Held
<1>2. /\ headers' = [x \in stay |-> map[x]]
      /\ reached' = IF noted THEN entry.height ELSE reached
  BY DEF Accept
<1>22. \E t \in IF tip \in stay THEN {tip} ELSE MostWork(map, stay) :
         best_chain' = IF cut THEN ChainTo(t, map[t].height) ELSE best_chain
  BY Zenon DEF Accept
<1>3. IsTree(map)
  BY <1>0, <1>1, Grown DEF Held
<1>4. DOMAIN map = Held \cup {b} /\ entry.height = map[b].height
  BY <1>1
<1>5. entry.height = Height[b] /\ Height[b] > reached
  <2>1. map[b].height = Height[b]
    BY <1>3, <1>4, HeldHeight
  <2>2. entry.height = headers[Parent[b]].height + 1
    OBVIOUS
  <2> HIDE DEF entry, map
  <2> QED
    BY <1>1, <1>4, <2>1, <2>2
<1> HIDE DEF map, entry
<1>6. stay \subseteq DOMAIN map /\ ParentClosed(stay) /\ b \in stay
  <2>1. CASE noted
    BY <1>3, <1>4, <2>1, SurvivorsOf
  <2>2. CASE ~noted
    <3>1. ParentClosed(DOMAIN map)
      BY <1>3 DEF IsTree, ParentClosed
    <3> QED
      BY <1>4, <2>2, <3>1
  <2> QED
    BY <2>1, <2>2
<1> HIDE DEF stay
<1>7. Held' = stay /\ \A x \in stay : headers'[x] = map[x]
  BY <1>2 DEF Held
<1>8. best_chain' \in Seq(Held')
  <2>1. PICK t \in IF tip \in stay THEN {tip} ELSE MostWork(map, stay) :
           best_chain' = IF cut THEN ChainTo(t, map[t].height) ELSE best_chain
    BY <1>22
  <2>2. CASE cut
    <3>1. t \in stay
      BY <2>1 DEF MostWork
    <3>2. best_chain' = ChainTo(t, headers'[t].height)
      BY <1>7, <2>1, <2>2, <3>1
    <3> QED
      BY <1>0, <1>7, <3>1, <3>2, Rebuilt DEF Held
  <2>3. CASE ~cut
    <3>1. best_chain' = best_chain /\ Held \subseteq Held'
      BY <1>4, <1>7, <2>1, <2>3
    <3> HIDE DEF cut
    <3> QED
      BY <3>1, SeqMonotonic DEF SyncTree
  <2> QED
    BY <2>2, <2>3
<1>9. ASSUME NEW c \in Checkpoints, c.height = reached' PROVE Height[c.hash] = reached'
  <2>1. CASE noted
    <3>1. PICK d \in Checkpoints : d.height = entry.height /\ d.hash = b
      BY <2>1 DEF IsCheckpoint
    <3>2. c = d
      BY <1>2, <1>9, <2>1, <3>1, TreeAssumption
    <3> QED
      BY <1>2, <1>5, <2>1, <3>1, <3>2
  <2>2. CASE ~noted
    BY <1>2, <1>9, <2>2 DEF SyncTree
  <2> QED
    BY <2>1, <2>2
<1>10. ASSUME NEW t \in Blocks, Known(t) PROVE Known(t)'
  <2>1. CASE ~noted
    <3>1. Held \subseteq Held' /\ reached' = reached
      BY <1>2, <1>4, <1>7, <2>1 DEF stay
    <3> QED
      BY <1>10, <3>1 DEF Known, RuledOut
  <2>2. CASE noted
    <3>1. PICK d \in Checkpoints : d.height = reached' /\ d.hash = b
      BY <1>2, <2>2 DEF IsCheckpoint
    <3> SUFFICES ASSUME t \notin stay PROVE ~OnChain(b, t) /\ ~OnChain(t, b)
      BY <1>7, <3>1 DEF Known, RuledOut
    <3>2. CASE t \in Held
      <4>1. t \in DOMAIN map
        BY <1>4, <3>2
      <4>2. /\ Ancestry(map, b) \subseteq stay
            /\ stay = UNION {S \in SUBSET {x \in DOMAIN map : map[x].height > map[b].height \/ x \in Ancestry(map, b)} : ParentClosed(S)}
        <5>1. stay = Survivors(map, b)
          BY <2>2 DEF stay
        <5> QED
          BY <1>3, <1>4, <5>1, SurvivorsOf DEF Survivors
      <4>3. ~OnChain(t, b)
        BY <1>3, <1>4, <4>2, AncestryIsChain
      <4>4. ASSUME OnChain(b, t) PROVE FALSE
        <5> DEFINE C == {x \in DOMAIN map : OnChain(x, t)}
                   R == {x \in DOMAIN map : map[x].height > map[b].height \/ x \in Ancestry(map, b)}
        <5>1. \A x : OnChain(x, t) => x \in DOMAIN map
          BY <1>3, <4>1, ChainInside DEF IsTree, ParentClosed
        <5>2. ParentClosed(C)
          <6> SUFFICES ASSUME NEW x \in Blocks \ {Genesis}, OnChain(x, t) PROVE OnChain(Parent[x], t)
            BY <1>3, <5>1 DEF ParentClosed, IsTree
          <6>1. Parent[x] \in Blocks
            BY TreeAssumption
          <6>2. OnChain(Parent[x], x)
            BY <6>1, OnItsChain, OnChainOfParent
          <6> QED
            BY <6>2, OnChainTrans
        <5>3. ASSUME NEW x \in C, ~(map[x].height > map[b].height) PROVE x \in Ancestry(map, b)
          <6>0. x \in DOMAIN map /\ OnChain(x, t)
            OBVIOUS
          <6> HIDE DEF C
          <6>1. map[x].height = Height[x] /\ map[b].height = Height[b] /\ b \in DOMAIN map
            BY <1>3, <1>4, <6>0, HeldHeight
          <6>2. Height[x] \in Nat /\ Height[b] \in Nat /\ Height[x] <= Height[b]
            BY <1>1, <4>4, <5>3, <6>0, <6>1, OnChainIs
          <6>3. OnChain(x, b)
            BY <4>4, <6>0, <6>2, OnChainOrder
          <6> QED
            BY <1>3, <6>1, <6>3, AncestryIsChain
        <5>4. t \in C
          BY <4>1, OnItsChain
        <5>5. C \in SUBSET R
          BY <5>3
        <5>6. stay = UNION {S \in SUBSET R : ParentClosed(S)}
          BY <4>2
        <5> HIDE DEF C, R
        <5> QED
          BY <5>2, <5>4, <5>5, <5>6
      <4> QED
        BY <4>3, <4>4
    <3>3. CASE t \notin Held
      <4>1. PICK c \in Checkpoints : c.height = reached /\ ~OnChain(c.hash, t) /\ ~OnChain(t, c.hash)
        BY <1>10, <3>3 DEF Known, RuledOut
      <4>2. /\ c.hash \in Held /\ c.hash \in Blocks /\ Height[c.hash] = reached
            /\ {x \in Held : headers[x].height <= reached} = Ancestry(headers, c.hash)
        BY <1>0, <4>1 DEF SyncTree, OneChain, Held, IsTree
      <4>3. OnChain(c.hash, b)
        BY <4>1, AboveCheckpoint
      <4>4. ~OnChain(b, t)
        BY <4>1, <4>3, OnChainTrans
      <4>5. ASSUME OnChain(t, b) PROVE FALSE
        <5>1. Height[t] \in Nat /\ Height[c.hash] \in Nat
          BY <1>1, <4>2, HeightIs
        <5>2. Height[t] <= Height[c.hash] \/ Height[c.hash] <= Height[t]
          BY <5>1
        <5> QED
          BY <1>1, <4>1, <4>3, <4>5, <5>2, OnChainOrder
      <4> QED
        BY <4>4, <4>5
    <3> QED
      BY <3>2, <3>3
  <2> QED
    BY <2>1, <2>2
<1>11. reached' = -1 \/ \E c \in Checkpoints : c.height = reached'
  <2>1. CASE noted
    BY <1>2, <2>1 DEF IsCheckpoint
  <2>2. CASE ~noted
    BY <1>2, <2>2 DEF SyncTree
  <2> QED
    BY <2>1, <2>2
<1> QED
  BY <1>8, <1>9, <1>10, <1>11 DEF SyncTree

\* A header, whatever the verdict on it, leaves what was known known (insert_inner).
LEMMA InsertKnows ==
  ASSUME SyncTree, NEW b, insert_inner(b)
  PROVE  SyncTree' /\ \A t \in Blocks : Known(t) => Known(t)'
<1>1. TreeInv'
  BY InsertKeeps DEF SyncTree, TreeInv
<1>2. CASE Verdict(b) = "ok"
  <2>1. Accept(b)
    BY <1>2, SMTT(30) DEF insert_inner
  <2> QED
    BY <1>1, <1>2, <2>1, AcceptKnows
<1>3. CASE Verdict(b) # "ok"
  <2>1. UNCHANGED <<headers, best_chain, reached>>
    <3>1. CASE Verdict(b) \in {"known", "OrphanHeader"}
      BY <3>1 DEF insert_inner, tree
    <3>2. CASE Verdict(b) \notin {"known", "OrphanHeader"}
      BY <1>3, <3>2 DEF insert_inner, Refuse
    <3> QED
      BY <3>1, <3>2
  <2> QED
    BY <1>1, <2>1 DEF SyncTree, Known, RuledOut, Held
<1> QED
  BY <1>2, <1>3

\* The end of a batch leaves the headers and follows the tip (insert_batch).
LEMMA EndKnows ==
  ASSUME SyncTree, EndBatch
  PROVE  SyncTree' /\ \A t \in Blocks : Known(t) => Known(t)'
<1>1. UNCHANGED <<headers, tip, reached, rejected>>
  BY DEF EndBatch
<1>2. TreeInv'
  <2>1. TipHasMostWork'
    BY <1>1 DEF SyncTree, TreeInv, TipHasMostWork, Held
  <2> QED
    BY <1>1, <2>1 DEF SyncTree, TreeInv
<1>3. best_chain' \in Seq(Held)
  <2>1. IsTree(headers) /\ tip \in DOMAIN headers
    BY DEF SyncTree, TreeInv, TipHasMostWork, Held
  <2>2. ChainTo(tip, headers[tip].height) \in Seq(Held)
    BY <2>1, Rebuilt DEF Held
  <2> QED
    BY <2>2 DEF EndBatch, SyncTree
<1> QED
  BY <1>1, <1>2, <1>3 DEF SyncTree, Known, RuledOut, Held

----------------------------------------------------------------------------
(* Locators, answers and announcements *)

\* A locator names blocks of the tree (build_locator).
LEMMA LocatorIsHeld ==
  ASSUME SyncTree
  PROVE  build_locator \subseteq Held
<1> DEFINE n == Len(best_chain)
<1>1. best_chain \in Seq(Held) /\ n \in Nat
  BY DEF SyncTree
<1>2. \A h \in 0..n - 1 : best_chain[h + 1] \in Held
  <2> SUFFICES ASSUME NEW h \in 0..n - 1 PROVE best_chain[h + 1] \in Held
    OBVIOUS
  <2>1. h + 1 \in 1..n
    BY <1>1
  <2> QED
    BY <1>1, <2>1, ElementOfSeq
<1> QED
  BY <1>2 DEF build_locator

\* The blocks of a chain.
BlocksOf(t) == {b \in Blocks : OnChain(b, t)}

\* A peer with nothing to add has its tip named, or is at genesis
\* (get_headers_from_locator).
LEMMA AnswerIs ==
  ASSUME NEW t \in Blocks, NEW L
  PROVE  LET answer == get_headers_from_locator(ChainOf[t], L)
         IN  /\ answer \in Seq(BlocksOf(t))
             /\ answer = <<>> => t \in L \cup {Genesis}
<1> DEFINE c == ChainOf[t]
           n == Height[t] + 1
           B == BlocksOf(t)
           named == {i \in DOMAIN c : c[i] \in L} \cup {1}
           start == CHOOSE i \in named : \A j \in named : j <= i
           end == IF start + MaxHeaders < Len(c) THEN start + MaxHeaders ELSE Len(c)
           answer == get_headers_from_locator(c, L)
<1>1. Height[t] \in Nat /\ n \in Nat /\ n >= 1
  BY HeightIs
<1>2. /\ c \in Seq(Blocks) /\ Len(c) = n /\ DOMAIN c = 1..n /\ c[n] = t
      /\ \A i \in 1..n : c[i] \in B
  BY ChainIs, OnItsChain DEF OnChain, BlocksOf
<1>3. MaxHeaders \in Nat \ {0}
  BY SyncAssumption
<1>4. answer = SubSeq(c, start + 1, end)
  BY DEF get_headers_from_locator
<1> HIDE DEF c, n, answer, B
<1>5. named \subseteq 1..n /\ 1 \in named
  BY <1>1, <1>2
<1>6. start \in named
  <2>1. named \in SUBSET Int /\ named # {} /\ n \in Int /\ \A i \in named : i <= n
    BY <1>1, <1>5
  <2> HIDE DEF named
  <2> QED
    BY <2>1, Greatest
<1> HIDE DEF start
<1>7. start \in 1..n /\ (start = 1 \/ c[start] \in L)
  BY <1>5, <1>6
<1>8. end = IF start + MaxHeaders < n THEN start + MaxHeaders ELSE n
  BY <1>2
<1> HIDE DEF end
<1>9. end \in start..n /\ (end = start => start = n)
  BY <1>1, <1>3, <1>7, <1>8
<1>10. /\ answer \in Seq(B)
       /\ Len(answer) = IF start + 1 <= end THEN end - (start + 1) + 1 ELSE 0
  <2>1. start + 1 \in Int /\ end \in Int /\ \A i \in (start + 1)..end : c[i] \in B
    BY <1>1, <1>2, <1>7, <1>9
  <2> QED
    BY <1>2, <1>4, <2>1, SubSeqProperties
<1>11. ASSUME answer = <<>> PROVE t \in L \cup {Genesis}
  <2>1. Len(answer) = 0
    BY <1>11
  <2>2. end = start
    BY <1>1, <1>7, <1>9, <1>10, <2>1
  <2>3. start = n
    BY <1>9, <2>2
  <2>4. CASE n = 1
    <3>1. Height[t] = 0 /\ Height[Genesis] = 0
      BY <1>1, <2>4, HeightIs DEF n
    <3> QED
      BY <3>1, GenesisOnChain, OnItsChain, OneAtAHeight
  <2>5. CASE n # 1
    BY <1>2, <1>7, <2>3, <2>5
  <2> QED
    BY <2>4, <2>5
<1> QED
  BY <1>10, <1>11 DEF answer, c, B

\* The headers a peer announces when it moves from its tip o to t.
FreshFrom(o, t) ==
  SubSeq(ChainOf[t],
         Cardinality({i \in DOMAIN ChainOf[t] : \A j \in 1..i : OnChain(ChainOf[t][j], o)}) + 1,
         Len(ChainOf[t]))

\* They are blocks of the new chain, at least one.
LEMMA FreshIs ==
  ASSUME NEW o \in Blocks, NEW t \in Blocks, Height[t] > Height[o]
  PROVE  /\ FreshFrom(o, t) \in Seq(BlocksOf(t))
         /\ FreshFrom(o, t) # <<>>
<1> DEFINE c == ChainOf[t]
           n == Height[t] + 1
           B == BlocksOf(t)
           shared == {i \in DOMAIN c : \A j \in 1..i : OnChain(c[j], o)}
           k == Cardinality(shared)
           fresh == SubSeq(c, k + 1, Len(c))
<1>1. Height[t] \in Nat /\ Height[o] \in Nat /\ n \in Nat /\ n >= 1
  BY HeightIs
<1>2. /\ c \in Seq(Blocks) /\ Len(c) = n /\ DOMAIN c = 1..n /\ c[n] = t
      /\ \A i \in 1..n : c[i] \in B
  BY ChainIs, OnItsChain DEF OnChain, BlocksOf
<1>3. n \notin shared
  <2>1. ~OnChain(t, o)
    BY <1>1, OnChainIs
  <2>2. n \in 1..n
    BY <1>1
  <2> HIDE DEF c, n
  <2> QED
    BY <1>2, <2>1, <2>2
<1>4. fresh = FreshFrom(o, t)
  BY DEF FreshFrom
<1>5. shared \subseteq 1..(n - 1)
  BY <1>1, <1>2, <1>3
<1> HIDE DEF c, n, B, shared
<1>6. k \in Nat /\ k <= n - 1
  <2>1. IsFiniteSet(1..(n - 1)) /\ Cardinality(1..(n - 1)) = n - 1
    BY <1>1, FS_Interval
  <2> QED
    BY <1>5, <2>1, FS_Subset, FS_CardinalityType
<1> HIDE DEF k
<1>7. /\ fresh \in Seq(B)
      /\ Len(fresh) = IF k + 1 <= n THEN n - (k + 1) + 1 ELSE 0
  <2>1. k + 1 \in Int /\ n \in Int /\ \A i \in (k + 1)..n : c[i] \in B
    BY <1>1, <1>2, <1>6
  <2> QED
    BY <1>2, <2>1, SubSeqProperties
<1> HIDE DEF fresh
<1>8. Len(fresh) # 0
  BY <1>1, <1>6, <1>7
<1>9. fresh # <<>>
  BY <1>8
<1> QED
  BY <1>4, <1>7, <1>9 DEF B

----------------------------------------------------------------------------
(* The inductive invariant of the sessions *)

Kinds    == {"headers", "inv", "cmpctblock"}
Messages == [type : Kinds, blocks : Seq(Blocks), of : Blocks]
Conns    == [step : {"off", "getheaders", "recv", "insert", "inserting", "recover", "due", "close"},
             sync : BOOLEAN, asked_for : SUBSET Blocks, msg : Messages,
             other : {"none"} \cup HeaderError]
Ends     == [why : {"none", "HungUp", "OtherChain", "SyncComplete"}, tip : Blocks]

\* Only an answer is without a block, and only from a peer whose tip was known when it
\* answered.
Telling == {m \in Messages : m.blocks = <<>> => m.type = "headers" /\ Known(m.of)}

\* A handler past its first step has a block to work on, and one that is about to report
\* a finished sync was told that there is no more.
Handling ==
  {c \in Conns :
     /\ c.step \in {"insert", "inserting", "recover", "due"} => c.msg.blocks # <<>>
     /\ c.step = "close" /\ c.other = "none" => Known(c.msg.of)}

KnownTips == {t \in Blocks : Known(t)}
TrueEnds  == {e \in Ends : e.why = "SyncComplete" => Known(e.tip)}

Sessions ==
  /\ boot \in 0..Len(Seeds)
  /\ conn \in [Peers -> Handling]
  /\ inbox \in [Peers -> Seq(Telling)]
  /\ requests \in [Peers -> Seq(SUBSET KnownTips)]
  /\ best \in [Peers -> Blocks]
  /\ ended \in [Peers -> TrueEnds]

SyncInv == SyncTree /\ Sessions

\* Where every tip known stays known, what the sessions hold stays sound.
LEMMA SoundStays ==
  ASSUME \A t \in Blocks : Known(t) => Known(t)'
  PROVE  /\ Telling \subseteq Telling' /\ Handling \subseteq Handling'
         /\ KnownTips \subseteq KnownTips' /\ TrueEnds \subseteq TrueEnds'
         /\ Seq(Telling) \subseteq Seq(Telling')
         /\ Seq(SUBSET KnownTips) \subseteq Seq(SUBSET KnownTips')
<1>1. \A m \in Messages : m.of \in Blocks
  BY DEF Messages
<1>2. Telling \subseteq Telling'
  BY <1>1 DEF Telling
<1>3. Handling \subseteq Handling'
  <2>1. \A c \in Conns : c.msg.of \in Blocks
    BY <1>1 DEF Conns
  <2> QED
    BY <2>1 DEF Handling
<1>4. KnownTips \subseteq KnownTips'
  BY DEF KnownTips
<1>5. TrueEnds \subseteq TrueEnds'
  BY DEF TrueEnds, Ends
<1>6. SUBSET KnownTips \subseteq SUBSET KnownTips'
  BY <1>4
<1> QED
  BY <1>2, <1>3, <1>4, <1>5, <1>6, SeqMonotonic

\* A step of the tree alone keeps the sessions sound.
LEMMA SessionsStay ==
  ASSUME Sessions, \A t \in Blocks : Known(t) => Known(t)'
  PROVE  /\ conn \in [Peers -> Handling'] /\ inbox \in [Peers -> Seq(Telling')]
         /\ requests \in [Peers -> Seq(SUBSET KnownTips')]
         /\ best \in [Peers -> Blocks] /\ ended \in [Peers -> TrueEnds']
<1>1. /\ Handling \subseteq Handling' /\ TrueEnds \subseteq TrueEnds'
      /\ Seq(Telling) \subseteq Seq(Telling')
      /\ Seq(SUBSET KnownTips) \subseteq Seq(SUBSET KnownTips')
  BY SoundStays
<1>2. /\ conn \in [Peers -> Handling] /\ inbox \in [Peers -> Seq(Telling)]
      /\ requests \in [Peers -> Seq(SUBSET KnownTips)]
      /\ best \in [Peers -> Blocks] /\ ended \in [Peers -> TrueEnds]
  BY DEF Sessions
<1> QED
  BY <1>1, <1>2

\* A step that leaves the tree alone leaves what is known of it.
LEMMA TreeUntouched ==
  ASSUME SyncTree, UNCHANGED vars
  PROVE  /\ SyncTree' /\ \A t \in Blocks : Known(t)' <=> Known(t)
         /\ Telling' = Telling /\ Handling' = Handling /\ KnownTips' = KnownTips /\ TrueEnds' = TrueEnds
<1>1. UNCHANGED <<headers, tip, best_chain, reached, rejected>>
  BY DEF vars
<1>2. SyncTree'
  BY <1>1 DEF SyncTree, TreeInv, TipHasMostWork, Held
<1>3. \A t : Known(t)' <=> Known(t)
  BY <1>1 DEF Known, RuledOut, Held
<1> QED
  BY <1>2, <1>3 DEF Telling, Handling, KnownTips, TrueEnds

\* A session that starts, or ends for a reason that is none or true.
LEMMA Ended ==
  ASSUME SyncInv, NEW p \in Peers, NEW why, End(p, why),
         why \in {"HungUp", "OtherChain"} \/ (why = "SyncComplete" /\ Known(conn[p].msg.of))
  PROVE  SyncInv'
<1>1. /\ SyncTree' /\ Telling' = Telling /\ Handling' = Handling
      /\ KnownTips' = KnownTips /\ TrueEnds' = TrueEnds
  BY TreeUntouched DEF End, SyncInv
<1>2. Off \in Handling
  <2>1. NoMessage \in Messages
    <3>1. <<>> \in Seq(Blocks) /\ Genesis \in Blocks
      BY EmptySeq, TreeAssumption
    <3> QED
      BY <3>1 DEF NoMessage, Messages, Kinds
  <2>2. Off \in Conns
    BY <2>1 DEF Off, Conns
  <2> QED
    BY <2>2 DEF Handling, Off
<1>3. conn' \in [Peers -> Handling]
  BY <1>2 DEF SyncInv, Sessions, End, Go
<1>4. [why |-> why, tip |-> conn[p].msg.of] \in TrueEnds
  <2>1. conn[p].msg.of \in Blocks
    BY DEF SyncInv, Sessions, Handling, Conns, Messages
  <2> QED
    BY <2>1 DEF TrueEnds, Ends
<1>5. ended' \in [Peers -> TrueEnds]
  <2>1. ended' = [ended EXCEPT ![p] = [why |-> why, tip |-> conn[p].msg.of]]
    BY DEF End
  <2> QED
    BY <1>4, <2>1 DEF SyncInv, Sessions
<1>6. inbox' \in [Peers -> Seq(Telling)] /\ requests' \in [Peers -> Seq(SUBSET KnownTips)]
  <2>1. <<>> \in Seq(Telling) /\ <<>> \in Seq(SUBSET KnownTips)
    BY EmptySeq
  <2>2. inbox' = [inbox EXCEPT ![p] = <<>>] /\ requests' = [requests EXCEPT ![p] = <<>>]
    BY DEF End
  <2> QED
    BY <2>1, <2>2 DEF SyncInv, Sessions
<1> QED
  BY <1>1, <1>3, <1>5, <1>6 DEF SyncInv, Sessions, End

\* A session that begins keeps the invariant (Connection::run).
LEMMA Started ==
  ASSUME SyncInv, NEW p \in Peers, NEW sync \in BOOLEAN, Start(p, sync)
  PROVE  SyncInv'
<1>1. /\ SyncTree' /\ Telling' = Telling /\ Handling' = Handling
      /\ KnownTips' = KnownTips /\ TrueEnds' = TrueEnds
  BY TreeUntouched DEF Start, SyncInv
<1>2. [Off EXCEPT !.step = "getheaders", !.sync = sync] \in Handling
  <2>1. NoMessage \in Messages
    <3>1. <<>> \in Seq(Blocks) /\ Genesis \in Blocks
      BY EmptySeq, TreeAssumption
    <3> QED
      BY <3>1 DEF NoMessage, Messages, Kinds
  <2>2. [Off EXCEPT !.step = "getheaders", !.sync = sync] \in Conns
    BY <2>1 DEF Off, Conns
  <2> QED
    BY <2>2 DEF Handling, Off
<1>3. conn' \in [Peers -> Handling]
  BY <1>2 DEF SyncInv, Sessions, Start, Go
<1>4. inbox' \in [Peers -> Seq(Telling)] /\ requests' \in [Peers -> Seq(SUBSET KnownTips)]
  <2>1. <<>> \in Seq(Telling) /\ <<>> \in Seq(SUBSET KnownTips)
    BY EmptySeq
  <2>2. inbox' = [inbox EXCEPT ![p] = <<>>] /\ requests' = [requests EXCEPT ![p] = <<>>]
    BY DEF Start
  <2> QED
    BY <2>1, <2>2 DEF SyncInv, Sessions
<1> QED
  BY <1>1, <1>3, <1>4 DEF SyncInv, Sessions, Start

\* A handler's step keeps the session sound.
LEMMA Handled ==
  ASSUME SyncInv, NEW p \in Peers, SessionStep(p)
  PROVE  SyncInv'
<1>0. SyncTree /\ conn \in [Peers -> Handling] /\ conn[p] \in Handling /\ conn[p] \in Conns
  BY DEF SyncInv, Sessions, Handling
<1>1. CASE send_getheaders(p)
  <2>1. /\ SyncTree' /\ Telling' = Telling /\ Handling' = Handling
        /\ KnownTips' = KnownTips /\ TrueEnds' = TrueEnds
    BY <1>0, <1>1, TreeUntouched DEF send_getheaders
  <2>2. build_locator \in SUBSET KnownTips
    <3>1. Held \subseteq Blocks
      BY <1>0 DEF SyncTree, TreeInv, IsTree, Held
    <3> QED
      BY <1>0, <3>1, LocatorIsHeld DEF KnownTips, Known
  <2>3. requests' \in [Peers -> Seq(SUBSET KnownTips)]
    <3>1. Append(requests[p], build_locator) \in Seq(SUBSET KnownTips)
      <4>1. requests[p] \in Seq(SUBSET KnownTips)
        BY DEF SyncInv, Sessions
      <4> QED
        BY <2>2, <4>1, AppendProperties
    <3>2. requests' = [requests EXCEPT ![p] = Append(requests[p], build_locator)]
      BY <1>1 DEF send_getheaders
    <3> QED
      BY <3>1, <3>2 DEF SyncInv, Sessions
  <2>4. [conn[p] EXCEPT !.step = "recv"] \in Handling
    BY <1>0 DEF Handling, Conns
  <2>5. conn' \in [Peers -> Handling]
    BY <1>0, <1>1, <2>4 DEF send_getheaders, Go
  <2> QED
    BY <1>1, <2>1, <2>3, <2>5 DEF SyncInv, Sessions, send_getheaders
<1>2. CASE handle_message(p)
  <2>1. /\ SyncTree' /\ Telling' = Telling /\ Handling' = Handling
        /\ KnownTips' = KnownTips /\ TrueEnds' = TrueEnds
    BY <1>0, <1>2, TreeUntouched DEF handle_message
  <2> DEFINE m == Head(inbox[p])
  <2>2. m \in Telling /\ Tail(inbox[p]) \in Seq(Telling)
    <3>1. inbox[p] \in Seq(Telling) /\ inbox[p] # <<>>
      BY <1>2 DEF SyncInv, Sessions, handle_message
    <3> QED
      BY <3>1, HeadTailProperties
  <2>3. conn' = [conn EXCEPT ![p] = [conn[p] EXCEPT !.step = FirstStep(p, m), !.msg = m]]
    BY <1>2 DEF handle_message, Go
  <2>4. inbox' \in [Peers -> Seq(Telling)]
    BY <1>2, <2>2 DEF SyncInv, Sessions, handle_message
  <2> HIDE DEF m
  <2>5. m \in Messages /\ (m.blocks = <<>> => m.type = "headers" /\ Known(m.of))
    BY <2>2 DEF Telling
  <2>6. /\ FirstStep(p, m) \in {"recv", "recover", "insert", "close"}
        /\ FirstStep(p, m) \in {"recover", "insert"} => m.blocks # <<>>
        /\ FirstStep(p, m) = "close" => m.blocks = <<>>
    <3>1. CASE m.type = "inv"
      BY <2>5, <3>1 DEF FirstStep
    <3>2. CASE m.type # "inv" /\ m.blocks # <<>>
      BY <2>5, <3>2 DEF FirstStep
    <3>3. CASE m.type # "inv" /\ m.blocks = <<>>
      BY <2>5, <3>3 DEF FirstStep
    <3> QED
      BY <3>1, <3>2, <3>3
  <2>7. [conn[p] EXCEPT !.step = FirstStep(p, m), !.msg = m] \in Handling
    BY <1>0, <2>5, <2>6 DEF Handling, Conns
  <2>8. conn' \in [Peers -> Handling]
    BY <1>0, <2>3, <2>7
  <2> QED
    BY <1>2, <2>1, <2>4, <2>8 DEF SyncInv, Sessions, handle_message
<1>3. CASE Insert(p)
  <2>1. UNCHANGED <<headers, tip, best_chain, reached, rejected>>
    BY <1>3 DEF Insert, BeginBatch, tree
  <2>2. SyncTree'
    BY <1>0, <2>1 DEF SyncTree, TreeInv, TipHasMostWork, Held
  <2>3. \A t \in Blocks : Known(t) => Known(t)'
    BY <2>1 DEF Known, RuledOut, Held
  <2>4. [conn[p] EXCEPT !.step = "inserting"] \in Handling
    BY <1>0, <1>3 DEF Handling, Conns, Insert
  <2>5. conn' \in [Peers -> Handling]
    BY <1>0, <1>3, <2>4 DEF Insert, Go
  <2>6. conn' \in [Peers -> Handling']
    BY <2>3, <2>5, SoundStays
  <2> QED
    BY <1>3, <2>2, <2>3, <2>6, SessionsStay DEF SyncInv, Sessions, Insert
<1>4. CASE Inserted(p)
  <2>1. EndBatch /\ conn[p].step = "inserting"
    BY <1>4 DEF Inserted
  <2>2. SyncTree' /\ \A t \in Blocks : Known(t) => Known(t)'
    BY <1>0, <2>1, EndKnows
  <2> DEFINE behind == lock.err = "OrphanHeader" /\ ~conn[p].sync
             other  == IF is_other_chain(lock.err) THEN lock.err ELSE "none"
             next   == AfterInsert(p, lock.accepted, other)
             c      == [conn[p] EXCEPT !.step = IF behind THEN "recover" ELSE next, !.other = other]
  <2>3. conn' = [conn EXCEPT ![p] = c]
    BY <1>4 DEF Inserted, Go
  <2>4. other \in {"none"} \cup HeaderError
    BY DEF is_other_chain
  <2>5. next \in {"close", "getheaders", "recv"} /\ (next = "close" => other # "none")
    BY DEF AfterInsert
  <2>6. behind => other = "none"
    BY DEF is_other_chain
  <2>7. conn[p].msg.blocks # <<>>
    BY <1>0, <2>1 DEF Handling
  <2> HIDE DEF behind, other, next
  <2>8. c \in Handling
    BY <1>0, <2>4, <2>5, <2>6, <2>7 DEF Handling, Conns
  <2> HIDE DEF c
  <2>9. conn' \in [Peers -> Handling']
    BY <1>0, <2>2, <2>3, <2>8, SoundStays
  <2> QED
    BY <1>4, <2>2, <2>9, SessionsStay DEF SyncInv, Sessions, Inserted
<1>5. CASE recover_headers(p)
  <2>1. /\ SyncTree' /\ Telling' = Telling /\ Handling' = Handling
        /\ KnownTips' = KnownTips /\ TrueEnds' = TrueEnds
    BY <1>0, <1>5, TreeUntouched DEF recover_headers
  <2>2. /\ [conn[p] EXCEPT !.step = "recv"] \in Handling
        /\ [conn[p] EXCEPT !.step = "due"] \in Handling
    BY <1>0, <1>5 DEF Handling, Conns, recover_headers
  <2>3. conn' \in [Peers -> Handling]
    BY <1>0, <1>5, <2>2 DEF recover_headers, Go
  <2> QED
    BY <1>5, <2>1, <2>3 DEF SyncInv, Sessions, recover_headers
<1>6. CASE RecoveryDue(p)
  <2> DEFINE proven == conn[p].msg.type # "inv"
  <2>1. recovery_due(Newest(p), proven) /\ conn[p].step = "due"
    BY <1>6 DEF RecoveryDue
  <2>2. UNCHANGED <<headers, tip, best_chain, reached, rejected>>
    BY <2>1 DEF recovery_due
  <2>3. SyncTree'
    BY <1>0, <2>2 DEF SyncTree, TreeInv, TipHasMostWork, Held
  <2>4. \A t \in Blocks : Known(t) => Known(t)'
    BY <2>2 DEF Known, RuledOut, Held
  <2>5. Newest(p) \in Blocks
    <3> DEFINE l == conn[p].msg.blocks
    <3>1. l \in Seq(Blocks) /\ l # <<>>
      BY <1>0, <2>1 DEF Handling, Conns, Messages
    <3> HIDE DEF l
    <3>2. Len(l) \in 1..Len(l)
      BY <3>1
    <3>3. l[Len(l)] \in Blocks
      BY <3>1, <3>2, ElementOfSeq
    <3> QED
      BY <3>3 DEF Newest, l
  <2>6. /\ [conn[p] EXCEPT !.step = "recv"] \in Handling
        /\ [conn[p] EXCEPT !.step = "getheaders", !.asked_for = {Newest(p)}] \in Handling
    BY <1>0, <2>5 DEF Handling, Conns
  <2>7. conn' \in [Peers -> Handling]
    BY <1>0, <1>6, <2>6 DEF RecoveryDue, Go
  <2>8. conn' \in [Peers -> Handling']
    BY <2>4, <2>7, SoundStays
  <2> QED
    BY <1>6, <2>3, <2>4, <2>8, SessionsStay DEF SyncInv, Sessions, RecoveryDue
<1>7. CASE Close(p)
  <2>1. CASE conn[p].other # "none"
    <3>1. End(p, "OtherChain")
      BY <1>7, <2>1 DEF Close
    <3> QED
      BY <3>1, Ended
  <2>2. CASE conn[p].other = "none"
    <3>1. End(p, "SyncComplete") /\ conn[p].step = "close"
      BY <1>7, <2>2 DEF Close
    <3>2. Known(conn[p].msg.of)
      BY <1>0, <2>2, <3>1 DEF Handling
    <3> QED
      BY <3>1, <3>2, Ended
  <2> QED
    BY <2>1, <2>2
<1> QED
  BY <1>1, <1>2, <1>3, <1>4, <1>5, <1>6, <1>7 DEF SessionStep

\* A peer's answer and its announcements are sound.
LEMMA Answered ==
  ASSUME SyncInv, NEW p \in Peers, Answer(p)
  PROVE  SyncInv'
<1>1. /\ SyncTree' /\ Telling' = Telling /\ Handling' = Handling
      /\ KnownTips' = KnownTips /\ TrueEnds' = TrueEnds
  BY TreeUntouched DEF SyncInv, Answer
<1> DEFINE L == Head(requests[p])
           a == get_headers_from_locator(ChainOf[best[p]], L)
           m == [type |-> "headers", blocks |-> a, of |-> best[p]]
<1>2. L \in SUBSET KnownTips /\ Tail(requests[p]) \in Seq(SUBSET KnownTips)
  <2>1. requests[p] \in Seq(SUBSET KnownTips) /\ requests[p] # <<>>
    BY DEF SyncInv, Sessions, Answer
  <2> QED
    BY <2>1, HeadTailProperties
<1>3. best[p] \in Blocks
  BY DEF SyncInv, Sessions
<1> HIDE DEF L
<1>4. a \in Seq(Blocks) /\ (a = <<>> => best[p] \in L \cup {Genesis})
  <2>1. BlocksOf(best[p]) \subseteq Blocks
    BY DEF BlocksOf
  <2> QED
    BY <1>3, <2>1, AnswerIs, SeqMonotonic
<1>5. Known(Genesis)
  BY DEF Known, SyncInv, SyncTree, TreeInv, IsTree, Held
<1> HIDE DEF a
<1>6. m \in Messages /\ m.blocks = a /\ m.type = "headers" /\ m.of = best[p]
  BY <1>3, <1>4 DEF Messages, Kinds
<1> HIDE DEF m
<1>7. m \in Telling
  BY <1>2, <1>4, <1>5, <1>6 DEF Telling, KnownTips
<1>8. inbox' = [inbox EXCEPT ![p] = Append(inbox[p], m)]
  BY DEF Answer, m, a, L
<1>9. inbox' \in [Peers -> Seq(Telling)]
  <2>1. inbox[p] \in Seq(Telling)
    BY DEF SyncInv, Sessions
  <2>2. Append(inbox[p], m) \in Seq(Telling)
    BY <1>7, <2>1, AppendProperties
  <2> QED
    BY <1>8, <2>2 DEF SyncInv, Sessions
<1>10. requests' \in [Peers -> Seq(SUBSET KnownTips)]
  BY <1>2 DEF SyncInv, Sessions, Answer
<1> QED
  BY <1>1, <1>9, <1>10 DEF SyncInv, Sessions, Answer

\* What Announce sends.
LEMMA AnnouncedIs ==
  ASSUME SyncInv, NEW p \in Peers, NEW t \in Blocks, Announce(p, t)
  PROVE  /\ Height[t] > Height[best[p]]
         /\ best' = [best EXCEPT ![p] = t]
         /\ UNCHANGED <<vars, boot, conn, requests, ended, sessions, hangups>>
         /\ inbox' = inbox \/
            \E m \in Messages :
              /\ inbox' = [inbox EXCEPT ![p] = Append(inbox[p], m)]
              /\ m.blocks \in Seq(BlocksOf(t)) /\ m.blocks # <<>>
<1> DEFINE o == best[p]
           f == FreshFrom(o, t)
           B == BlocksOf(t)
           how(type, blocks) == [type |-> type, blocks |-> blocks, of |-> t]
<1>1. o \in Blocks
  BY DEF SyncInv, Sessions
<1>2. Height[t] > Height[o]
  <2>1. Len(ChainOf[t]) > Len(ChainOf[o])
    BY DEF Announce
  <2>2. /\ Len(ChainOf[t]) = Height[t] + 1 /\ Len(ChainOf[o]) = Height[o] + 1
        /\ Height[t] \in Nat /\ Height[o] \in Nat
    BY <1>1, ChainIs, HeightIs
  <2> QED
    BY <2>1, <2>2
<1>3. f \in Seq(B) /\ f # <<>>
  BY <1>1, <1>2, FreshIs
<1>4. <<t>> \in Seq(B) /\ <<t>> # <<>>
  <2>1. t \in B
    BY OnItsChain DEF BlocksOf
  <2> HIDE DEF B
  <2>2. <<t>> \in Seq(B)
    BY <2>1
  <2>3. ASSUME <<t>> = <<>> PROVE FALSE
    <3>1. Len(<<t>>) = 1 /\ Len(<<>>) = 0
      OBVIOUS
    <3> QED
      BY <2>3, <3>1, Zenon
  <2> QED
    BY <2>2, <2>3
<1>5. best' = [best EXCEPT ![p] = t] /\ UNCHANGED <<vars, boot, conn, requests, ended, sessions, hangups>>
  BY DEF Announce
<1>6. \E m \in {how("headers", f), how("headers", <<t>>), how("inv", <<t>>), how("cmpctblock", <<t>>)} :
         inbox' = IF conn[p].step = "off" THEN inbox ELSE [inbox EXCEPT ![p] = Append(@, m)]
  BY Zenon DEF Announce, FreshFrom
<1> HIDE DEF f
<1>7. \A m \in {how("headers", f), how("headers", <<t>>), how("inv", <<t>>), how("cmpctblock", <<t>>)} :
         m \in Messages /\ m.blocks \in Seq(B) /\ m.blocks # <<>>
  <2>1. Seq(B) \subseteq Seq(Blocks)
    <3>1. B \subseteq Blocks
      BY DEF BlocksOf
    <3> QED
      BY <3>1, SeqMonotonic
  <2>2. ASSUME NEW k \in Kinds, NEW l \in Seq(B), l # <<>>
        PROVE  how(k, l) \in Messages /\ how(k, l).blocks \in Seq(B) /\ how(k, l).blocks # <<>>
    <3> HIDE DEF B
    <3> QED
      BY <2>1, <2>2 DEF Messages
  <2> HIDE DEF how, B
  <2> QED
    BY <1>3, <1>4, <2>2 DEF Kinds
<1>8. PICK m \in {how("headers", f), how("headers", <<t>>), how("inv", <<t>>), how("cmpctblock", <<t>>)} :
         inbox' = IF conn[p].step = "off" THEN inbox ELSE [inbox EXCEPT ![p] = Append(inbox[p], m)]
  BY <1>6
<1> HIDE DEF how, B
<1>9. inbox' = inbox \/ \E n \in Messages : /\ inbox' = [inbox EXCEPT ![p] = Append(inbox[p], n)]
                                            /\ n.blocks \in Seq(B) /\ n.blocks # <<>>
  BY <1>7, <1>8
<1> QED
  BY <1>2, <1>5, <1>9 DEF B

\* So does a peer's announcement, heard or not.
LEMMA AnnouncedKeeps ==
  ASSUME SyncInv, NEW p \in Peers, NEW t \in Blocks, Announce(p, t)
  PROVE  SyncInv'
<1>1. /\ best' = [best EXCEPT ![p] = t] /\ UNCHANGED <<vars, boot, conn, requests, ended>>
      /\ inbox' = inbox \/
         \E m \in Messages : /\ inbox' = [inbox EXCEPT ![p] = Append(inbox[p], m)] /\ m.blocks # <<>>
  BY AnnouncedIs
<1>2. /\ SyncTree' /\ Telling' = Telling /\ Handling' = Handling
      /\ KnownTips' = KnownTips /\ TrueEnds' = TrueEnds
  BY <1>1, TreeUntouched DEF SyncInv
<1>3. inbox' \in [Peers -> Seq(Telling)]
  <2>1. inbox \in [Peers -> Seq(Telling)]
    BY DEF SyncInv, Sessions
  <2>2. CASE inbox' = inbox
    BY <2>1, <2>2
  <2>3. ASSUME NEW m \in Messages, inbox' = [inbox EXCEPT ![p] = Append(inbox[p], m)], m.blocks # <<>>
        PROVE  inbox' \in [Peers -> Seq(Telling)]
    <3>1. m \in Telling
      BY <2>3 DEF Telling
    <3>2. Append(inbox[p], m) \in Seq(Telling)
      BY <2>1, <3>1, AppendProperties
    <3> QED
      BY <2>1, <2>3, <3>2
  <2> QED
    BY <1>1, <2>2, <2>3
<1>4. best' \in [Peers -> Blocks]
  BY <1>1 DEF SyncInv, Sessions
<1> QED
  BY <1>1, <1>2, <1>3, <1>4 DEF SyncInv, Sessions

\* The process starts with a tree loaded from a file and no session.
LEMMA SyncStarts == SyncInit => SyncInv
<1> SUFFICES ASSUME SyncInit PROVE SyncInv
  OBVIOUS
<1>1. PICK t \in LoadedTips : Loaded(t)
  BY DEF SyncInit
<1>2. t \in Blocks /\ rejected = <<>>
  BY SyncAssumption DEF SyncInit
<1>3. SyncTree
  BY <1>1, <1>2, LoadedTree
<1>4. Off \in Handling
  <2>1. NoMessage \in Messages
    <3>1. <<>> \in Seq(Blocks) /\ Genesis \in Blocks
      BY EmptySeq, TreeAssumption
    <3> QED
      BY <3>1 DEF NoMessage, Messages, Kinds
  <2>2. Off \in Conns
    BY <2>1 DEF Off, Conns
  <2> QED
    BY <2>2 DEF Handling, Off
<1>5. conn \in [Peers -> Handling]
  BY <1>4 DEF SyncInit
<1>6. inbox \in [Peers -> Seq(Telling)] /\ requests \in [Peers -> Seq(SUBSET KnownTips)]
  <2>1. <<>> \in Seq(Telling) /\ <<>> \in Seq(SUBSET KnownTips)
    BY EmptySeq
  <2> QED
    BY <2>1 DEF SyncInit
<1>7. best \in [Peers -> Blocks] /\ boot \in 0..Len(Seeds)
  <2>1. Seeds \in Seq(Peers) /\ Len(Seeds) \in Nat /\ (Seeds # <<>> => Len(Seeds) # 0)
    BY SyncAssumption
  <2> QED
    BY <2>1 DEF SyncInit
<1>8. ended \in [Peers -> TrueEnds]
  <2>1. [why |-> "none", tip |-> Genesis] \in TrueEnds
    BY TreeAssumption DEF TrueEnds, Ends
  <2> QED
    BY <2>1 DEF SyncInit
<1> QED
  BY <1>3, <1>5, <1>6, <1>7, <1>8 DEF SyncInv, Sessions

\* Every step keeps the tree and the sessions sound.
LEMMA SyncStep == SyncInv /\ [SyncNext]_allvars => SyncInv'
<1> SUFFICES ASSUME SyncInv, [SyncNext]_allvars PROVE SyncInv'
  OBVIOUS
<1>0. SyncTree
  BY DEF SyncInv
<1>1. CASE InsertNext
  <2>1. insert_inner(Head(lock.left)) /\ UNCHANGED <<boot, conn, inbox, requests, best, ended>>
    BY <1>1 DEF InsertNext, InsertOne, syncvars
  <2>2. SyncTree' /\ \A t \in Blocks : Known(t) => Known(t)'
    BY <1>0, <2>1, InsertKnows
  <2> QED
    BY <2>1, <2>2, SessionsStay DEF SyncInv, Sessions
<1>2. ASSUME NEW p \in Peers, SessionStep(p) PROVE SyncInv'
  BY <1>2, Handled
<1>3. CASE BootConnects
  <2>1. Start(Seeds[boot], TRUE) /\ boot # 0
    BY <1>3 DEF BootConnects
  <2>2. boot \in 1..Len(Seeds) /\ Seeds \in Seq(Peers)
    BY <2>1, SyncAssumption DEF SyncInv, Sessions
  <2>3. Seeds[boot] \in Peers
    BY <2>2, ElementOfSeq
  <2> QED
    BY <2>1, <2>3, Started
<1>4. CASE BootFails
  <2>1. UNCHANGED <<vars, conn, inbox, requests, best, ended>>
    BY <1>4 DEF BootFails
  <2>2. boot' \in 0..Len(Seeds)
    <3>1. boot \in 1..Len(Seeds) /\ Len(Seeds) \in Nat /\ boot' = (boot % Len(Seeds)) + 1
      BY <1>4, SyncAssumption DEF BootFails, SyncInv, Sessions
    <3> QED
      BY <3>1
  <2> QED
    BY <1>0, <2>1, <2>2, TreeUntouched DEF SyncInv, Sessions
<1>5. ASSUME NEW p \in Peers, Dial(p) PROVE SyncInv'
  BY <1>5, Started DEF Dial
<1>6. ASSUME NEW p \in Peers, Hangup(p) PROVE SyncInv'
  BY <1>6, Ended DEF Hangup
<1>7. ASSUME NEW p \in Peers, Answer(p) PROVE SyncInv'
  BY <1>7, Answered
<1>8. ASSUME NEW p \in Peers, NEW t \in PeerTips[p], Announce(p, t) PROVE SyncInv'
  <2>1. t \in Blocks
    BY SyncAssumption
  <2> QED
    BY <1>8, <2>1, AnnouncedKeeps
<1>9. CASE UNCHANGED allvars
  <2>1. UNCHANGED <<vars, boot, conn, inbox, requests, best, ended>>
    BY <1>9 DEF allvars, syncvars
  <2> QED
    BY <1>0, <2>1, TreeUntouched DEF SyncInv, Sessions
<1> QED
  BY <1>1, <1>2, <1>3, <1>4, <1>5, <1>6, <1>7, <1>8, <1>9 DEF SyncNext

\* The tree and the sessions on it are always as they should be.
LEMMA SyncInvariant == SyncSpec => []SyncInv
  BY SyncStarts, SyncStep, PTL DEF SyncSpec

\* A session that ends as a finished sync leaves the tree with everything its peer had
\* when it said that there is no more, or with a checkpoint that rules it out: whatever
\* came in between, from whichever peer (handle_headers, bootstrap_sync).
THEOREM SyncCompletes == SyncSpec => []SyncCompleteIsTrue
<1>1. SyncInv => SyncCompleteIsTrue
  BY DEF SyncInv, Sessions, TrueEnds, Known, SyncCompleteIsTrue
<1> QED
  BY <1>1, SyncInvariant, PTL

\* The tree stays connected, on a chain with the most work and one chain up to the last
\* checkpoint reached while sessions insert side by side (accept_headers).
THEOREM TreeUnderSessions == SyncSpec => [](TreeConnected /\ TipHasMostWork /\ OneChainUpToCheckpoint)
<1>1. SyncInv => TreeConnected /\ TipHasMostWork /\ OneChainUpToCheckpoint
  <2>1. SyncInv => TreeInv
    BY DEF SyncInv, SyncTree
  <2>2. TreeInv => TreeConnected /\ TipHasMostWork
    BY DEF TreeInv, IsTree, TreeConnected, Held
  <2>3. TreeInv => OneChainUpToCheckpoint
    BY OneChainIsSeen DEF TreeInv
  <2> QED
    BY <2>1, <2>2, <2>3
<1> QED
  BY <1>1, SyncInvariant, PTL

----------------------------------------------------------------------------
(* Peers on our chain *)

\* The blocks of the chains that the peers on our chain may follow.
Ours == {b \in Blocks : \E p \in OurPeers : \E t \in PeerTips[p] : OnChain(b, t)}

\* They obey every rule, the checkpoints are on one line with them, and no other block is
\* much harder unless its chain has their parent.
LEMMA OursIs ==
  ASSUME NEW b \in Ours, b # Genesis
  PROVE  /\ b \in Blocks /\ Parent[b] \in Ours
         /\ Work[b] >= MinWork /\ b \in Mined /\ Work[b] = ExpectedWork(Parent[b], Height[b])
         /\ \A c \in Checkpoints : c.height = Height[b] => c.hash = b
         /\ \A c \in Checkpoints : OnChain(c.hash, b) \/ OnChain(b, c.hash)
         /\ \A x \in Blocks : ~AllowMinDifficulty /\ ~OnChain(Parent[b], x)
                                => ~(Work[b] * WEAKER_CHAIN_FACTOR < Work[x])
<1>1. b \in Blocks /\ \E p \in OurPeers : \E t \in PeerTips[p] : OnChain(b, t)
  BY DEF Ours
<1>2. PICK p \in OurPeers : \E t \in PeerTips[p] : OnChain(b, t)
  BY <1>1
<1>3. PICK t \in PeerTips[p] : OnChain(b, t)
  BY <1>2
<1>4. /\ p \in Peers /\ t \in Blocks /\ t \notin RefusedTips /\ t \notin EasyTips
      /\ \A c \in Checkpoints : OnChain(c.hash, t) \/ OnChain(t, c.hash)
  BY SyncAssumption DEF OurPeers
<1>5. Parent[b] \in Ours
  <2>1. Parent[b] \in Blocks /\ OnChain(Parent[b], b)
    BY <1>1, TreeAssumption, OnItsChain, OnChainOfParent
  <2>2. OnChain(Parent[b], t)
    BY <1>3, <1>4, <2>1, OnChainTrans
  <2> QED
    BY <2>1, <2>2 DEF Ours
<1>6. /\ Work[b] >= MinWork /\ b \in Mined /\ Work[b] = ExpectedWork(Parent[b], Height[b])
      /\ \A c \in Checkpoints : c.height = Height[b] => c.hash = b
  <2> DEFINE i == Height[b] + 1
  <2>1. Height[b] \in Nat /\ Height[b] <= Height[t] /\ Height[t] \in Nat /\ ChainOf[t][i] = b
    BY <1>3, <1>4, OnChainIs
  <2>2. Height[b] = Height[Parent[b]] + 1 /\ Height[Parent[b]] \in Nat
    BY <1>1, HeightIs, TreeAssumption
  <2>3. i \in 2..Len(ChainOf[t]) /\ i - 1 = Height[b]
    BY <1>4, <2>1, <2>2, ChainIs
  <2>4. ~ \/ Work[b] < MinWork \/ b \notin Mined \/ Work[b] # ExpectedWork(Parent[b], i - 1)
          \/ \E c \in Checkpoints : c.height = i - 1 /\ c.hash # b
    <3> HIDE DEF i
    <3> QED
      BY <1>4, <2>1, <2>3 DEF RefusedTips
  <2>5. Work[b] \in Nat /\ MinWork \in Nat
    BY <1>1, TreeAssumption
  <2> HIDE DEF i
  <2> QED
    BY <2>3, <2>4, <2>5
<1>7. ASSUME NEW c \in Checkpoints PROVE OnChain(c.hash, b) \/ OnChain(b, c.hash)
  <2>1. CASE OnChain(t, c.hash)
    <3>1. c.hash \in Blocks
      BY TreeAssumption
    <3> QED
      BY <1>3, <2>1, <3>1, OnChainTrans
  <2>2. CASE OnChain(c.hash, t)
    <3>1. Height[c.hash] \in Nat /\ Height[b] \in Nat
      BY <1>3, <1>4, <2>2, OnChainIs
    <3>2. Height[c.hash] <= Height[b] \/ Height[b] <= Height[c.hash]
      BY <3>1
    <3> QED
      BY <1>3, <1>4, <2>2, <3>2, OnChainOrder
  <2> QED
    BY <1>4, <2>1, <2>2
<1>8. ASSUME NEW x \in Blocks, ~AllowMinDifficulty, ~OnChain(Parent[b], x)
      PROVE  ~(Work[b] * WEAKER_CHAIN_FACTOR < Work[x])
  BY <1>1, <1>3, <1>4, <1>8 DEF EasyTips
<1> QED
  BY <1>1, <1>5, <1>6, <1>7, <1>8

\* The tree takes such a block, has it, or lacks its parent; it never refuses it
\* (insert_inner).
LEMMA OursIsWelcome ==
  ASSUME SyncTree, Remembered(rejected) \cap Ours = {}, NEW b \in Ours
  PROVE  Verdict(b) \in {"known", "OrphanHeader", "ok"}
<1>0. /\ IsTree(headers) /\ reached \in Int /\ tip \in Held /\ Held \subseteq Blocks
      /\ OneChain(headers, reached) /\ ParentClosed(Held)
  BY DEF SyncTree, TreeInv, IsTree, TipHasMostWork, ParentClosed, Held
<1>1. CASE b \in Held
  BY <1>1 DEF Verdict
<1>2. CASE b \notin Held /\ Parent[b] \notin Held
  <2>1. b # Genesis
    BY <1>0, <1>2 DEF IsTree, Held
  <2>2. Parent[b] \notin Remembered(rejected)
    BY <2>1, OursIs
  <2>3. ~weaker_than_our_tip(b)
    <3>1. ~OnChain(Parent[b], tip)
      BY <1>0, <1>2, ChainInside
    <3> QED
      BY <1>0, <2>1, <3>1, OursIs DEF weaker_than_our_tip
  <2> QED
    BY <1>2, <2>2, <2>3 DEF Verdict
<1>3. CASE b \notin Held /\ Parent[b] \in Held
  <2>1. b # Genesis
    BY <1>0, <1>3 DEF IsTree, Held
  <2>2. headers[Parent[b]].height + 1 = Height[b] /\ Height[b] \in Nat
    <3>1. headers[Parent[b]].height = Height[Parent[b]] /\ b \in Blocks
      BY <1>0, <1>3, <2>1, HeldHeight, OursIs DEF Held
    <3> QED
      BY <2>1, <3>1, HeightIs
  <2>3. ~(Height[b] <= reached)
    <3> SUFFICES ASSUME Height[b] <= reached PROVE FALSE
      OBVIOUS
    <3>1. PICK c \in Checkpoints : c.height = reached
      BY <2>2 DEF SyncTree
    <3>2. c.hash \in Held /\ c.hash \in Blocks /\ Height[c.hash] = reached
      BY <1>0, <3>1 DEF SyncTree, OneChain, Held
    <3>3. CASE OnChain(b, c.hash)
      BY <1>0, <1>3, <3>2, <3>3, ChainInside
    <3>4. CASE OnChain(c.hash, b)
      <4>1. b \in Blocks
        BY <2>1, OursIs
      <4>2. Height[c.hash] <= Height[b] /\ Height[c.hash] \in Nat
        BY <3>4, <4>1, OnChainIs
      <4>3. Height[c.hash] = Height[b]
        BY <1>0, <2>2, <3>2, <4>2
      <4>4. c.hash = b
        BY <3>4, <4>1, <4>3, OnItsChain, OneAtAHeight
      <4> QED
        BY <1>3, <3>2, <4>4
    <3> QED
      BY <2>1, <3>3, <3>4, OursIs
  <2>4. validate_header(b, Height[b]) = "ok"
    <3>1. /\ ~(Work[b] < MinWork) /\ b \in Mined /\ Work[b] = ExpectedWork(Parent[b], Height[b])
          /\ ~ \E c \in Checkpoints : c.height = Height[b] /\ c.hash # b
      <4>1. b \in Blocks /\ Work[b] >= MinWork /\ Work[b] \in Nat /\ MinWork \in Nat
        BY <2>1, OursIs, TreeAssumption
      <4> QED
        BY <2>1, <4>1, OursIs
    <3> QED
      BY <2>3, <3>1 DEF validate_header
  <2> QED
    BY <1>3, <2>2, <2>4 DEF Verdict
<1> QED
  BY <1>1, <1>2, <1>3

\* No header makes the tree remember a refusal of such a block.
LEMMA OursNeverRefused ==
  ASSUME SyncTree, Remembered(rejected) \cap Ours = {}, NEW b, insert_inner(b)
  PROVE  Remembered(rejected') \cap Ours = {}
<1>1. /\ Verdict(b) \in {"ok", "known", "OrphanHeader"} => rejected' = rejected
      /\ Remembered(rejected') \subseteq Remembered(rejected) \cup {b}
  BY InsertKeeps DEF SyncTree
<1> QED
  BY <1>1, OursIsWelcome

Locks == [by : {"nobody", "batch"}, left : Seq(Blocks), old_tip : Blocks, accepted : Nat,
          err : {"none"} \cup HeaderError]

OurMessages == {m \in Messages : m.blocks \in Seq(Ours)}

\* A peer on our chain: what it sends and what is being inserted for it is of our chain.
Kept(p) ==
  /\ inbox[p] \in Seq(OurMessages)
  /\ conn[p].msg.blocks \in Seq(Ours) /\ conn[p].other = "none"
  /\ conn[p].step = "inserting" => lock.left \in Seq(Ours) /\ lock.err \in {"none", "OrphanHeader"}
  /\ ended[p].why # "OtherChain"

\* One session at a time inserts, and it holds the lock.
OneInserts ==
  /\ \A p \in Peers : conn[p].step = "inserting" => lock.by = "batch"
  /\ \A p, q \in Peers : conn[p].step = "inserting" /\ conn[q].step = "inserting" => p = q

OurInv ==
  /\ lock \in Locks /\ OneInserts
  /\ Remembered(rejected) \cap Ours = {}
  /\ \A p \in Peers : best[p] \in PeerTips[p]
  /\ \A p \in OurPeers : Kept(p)

\* A step of one session, or of its peer, that leaves the lock and the refusals alone.
LEMMA QuietStep ==
  ASSUME SyncInv, OurInv, UNCHANGED <<lock, rejected>>,
         NEW p \in Peers, NEW c, conn' = [conn EXCEPT ![p] = c],
         c.step = "inserting" => conn[p].step = "inserting",
         \A q \in Peers : best'[q] \in PeerTips[q],
         \A q \in Peers : q # p => inbox'[q] = inbox[q] /\ ended'[q] = ended[q],
         p \in OurPeers => /\ inbox'[p] \in Seq(OurMessages)
                           /\ c.msg.blocks \in Seq(Ours) /\ c.other = "none"
                           /\ ended'[p].why # "OtherChain"
  PROVE  OurInv'
<1>1. /\ conn \in [Peers -> Handling] /\ conn'[p] = c
      /\ \A q \in Peers : q # p => conn'[q] = conn[q]
  BY DEF SyncInv, Sessions
<1>2. /\ lock \in Locks /\ OneInserts /\ Remembered(rejected) \cap Ours = {}
      /\ \A q \in OurPeers : Kept(q)
  BY DEF OurInv
<1>3. OneInserts'
  BY <1>1, <1>2 DEF OneInserts
<1>4. ASSUME NEW q \in OurPeers PROVE Kept(q)'
  <2>1. q \in Peers /\ Kept(q)
    BY <1>2 DEF OurPeers
  <2>2. CASE q = p
    BY <1>1, <2>1, <2>2 DEF Kept
  <2>3. CASE q # p
    BY <1>1, <2>1, <2>3 DEF Kept
  <2> QED
    BY <2>2, <2>3
<1> QED
  BY <1>2, <1>3, <1>4 DEF OurInv

\* A header of a batch: for a peer on our chain the batch stays without an error that
\* would end its session.
LEMMA OurInsertOne ==
  ASSUME SyncInv, OurInv, InsertNext
  PROVE  OurInv'
<1> DEFINE b == Head(lock.left)
           v == Verdict(b)
           e == IF lock.err = "none" /\ v \in HeaderError THEN v ELSE lock.err
<1>1. /\ lock.left # <<>> /\ insert_inner(b) /\ UNCHANGED <<conn, inbox, best, ended>>
      /\ lock' = [lock EXCEPT !.left = Tail(lock.left),
                              !.accepted = IF v = "ok" THEN lock.accepted + 1 ELSE lock.accepted,
                              !.err = e]
  BY DEF InsertNext, InsertOne, syncvars
<1>2. /\ lock \in Locks /\ OneInserts /\ Remembered(rejected) \cap Ours = {}
      /\ \A p \in Peers : best[p] \in PeerTips[p]
      /\ \A p \in OurPeers : Kept(p)
  BY DEF OurInv
<1>3. Remembered(rejected') \cap Ours = {}
  BY <1>1, <1>2, OursNeverRefused DEF SyncInv
<1>4. lock.left \in Seq(Blocks) /\ Tail(lock.left) \in Seq(Blocks)
  <2>1. lock.left \in Seq(Blocks)
    BY <1>2 DEF Locks
  <2> QED
    BY <1>1, <2>1, HeadTailProperties
<1>5. e \in {"none"} \cup HeaderError
  BY <1>2 DEF Locks
<1>6. ASSUME lock.left \in Seq(Ours), lock.err \in {"none", "OrphanHeader"}
      PROVE  Tail(lock.left) \in Seq(Ours) /\ e \in {"none", "OrphanHeader"}
  <2>1. b \in Ours /\ Tail(lock.left) \in Seq(Ours)
    BY <1>1, <1>6, HeadTailProperties
  <2>2. v \in {"known", "OrphanHeader", "ok"}
    BY <1>2, <2>1, OursIsWelcome DEF SyncInv
  <2>3. "known" \notin HeaderError /\ "ok" \notin HeaderError
    BY DEF HeaderError
  <2> HIDE DEF v
  <2> QED
    BY <1>6, <2>1, <2>2, <2>3
<1> HIDE DEF b, v, e
<1>7. lock' \in Locks
  <2>1. ASSUME NEW l \in Seq(Blocks), NEW n \in Nat, NEW r \in {"none"} \cup HeaderError
        PROVE  [lock EXCEPT !.left = l, !.accepted = n, !.err = r] \in Locks
    BY <1>2 DEF Locks
  <2>2. (IF v = "ok" THEN lock.accepted + 1 ELSE lock.accepted) \in Nat
    <3>1. lock.accepted \in Nat
      BY <1>2 DEF Locks
    <3> QED
      BY <3>1
  <2> QED
    BY <1>1, <1>4, <1>5, <2>1, <2>2
<1>8. lock'.by = lock.by /\ lock'.left = Tail(lock.left) /\ lock'.err = e
  BY <1>1, <1>2 DEF Locks
<1>9. OneInserts'
  BY <1>1, <1>2, <1>8 DEF OneInserts
<1>10. ASSUME NEW p \in OurPeers PROVE Kept(p)'
  <2>1. Kept(p)
    BY <1>2
  <2> QED
    BY <1>1, <1>6, <1>8, <2>1 DEF Kept
<1> QED
  BY <1>1, <1>2, <1>3, <1>7, <1>9, <1>10 DEF OurInv

\* A session takes the lock when no other has it.
LEMMA OurInsert ==
  ASSUME SyncInv, OurInv, NEW p \in Peers, Insert(p)
  PROVE  OurInv'
<1> DEFINE l == conn[p].msg.blocks
           c == [conn[p] EXCEPT !.step = "inserting"]
<1>1. /\ lock = Free /\ lock' = [Free EXCEPT !.by = "batch", !.left = l, !.old_tip = tip]
      /\ conn' = [conn EXCEPT ![p] = c]
      /\ UNCHANGED <<inbox, best, ended, rejected>>
  BY DEF Insert, BeginBatch, Go, tree
<1>2. /\ conn \in [Peers -> Handling] /\ conn[p] \in Conns /\ l \in Seq(Blocks)
  BY DEF SyncInv, Sessions, Handling, Conns, Messages
<1>3. /\ lock \in Locks /\ OneInserts /\ Remembered(rejected) \cap Ours = {}
      /\ \A q \in Peers : best[q] \in PeerTips[q]
      /\ \A q \in OurPeers : Kept(q)
  BY DEF OurInv
<1>4. \A q \in Peers : conn[q].step # "inserting"
  BY <1>1, <1>3 DEF OneInserts, Free
<1>5. c.msg.blocks = l /\ c.other = conn[p].other /\ c.step = "inserting"
  BY <1>2 DEF Conns
<1> HIDE DEF l, c
<1>6. conn'[p] = c /\ \A q \in Peers : q # p => conn'[q] = conn[q]
  BY <1>1, <1>2
<1>7. /\ lock' \in Locks /\ lock'.by = "batch" /\ lock'.left = l /\ lock'.err = "none"
  <2>1. tip \in Blocks
    BY DEF SyncInv, SyncTree, TreeInv, IsTree, TipHasMostWork, Held
  <2>2. lock' = [by |-> "batch", left |-> l, old_tip |-> tip, accepted |-> 0, err |-> "none"]
    BY <1>1 DEF Free
  <2> QED
    BY <1>2, <2>1, <2>2 DEF Locks
<1>8. OneInserts'
  BY <1>4, <1>6, <1>7 DEF OneInserts
<1>9. ASSUME NEW q \in OurPeers PROVE Kept(q)'
  <2>1. q \in Peers /\ Kept(q)
    BY <1>3 DEF OurPeers
  <2>2. CASE q = p
    <3>1. l \in Seq(Ours) /\ conn[p].other = "none"
      BY <2>1, <2>2 DEF Kept, l
    <3> QED
      BY <1>1, <1>5, <1>6, <1>7, <2>1, <2>2, <3>1 DEF Kept
  <2>3. CASE q # p
    BY <1>1, <1>4, <1>6, <2>1, <2>3 DEF Kept
  <2> QED
    BY <2>2, <2>3
<1> QED
  BY <1>1, <1>3, <1>7, <1>8, <1>9 DEF OurInv

\* ... and gives it back: a peer on our chain may have sent what is above the tree, but
\* nothing of another chain.
LEMMA OurInserted ==
  ASSUME SyncInv, OurInv, NEW p \in Peers, Inserted(p)
  PROVE  OurInv'
<1> DEFINE behind == lock.err = "OrphanHeader" /\ ~conn[p].sync
           other  == IF is_other_chain(lock.err) THEN lock.err ELSE "none"
           next   == AfterInsert(p, lock.accepted, other)
           c      == [conn[p] EXCEPT !.step = IF behind THEN "recover" ELSE next, !.other = other]
<1>1. /\ conn[p].step = "inserting" /\ lock' = Free /\ conn' = [conn EXCEPT ![p] = c]
      /\ UNCHANGED <<inbox, best, ended, rejected>>
  BY DEF Inserted, EndBatch, Go
<1>2. conn \in [Peers -> Handling] /\ conn[p] \in Conns
  BY DEF SyncInv, Sessions, Handling
<1>3. /\ OneInserts /\ Remembered(rejected) \cap Ours = {}
      /\ \A q \in Peers : best[q] \in PeerTips[q]
      /\ \A q \in OurPeers : Kept(q)
  BY DEF OurInv
<1>4. \A q \in Peers : q # p => conn[q].step # "inserting"
  BY <1>1, <1>3 DEF OneInserts
<1>5. next \in {"close", "getheaders", "recv"}
  BY DEF AfterInsert
<1>6. c.msg = conn[p].msg /\ c.other = other /\ c.step # "inserting"
  <2> HIDE DEF next, other, behind
  <2> QED
    BY <1>2, <1>5 DEF Conns
<1>7. ASSUME p \in OurPeers PROVE other = "none"
  <2>1. lock.err \in {"none", "OrphanHeader"}
    BY <1>1, <1>3, <1>7 DEF Kept
  <2> QED
    BY <2>1 DEF is_other_chain, HeaderError
<1> HIDE DEF c, other, behind, next
<1>8. conn'[p] = c /\ \A q \in Peers : q # p => conn'[q] = conn[q]
  BY <1>1, <1>2
<1>9. lock' \in Locks
  <2>1. <<>> \in Seq(Blocks) /\ Genesis \in Blocks
    BY EmptySeq, TreeAssumption
  <2> QED
    BY <1>1, <2>1 DEF Locks, Free
<1>10. OneInserts'
  BY <1>4, <1>6, <1>8 DEF OneInserts
<1>11. ASSUME NEW q \in OurPeers PROVE Kept(q)'
  <2>1. q \in Peers /\ Kept(q)
    BY <1>3 DEF OurPeers
  <2>2. CASE q = p
    BY <1>1, <1>6, <1>7, <1>8, <2>1, <2>2 DEF Kept
  <2>3. CASE q # p
    BY <1>1, <1>4, <1>8, <2>1, <2>3 DEF Kept
  <2> QED
    BY <2>2, <2>3
<1> QED
  BY <1>1, <1>3, <1>9, <1>10, <1>11 DEF OurInv

\* A session that begins holds no message.
LEMMA OurStart ==
  ASSUME SyncInv, OurInv, NEW p \in Peers, NEW sync \in BOOLEAN, Start(p, sync)
  PROVE  OurInv'
<1> DEFINE c == [Off EXCEPT !.step = "getheaders", !.sync = sync]
<1>1. /\ conn' = [conn EXCEPT ![p] = c] /\ inbox' = [inbox EXCEPT ![p] = <<>>]
      /\ UNCHANGED <<lock, rejected, best, ended>>
  BY DEF Start, Go, vars
<1>2. c.step = "getheaders" /\ c.msg.blocks = <<>> /\ c.other = "none"
  BY DEF Off, NoMessage
<1> HIDE DEF c
<1>3. inbox'[p] = <<>> /\ \A q \in Peers : q # p => inbox'[q] = inbox[q]
  BY <1>1 DEF SyncInv, Sessions
<1>4. <<>> \in Seq(OurMessages) /\ <<>> \in Seq(Ours)
  BY EmptySeq
<1>5. p \in OurPeers => ended'[p].why # "OtherChain"
  BY <1>1 DEF OurInv, Kept
<1>6. \A q \in Peers : best'[q] \in PeerTips[q]
  BY <1>1 DEF OurInv
<1> QED
  BY <1>1, <1>2, <1>3, <1>4, <1>5, <1>6, QuietStep

\* A session that ends keeps what is known of the others (run_session).
LEMMA OurEnd ==
  ASSUME SyncInv, OurInv, NEW p \in Peers, NEW why, End(p, why),
         p \in OurPeers => why # "OtherChain"
  PROVE  OurInv'
<1>1. /\ conn' = [conn EXCEPT ![p] = Off] /\ inbox' = [inbox EXCEPT ![p] = <<>>]
      /\ ended' = [ended EXCEPT ![p] = [why |-> why, tip |-> conn[p].msg.of]]
      /\ UNCHANGED <<lock, rejected, best>>
  BY DEF End, Go, vars
<1>2. Off.step = "off" /\ Off.msg.blocks = <<>> /\ Off.other = "none"
  BY DEF Off, NoMessage
<1>3. /\ inbox'[p] = <<>> /\ ended'[p].why = why
      /\ \A q \in Peers : q # p => inbox'[q] = inbox[q] /\ ended'[q] = ended[q]
  BY <1>1 DEF SyncInv, Sessions
<1>4. <<>> \in Seq(OurMessages) /\ <<>> \in Seq(Ours)
  BY EmptySeq
<1>5. \A q \in Peers : best'[q] \in PeerTips[q]
  BY <1>1 DEF OurInv
<1> QED
  BY <1>1, <1>2, <1>3, <1>4, <1>5, QuietStep

\* A handler's step keeps a peer on our chain.
LEMMA OurHandled ==
  ASSUME SyncInv, OurInv, NEW p \in Peers, SessionStep(p)
  PROVE  OurInv'
<1>0. /\ conn \in [Peers -> Handling] /\ conn[p] \in Conns /\ inbox \in [Peers -> Seq(Telling)]
      /\ (p \in OurPeers => Kept(p)) /\ \A q \in Peers : best[q] \in PeerTips[q]
  BY DEF SyncInv, Sessions, Handling, OurInv
<1>1. CASE send_getheaders(p)
  <2> DEFINE c == [conn[p] EXCEPT !.step = "recv"]
  <2>1. conn' = [conn EXCEPT ![p] = c] /\ UNCHANGED <<lock, rejected, inbox, best, ended>>
    BY <1>1 DEF send_getheaders, Go, vars
  <2>2. c.step = "recv" /\ c.msg = conn[p].msg /\ c.other = conn[p].other
    BY <1>0 DEF Conns
  <2> HIDE DEF c
  <2> QED
    BY <1>0, <2>1, <2>2, QuietStep DEF Kept
<1>2. CASE handle_message(p)
  <2> DEFINE m == Head(inbox[p])
             c == [conn[p] EXCEPT !.step = FirstStep(p, m), !.msg = m]
  <2>1. /\ conn' = [conn EXCEPT ![p] = c] /\ inbox' = [inbox EXCEPT ![p] = Tail(inbox[p])]
        /\ inbox[p] # <<>> /\ UNCHANGED <<lock, rejected, best, ended>>
    BY <1>2 DEF handle_message, Go, vars
  <2>2. FirstStep(p, m) # "inserting"
    <3> HIDE DEF m
    <3>1. FirstStep(p, m) \in {"recv", "recover", "insert", "close"}
      <4>1. CASE m.type = "inv"
        BY <4>1 DEF FirstStep
      <4>2. CASE m.type # "inv" /\ m.blocks # <<>>
        BY <4>2 DEF FirstStep
      <4>3. CASE m.type # "inv" /\ m.blocks = <<>>
        BY <4>3 DEF FirstStep
      <4> QED
        BY <4>1, <4>2, <4>3
    <3> QED
      BY <3>1
  <2>3. c.step = FirstStep(p, m) /\ c.msg = m /\ c.other = conn[p].other
    <3> HIDE DEF m
    <3> QED
      BY <1>0 DEF Conns
  <2>4. /\ inbox'[p] = Tail(inbox[p])
        /\ \A q \in Peers : q # p => inbox'[q] = inbox[q]
    BY <1>0, <2>1
  <2>5. ASSUME p \in OurPeers
        PROVE  /\ inbox'[p] \in Seq(OurMessages) /\ m.blocks \in Seq(Ours)
               /\ c.other = "none" /\ ended'[p].why # "OtherChain"
    <3>1. inbox[p] \in Seq(OurMessages) /\ conn[p].other = "none" /\ ended[p].why # "OtherChain"
      BY <1>0, <2>5 DEF Kept
    <3>2. m \in OurMessages /\ Tail(inbox[p]) \in Seq(OurMessages)
      BY <2>1, <3>1, HeadTailProperties
    <3> HIDE DEF m, c
    <3> QED
      BY <2>1, <2>3, <2>4, <3>1, <3>2 DEF OurMessages
  <2> HIDE DEF m, c
  <2> QED
    BY <1>0, <2>1, <2>2, <2>3, <2>4, <2>5, QuietStep
<1>3. CASE Insert(p)
  BY <1>3, OurInsert
<1>4. CASE Inserted(p)
  BY <1>4, OurInserted
<1>5. CASE recover_headers(p)
  <2>1. PICK step \in {"recv", "due"} : conn' = [conn EXCEPT ![p] = [conn[p] EXCEPT !.step = step]]
    BY <1>5 DEF recover_headers, Go
  <2> DEFINE c == [conn[p] EXCEPT !.step = step]
  <2>2. conn' = [conn EXCEPT ![p] = c] /\ UNCHANGED <<lock, rejected, inbox, best, ended>>
    BY <1>5, <2>1 DEF recover_headers, vars
  <2>3. c.step = step /\ c.msg = conn[p].msg /\ c.other = conn[p].other
    BY <1>0 DEF Conns
  <2> HIDE DEF c
  <2> QED
    BY <1>0, <2>2, <2>3, QuietStep DEF Kept
<1>6. CASE RecoveryDue(p)
  <2>1. \E c : /\ conn' = [conn EXCEPT ![p] = c]
               /\ c.step # "inserting" /\ c.msg = conn[p].msg /\ c.other = conn[p].other
    <3> DEFINE c1 == [conn[p] EXCEPT !.step = "getheaders", !.asked_for = {Newest(p)}]
               c2 == [conn[p] EXCEPT !.step = "recv"]
    <3>1. conn' = [conn EXCEPT ![p] = c1] \/ conn' = [conn EXCEPT ![p] = c2]
      BY <1>6 DEF RecoveryDue, Go
    <3>2. /\ c1.step # "inserting" /\ c1.msg = conn[p].msg /\ c1.other = conn[p].other
          /\ c2.step # "inserting" /\ c2.msg = conn[p].msg /\ c2.other = conn[p].other
      BY <1>0 DEF Conns
    <3> HIDE DEF c1, c2
    <3> QED
      BY <3>1, <3>2
  <2>2. UNCHANGED <<lock, rejected, inbox, best, ended>>
    BY <1>6 DEF RecoveryDue, recovery_due
  <2> QED
    BY <1>0, <2>1, <2>2, QuietStep DEF Kept
<1>7. CASE Close(p)
  <2>1. p \in OurPeers => conn[p].other = "none"
    BY <1>0 DEF Kept
  <2>2. End(p, IF conn[p].other # "none" THEN "OtherChain" ELSE "SyncComplete")
    BY <1>7 DEF Close
  <2> QED
    BY <2>1, <2>2, OurEnd
<1> QED
  BY <1>1, <1>2, <1>3, <1>4, <1>5, <1>6, <1>7 DEF SessionStep

\* What such a peer answers and announces is of our chain.
LEMMA OurAnswer ==
  ASSUME SyncInv, OurInv, NEW p \in Peers, Answer(p)
  PROVE  OurInv'
<1> DEFINE t == best[p]
           a == get_headers_from_locator(ChainOf[t], Head(requests[p]))
           m == [type |-> "headers", blocks |-> a, of |-> t]
<1>1. inbox' = [inbox EXCEPT ![p] = Append(inbox[p], m)] /\ UNCHANGED <<lock, rejected, conn, best, ended>>
  BY DEF Answer, vars
<1>2. t \in Blocks /\ t \in PeerTips[p]
  BY DEF SyncInv, Sessions, OurInv
<1>3. a \in Seq(BlocksOf(t))
  BY <1>2, AnswerIs
<1> HIDE DEF a
<1>4. ASSUME p \in OurPeers PROVE inbox'[p] \in Seq(OurMessages)
  <2>1. BlocksOf(t) \subseteq Ours /\ BlocksOf(t) \subseteq Blocks
    BY <1>2, <1>4 DEF Ours, BlocksOf
  <2>2. a \in Seq(Ours) /\ a \in Seq(Blocks)
    BY <1>3, <2>1, SeqMonotonic
  <2>3. m \in OurMessages
    BY <1>2, <2>2 DEF OurMessages, Messages, Kinds
  <2>4. inbox[p] \in Seq(OurMessages) /\ inbox \in [Peers -> Seq(Telling)]
    BY <1>4 DEF OurInv, Kept, SyncInv, Sessions
  <2> HIDE DEF m
  <2>5. Append(inbox[p], m) \in Seq(OurMessages)
    BY <2>3, <2>4, AppendProperties
  <2> QED
    BY <1>1, <2>4, <2>5
<1> HIDE DEF m, t
<1>5. conn' = [conn EXCEPT ![p] = conn[p]] /\ \A q \in Peers : q # p => inbox'[q] = inbox[q]
  BY <1>1 DEF SyncInv, Sessions
<1>6. \A q \in Peers : best'[q] \in PeerTips[q]
  BY <1>1 DEF OurInv
<1>7. p \in OurPeers => conn[p].msg.blocks \in Seq(Ours) /\ conn[p].other = "none" /\ ended'[p].why # "OtherChain"
  BY <1>1 DEF OurInv, Kept
<1> QED
  BY <1>1, <1>4, <1>5, <1>6, <1>7, QuietStep

\* A peer on our chain announces blocks of a chain it may follow.
LEMMA OurAnnounce ==
  ASSUME SyncInv, OurInv, NEW p \in Peers, NEW t \in PeerTips[p], Announce(p, t)
  PROVE  OurInv'
<1>0. t \in Blocks
  BY SyncAssumption
<1>1. /\ best' = [best EXCEPT ![p] = t] /\ UNCHANGED <<lock, rejected, conn, ended>>
      /\ inbox' = inbox \/
         \E m \in Messages :
           /\ inbox' = [inbox EXCEPT ![p] = Append(inbox[p], m)]
           /\ m.blocks \in Seq(BlocksOf(t))
  BY <1>0, AnnouncedIs DEF vars
<1>2. /\ inbox \in [Peers -> Seq(Telling)]
      /\ \A q \in Peers : q # p => inbox'[q] = inbox[q]
  BY <1>1 DEF SyncInv, Sessions
<1>3. ASSUME p \in OurPeers PROVE inbox'[p] \in Seq(OurMessages)
  <2>1. inbox[p] \in Seq(OurMessages)
    BY <1>3 DEF OurInv, Kept
  <2>2. ASSUME NEW m \in Messages, m.blocks \in Seq(BlocksOf(t)),
               inbox' = [inbox EXCEPT ![p] = Append(inbox[p], m)]
        PROVE  inbox'[p] \in Seq(OurMessages)
    <3>1. BlocksOf(t) \subseteq Ours
      BY <1>3 DEF Ours, BlocksOf
    <3>2. m.blocks \in Seq(Ours)
      BY <2>2, <3>1, SeqMonotonic
    <3>3. m \in OurMessages
      BY <3>2 DEF OurMessages
    <3>4. Append(inbox[p], m) \in Seq(OurMessages)
      BY <2>1, <3>3, AppendProperties
    <3> QED
      BY <1>2, <2>2, <3>4
  <2> QED
    BY <1>1, <2>1, <2>2
<1>4. conn' = [conn EXCEPT ![p] = conn[p]]
  BY <1>1 DEF SyncInv, Sessions
<1>5. \A q \in Peers : best'[q] \in PeerTips[q]
  BY <1>1 DEF OurInv, SyncInv, Sessions
<1>6. p \in OurPeers => conn[p].msg.blocks \in Seq(Ours) /\ conn[p].other = "none" /\ ended'[p].why # "OtherChain"
  BY <1>1 DEF OurInv, Kept
<1> QED
  BY <1>1, <1>2, <1>3, <1>4, <1>5, <1>6, QuietStep

\* At the start no session runs and nothing is refused.
LEMMA OurStarts == SyncInit => OurInv
<1> SUFFICES ASSUME SyncInit PROVE OurInv
  OBVIOUS
<1>1. /\ lock = Free /\ rejected = <<>>
      /\ conn = [p \in Peers |-> Off] /\ inbox = [p \in Peers |-> <<>>]
      /\ \A p \in Peers : best[p] \in PeerTips[p]
      /\ ended = [p \in Peers |-> [why |-> "none", tip |-> Genesis]]
  BY DEF SyncInit
<1>2. lock \in Locks
  <2>1. <<>> \in Seq(Blocks) /\ Genesis \in Blocks
    BY EmptySeq, TreeAssumption
  <2> QED
    BY <1>1, <2>1 DEF Locks, Free
<1>3. Off.step = "off" /\ Off.msg.blocks = <<>> /\ Off.other = "none"
  BY DEF Off, NoMessage
<1>4. OneInserts
  BY <1>1, <1>3 DEF OneInserts
<1>5. Remembered(rejected) \cap Ours = {}
  BY <1>1 DEF Remembered
<1>6. ASSUME NEW p \in OurPeers PROVE Kept(p)
  <2>1. p \in Peers /\ <<>> \in Seq(OurMessages) /\ <<>> \in Seq(Ours)
    BY EmptySeq DEF OurPeers
  <2>2. conn[p] = Off /\ inbox[p] = <<>> /\ ended[p].why = "none"
    BY <1>1, <2>1
  <2> QED
    BY <1>3, <2>1, <2>2 DEF Kept
<1> QED
  BY <1>1, <1>2, <1>4, <1>5, <1>6 DEF OurInv

\* Every step keeps what is known of the peers on our chain.
LEMMA OurStep == SyncInv /\ OurInv /\ [SyncNext]_allvars => OurInv'
<1> SUFFICES ASSUME SyncInv, OurInv, [SyncNext]_allvars PROVE OurInv'
  OBVIOUS
<1>0. ASSUME UNCHANGED <<lock, rejected, conn, inbox, best, ended>> PROVE OurInv'
  BY <1>0 DEF OurInv, OneInserts, Kept
<1>1. CASE InsertNext
  BY <1>1, OurInsertOne
<1>2. ASSUME NEW p \in Peers, SessionStep(p) PROVE OurInv'
  BY <1>2, OurHandled
<1>3. CASE BootConnects
  <2>1. Start(Seeds[boot], TRUE) /\ boot # 0
    BY <1>3 DEF BootConnects
  <2>2. Seeds[boot] \in Peers
    <3>1. boot \in 1..Len(Seeds) /\ Seeds \in Seq(Peers)
      BY <2>1, SyncAssumption DEF SyncInv, Sessions
    <3> QED
      BY <3>1, ElementOfSeq
  <2> QED
    BY <2>1, <2>2, OurStart
<1>4. CASE BootFails
  BY <1>0, <1>4 DEF BootFails, vars
<1>5. ASSUME NEW p \in Peers, Dial(p) PROVE OurInv'
  BY <1>5, OurStart DEF Dial
<1>6. ASSUME NEW p \in Peers, Hangup(p) PROVE OurInv'
  BY <1>6, OurEnd DEF Hangup
<1>7. ASSUME NEW p \in Peers, Answer(p) PROVE OurInv'
  BY <1>7, OurAnswer
<1>8. ASSUME NEW p \in Peers, NEW t \in PeerTips[p], Announce(p, t) PROVE OurInv'
  BY <1>8, OurAnnounce
<1>9. CASE UNCHANGED allvars
  BY <1>0, <1>9 DEF allvars, vars, syncvars
<1> QED
  BY <1>1, <1>2, <1>3, <1>4, <1>5, <1>6, <1>7, <1>8, <1>9 DEF SyncNext

\* No session with a peer on our chain ends for being on another one: the tree never
\* refuses, and never remembers as refused, a block of such a peer, whatever it is sent by
\* others, loses to a checkpoint or has not yet (is_other_chain, insert_inner).
THEOREM OurPeersAreKept == SyncSpec => []PeerOnOurChainKept
<1>1. OurInv => PeerOnOurChainKept
  BY DEF OurInv, Kept, PeerOnOurChainKept
<1>2. SyncInv /\ OurInv /\ [SyncNext]_allvars => (SyncInv /\ OurInv)'
  BY SyncStep, OurStep
<1>3. SyncSpec => [](SyncInv /\ OurInv)
  BY <1>2, SyncStarts, OurStarts, PTL DEF SyncSpec
<1> QED
  BY <1>1, <1>3, PTL

----------------------------------------------------------------------------
(* The best chain                                                           *)

\* A header that enters was not known: neither held nor ruled out by a checkpoint.
LEMMA EntersUnknown ==
  ASSUME SyncTree, NEW b, Verdict(b) = "ok"
  PROVE  ~Known(b)
<1>1. b \notin Held
  BY Valid DEF SyncTree, TreeInv, IsTree, Held
<1>2. b \notin RuledOut
  BY AboveCheckpoint DEF RuledOut
<1> QED
  BY <1>1, <1>2 DEF Known

\* What becomes of the best chain when a header enters: it is left alone with its tip, or
\* rebuilt for the tip there is then, or the tip is a block the tree did not know.
LEMMA AcceptFollows ==
  ASSUME SyncTree, NEW b, Verdict(b) = "ok", Accept(b)
  PROVE  \/ tip' = tip /\ best_chain' = best_chain
         \/ best_chain' = ChainOf[tip']
         \/ ~Known(tip')
<1> DEFINE entry == [height     |-> headers[Parent[b]].height + 1,
                     chain_work |-> headers[Parent[b]].chain_work + Work[b]]
           map   == [x \in Held \cup {b} |-> IF x = b THEN entry ELSE headers[x]]
           noted == IsCheckpoint(b, entry.height) /\ entry.height > reached
           stay  == IF noted THEN Survivors(map, b) ELSE DOMAIN map
           cut   == stay # DOMAIN map
<1>1. /\ IsTree(headers) /\ reached \in Int /\ IsList(rejected) /\ tip \in Held
  BY DEF SyncTree, TreeInv, TipHasMostWork
<1>2. b \in Blocks /\ b \notin Held /\ Parent[b] \in Held
  BY <1>1, Valid DEF IsTree, Held
<1>3. IsTree(map)
  BY <1>1, <1>2, Grown DEF Held
<1>4. PICK t \in IF tip \in stay THEN {tip} ELSE MostWork(map, stay) :
         /\ tip' = IF Overtakes(map, b, t) THEN b ELSE t
         /\ best_chain' = IF cut THEN ChainTo(t, map[t].height) ELSE best_chain
  BY Zenon DEF Accept
<1>5. stay \subseteq DOMAIN map /\ DOMAIN map = Held \cup {b}
  <2> HIDE DEF map
  <2>1. b \in DOMAIN map
    BY DEF map
  <2>2. noted => Survivors(map, b) \subseteq DOMAIN map
    BY <1>3, <2>1, SurvivorsOf
  <2>3. DOMAIN map = Held \cup {b}
    BY DEF map
  <2> QED
    BY <2>2, <2>3
<1> HIDE DEF map, stay
<1>6. CASE tip' = b
  <2>1. ~Known(tip')
    BY <1>6, EntersUnknown
  <2> QED
    BY <2>1
<1>7. CASE tip' = t /\ cut
  <2>1. t \in DOMAIN map
    BY <1>4, <1>5 DEF MostWork
  <2> QED
    BY <1>3, <1>4, <1>7, <2>1, Rebuilt
<1>8. CASE tip' = t /\ ~cut
  <2>1. t = tip
    BY <1>1, <1>4, <1>5, <1>8
  <2> QED
    BY <1>4, <1>8, <2>1
<1> QED
  BY <1>4, <1>6, <1>7, <1>8

\* The same of a header whatever the verdict on it (insert_inner).
LEMMA InsertFollows ==
  ASSUME SyncTree, NEW b, insert_inner(b)
  PROVE  \/ tip' = tip /\ best_chain' = best_chain
         \/ best_chain' = ChainOf[tip']
         \/ ~Known(tip')
<1>1. CASE Verdict(b) = "ok"
  <2>1. Accept(b)
    BY <1>1, SMTT(30) DEF insert_inner
  <2> QED
    BY <1>1, <2>1, AcceptFollows
<1>2. CASE Verdict(b) \in {"known", "OrphanHeader"}
  BY <1>2 DEF insert_inner, tree
<1>3. CASE Verdict(b) \notin {"known", "OrphanHeader", "ok"}
  BY <1>3 DEF insert_inner, Refuse
<1> QED
  BY <1>1, <1>2, <1>3

\* Who holds the lock, and the best chain: it is the tip's when nobody inserts, and during
\* a batch as long as the tip is the one before the batch, or is that one again.
IsLock ==
  lock = [by |-> lock.by, left |-> lock.left, old_tip |-> lock.old_tip,
          accepted |-> lock.accepted, err |-> lock.err]

BestInv ==
  /\ SyncTree /\ IsLock
  /\ lock.by \in {"nobody", "batch", "load", "down"}
  /\ lock.by = "nobody" => best_chain = ChainOf[tip]
  /\ lock.by = "batch" => /\ lock.old_tip \in Blocks /\ Known(lock.old_tip)
                          /\ tip = lock.old_tip => best_chain = ChainOf[tip]

\* The tree that new and load start with.
LEMMA FreshBest ==
  /\ <<Genesis>> = ChainOf[Genesis]
  /\ <<Genesis>> \in Seq(DOMAIN GenesisTree)
  /\ \A c \in Checkpoints : c.height = GenesisReached => Height[c.hash] = GenesisReached
  /\ GenesisReached = -1 \/ \E c \in Checkpoints : c.height = GenesisReached
<1>1. <<Genesis>> = ChainOf[Genesis]
  <2>1. /\ ChainOf[Genesis] \in Seq(Blocks) /\ Len(ChainOf[Genesis]) = 1
        /\ ChainOf[Genesis][1] = Genesis
    <3>1. Genesis \in Blocks /\ Height[Genesis] = 0
      BY HeightIs, TreeAssumption
    <3>2. ChainOf[Genesis] \in Seq(Blocks) /\ Len(ChainOf[Genesis]) = Height[Genesis] + 1
      BY <3>1, ChainIs
    <3>3. ChainOf[Genesis][Height[Genesis] + 1] = Genesis
      BY <3>1, OnItsChain
    <3>4. Height[Genesis] + 1 = 1
      BY <3>1
    <3> QED
      BY <3>2, <3>3, <3>4
  <2>2. \A c \in Seq(Blocks) : Len(c) = 1 /\ c[1] = Genesis => c = <<Genesis>>
    OBVIOUS
  <2> QED
    BY <2>1, <2>2
<1>2. <<Genesis>> \in Seq(DOMAIN GenesisTree)
  BY DEF GenesisTree
<1>3. ASSUME NEW c \in Checkpoints, c.height = GenesisReached PROVE Height[c.hash] = GenesisReached
  <2>1. c.height \in Nat
    BY TreeAssumption
  <2>2. GenesisReached = 0 /\ IsCheckpoint(Genesis, 0)
    BY <1>3, <2>1 DEF GenesisReached
  <2>3. PICK d \in Checkpoints : d.height = 0 /\ d.hash = Genesis
    BY <2>2 DEF IsCheckpoint
  <2>4. c = d
    BY <1>3, <2>2, <2>3, TreeAssumption
  <2> QED
    BY <2>2, <2>3, <2>4, HeightIs
<1>4. GenesisReached = -1 \/ \E c \in Checkpoints : c.height = GenesisReached
  BY DEF GenesisReached, IsCheckpoint
<1> QED
  BY <1>1, <1>2, <1>3, <1>4

\* The process starts, or starts again, with the best chain of its tip.
LEMMA BestStarts == Init => BestInv
<1> SUFFICES ASSUME Init PROVE BestInv
  OBVIOUS
<1>1. /\ headers = GenesisTree /\ tip = Genesis /\ best_chain = <<Genesis>>
      /\ reached = GenesisReached /\ rejected = <<>> /\ lock = Free
  BY DEF Init
<1>2. TipHasMostWork
  BY <1>1, FreshTree, AtGenesis DEF TipHasMostWork, Held
<1>3. TreeInv
  BY <1>1, <1>2, FreshTree DEF TreeInv
<1>4. SyncTree
  BY <1>1, <1>3, FreshBest DEF SyncTree, Held
<1> QED
  BY <1>1, <1>4, FreshBest DEF BestInv, IsLock, Free

\* Every step keeps it.
LEMMA BestStep == BestInv /\ [Next]_vars => BestInv'
<1> SUFFICES ASSUME BestInv, [Next]_vars PROVE BestInv'
  OBVIOUS
<1>1. ASSUME UNCHANGED <<headers, tip, best_chain, reached, rejected>> PROVE SyncTree'
  <2>1. TipHasMostWork'
    BY <1>1 DEF BestInv, SyncTree, TreeInv, TipHasMostWork, Held
  <2> QED
    BY <1>1, <2>1 DEF BestInv, SyncTree, TreeInv, Held
<1>2. ASSUME UNCHANGED <<headers, tip, best_chain, reached, rejected, lock>> PROVE BestInv'
  BY <1>1, <1>2 DEF BestInv, IsLock, Known, RuledOut, Held
<1>3. ASSUME NEW batch \in Batches, BeginBatch(batch) PROVE BestInv'
  <2>1. /\ lock = Free /\ lock' = [Free EXCEPT !.by = "batch", !.left = batch, !.old_tip = tip]
        /\ UNCHANGED <<headers, tip, best_chain, reached, rejected>>
    BY <1>3 DEF BeginBatch, tree
  <2>2. lock' = [by |-> "batch", left |-> batch, old_tip |-> tip, accepted |-> 0, err |-> "none"]
    BY <2>1 DEF Free
  <2>3. best_chain = ChainOf[tip] /\ tip \in Held /\ tip \in Blocks
    BY <2>1 DEF BestInv, Free, SyncTree, TreeInv, TipHasMostWork, IsTree, Held
  <2>4. IsLock' /\ lock'.by = "batch" /\ lock'.old_tip = tip
    BY <2>2 DEF IsLock
  <2>5. Known(tip)'
    BY <2>1, <2>3 DEF Known, Held
  <2> QED
    BY <1>1, <2>1, <2>3, <2>4, <2>5 DEF BestInv, Known, Held, RuledOut
<1>4. CASE InsertOne
  <2> DEFINE b == Head(lock.left)
  <2>1. insert_inner(b) /\ lock.by \in {"batch", "load"}
    BY <1>4 DEF InsertOne
  <2>2. PICK n, e : lock' = [lock EXCEPT !.left = Tail(@), !.accepted = n, !.err = e]
    BY <1>4, Zenon DEF InsertOne
  <2>3. IsLock' /\ lock'.by = lock.by /\ lock'.old_tip = lock.old_tip
    BY <2>2 DEF BestInv, IsLock
  <2>4. SyncTree' /\ \A t \in Blocks : Known(t) => Known(t)'
    BY <2>1, InsertKnows DEF BestInv
  <2>5. ASSUME lock.by = "batch", tip' = lock.old_tip PROVE best_chain' = ChainOf[tip']
    BY <2>1, <2>5, InsertFollows DEF BestInv
  <2>6. ASSUME lock.by = "batch" PROVE Known(lock.old_tip)'
    <3>1. PICK o \in Blocks : o = lock.old_tip
      BY <2>6 DEF BestInv
    <3>2. Known(o)'
      BY <2>4, <2>6, <3>1 DEF BestInv
    <3> QED
      BY <2>3, <3>1, <3>2 DEF Known, RuledOut, Held
  <2> QED
    BY <2>1, <2>3, <2>4, <2>5, <2>6 DEF BestInv
<1>5. CASE EndBatch
  <2>1. /\ lock.by = "batch" /\ lock' = Free /\ UNCHANGED <<headers, tip>>
        /\ best_chain' = IF tip # lock.old_tip THEN ChainTo(tip, headers[tip].height) ELSE best_chain
    BY <1>5 DEF EndBatch
  <2>2. SyncTree'
    BY <1>5, EndKnows DEF BestInv
  <2>3. ChainTo(tip, headers[tip].height) = ChainOf[tip]
    BY Rebuilt DEF BestInv, SyncTree, TreeInv, TipHasMostWork, Held
  <2>4. best_chain' = ChainOf[tip']
    BY <2>1, <2>3 DEF BestInv
  <2>5. IsLock' /\ lock'.by = "nobody"
    BY <2>1 DEF IsLock, Free
  <2> QED
    BY <2>2, <2>4, <2>5 DEF BestInv
<1>6. ASSUME NEW b \in Announced, NEW proven \in BOOLEAN, recovery_due(b, proven) PROVE BestInv'
  BY <1>2, <1>6 DEF recovery_due
<1>7. ASSUME NEW n \in 0..Cardinality(Held), NEW partial \in BOOLEAN, save(n, partial) PROVE BestInv'
  BY <1>2, <1>7 DEF save
<1>8. CASE Restart
  <2>1. /\ headers' = GenesisTree /\ tip' = Genesis /\ best_chain' = <<Genesis>>
        /\ reached' = GenesisReached /\ rejected' = <<>>
        /\ lock' = [Free EXCEPT !.by = IF file.partial THEN "down" ELSE "load", !.left = file.records]
    BY <1>8 DEF Restart
  <2>2. TipHasMostWork'
    BY <2>1, FreshTree, AtGenesis DEF TipHasMostWork, Held
  <2>3. TreeInv'
    BY <2>1, <2>2, FreshTree DEF TreeInv
  <2>4. SyncTree'
    BY <2>1, <2>3, FreshBest DEF SyncTree, Held
  <2>5. lock' = [by |-> IF file.partial THEN "down" ELSE "load", left |-> file.records,
                 old_tip |-> Genesis, accepted |-> 0, err |-> "none"]
    BY <2>1 DEF Free
  <2>6. IsLock' /\ lock'.by \in {"load", "down"}
    BY <2>5 DEF IsLock
  <2> QED
    BY <2>4, <2>6 DEF BestInv
<1>9. CASE EndLoad
  <2>1. /\ lock.by = "load" /\ lock' = Free /\ UNCHANGED <<headers, tip, reached, rejected>>
        /\ best_chain' = ChainTo(tip, headers[tip].height)
    BY <1>9 DEF EndLoad
  <2>2. best_chain' = ChainOf[tip] /\ ChainOf[tip] \in Seq(Held)
    BY <2>1, Rebuilt DEF BestInv, SyncTree, TreeInv, TipHasMostWork, Held
  <2>3. TipHasMostWork'
    BY <2>1 DEF BestInv, SyncTree, TreeInv, TipHasMostWork, Held
  <2>4. SyncTree'
    BY <2>1, <2>2, <2>3 DEF BestInv, SyncTree, TreeInv, Held
  <2>5. IsLock' /\ lock'.by = "nobody"
    BY <2>1 DEF IsLock, Free
  <2> QED
    BY <2>1, <2>2, <2>4, <2>5 DEF BestInv
<1>10. CASE Advance
  BY <1>2, <1>10 DEF Advance, tree
<1>11. CASE UNCHANGED vars
  BY <1>2, <1>11 DEF vars
<1> QED
  BY <1>3, <1>4, <1>5, <1>6, <1>7, <1>8, <1>9, <1>10, <1>11 DEF Next

\* The best chain is the tip's whenever nobody holds the lock (insert_batch, load).
LEMMA BestInvariant == Spec => []BestInv
  BY BestStarts, BestStep, PTL DEF Spec

----------------------------------------------------------------------------
(* Tips                                                                     *)

\* There are finitely many blocks, so there is a greatest height.
LEMMA HeightsEnd == \E n \in Nat : \A b \in Blocks : Height[b] <= n
<1>1. PICK k \in Nat : ExistsSurjection(1..k, Blocks)
  BY FS_NatSurjection, TreeAssumption
<1>2. PICK f : f \in Surjection(1..k, Blocks)
  BY <1>1 DEF ExistsSurjection
<1>3. f \in [1..k -> Blocks] /\ \A b \in Blocks : \E i \in 1..k : f[i] = b
  BY <1>2 DEF Surjection
<1> DEFINE S == {m \in Nat : m <= k => \E n \in Nat : \A i \in 1..m : Height[f[i]] <= n}
<1>4. 0 \in S
  OBVIOUS
<1>5. ASSUME NEW m \in S PROVE m + 1 \in S
  <2> SUFFICES ASSUME m + 1 <= k
               PROVE  \E n \in Nat : \A i \in 1..(m + 1) : Height[f[i]] <= n
    OBVIOUS
  <2>1. m \in Nat /\ m <= k
    OBVIOUS
  <2>2. PICK n \in Nat : \A i \in 1..m : Height[f[i]] <= n
    BY <2>1
  <2>3. Height[f[m + 1]] \in Nat
    BY <1>3, <2>1, HeightIs
  <2> DEFINE most == IF Height[f[m + 1]] <= n THEN n ELSE Height[f[m + 1]]
  <2>4. most \in Nat /\ Height[f[m + 1]] <= most /\ n <= most
    BY <2>3
  <2>5. ASSUME NEW i \in 1..(m + 1) PROVE Height[f[i]] <= most
    <3>1. CASE i = m + 1
      BY <2>4, <3>1
    <3>2. CASE i # m + 1
      <4>1. i \in 1..m /\ Height[f[i]] \in Nat
        BY <1>3, <2>1, <3>2, HeightIs
      <4>2. Height[f[i]] <= n
        BY <2>2, <4>1
      <4> HIDE DEF most
      <4> QED
        BY <2>4, <4>1, <4>2
    <3> QED
      BY <3>1, <3>2
  <2> QED
    BY <2>4, <2>5
<1>6. S = Nat
  <2>1. S \in SUBSET Nat
    OBVIOUS
  <2> HIDE DEF S
  <2> QED
    BY <1>4, <1>5, <2>1, AllNumbers
<1>7. PICK n \in Nat : \A i \in 1..k : Height[f[i]] <= n
  <2>1. k \in S
    BY <1>6
  <2>2. k <= k => \E n \in Nat : \A i \in 1..k : Height[f[i]] <= n
    BY <2>1
  <2> HIDE DEF S
  <2> QED
    BY <2>2
<1> QED
  BY <1>3, <1>7

\* No header held has x for a parent.
IsLeaf(x) == \A y \in Held \ {Genesis} : Parent[y] # x

\* Every header held is below a leaf.
LEMMA LeafAbove ==
  ASSUME IsTree(headers), NEW b \in Held
  PROVE  \E x \in Held : IsLeaf(x) /\ OnChain(b, x)
<1>1. Held \subseteq Blocks
  BY DEF IsTree, Held
<1> DEFINE Above == {x \in Held : OnChain(b, x)}
           S == {Height[x] : x \in Above}
<1>2. b \in Above
  BY <1>1, OnItsChain
<1>3. PICK n \in Nat : \A x \in Blocks : Height[x] <= n
  BY HeightsEnd
<1>4. S \in SUBSET Int /\ S # {} /\ \A i \in S : i <= n
  BY <1>1, <1>2, <1>3, HeightIs
<1>5. PICK i \in S : \A j \in S : j <= i
  <2> HIDE DEF S
  <2>1. n \in Int
    OBVIOUS
  <2> QED
    BY <1>4, <2>1, Greatest
<1>6. PICK x \in Above : i = Height[x]
  OBVIOUS
<1>7. ASSUME NEW y \in Held \ {Genesis}, Parent[y] = x PROVE FALSE
  <2>1. y \in Blocks \ {Genesis} /\ x \in Blocks
    BY <1>1, <1>7
  <2>2. y \in Above
    BY <1>6, <1>7, <2>1, OnChainOfParent
  <2>3. Height[y] \in S
    BY <2>2
  <2>4. Height[y] = Height[x] + 1 /\ Height[x] \in Nat
    BY <1>7, <2>1, HeightIs
  <2> QED
    BY <1>5, <1>6, <2>3, <2>4
<1> QED
  BY <1>6, <1>7 DEF IsLeaf

\* The tip is a leaf: a child of it would have more work.
LEMMA TipIsLeaf ==
  ASSUME IsTree(headers), TipHasMostWork
  PROVE  IsLeaf(tip)
<1> SUFFICES ASSUME NEW y \in Held \ {Genesis}, Parent[y] = tip PROVE FALSE
  BY DEF IsLeaf
<1>1. /\ headers[y].chain_work = headers[tip].chain_work + Work[y]
      /\ headers[tip].chain_work \in Nat /\ y \in Blocks
  BY DEF IsTree, Held
<1>2. headers[y].chain_work <= headers[tip].chain_work
  BY DEF TipHasMostWork
<1>3. Work[y] \in Nat /\ Work[y] > 0
  BY <1>1, TreeAssumption
<1> QED
  BY <1>1, <1>2, <1>3

\* The walk back from b ends where the chain of the tip begins, and has passed every header
\* of the branch (branch_len in chain_tips).
LEMMA BranchLenIs ==
  ASSUME IsTree(headers), tip \in Held, best_chain = ChainOf[tip], NEW b \in Held
  PROVE  branch_len(b) = Cardinality(Ancestry(headers, b) \ Ancestry(headers, tip))
<1>1. /\ b \in Blocks /\ tip \in Blocks /\ headers[b].height = Height[b]
      /\ Height[b] \in Nat /\ Height[tip] \in Nat
  BY HeldHeight, HeightIs DEF IsTree, Held
<1> DEFINE h == Height[b]
           on(n) == h - n < Len(best_chain) /\ best_chain[h - n + 1] = Back(b, n)
           Stop(n) == on(n) /\ \A m \in 0..n - 1 : ~on(m)
<1>2. branch_len(b) = CHOOSE n \in 0..h : Stop(n)
  BY <1>1, Zenon DEF branch_len
<1>3. ASSUME NEW n \in 0..h PROVE on(n) <=> OnChain(Back(b, n), tip)
  <2> DEFINE x == Back(b, n)
  <2>1. x \in Blocks /\ Height[x] = h - n /\ h - n \in Nat
    BY <1>1, BackHeight
  <2>2. /\ Len(best_chain) = Height[tip] + 1
        /\ \A i \in 1..(Height[tip] + 1) : best_chain[i] = ChainOf[tip][i]
    BY <1>1, ChainIs
  <2> HIDE DEF x, h
  <2>3. ASSUME OnChain(x, tip) PROVE h - n < Len(best_chain) /\ best_chain[h - n + 1] = x
    <3>1. Height[x] <= Height[tip] /\ ChainOf[tip][Height[x] + 1] = x
      BY <1>1, <2>3, OnChainIs
    <3> QED
      BY <1>1, <2>1, <2>2, <3>1
  <2>4. ASSUME h - n < Len(best_chain), best_chain[h - n + 1] = x PROVE OnChain(x, tip)
    <3>1. h - n + 1 \in 1..(Height[tip] + 1)
      BY <1>1, <2>1, <2>2, <2>4
    <3>2. DOMAIN ChainOf[tip] = 1..(Height[tip] + 1)
      BY <1>1, ChainIs
    <3>3. ChainOf[tip][h - n + 1] = x
      BY <2>2, <2>4, <3>1
    <3> QED
      BY <3>1, <3>2, <3>3 DEF OnChain
  <2> QED
    BY <2>3, <2>4 DEF x, h
<1> HIDE DEF on
<1>4. on(h)
  <2>1. h \in 0..h
    BY <1>1
  <2>2. OnChain(Genesis, b)
    BY <1>1, GenesisOnChain
  <2>3. Back(b, h - 0) = Genesis /\ Height[Genesis] = 0
    BY <1>1, <2>2, OnChainIs, HeightIs
  <2>4. Back(b, h) = Genesis
    BY <1>1, <2>3
  <2> QED
    BY <1>1, <1>3, <2>1, <2>4, GenesisOnChain
<1>5. \E n \in 0..h : Stop(n)
  <2> DEFINE W == {n \in Nat : on(n)}
  <2>1. W \in SUBSET Nat /\ h \in W
    BY <1>1, <1>4
  <2>2. PICK n \in W : \A m \in W : ~(<<m, n>> \in OpToRel(<, Nat))
    BY <2>1, WFMin, NatLessThanWellFounded
  <2>3. \A m \in W : ~(m < n)
    BY <2>2 DEF OpToRel
  <2>4. n \in 0..h
    BY <1>1, <2>1, <2>3
  <2>5. \A m \in 0..n - 1 : ~on(m)
    BY <2>3, <2>4
  <2> QED
    BY <2>4, <2>5
<1> DEFINE N == branch_len(b)
<1>6. N \in 0..h /\ on(N) /\ \A m \in 0..N - 1 : ~on(m)
  <2> HIDE DEF Stop
  <2>1. N \in 0..h /\ Stop(N)
    BY <1>2, <1>5, Zenon
  <2> QED
    BY <2>1 DEF Stop
<1> HIDE DEF N
<1> DEFINE D == Ancestry(headers, b) \ Ancestry(headers, tip)
           f == [m \in 0..N - 1 |-> Back(b, m)]
<1>7. \A x : x \in D <=> OnChain(x, b) /\ ~OnChain(x, tip)
  BY AncestryIsChain DEF Held
<1> HIDE DEF D
<1>8. ASSUME NEW m \in 0..N - 1 PROVE f[m] = Back(b, m) /\ f[m] \in D /\ Height[f[m]] = h - m
  <2>1. m \in 0..h /\ m \in Nat /\ m <= Height[b]
    BY <1>1, <1>6
  <2>2. f[m] = Back(b, m)
    OBVIOUS
  <2> HIDE DEF f
  <2>3. OnChain(f[m], b) /\ Height[f[m]] = h - m
    BY <1>1, <2>1, <2>2, OnChainBack, BackHeight
  <2>4. ~OnChain(f[m], tip)
    BY <1>3, <1>6, <2>1, <2>2
  <2> QED
    BY <1>7, <2>2, <2>3, <2>4
<1>9. ASSUME NEW x \in D PROVE \E m \in 0..N - 1 : f[m] = x
  <2>1. OnChain(x, b) /\ ~OnChain(x, tip)
    BY <1>7
  <2>2. PICK m \in Nat : m <= h /\ Back(b, m) = x
    BY <1>1, <2>1, OnChainBack
  <2>3. ASSUME N <= m PROVE FALSE
    <3> DEFINE y == Back(b, N)
    <3>1. N \in Nat /\ N <= Height[b] /\ OnChain(y, tip)
      BY <1>1, <1>3, <1>6
    <3>2. OnChain(y, b) /\ Height[y] = h - N /\ Height[x] = h - m
      BY <1>1, <2>2, <3>1, OnChainBack, BackHeight
    <3> HIDE DEF y
    <3>3. Height[x] <= Height[y]
      BY <1>1, <2>2, <2>3, <3>1, <3>2
    <3>4. OnChain(x, y)
      BY <1>1, <2>1, <3>2, <3>3, OnChainOrder
    <3> QED
      BY <1>1, <2>1, <3>1, <3>4, OnChainTrans
  <2>4. m \in 0..N - 1
    BY <1>6, <2>2, <2>3
  <2> QED
    BY <2>2, <2>4
<1>10. f \in Bijection(0..N - 1, D)
  <2>1. f \in [0..N - 1 -> D]
    BY <1>8
  <2>2. ASSUME NEW m \in 0..N - 1, NEW k \in 0..N - 1, f[m] = f[k] PROVE m = k
    <3>1. h - m = h - k
      BY <1>8, <2>2
    <3> QED
      BY <1>1, <3>1
  <2> HIDE DEF f
  <2> QED
    BY <1>9, <2>1, <2>2 DEF Bijection, Injection, Surjection, IsInjective
<1>11. Cardinality(0..N - 1) = N /\ IsFiniteSet(0..N - 1)
  <2>1. N \in Nat /\ 0 \in Int /\ N - 1 \in Int
    BY <1>6
  <2>2. Cardinality(0..N - 1) = IF 0 > N - 1 THEN 0 ELSE (N - 1) - 0 + 1
    BY <2>1, FS_Interval
  <2> QED
    BY <2>1, <2>2, FS_Interval
<1>12. Cardinality(D) = N
  <2>1. ExistsBijection(0..N - 1, D)
    BY <1>10 DEF ExistsBijection
  <2> HIDE DEF f
  <2> QED
    BY <1>11, <2>1, FS_Bijection
<1> QED
  BY <1>12 DEF D, N

\* The tips a reader is told of cover the tree, with one of them active and each branch
\* as long as what the active chain lacks of it: the walk back in chain_tips may trust the
\* best chain, which insert_batch and load rebuild when the tip moves and pruning when it
\* removes a header (prune_below_checkpoint).
THEOREM TipsTellForks == Spec => []TipsTellTheForks
<1>1. BestInv => TipsTellTheForks
  <2> SUFFICES ASSUME BestInv, lock = Free
               PROVE  /\ UNION {Path(t.hash) : t \in chain_tips} = Held
                      /\ \E t \in chain_tips : t.status = "Active"
                      /\ \A t \in chain_tips :
                           t.branch_len = Cardinality(Path(t.hash) \ Path(tip))
    BY DEF TipsTellTheForks
  <2>1. /\ IsTree(headers) /\ TipHasMostWork /\ tip \in Held
        /\ best_chain = ChainOf[tip]
    BY DEF BestInv, SyncTree, TreeInv, TipHasMostWork, Free
  <2>2. \A b \in Held : \A x : x \in Ancestry(headers, b) <=> OnChain(x, b)
    BY <2>1, AncestryIsChain DEF Held
  <2> DEFINE told(b) == [hash |-> b, height |-> headers[b].height, branch_len |-> branch_len(b),
                         status |-> IF b = tip THEN "Active" ELSE "HeadersOnly"]
  <2>3. \A b : b \in Held /\ IsLeaf(b) <=> b \in Held \ {Parent[y] : y \in Held \ {Genesis}}
    BY DEF IsLeaf
  <2>4. chain_tips = {told(b) : b \in {x \in Held : IsLeaf(x)}}
    <3>1. chain_tips = {told(b) : b \in Held \ {Parent[y] : y \in Held \ {Genesis}}}
      BY Zenon DEF chain_tips
    <3>2. Held \ {Parent[y] : y \in Held \ {Genesis}} = {x \in Held : IsLeaf(x)}
      BY <2>3
    <3> QED
      BY <3>1, <3>2
  <2>5. UNION {Path(t.hash) : t \in chain_tips} = Held
    <3>1. ASSUME NEW b \in Held PROVE \E t \in chain_tips : b \in Path(t.hash)
      <4>1. PICK x \in Held : IsLeaf(x) /\ OnChain(b, x)
        BY <2>1, LeafAbove
      <4>2. told(x) \in chain_tips /\ told(x).hash = x
        BY <2>4, <4>1
      <4> HIDE DEF told
      <4>3. b \in Path(x)
        BY <2>1, <2>2, <4>1, PathIsAncestry
      <4> QED
        BY <4>2, <4>3
    <3>2. ASSUME NEW t \in chain_tips PROVE Path(t.hash) \subseteq Held
      <4>1. PICK b \in Held : t = told(b)
        BY <2>4
      <4>2. t.hash = b
        BY <4>1
      <4>3. Path(b) \subseteq Held
        BY <2>1, PathIsAncestry DEF Ancestry, Held
      <4> QED
        BY <4>2, <4>3
    <3> QED
      BY <3>1, <3>2
  <2>6. \E t \in chain_tips : t.status = "Active"
    <3>1. told(tip) \in chain_tips /\ told(tip).status = "Active"
      BY <2>1, <2>4, TipIsLeaf
    <3> QED
      BY <3>1
  <2>7. ASSUME NEW t \in chain_tips
        PROVE  t.branch_len = Cardinality(Path(t.hash) \ Path(tip))
    <3>1. PICK b \in Held : t = told(b)
      BY <2>4
    <3>2. t.hash = b /\ t.branch_len = branch_len(b)
      BY <3>1
    <3>3. Path(b) = Ancestry(headers, b) /\ Path(tip) = Ancestry(headers, tip)
      BY <2>1, PathIsAncestry
    <3> QED
      BY <2>1, <3>2, <3>3, BranchLenIs
  <2> QED
    BY <2>5, <2>6, <2>7
<1> QED
  BY <1>1, BestInvariant, PTL

----------------------------------------------------------------------------
(* The tree and the file                                                   *)

\* What validate_header asks of a block, whatever else is held.
Sound(b) ==
  /\ ~(Work[b] < MinWork)
  /\ ~\E c \in Checkpoints : c.height = Height[b] /\ c.hash # b
  /\ b \in Mined /\ Work[b] = ExpectedWork(Parent[b], Height[b])

\* The entries the blocks of a set have in whatever tree they are.
EntriesOf(D) == [b \in D |-> [height |-> Height[b], chain_work |-> ChainWork[b]]]

\* A block a checkpoint names.
Named(b) == IsCheckpoint(b, Height[b])

\* What of a tree depends on which blocks it has alone.
EntryInv ==
  /\ headers = EntriesOf(Held)
  /\ \A b \in Held \ {Genesis} : Sound(b)
  /\ \A b \in Held : Named(b) => Height[b] <= reached

\* The tip is the lowest of the blocks with the most work, in terms of the blocks alone.
LowestTip(v) ==
  \A b \in DOMAIN v.headers : ChainWork[b] = ChainWork[v.tip] => Height[v.tip] <= Height[b]

\* A tree that can be loaded again as it is.
IsWhole(v) ==
  /\ v = [headers |-> v.headers, tip |-> v.tip, best_chain |-> v.best_chain, reached |-> v.reached]
  /\ IsTree(v.headers) /\ v.headers = EntriesOf(DOMAIN v.headers)
  /\ \A b \in DOMAIN v.headers \ {Genesis} : Sound(b)
  /\ v.tip \in DOMAIN v.headers /\ v.best_chain = ChainOf[v.tip]
  /\ \A b \in DOMAIN v.headers : ChainWork[b] <= ChainWork[v.tip]
  /\ v.reached \in Int
  /\ \A d \in DOMAIN v.headers : Named(d) =>
       Height[d] <= v.reached /\ \A x \in DOMAIN v.headers : Height[x] <= Height[d] => OnChain(x, d)
  /\ v.reached = -1 \/ \E d \in DOMAIN v.headers : Named(d) /\ Height[d] = v.reached

\* The blocks D, each once and parents first, and t the first at its height.
Listing(list, D, t) ==
  /\ list \in Seq(D)
  /\ \A b \in D : \E i \in 1..Len(list) : list[i] = b
  /\ \A i, j \in 1..Len(list) : i < j =>
       /\ list[i] # list[j]
       /\ Height[list[i]] <= Height[list[j]]
       /\ Height[list[i]] = Height[list[j]] => list[j] # t

\* The tip while such a file is read back: the one that was saved as soon as it is there.
Following(v) ==
  LowestTip(v) => IF v.tip \in Held THEN tip = v.tip ELSE ChainWork[tip] < ChainWork[v.tip]

\* The tree while k records have been read back of the file v was written to.
Loading(v, k) ==
  /\ lock.left \in Seq(Blocks) /\ Len(lock.left) = Len(file.records) - k
  /\ \A i \in 1..Len(lock.left) : lock.left[i] = file.records[k + i]
  /\ Held = {Genesis} \cup {file.records[i] : i \in 1..k}
  /\ Following(v) /\ pruned = FALSE

\* The file holds v whole, and while it has not changed since, so does the process.
SavedIs(v) ==
  /\ IsWhole(v)
  /\ ~file.partial /\ Listing(file.records, DOMAIN v.headers, v.tip)
  /\ lock.by = "load" => \E k \in 0..Len(file.records) : Loading(v, k)
  /\ lock.by \in {"nobody", "batch"} /\ ~dirty =>
       headers = v.headers /\ reached = v.reached /\ (LowestTip(v) => tip = v.tip)

\* The entries follow from the blocks held, and what was written last can be read back.
SavedInv == EntryInv /\ \A v \in saved : SavedIs(v)
\* The headers of a tree have the entries their blocks have anywhere: a header that enters
\* above one of them has too, has passed validate_header, and if a checkpoint names it the
\* checkpoint is noted (insert_inner).
LEMMA AcceptSound ==
  ASSUME SyncTree, EntryInv, NEW b, Verdict(b) = "ok", Accept(b)
  PROVE  EntryInv'
<1> DEFINE entry == [height     |-> headers[Parent[b]].height + 1,
                     chain_work |-> headers[Parent[b]].chain_work + Work[b]]
           map   == [x \in Held \cup {b} |-> IF x = b THEN entry ELSE headers[x]]
           noted == IsCheckpoint(b, entry.height) /\ entry.height > reached
           stay  == IF noted THEN Survivors(map, b) ELSE DOMAIN map
<1>1. /\ IsTree(headers) /\ reached \in Int /\ IsList(rejected) /\ Held \subseteq Blocks
  BY DEF SyncTree, TreeInv, IsTree, Held
<1>2. /\ b \in Blocks \ {Genesis} /\ b \notin Held /\ Parent[b] \in Held
      /\ headers[Parent[b]].height + 1 > reached
  BY <1>1, Valid DEF IsTree, Held
<1>3. headers' = [x \in stay |-> map[x]] /\ reached' = IF noted THEN entry.height ELSE reached
  BY DEF Accept
<1>4. /\ headers[Parent[b]].height = Height[Parent[b]]
      /\ headers[Parent[b]].chain_work = ChainWork[Parent[b]]
      /\ \A x \in Held : headers[x] = [height |-> Height[x], chain_work |-> ChainWork[x]]
  BY <1>2 DEF EntryInv, EntriesOf
<1>5. /\ entry = [height |-> Height[b], chain_work |-> ChainWork[b]]
      /\ Height[b] \in Nat /\ Height[b] > reached
  <2>1. /\ Height[b] = Height[Parent[b]] + 1 /\ ChainWork[b] = ChainWork[Parent[b]] + Work[b]
        /\ Height[b] \in Nat
    BY <1>2, HeightIs, ChainWorkIs
  <2> QED
    BY <1>2, <1>4, <2>1
<1>6. validate_header(b, Height[b]) = "ok"
  <2>1. validate_header(b, headers[Parent[b]].height + 1) = "ok"
    BY <1>2 DEF Verdict
  <2>2. headers[Parent[b]].height + 1 = Height[b]
    BY <1>2, <1>4, HeightIs
  <2> QED
    BY <2>1, <2>2
<1>7. Sound(b)
  BY <1>6 DEF validate_header, Sound
<1>8. IsTree(map) /\ b \in DOMAIN map /\ DOMAIN map = Held \cup {b}
  BY <1>1, <1>2, Grown DEF Held
<1>9. \A x \in DOMAIN map : map[x] = [height |-> Height[x], chain_work |-> ChainWork[x]]
  BY <1>4, <1>5, <1>8
<1>10. entry.height = Height[b]
  BY <1>5
<1> HIDE DEF map, entry
<1>11. stay \subseteq DOMAIN map
  BY <1>8, SurvivorsOf
<1> HIDE DEF stay
<1>12. Held' = stay /\ Held' \subseteq Held \cup {b}
  BY <1>3, <1>8, <1>11 DEF Held
<1>13. headers' = EntriesOf(Held')
  BY <1>3, <1>9, <1>11, <1>12 DEF EntriesOf
<1>14. \A x \in Held' \ {Genesis} : Sound(x)
  BY <1>7, <1>12 DEF EntryInv
<1>15. ASSUME NEW x \in Held', Named(x) PROVE Height[x] <= reached'
  <2>1. reached <= reached' /\ reached' \in Int
    BY <1>1, <1>3, <1>5, <1>10
  <2>2. CASE x = b
    <3>1. noted
      BY <1>5, <1>10, <1>15, <2>2 DEF Named
    <3> QED
      BY <1>3, <1>5, <1>10, <2>2, <3>1
  <2>3. CASE x # b
    <3>1. x \in Held /\ Height[x] <= reached /\ Height[x] \in Nat
      BY <1>1, <1>12, <1>15, <2>3, HeightIs DEF EntryInv
    <3> QED
      BY <1>1, <2>1, <3>1
  <2> QED
    BY <2>2, <2>3
<1> QED
  BY <1>13, <1>14, <1>15 DEF EntryInv, Sound, Named, EntriesOf

\* The same of a header whatever the verdict on it; and a tree that changes is to be saved
\* again (insert_inner).
LEMMA InsertSound ==
  ASSUME SyncTree, EntryInv, NEW b, insert_inner(b)
  PROVE  /\ EntryInv'
         /\ dirty' = TRUE \/ UNCHANGED <<headers, tip, reached, dirty>>
<1>0. ASSUME UNCHANGED <<headers, tip, reached, dirty>> PROVE EntryInv'
  BY <1>0 DEF EntryInv, Held, Sound, Named, EntriesOf
<1>1. CASE Verdict(b) = "ok"
  <2>1. Accept(b)
    BY <1>1, SMTT(30) DEF insert_inner
  <2>2. dirty' = TRUE
    BY <2>1 DEF Accept
  <2> QED
    BY <1>1, <2>1, <2>2, AcceptSound
<1>2. CASE Verdict(b) \in {"known", "OrphanHeader"}
  BY <1>0, <1>2 DEF insert_inner, tree
<1>3. CASE Verdict(b) \notin {"known", "OrphanHeader", "ok"}
  BY <1>0, <1>3 DEF insert_inner, Refuse
<1> QED
  BY <1>1, <1>2, <1>3

\* In an order of finitely many elements each has a rank of its own, and each rank an
\* element (save, which sorts).
LEMMA Ranks ==
  ASSUME NEW S, IsFiniteSet(S), NEW below \in [S -> SUBSET S],
         \A a \in S : a \notin below[a],
         \A a, b \in S : a # b => a \in below[b] \/ b \in below[a],
         \A a, b, c \in S : a \in below[b] /\ b \in below[c] => a \in below[c]
  PROVE  /\ \A b \in S : Cardinality(below[b]) \in 0..Cardinality(S) - 1
         /\ \A a, b \in S : a \in below[b] => Cardinality(below[a]) < Cardinality(below[b])
         /\ \A i \in 0..Cardinality(S) - 1 : \E b \in S : Cardinality(below[b]) = i
<1> DEFINE rank == [b \in S |-> Cardinality(below[b])]
           N == Cardinality(S)
<1>0. N \in Nat
  BY FS_CardinalityType
<1>1. \A b \in S : rank[b] = Cardinality(below[b]) /\ IsFiniteSet(below[b]) /\ Cardinality(below[b]) \in Nat
  BY FS_Subset, FS_CardinalityType
<1>11. rank \in [S -> Nat]
  BY <1>1
<1> HIDE DEF rank
<1>2. ASSUME NEW b \in S PROVE rank[b] \in 0..N - 1
  <2>1. IsFiniteSet(S \ {b}) /\ Cardinality(S \ {b}) = N - 1
    BY FS_RemoveElement
  <2>2. below[b] \in SUBSET (S \ {b})
    OBVIOUS
  <2> HIDE DEF N
  <2>3. Cardinality(below[b]) <= Cardinality(S \ {b})
    BY <2>1, <2>2, FS_Subset
  <2> QED
    BY <1>0, <1>1, <2>1, <2>3
<1>3. ASSUME NEW a \in S, NEW b \in S, a \in below[b] PROVE rank[a] < rank[b]
  <2>1. below[a] \in SUBSET below[b] /\ a \in below[b] /\ a \notin below[a]
    BY <1>3
  <2>2. Cardinality(below[a]) <= Cardinality(below[b]) /\ Cardinality(below[a]) # Cardinality(below[b])
    BY <1>1, <2>1, FS_Subset
  <2> QED
    BY <1>1, <2>2
<1>4. rank \in Injection(S, 0..N - 1)
  <2>1. rank \in [S -> 0..N - 1]
    BY <1>2, <1>11
  <2>2. ASSUME NEW a \in S, NEW b \in S, rank[a] = rank[b] PROVE a = b
    <3> SUFFICES ASSUME a # b PROVE FALSE
      OBVIOUS
    <3>1. rank[a] < rank[b] \/ rank[b] < rank[a]
      BY <1>3
    <3>2. rank[a] \in Nat /\ rank[b] \in Nat
      BY <1>1
    <3> QED
      BY <2>2, <3>1, <3>2
  <2> QED
    BY <2>1, <2>2 DEF Injection, IsInjective
<1>5. IsFiniteSet(0..N - 1) /\ Cardinality(0..N - 1) = N
  <2>1. 0 \in Int /\ N - 1 \in Int
    BY <1>0
  <2>2. Cardinality(0..N - 1) = IF 0 > N - 1 THEN 0 ELSE (N - 1) - 0 + 1
    BY <2>1, FS_Interval
  <2> QED
    BY <1>0, <2>1, <2>2, FS_Interval
<1>6. rank \in Surjection(S, 0..N - 1)
  BY <1>4, <1>5, FS_Injection
<1>7. \A i \in 0..N - 1 : \E b \in S : rank[b] = i
  BY <1>6 DEF Surjection
<1> QED
  BY <1>1, <1>2, <1>3, <1>7 DEF N

\* Before is an order of the headers held: no two are level in height, best chain and hash
\* (save).
LEMMA BeforeOrders ==
  ASSUME IsTree(headers)
  PROVE  /\ \A a \in Held : ~Before(a, a)
         /\ \A a, b \in Held : a # b => Before(a, b) \/ Before(b, a)
         /\ \A a, b, c \in Held : Before(a, b) /\ Before(b, c) => Before(a, c)
         /\ \A a, b \in Held : Before(a, b) => headers[a].height <= headers[b].height
         /\ \A a, b \in Held :
              Before(a, b) /\ headers[a].height = headers[b].height /\ (\E i \in DOMAIN best_chain : best_chain[i] = b) =>
                \E i \in DOMAIN best_chain : best_chain[i] = a
<1> DEFINE Apart == {x \in Held : \A i \in DOMAIN best_chain : best_chain[i] # x}
<1>1. \A a, b \in Held :
        Before(a, b) <=> \/ headers[a].height < headers[b].height
                         \/ /\ headers[a].height = headers[b].height
                            /\ \/ a \notin Apart /\ b \in Apart
                               \/ (a \in Apart <=> b \in Apart) /\ HashOrder[a] < HashOrder[b]
  BY DEF Before
<1>2. \A a \in Held : a \notin Apart <=> \E i \in DOMAIN best_chain : best_chain[i] = a
  OBVIOUS
<1> HIDE DEF Apart
<1>3. \A a \in Held : headers[a].height \in Nat /\ HashOrder[a] \in Nat
  BY TreeAssumption DEF IsTree, Held
<1>4. \A a, b \in Held : HashOrder[a] = HashOrder[b] => a = b
  BY TreeAssumption DEF IsTree, Held
<1>5. \A a \in Held : ~Before(a, a)
  BY <1>1, <1>3
<1>6. ASSUME NEW a \in Held, NEW b \in Held, a # b PROVE Before(a, b) \/ Before(b, a)
  <2>1. HashOrder[a] < HashOrder[b] \/ HashOrder[b] < HashOrder[a]
    BY <1>3, <1>4, <1>6
  <2>2. \/ headers[a].height < headers[b].height
        \/ headers[b].height < headers[a].height
        \/ headers[a].height = headers[b].height
    BY <1>3
  <2> QED
    BY <1>1, <2>1, <2>2
<1>7. ASSUME NEW a \in Held, NEW b \in Held, NEW c \in Held, Before(a, b), Before(b, c) PROVE Before(a, c)
  BY <1>1, <1>3, <1>7
<1>8. ASSUME NEW a \in Held, NEW b \in Held, Before(a, b) PROVE headers[a].height <= headers[b].height
  BY <1>1, <1>3, <1>8
<1>9. ASSUME NEW a \in Held, NEW b \in Held, Before(a, b), headers[a].height = headers[b].height, b \notin Apart
      PROVE  a \notin Apart
  BY <1>1, <1>3, <1>9
<1> QED
  BY <1>2, <1>5, <1>6, <1>7, <1>8, <1>9

\* What save writes: every header once, parents first, and the tip before the others at its
\* height (save).
LEMMA RecordsAre ==
  ASSUME BestInv, EntryInv, lock = Free
  PROVE  Listing(Records, Held, tip) /\ Len(Records) = Cardinality(Held)
<1> DEFINE below == [b \in Held |-> {x \in Held : Before(x, b)}]
           rank(b) == Cardinality(below[b])
           N == Cardinality(Held)
<1>1. IsTree(headers) /\ tip \in Held /\ best_chain = ChainOf[tip] /\ Held \subseteq Blocks /\ tip \in Blocks
  BY DEF BestInv, SyncTree, TreeInv, TipHasMostWork, Free, IsTree, Held
<1>2. IsFiniteSet(Held) /\ N \in Nat
  BY <1>1, FS_Subset, FS_CardinalityType, TreeAssumption
<1>3. /\ below \in [Held -> SUBSET Held] /\ \A a, b \in Held : a \in below[b] <=> Before(a, b)
      /\ \A b \in Held : below[b] = {x \in Held : Before(x, b)}
  OBVIOUS
<1>4. Records = [i \in 1..N |-> CHOOSE b \in Held : Cardinality({x \in Held : Before(x, b)}) = i - 1]
  BY DEF Records
<1> HIDE DEF below
<1>5. /\ \A a \in Held : a \notin below[a]
      /\ \A a, b \in Held : a # b => a \in below[b] \/ b \in below[a]
      /\ \A a, b, c \in Held : a \in below[b] /\ b \in below[c] => a \in below[c]
  BY <1>1, <1>3, BeforeOrders
<1>7. /\ \A b \in Held : rank(b) \in 0..N - 1
      /\ \A a, b \in Held : a \in below[b] => rank(a) < rank(b)
      /\ \A i \in 0..N - 1 : \E b \in Held : rank(b) = i
  BY <1>2, <1>3, <1>5, Ranks
<1>8. \A i \in 1..N : Records[i] \in Held /\ rank(Records[i]) = i - 1
  <2> SUFFICES ASSUME NEW i \in 1..N PROVE Records[i] \in Held /\ rank(Records[i]) = i - 1
    OBVIOUS
  <2>1. i - 1 \in 0..N - 1
    BY <1>2
  <2>2. \E b \in Held : Cardinality({x \in Held : Before(x, b)}) = i - 1
    BY <1>3, <1>7, <2>1
  <2>3. Records[i] = CHOOSE b \in Held : Cardinality({x \in Held : Before(x, b)}) = i - 1
    BY <1>4
  <2>4. Records[i] \in Held /\ Cardinality({x \in Held : Before(x, Records[i])}) = i - 1
    BY <2>2, <2>3, Zenon
  <2> QED
    BY <1>3, <2>4
<1> HIDE DEF rank, N
<1>9. Records \in Seq(Held) /\ Len(Records) = N
  <2>1. Records \in [1..N -> Held]
    BY <1>4, <1>8
  <2>2. \A n \in Nat : \A s \in [1..n -> Held] : s \in Seq(Held) /\ Len(s) = n
    OBVIOUS
  <2> QED
    BY <1>2, <2>1, <2>2
<1>10. ASSUME NEW a \in Held, NEW b \in Held, rank(a) <= rank(b) PROVE a = b \/ Before(a, b)
  <2>1. rank(a) \in Int /\ rank(b) \in Int
    BY <1>7
  <2>2. b \notin below[a]
    BY <1>7, <1>10, <2>1
  <2> QED
    BY <1>3, <1>5, <2>2
<1>11. ASSUME NEW b \in Held PROVE \E i \in 1..N : Records[i] = b
  <2> DEFINE i == rank(b) + 1
  <2>1. i \in 1..N /\ i - 1 = rank(b)
    BY <1>2, <1>7
  <2>2. Records[i] \in Held /\ rank(Records[i]) = rank(b)
    BY <1>8, <2>1
  <2> HIDE DEF i
  <2>3. rank(b) \in Int
    BY <1>7
  <2>4. Records[i] = b
    <3>1. rank(Records[i]) <= rank(b) /\ rank(b) <= rank(Records[i])
      BY <2>2, <2>3
    <3>2. ~(Before(b, Records[i]) /\ Before(Records[i], b))
      BY <1>1, <2>2, BeforeOrders
    <3> QED
      BY <1>10, <2>2, <3>1, <3>2
  <2> QED
    BY <2>1, <2>4
<1>12. ASSUME NEW i \in 1..N, NEW j \in 1..N, i < j
       PROVE  /\ Records[i] # Records[j]
              /\ Height[Records[i]] <= Height[Records[j]]
              /\ Height[Records[i]] = Height[Records[j]] => Records[j] # tip
  <2> DEFINE a == Records[i]
             b == Records[j]
  <2>1. a \in Held /\ b \in Held /\ rank(a) = i - 1 /\ rank(b) = j - 1
    BY <1>8
  <2> HIDE DEF a, b
  <2>2. a # b /\ rank(a) <= rank(b)
    BY <1>2, <1>12, <2>1
  <2>3. Before(a, b)
    BY <1>10, <2>1, <2>2
  <2>4. headers[a].height = Height[a] /\ headers[b].height = Height[b]
    BY <1>1, <2>1, HeldHeight DEF Held
  <2>5. Height[a] <= Height[b]
    BY <1>1, <2>1, <2>3, <2>4, BeforeOrders
  <2>6. ASSUME Height[a] = Height[b], b = tip PROVE FALSE
    <3>1. OnChain(b, tip)
      BY <1>1, <2>6, OnItsChain
    <3>2. \E k \in DOMAIN best_chain : best_chain[k] = b
      BY <1>1, <3>1 DEF OnChain
    <3>3. \E k \in DOMAIN best_chain : best_chain[k] = a
      BY <1>1, <2>1, <2>3, <2>4, <2>6, <3>2, BeforeOrders
    <3>4. OnChain(a, tip)
      BY <1>1, <3>3 DEF OnChain
    <3>5. a = b
      BY <1>1, <2>6, <3>1, <3>4, OneAtAHeight
    <3> QED
      BY <2>2, <3>5
  <2> QED
    BY <2>2, <2>5, <2>6 DEF a, b
<1> QED
  BY <1>9, <1>11, <1>12 DEF Listing, N

\* The tree that save writes can be loaded again as it is.
LEMMA ViewIsWhole ==
  ASSUME BestInv, EntryInv, lock = Free
  PROVE  IsWhole(View)
<1>1. /\ IsTree(headers) /\ tip \in Held /\ best_chain = ChainOf[tip] /\ Held \subseteq Blocks
      /\ reached \in Int /\ OneChain(headers, reached) /\ TipHasMostWork
      /\ \A c \in Checkpoints : c.height = reached => Height[c.hash] = reached
      /\ reached = -1 \/ \E c \in Checkpoints : c.height = reached
  BY DEF BestInv, SyncTree, TreeInv, TipHasMostWork, Free, IsTree, Held
<1>2. /\ View.headers = headers /\ View.tip = tip /\ View.best_chain = best_chain
      /\ View.reached = reached /\ DOMAIN headers = Held
      /\ View = [headers |-> headers, tip |-> tip, best_chain |-> best_chain, reached |-> reached]
  BY DEF View, Held
<1>3. \A b \in Held : headers[b].chain_work = ChainWork[b] /\ headers[b].height = Height[b]
  BY DEF EntryInv, EntriesOf
<1>4. \A b \in Held : ChainWork[b] <= ChainWork[tip]
  BY <1>1, <1>3 DEF TipHasMostWork
<1>5. ASSUME NEW d \in Held, Named(d), NEW x \in Held, Height[x] <= Height[d] PROVE OnChain(x, d)
  <2>1. Height[d] <= reached /\ Height[d] \in Nat /\ Height[x] \in Nat
    BY <1>1, <1>5, HeightIs DEF EntryInv
  <2>2. PICK c \in Checkpoints : c.height = reached
    BY <1>1, <2>1
  <2>3. /\ c.hash \in Held /\ c.hash \in Blocks
        /\ {b \in Held : headers[b].height <= reached} = Ancestry(headers, c.hash)
    BY <1>1, <2>2 DEF OneChain, Held
  <2>4. x \in Ancestry(headers, c.hash) /\ d \in Ancestry(headers, c.hash)
    <3>1. headers[x].height <= reached /\ headers[d].height <= reached
      BY <1>1, <1>3, <1>5, <2>1
    <3> QED
      BY <2>3, <3>1
  <2>5. OnChain(x, c.hash) /\ OnChain(d, c.hash)
    BY <1>1, <2>3, <2>4, AncestryIsChain DEF Held
  <2> QED
    BY <1>5, <2>3, <2>5, OnChainOrder
<1>6. ASSUME reached # -1 PROVE \E d \in Held : Named(d) /\ Height[d] = reached
  <2>1. PICK c \in Checkpoints : c.height = reached
    BY <1>1, <1>6
  <2>2. c.hash \in Held /\ Height[c.hash] = reached
    BY <1>1, <2>1 DEF OneChain, Held
  <2>3. Named(c.hash)
    BY <2>1, <2>2 DEF Named, IsCheckpoint
  <2> QED
    BY <2>2, <2>3
<1>7. headers = EntriesOf(Held) /\ (\A b \in Held \ {Genesis} : Sound(b)) /\ \A b \in Held : Named(b) => Height[b] <= reached
  BY DEF EntryInv
<1> HIDE DEF View
<1> QED
  BY <1>1, <1>2, <1>4, <1>5, <1>6, <1>7 DEF IsWhole

\* A header read back of a file that holds a whole tree enters: its parent has, no
\* checkpoint reached is as high, and one it is itself prunes nothing (load).
LEMMA ReadBack ==
  ASSUME SyncTree, EntryInv, NEW v, IsWhole(v), NEW list, Listing(list, DOMAIN v.headers, v.tip),
         NEW k \in Nat, k < Len(list), Held = {Genesis} \cup {list[i] : i \in 1..k},
         NEW b, b = list[k + 1], insert_inner(b), Following(v), pruned = FALSE
  PROVE  /\ Held' = {Genesis} \cup {list[i] : i \in 1..(k + 1)} /\ Following(v)'
         /\ pruned' = FALSE
<1> DEFINE D == DOMAIN v.headers
<1>1. /\ IsTree(headers) /\ reached \in Int /\ IsList(rejected) /\ OneChain(headers, reached)
      /\ tip \in Held
      /\ \A c \in Checkpoints : c.height = reached => Height[c.hash] = reached
      /\ reached = -1 \/ \E c \in Checkpoints : c.height = reached
  BY DEF SyncTree, TreeInv, TipHasMostWork
<1>2. /\ IsTree(v.headers) /\ D \subseteq Blocks /\ Genesis \in D
      /\ \A x \in D \ {Genesis} : Parent[x] \in D
      /\ \A x \in D \ {Genesis} : Sound(x)
      /\ v.tip \in D /\ \A x \in D : ChainWork[x] <= ChainWork[v.tip]
      /\ \A d \in D : Named(d) => \A x \in D : Height[x] <= Height[d] => OnChain(x, d)
  BY DEF IsWhole, IsTree
<1>3. /\ list \in Seq(D) /\ Len(list) \in Nat
      /\ \A x \in D : \E i \in 1..Len(list) : list[i] = x
      /\ \A i, j \in 1..Len(list) : i < j =>
           /\ list[i] # list[j]
           /\ Height[list[i]] <= Height[list[j]]
           /\ Height[list[i]] = Height[list[j]] => list[j] # v.tip
  BY LenProperties DEF Listing
<1>4. k + 1 \in 1..Len(list) /\ \A i \in 1..k : i \in 1..Len(list) /\ i < k + 1
  BY <1>3
<1>5. b \in D /\ \A i \in 1..Len(list) : list[i] \in D
  BY <1>3, <1>4, ElementOfSeq
<1>6. Held \subseteq D
  BY <1>2, <1>4, <1>5
<1>7. {Genesis} \cup {list[i] : i \in 1..(k + 1)} = Held \cup {b}
  <2>1. \A i : i \in 1..(k + 1) <=> i \in 1..k \/ i = k + 1
    OBVIOUS
  <2> QED
    BY <2>1
<1>8. \A x \in D : Height[x] \in Nat /\ ChainWork[x] \in Nat
  BY <1>2, HeightIs, ChainWorkIs
<1>9. \A x \in Held : Height[x] <= Height[b]
  <2> SUFFICES ASSUME NEW x \in Held PROVE Height[x] <= Height[b]
    OBVIOUS
  <2>1. CASE x = Genesis
    BY <1>5, <1>8, <2>1, HeightIs
  <2>2. CASE \E i \in 1..k : x = list[i]
    BY <1>3, <1>4, <2>2
  <2> QED
    BY <2>1, <2>2
<1> HIDE DEF D
<1>10. CASE b = Genesis
  <2>1. b \in Held
    BY <1>10
  <2>2. UNCHANGED <<headers, tip, pruned>>
    BY <2>1 DEF insert_inner, Verdict, tree
  <2> QED
    BY <1>7, <2>1, <2>2 DEF Following, Held, LowestTip
<1>11. CASE b # Genesis
  <2>1. b \notin Held
    BY <1>3, <1>4, <1>11
  <2>2. Parent[b] \in D /\ Height[b] = Height[Parent[b]] + 1 /\ b \in Blocks \ {Genesis}
    BY <1>2, <1>5, <1>11, HeightIs
  <2>3. Parent[b] \in Held
    <3>1. PICK i \in 1..Len(list) : list[i] = Parent[b]
      BY <1>3, <2>2
    <3>2. Height[Parent[b]] < Height[b]
      BY <1>8, <2>2
    <3>3. ~(k + 1 <= i)
      <4> SUFFICES ASSUME k + 1 <= i PROVE FALSE
        OBVIOUS
      <4>1. Height[b] <= Height[Parent[b]]
        <5>1. CASE i = k + 1
          BY <1>8, <2>2, <3>1, <5>1
        <5>2. CASE k + 1 < i
          BY <1>3, <1>4, <3>1, <5>2
        <5> QED
          BY <5>1, <5>2
      <4> QED
        BY <1>5, <1>8, <2>2, <3>2, <4>1
    <3>4. i \in 1..k
      BY <1>3, <3>3
    <3> QED
      BY <3>1, <3>4
  <2>4. headers[Parent[b]].height + 1 = Height[b] /\ headers[Parent[b]].chain_work + Work[b] = ChainWork[b]
    BY <2>2, <2>3, ChainWorkIs DEF EntryInv, EntriesOf
  <2>5. Sound(b)
    BY <1>2, <1>5, <1>11
  <2>6. Height[b] > reached
    <3>1. CASE reached = -1
      BY <1>5, <1>8, <3>1
    <3>2. CASE reached # -1
      <4>1. PICK c \in Checkpoints : c.height = reached
        BY <1>1, <3>2
      <4>2. c.hash \in Held /\ Height[c.hash] = reached
        BY <1>1, <4>1 DEF OneChain, Held
      <4>3. reached <= Height[b]
        BY <1>9, <4>2
      <4>4. reached # Height[b]
        BY <2>1, <2>5, <4>1, <4>2 DEF Sound
      <4> QED
        BY <1>1, <1>5, <1>8, <4>3, <4>4
    <3> QED
      BY <3>1, <3>2
  <2>7. Verdict(b) = "ok"
    <3>1. validate_header(b, Height[b]) = "ok"
      BY <1>1, <1>5, <1>8, <2>5, <2>6 DEF validate_header, Sound
    <3> QED
      BY <2>1, <2>3, <2>4, <3>1 DEF Verdict
  <2>8. Accept(b)
    BY <2>7, SMTT(30) DEF insert_inner
  <2> DEFINE entry == [height     |-> headers[Parent[b]].height + 1,
                       chain_work |-> headers[Parent[b]].chain_work + Work[b]]
             map   == [x \in Held \cup {b} |-> IF x = b THEN entry ELSE headers[x]]
             noted == IsCheckpoint(b, entry.height) /\ entry.height > reached
             stay  == IF noted THEN Survivors(map, b) ELSE DOMAIN map
  <2>9. headers' = [x \in stay |-> map[x]] /\ pruned' = (pruned \/ stay # DOMAIN map)
    BY <2>8 DEF Accept
  <2>10. \E t \in IF tip \in stay THEN {tip} ELSE MostWork(map, stay) :
            tip' = IF Overtakes(map, b, t) THEN b ELSE t
    BY <2>8, Zenon DEF Accept
  <2>11. IsTree(map) /\ DOMAIN map = Held \cup {b}
    BY <1>1, <2>1, <2>2, <2>3, Grown DEF Held
  <2>12. entry.height = Height[b] /\ map[b].chain_work = ChainWork[b] /\ map[tip].chain_work = ChainWork[tip]
    BY <1>1, <2>1, <2>4 DEF EntryInv, EntriesOf
  <2> HIDE DEF map, entry
  <2>13. stay = DOMAIN map
    <3> SUFFICES ASSUME noted PROVE Survivors(map, b) = DOMAIN map
      OBVIOUS
    <3> DEFINE retained == {x \in DOMAIN map : map[x].height > map[b].height \/ x \in Ancestry(map, b)}
    <3>1. Named(b)
      BY <2>12 DEF Named
    <3>2. ASSUME NEW x \in DOMAIN map PROVE x \in Ancestry(map, b)
      <4>1. x \in D /\ Height[x] <= Height[b]
        BY <1>5, <1>6, <1>8, <1>9, <2>11
      <4>2. OnChain(x, b)
        BY <1>2, <1>5, <3>1, <4>1
      <4> QED
        BY <2>11, <4>2, AncestryIsChain
    <3>3. DOMAIN map \in SUBSET retained /\ ParentClosed(DOMAIN map)
      BY <2>11, <3>2 DEF IsTree, ParentClosed
    <3>4. Survivors(map, b) = UNION {S \in SUBSET retained : ParentClosed(S)}
      BY DEF Survivors
    <3>5. retained \subseteq DOMAIN map
      OBVIOUS
    <3> HIDE DEF retained
    <3> QED
      BY <3>3, <3>4, <3>5
  <2>14. Held' = Held \cup {b}
    BY <2>9, <2>11, <2>13 DEF Held
  <2>15. tip' = IF ChainWork[b] > ChainWork[tip] THEN b ELSE tip
    BY <1>1, <2>10, <2>11, <2>12, <2>13 DEF Overtakes
  <2>16. ASSUME LowestTip(v)
         PROVE  IF v.tip \in Held' THEN tip' = v.tip ELSE ChainWork[tip'] < ChainWork[v.tip]
    <3>0. IF v.tip \in Held THEN tip = v.tip ELSE ChainWork[tip] < ChainWork[v.tip]
      BY <2>16 DEF Following
    <3>1. ChainWork[b] \in Nat /\ ChainWork[tip] \in Nat /\ ChainWork[v.tip] \in Nat /\ ChainWork[b] <= ChainWork[v.tip]
      BY <1>1, <1>2, <1>5, <1>6, <1>8
    <3>2. CASE v.tip \in Held
      BY <2>1, <2>14, <2>15, <3>0, <3>1, <3>2
    <3>3. CASE v.tip = b
      BY <2>1, <2>14, <2>15, <3>0, <3>1, <3>3
    <3>4. CASE v.tip \notin Held /\ v.tip # b
      <4>1. ChainWork[b] # ChainWork[v.tip]
        <5> SUFFICES ASSUME ChainWork[b] = ChainWork[v.tip] PROVE FALSE
          OBVIOUS
        <5>1. Height[v.tip] <= Height[b]
          BY <1>5, <2>16 DEF LowestTip, D
        <5>2. PICK i \in 1..Len(list) : list[i] = v.tip
          BY <1>2, <1>3
        <5>3. k + 1 < i
          <6>1. ~(i \in 1..k) /\ i # k + 1
            BY <3>4, <5>2
          <6> QED
            BY <1>3, <6>1
        <5>4. Height[b] <= Height[v.tip] /\ Height[b] # Height[v.tip]
          BY <1>3, <1>4, <5>2, <5>3
        <5> QED
          BY <1>2, <1>5, <1>8, <5>1, <5>4
      <4> QED
        BY <2>14, <2>15, <3>0, <3>1, <3>4, <4>1
    <3> QED
      BY <3>2, <3>3, <3>4
  <2>17. pruned' = FALSE
    BY <2>9, <2>13
  <2> QED
    BY <1>7, <2>14, <2>16, <2>17 DEF Following, LowestTip
<1> QED
  BY <1>10, <1>11

\* The last checkpoint reached is the highest whose block is held, so two trees with the
\* same blocks have reached the same one.
LEMMA ReachedIs ==
  ASSUME SyncTree, EntryInv, NEW v, IsWhole(v), Held = DOMAIN v.headers
  PROVE  reached = v.reached
<1>1. /\ reached \in Int /\ OneChain(headers, reached) /\ Held \subseteq Blocks
      /\ \A c \in Checkpoints : c.height = reached => Height[c.hash] = reached
      /\ reached = -1 \/ \E c \in Checkpoints : c.height = reached
  BY DEF SyncTree, TreeInv, IsTree, Held
<1>2. /\ v.reached \in Int
      /\ \A d \in Held : Named(d) => Height[d] <= reached /\ Height[d] <= v.reached
      /\ v.reached = -1 \/ \E d \in Held : Named(d) /\ Height[d] = v.reached
  BY DEF IsWhole, EntryInv
<1>3. reached = -1 \/ \E d \in Held : Named(d) /\ Height[d] = reached
  <2> SUFFICES ASSUME reached # -1 PROVE \E d \in Held : Named(d) /\ Height[d] = reached
    OBVIOUS
  <2>1. PICK c \in Checkpoints : c.height = reached
    BY <1>1
  <2>2. c.hash \in Held /\ Height[c.hash] = reached
    BY <1>1, <2>1 DEF OneChain, Held
  <2>3. Named(c.hash)
    BY <2>1, <2>2 DEF Named, IsCheckpoint
  <2> QED
    BY <2>2, <2>3
<1>4. \A d \in Held : Height[d] \in Nat
  BY <1>1, HeightIs
<1> QED
  BY <1>1, <1>2, <1>3, <1>4

\* The tree with genesis alone.
LEMMA GenesisEntries ==
  /\ GenesisTree = EntriesOf({Genesis})
  /\ Named(Genesis) => Height[Genesis] <= GenesisReached
<1>1. Height[Genesis] = 0 /\ ChainWork[Genesis] = Work[Genesis]
  BY HeightIs, ChainWorkIs
<1> QED
  BY <1>1 DEF GenesisTree, EntriesOf, Named, GenesisReached

\* A file that holds a whole tree is about to be read (load).
LEMMA ReadStarts ==
  ASSUME Restart, NEW v, SavedIs(v)
  PROVE  SavedIs(v)'
<1>1. /\ headers' = GenesisTree /\ tip' = Genesis /\ file' = file /\ pruned' = FALSE
      /\ lock' = [Free EXCEPT !.by = IF file.partial THEN "down" ELSE "load", !.left = file.records]
  BY DEF Restart
<1>2. IsWhole(v) /\ ~file.partial /\ Listing(file.records, DOMAIN v.headers, v.tip)
  BY DEF SavedIs
<1>3. lock'.by = "load" /\ lock'.left = file.records
  BY <1>1, <1>2 DEF Free
<1>4. /\ file.records \in Seq(DOMAIN v.headers) /\ DOMAIN v.headers \subseteq Blocks /\ Genesis \in DOMAIN v.headers
      /\ v.tip \in DOMAIN v.headers
      /\ \A x \in DOMAIN v.headers : ChainWork[x] <= ChainWork[v.tip]
  BY <1>2 DEF IsWhole, Listing, IsTree
<1>5. file.records \in Seq(Blocks) /\ Len(file.records) \in Nat
  BY <1>4, SeqMonotonic, LenProperties
<1>6. Held' = {Genesis}
  BY <1>1 DEF Held, GenesisTree
<1>7. Following(v)'
  <2> SUFFICES ASSUME LowestTip(v), v.tip # Genesis PROVE ChainWork[Genesis] < ChainWork[v.tip]
    BY <1>1, <1>6 DEF Following, LowestTip
  <2>1. v.tip \in Blocks \ {Genesis} /\ Genesis \in Blocks
    BY <1>4
  <2>2. Height[v.tip] = Height[Parent[v.tip]] + 1 /\ Height[Genesis] = 0 /\ Height[Parent[v.tip]] \in Nat
    BY <2>1, HeightIs, TreeAssumption
  <2>3. ChainWork[Genesis] <= ChainWork[v.tip] /\ ChainWork[Genesis] \in Nat /\ ChainWork[v.tip] \in Nat
    BY <1>4, <2>1, ChainWorkIs
  <2>4. ChainWork[Genesis] # ChainWork[v.tip]
    BY <1>4, <2>2 DEF LowestTip
  <2> QED
    BY <2>3, <2>4
<1>8. Loading(v, 0)'
  <2>1. Len(file.records) = Len(file.records) - 0
    BY <1>5
  <2>2. \A i \in 1..Len(file.records) : 0 + i = i
    BY <1>5
  <2>3. {Genesis} = {Genesis} \cup {file.records[i] : i \in 1..0}
    OBVIOUS
  <2> QED
    BY <1>1, <1>3, <1>5, <1>6, <1>7, <2>1, <2>2, <2>3 DEF Loading, Following, Held, LowestTip
<1>9. 0 \in 0..Len(file.records)
  BY <1>5
<1> QED
  BY <1>1, <1>2, <1>3, <1>8, <1>9 DEF SavedIs, IsWhole, Listing, EntriesOf, Sound, Named

\* One more header of the file is read (load).
LEMMA ReadsOn ==
  ASSUME BestInv, EntryInv, InsertOne, lock.by = "load", NEW v, SavedIs(v)
  PROVE  SavedIs(v)'
<1>1. IsWhole(v) /\ ~file.partial /\ Listing(file.records, DOMAIN v.headers, v.tip) /\ SyncTree /\ IsLock
  BY DEF SavedIs, BestInv
<1>2. PICK k \in 0..Len(file.records) : Loading(v, k)
  BY DEF SavedIs
<1> DEFINE left == lock.left
           list == file.records
           b == Head(left)
<1>3. /\ insert_inner(b) /\ left # <<>> /\ file' = file
  BY DEF InsertOne
<1>4. PICK n, e : lock' = [lock EXCEPT !.left = Tail(@), !.accepted = n, !.err = e]
  BY Zenon DEF InsertOne
<1>5. lock'.by = "load" /\ lock'.left = Tail(left)
  BY <1>1, <1>4 DEF IsLock
<1>6. /\ left \in Seq(Blocks) /\ Len(left) = Len(list) - k
      /\ \A i \in 1..Len(left) : left[i] = list[k + i]
      /\ Held = {Genesis} \cup {list[i] : i \in 1..k} /\ Following(v) /\ pruned = FALSE
  BY <1>2 DEF Loading
<1>7. list \in Seq(DOMAIN v.headers) /\ Len(list) \in Nat /\ k \in Nat
  BY <1>1, LenProperties DEF Listing
<1>8. Len(left) \in Nat \ {0} /\ k < Len(list)
  BY <1>3, <1>6, <1>7, EmptySeq
<1>9. b = list[k + 1]
  <2>1. b = left[1] /\ 1 \in 1..Len(left)
    BY <1>3, <1>6, <1>8
  <2> HIDE DEF left, list, b
  <2> QED
    BY <1>6, <2>1
<1>10. /\ Tail(left) \in Seq(Blocks) /\ Len(Tail(left)) = Len(left) - 1
       /\ \A i \in 1..Len(Tail(left)) : Tail(left)[i] = left[i + 1]
  BY <1>3, <1>6, HeadTailProperties
<1> HIDE DEF left, list, b
<1>11. Held' = {Genesis} \cup {list[i] : i \in 1..(k + 1)} /\ Following(v)' /\ pruned' = FALSE
  BY <1>1, <1>3, <1>6, <1>7, <1>8, <1>9, ReadBack DEF list
<1>12. /\ Len(Tail(left)) = Len(list) - (k + 1)
       /\ \A i \in 1..Len(Tail(left)) : Tail(left)[i] = list[(k + 1) + i]
  <2>1. Len(Tail(left)) = Len(list) - (k + 1)
    BY <1>6, <1>7, <1>10
  <2>2. ASSUME NEW i \in 1..Len(Tail(left)) PROVE Tail(left)[i] = list[(k + 1) + i]
    <3>1. i + 1 \in 1..Len(left) /\ k + (i + 1) = (k + 1) + i
      BY <1>7, <1>8, <1>10
    <3> QED
      BY <1>6, <1>10, <3>1
  <2> QED
    BY <2>1, <2>2
<1>13. k + 1 \in 0..Len(file.records)
  BY <1>7, <1>8 DEF list
<1>14. Loading(v, k + 1)'
  <2>1. /\ lock'.left = Tail(left) /\ file'.records = list
    BY <1>3, <1>5 DEF list
  <2>2. Following(v)' /\ Held' = {Genesis} \cup {list[i] : i \in 1..(k + 1)} /\ pruned' = FALSE
    BY <1>11
  <2>3. Loading(v, k + 1)' <=>
          /\ lock'.left \in Seq(Blocks) /\ Len(lock'.left) = Len(file'.records) - (k + 1)
          /\ \A i \in 1..Len(lock'.left) : lock'.left[i] = file'.records[(k + 1) + i]
          /\ Held' = {Genesis} \cup {file'.records[i] : i \in 1..(k + 1)}
          /\ Following(v)' /\ pruned' = FALSE
    BY Zenon DEF Loading
  <2> QED
    BY <1>10, <1>12, <2>1, <2>2, <2>3
<1> QED
  BY <1>1, <1>3, <1>5, <1>13, <1>14 DEF SavedIs, IsWhole, Listing, EntriesOf, Sound, Named

\* The last record has been read, and the tree is what was saved (load).
LEMMA ReadEnds ==
  ASSUME BestInv, EntryInv, EndLoad, NEW v, SavedIs(v)
  PROVE  SavedIs(v)'
<1>1. /\ lock.by = "load" /\ lock.left = <<>> /\ lock' = Free
      /\ UNCHANGED <<headers, tip, reached, file>>
  BY DEF EndLoad
<1>2. IsWhole(v) /\ ~file.partial /\ Listing(file.records, DOMAIN v.headers, v.tip) /\ SyncTree
  BY DEF SavedIs, BestInv
<1>3. PICK k \in 0..Len(file.records) : Loading(v, k)
  BY <1>1 DEF SavedIs
<1>4. /\ file.records \in Seq(DOMAIN v.headers) /\ Len(file.records) \in Nat
      /\ \A b \in DOMAIN v.headers : \E i \in 1..Len(file.records) : file.records[i] = b
  BY <1>2, LenProperties DEF Listing
<1>5. k = Len(file.records) /\ Held = {Genesis} \cup {file.records[i] : i \in 1..k} /\ Following(v)
  <2>1. Len(lock.left) = 0 /\ Len(lock.left) = Len(file.records) - k
    BY <1>1, <1>3 DEF Loading
  <2> QED
    BY <1>3, <1>4, <2>1 DEF Loading
<1>6. Held = DOMAIN v.headers
  <2>1. Genesis \in DOMAIN v.headers
    BY <1>2 DEF IsWhole, IsTree
  <2>2. \A i \in 1..k : file.records[i] \in DOMAIN v.headers
    BY <1>4, <1>5, ElementOfSeq
  <2> QED
    BY <1>4, <1>5, <2>1, <2>2
<1>7. headers = v.headers /\ reached = v.reached
  <2>1. headers = EntriesOf(Held) /\ v.headers = EntriesOf(DOMAIN v.headers)
    BY <1>2 DEF EntryInv, IsWhole
  <2>2. headers = v.headers
    BY <1>6, <2>1
  <2> QED
    BY <1>2, <1>6, <2>2, ReachedIs
<1>8. LowestTip(v) => tip = v.tip
  <2>1. v.tip \in Held
    BY <1>2, <1>6 DEF IsWhole
  <2> QED
    BY <1>5, <2>1 DEF Following
<1>9. lock'.by = "nobody"
  BY <1>1 DEF Free
<1> QED
  BY <1>1, <1>2, <1>7, <1>8, <1>9 DEF SavedIs, IsWhole, Listing, EntriesOf, Sound, Named, LowestTip

\* Where nobody reads the file, a tree that is saved stays so until it changes.
LEMMA StaysSaved ==
  ASSUME NEW v, SavedIs(v), UNCHANGED file, lock.by \in {"nobody", "batch"}, lock'.by \in {"nobody", "batch"},
         dirty' = TRUE \/ UNCHANGED <<headers, tip, reached, dirty>>
  PROVE  SavedIs(v)'
<1>1. /\ IsWhole(v) /\ ~file'.partial /\ Listing(file'.records, DOMAIN v.headers, v.tip)
  BY DEF SavedIs
<1>2. ~dirty' => headers' = v.headers /\ reached' = v.reached /\ (LowestTip(v) => tip' = v.tip)
  BY DEF SavedIs
<1> QED
  BY <1>1, <1>2 DEF SavedIs, IsWhole, Listing, EntriesOf, Sound, Named, LowestTip

\* Writing the whole tree saves it (save).
LEMMA SaveSaves ==
  ASSUME BestInv, EntryInv, NEW n \in 0..Cardinality(Held), NEW partial \in BOOLEAN, save(n, partial),
         NEW v \in saved'
  PROVE  SavedIs(v)'
<1>1. /\ lock = Free /\ UNCHANGED <<headers, tip, best_chain, reached, lock>>
      /\ partial => n < Cardinality(Held)
      /\ file' = [records |-> SubSeq(Records, 1, n), partial |-> partial]
      /\ saved' = IF n = Cardinality(Held) THEN {View} ELSE {}
  BY DEF save
<1>2. n = Cardinality(Held) /\ v = View
  BY <1>1
<1>3. Listing(Records, Held, tip) /\ IsWhole(View) /\ Len(Records) = n
  BY <1>1, <1>2, RecordsAre, ViewIsWhole
<1>4. /\ View.headers = headers /\ View.tip = tip /\ View.reached = reached /\ DOMAIN headers = Held
  BY DEF View, Held
<1>5. SubSeq(Records, 1, n) = Records
  <2>1. Records \in Seq(Held)
    BY <1>3 DEF Listing
  <2>2. \A s \in Seq(Held) : SubSeq(s, 1, Len(s)) = s
    OBVIOUS
  <2> QED
    BY <1>3, <2>1, <2>2
<1>6. ~partial
  <2>1. n \in Nat
    BY <1>3, LenProperties DEF Listing
  <2> QED
    BY <1>1, <1>2, <2>1
<1>7. file'.records = Records /\ ~file'.partial
  BY <1>1, <1>5, <1>6
<1> HIDE DEF View
<1>8. /\ IsWhole(v) /\ Listing(file'.records, DOMAIN v.headers, v.tip)
      /\ headers' = v.headers /\ reached' = v.reached /\ tip' = v.tip
  BY <1>1, <1>2, <1>3, <1>4, <1>7
<1>9. lock'.by = "nobody"
  BY <1>1 DEF Free
<1> QED
  BY <1>7, <1>8, <1>9 DEF SavedIs, IsWhole, Listing, EntriesOf, Sound, Named, LowestTip

\* Every step keeps what is known of the tree and its file.
LEMMA SavedStep == BestInv /\ SavedInv /\ [Next]_vars => SavedInv'
<1> SUFFICES ASSUME BestInv, SavedInv, [Next]_vars PROVE SavedInv'
  OBVIOUS
<1>0. SyncTree /\ EntryInv /\ IsLock /\ \A v \in saved : SavedIs(v)
  BY DEF BestInv, SavedInv
<1>1. ASSUME UNCHANGED <<headers, reached>> PROVE EntryInv'
  BY <1>0, <1>1 DEF EntryInv, Held, EntriesOf, Sound, Named
<1>2. ASSUME UNCHANGED <<headers, tip, reached, pruned, dirty, lock, file, saved>> PROVE SavedInv'
  <2>1. \A v \in saved : SavedIs(v)'
    <3> SUFFICES ASSUME NEW v \in saved PROVE SavedIs(v)'
      OBVIOUS
    <3>1. SavedIs(v)
      BY <1>0
    <3>2. ASSUME NEW k \in 0..Len(file.records), Loading(v, k) PROVE Loading(v, k)'
      BY <1>2, <3>2 DEF Loading, Following, Held, LowestTip
    <3>3. lock'.by = "load" => \E k \in 0..Len(file'.records) : Loading(v, k)'
      BY <1>2, <3>1, <3>2 DEF SavedIs
    <3> QED
      BY <1>2, <3>1, <3>3 DEF SavedIs, IsWhole, Listing, EntriesOf, Sound, Named, LowestTip
  <2> QED
    BY <1>1, <1>2, <2>1 DEF SavedInv
<1>3. ASSUME UNCHANGED <<saved, file>>, EntryInv', lock.by \in {"nobody", "batch"}, lock'.by \in {"nobody", "batch"},
             dirty' = TRUE \/ UNCHANGED <<headers, tip, reached, dirty>>
      PROVE  SavedInv'
  <2>1. \A v \in saved : SavedIs(v)'
    BY <1>0, <1>3, StaysSaved
  <2> QED
    BY <1>3, <2>1 DEF SavedInv
<1>4. ASSUME NEW batch \in Batches, BeginBatch(batch) PROVE SavedInv'
  <2>1. lock.by = "nobody" /\ lock'.by = "batch"
    BY <1>4 DEF BeginBatch, Free
  <2> QED
    BY <1>1, <1>3, <1>4, <2>1 DEF BeginBatch, tree
<1>5. CASE InsertOne
  <2>1. /\ insert_inner(Head(lock.left)) /\ UNCHANGED <<file, saved>> /\ lock.by \in {"batch", "load"}
    BY <1>5 DEF InsertOne
  <2>2. EntryInv' /\ (dirty' = TRUE \/ UNCHANGED <<headers, tip, reached, dirty>>)
    BY <1>0, <2>1, InsertSound
  <2>3. CASE lock.by = "batch"
    <3>1. lock'.by = "batch"
      <4>1. PICK n, e : lock' = [lock EXCEPT !.left = Tail(@), !.accepted = n, !.err = e]
        BY <1>5, Zenon DEF InsertOne
      <4> QED
        BY <1>0, <2>3, <4>1 DEF IsLock
    <3> QED
      BY <1>3, <2>1, <2>2, <2>3, <3>1
  <2>4. CASE lock.by = "load"
    <3>1. \A v \in saved : SavedIs(v)'
      BY <1>0, <1>5, <2>4, ReadsOn
    <3> QED
      BY <2>1, <2>2, <3>1 DEF SavedInv
  <2> QED
    BY <2>1, <2>3, <2>4
<1>6. CASE EndBatch
  <2>1. lock.by = "batch" /\ lock'.by = "nobody"
    BY <1>6 DEF EndBatch, Free
  <2> QED
    BY <1>1, <1>3, <1>6, <2>1 DEF EndBatch
<1>7. ASSUME NEW b \in Announced, NEW proven \in BOOLEAN, recovery_due(b, proven) PROVE SavedInv'
  BY <1>2, <1>7 DEF recovery_due
<1>8. ASSUME NEW n \in 0..Cardinality(Held), NEW partial \in BOOLEAN, save(n, partial) PROVE SavedInv'
  <2>1. EntryInv'
    BY <1>1, <1>8 DEF save
  <2>2. \A v \in saved' : SavedIs(v)'
    BY <1>0, <1>8, SaveSaves
  <2> QED
    BY <2>1, <2>2 DEF SavedInv
<1>9. CASE Restart
  <2>1. headers' = GenesisTree /\ reached' = GenesisReached /\ saved' = saved
    BY <1>9 DEF Restart
  <2>2. Held' = {Genesis}
    BY <2>1 DEF Held, GenesisTree
  <2>3. EntryInv'
    BY <2>1, <2>2, GenesisEntries DEF EntryInv, EntriesOf, Named, Sound
  <2>4. \A v \in saved : SavedIs(v)'
    BY <1>0, <1>9, ReadStarts
  <2> QED
    BY <2>1, <2>3, <2>4 DEF SavedInv
<1>10. CASE EndLoad
  <2>1. UNCHANGED <<headers, reached, saved>>
    BY <1>10 DEF EndLoad
  <2>2. \A v \in saved : SavedIs(v)'
    BY <1>0, <1>10, ReadEnds
  <2> QED
    BY <1>1, <2>1, <2>2 DEF SavedInv
<1>11. CASE Advance
  BY <1>2, <1>11 DEF Advance, tree
<1>12. CASE UNCHANGED vars
  BY <1>2, <1>12 DEF vars
<1> QED
  BY <1>4, <1>5, <1>6, <1>7, <1>8, <1>9, <1>10, <1>11, <1>12 DEF Next

\* The process starts with nothing saved.
LEMMA SavedStarts == Init => SavedInv
<1> SUFFICES ASSUME Init PROVE SavedInv
  OBVIOUS
<1>1. headers = GenesisTree /\ reached = GenesisReached /\ saved = {}
  BY DEF Init
<1>2. Held = {Genesis}
  BY <1>1 DEF Held, GenesisTree
<1> QED
  BY <1>1, <1>2, GenesisEntries DEF SavedInv, EntryInv

\* Whatever is saved can be loaded as it is, and is while the process has not changed it.
LEMMA SavedInvariant == Spec => [](BestInv /\ SavedInv)
<1>1. Init => BestInv /\ SavedInv
  BY BestStarts, SavedStarts
<1>2. BestInv /\ SavedInv /\ [Next]_vars => (BestInv /\ SavedInv)'
  BY BestStep, SavedStep
<1> QED
  BY <1>1, <1>2, PTL DEF Spec

\* What a restart keeps of a tree with nothing to save, whatever the branches.
CleanTreeHasAll ==
  lock = Free /\ ~dirty =>
    \A view \in saved : headers = view.headers /\ reached = view.reached
                          /\ ChainWork[tip] = ChainWork[view.tip]

\* With nothing left to save, the tree is the one on disk but for the choice among tips of
\* equal work.
LEMMA NothingIsLost == BestInv /\ SavedInv => CleanTreeHasAll
<1> SUFFICES ASSUME BestInv, SavedInv, lock = Free, ~dirty, NEW v \in saved
             PROVE  headers = v.headers /\ reached = v.reached /\ ChainWork[tip] = ChainWork[v.tip]
  BY DEF CleanTreeHasAll
<1>1. SavedIs(v) /\ IsWhole(v) /\ headers = v.headers /\ reached = v.reached
  BY DEF SavedInv, SavedIs, Free
<1>2. Held = DOMAIN v.headers /\ Held \subseteq Blocks /\ tip \in Held
  BY <1>1 DEF Held, IsWhole, IsTree, BestInv, SyncTree, TreeInv, TipHasMostWork
<1>3. v.tip \in Held /\ ChainWork[tip] <= ChainWork[v.tip]
  BY <1>1, <1>2 DEF IsWhole
<1>4. ChainWork[v.tip] <= ChainWork[tip]
  BY <1>2, <1>3 DEF BestInv, SyncTree, TreeInv, TipHasMostWork, SavedInv, EntryInv, EntriesOf
<1>5. ChainWork[tip] \in Nat /\ ChainWork[v.tip] \in Nat
  BY <1>2, <1>3, ChainWorkIs
<1> QED
  BY <1>1, <1>3, <1>4, <1>5

\* What was saved whole is what a restart loads: the same headers and checkpoint, nothing
\* pruned and so nothing to save, and the same tip and best chain if no block lower than the
\* tip has as much work (load).
SavedIsLoaded ==
  [][EndLoad => \A view \in saved :
       /\ headers' = view.headers /\ reached' = view.reached /\ dirty' = FALSE
       /\ LowestTip(view) => View' = view]_vars

\* Loading what was saved accepts every header, whatever the branches (save, load).
THEOREM SavedComesBack == Spec => SavedIsLoaded
<1>1. ASSUME BestInv, SavedInv, EndLoad, NEW v \in saved
      PROVE  /\ headers' = v.headers /\ reached' = v.reached /\ dirty' = FALSE
             /\ LowestTip(v) => View' = v
  <2>1. SavedIs(v) /\ EntryInv /\ IsWhole(v)
    BY <1>1 DEF SavedInv, SavedIs
  <2>2. /\ lock' = Free /\ lock.by = "load" /\ dirty' = pruned /\ UNCHANGED <<headers, tip, reached>>
    BY <1>1 DEF EndLoad
  <2>3. dirty' = FALSE
    BY <2>1, <2>2 DEF SavedIs, Loading
  <2>4. SavedIs(v)'
    BY <1>1, <2>1, ReadEnds
  <2>5. headers' = v.headers /\ reached' = v.reached /\ (LowestTip(v) => tip' = v.tip)
    BY <2>2, <2>3, <2>4 DEF SavedIs, Free, LowestTip
  <2>6. BestInv'
    BY <1>1, BestStep DEF Next
  <2>7. best_chain' = ChainOf[tip']
    BY <2>2, <2>6 DEF BestInv, Free
  <2> QED
    BY <2>1, <2>3, <2>5, <2>7 DEF View, IsWhole
<1>2. BestInv /\ SavedInv /\ [Next]_vars =>
        [EndLoad => \A view \in saved :
           /\ headers' = view.headers /\ reached' = view.reached /\ dirty' = FALSE
           /\ LowestTip(view) => View' = view]_vars
  BY <1>1
<1> QED
  BY <1>2, SavedInvariant, PTL DEF Spec, SavedIsLoaded

\* In a tree that was saved, that the tip is the lowest says the same of its own fields.
LEMMA LowestTipIs == \A v : IsWhole(v) /\ TipIsLowest(v) => LowestTip(v)
<1> SUFFICES ASSUME NEW v, IsWhole(v), TipIsLowest(v) PROVE LowestTip(v)
  OBVIOUS
<1>1. v.headers = EntriesOf(DOMAIN v.headers) /\ v.tip \in DOMAIN v.headers
  BY DEF IsWhole
<1>2. \A b \in DOMAIN v.headers : v.headers[b].height = Height[b] /\ v.headers[b].chain_work = ChainWork[b]
  BY <1>1 DEF EntriesOf
<1> QED
  BY <1>1, <1>2 DEF TipIsLowest, LowestTip

\* With nothing left to save, the process has every header, the work and the checkpoint that
\* the last complete write saved, restarts included; and the tip and the best chain as well,
\* unless a block lower than the tip has as much work (save, load).
THEOREM CleanTreeIsLoaded == Spec => []CleanTreeIsTheSavedOne
<1>1. BestInv /\ SavedInv => CleanTreeIsTheSavedOne
  <2> SUFFICES ASSUME BestInv, SavedInv, lock = Free, ~dirty, NEW v \in saved
               PROVE  /\ headers = v.headers /\ reached = v.reached
                      /\ headers[tip].chain_work = headers[v.tip].chain_work
                      /\ TipIsLowest(v) => View = v
    BY DEF CleanTreeIsTheSavedOne
  <2>1. SavedIs(v) /\ IsWhole(v)
    BY DEF SavedInv, SavedIs
  <2>2. headers = v.headers /\ reached = v.reached /\ ChainWork[tip] = ChainWork[v.tip]
    BY NothingIsLost DEF CleanTreeHasAll
  <2>3. Held = DOMAIN v.headers /\ tip \in Held /\ v.tip \in Held
    BY <2>1, <2>2 DEF Held, IsWhole, BestInv, SyncTree, TreeInv, TipHasMostWork
  <2>4. headers[tip].chain_work = headers[v.tip].chain_work
    BY <2>2, <2>3 DEF SavedInv, EntryInv, EntriesOf
  <2>5. ASSUME TipIsLowest(v) PROVE View = v
    <3>1. tip = v.tip
      BY <2>1, <2>5, LowestTipIs DEF SavedIs, Free
    <3>2. best_chain = ChainOf[tip] /\ v.best_chain = ChainOf[v.tip]
      BY <2>1 DEF BestInv, Free, IsWhole
    <3> QED
      BY <2>1, <2>2, <3>1, <3>2 DEF View, IsWhole
  <2> QED
    BY <2>2, <2>4, <2>5
<1> QED
  BY <1>1, SavedInvariant, PTL
=============================================================================
