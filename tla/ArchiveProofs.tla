---------------------------- MODULE ArchiveProofs ----------------------------
(***************************************************************************)
(* The archives are the stream, for any messages, filter, size of a file,  *)
(* number of runs and faults, and however late the encoder passes on what  *)
(* it was given.                                                           *)
(***************************************************************************)
EXTENDS Archive, Integers, SequenceTheorems, WellFoundedInduction, TLAPS

----------------------------------------------------------------------------
(* One sequence after the other *)

\* A set of numbers with zero and every successor has them all.
LEMMA AllNumbers ==
  ASSUME NEW S \in SUBSET Nat, 0 \in S, \A n \in S : n + 1 \in S
  PROVE  S = Nat
<1>1. SUFFICES ASSUME Nat \ S # {} PROVE FALSE
  OBVIOUS
<1>2. PICK n \in Nat \ S : \A m \in Nat \ S : ~(<<m, n>> \in OpToRel(<, Nat))
  BY <1>1, WFMin, NatLessThanWellFounded
<1>3. n - 1 \in Nat /\ n - 1 < n /\ (n - 1) + 1 = n
  <2>1. n \in Nat /\ n # 0
    BY <1>2, Zenon
  <2> QED
    BY <2>1
<1>4. <<n - 1, n>> \in OpToRel(<, Nat)
  BY <1>2, <1>3 DEF OpToRel
<1>5. n - 1 \in S
  BY <1>2, <1>3, <1>4
<1> QED
  BY <1>2, <1>3, <1>5

\* The first n of some sequences put together, from the first on.
Flat(ss, n, f)  == f = [i \in 1..n |-> IF i = 1 THEN ss[i] ELSE f[i - 1] \o ss[i]]
Joins(ss, n, f) == \A i \in 1..n : f[i] = IF i = 1 THEN ss[i] ELSE f[i - 1] \o ss[i]

\* Each is the one before it with one more sequence at its end.
LEMMA FlatJoins ==
  ASSUME NEW ss, NEW n \in Nat, NEW f, Flat(ss, n, f)
  PROVE  Joins(ss, n, f)
BY Zenon DEF Flat, Joins

\* Any number of sequences can be put together.
LEMMA FlatExists ==
  ASSUME NEW ss, NEW n \in Nat
  PROVE  \E f : Flat(ss, n, f)
<1> DEFINE S == {k \in Nat : \E f : Flat(ss, k, f)}
<1>1. 0 \in S
  <2> DEFINE g == [i \in 1..0 |-> ss]
  <2>1. Flat(ss, 0, g)
    <3>1. 1..0 = {}
      OBVIOUS
    <3>2. g = [i \in 1..0 |-> IF i = 1 THEN ss[i] ELSE g[i - 1] \o ss[i]]
      BY <3>1, Zenon
    <3> HIDE DEF g
    <3> QED
      BY <3>2, Zenon DEF Flat
  <2> QED
    BY <2>1
<1>2. ASSUME NEW m \in S PROVE m + 1 \in S
  <2>1. m \in Nat /\ \E f : Flat(ss, m, f)
    OBVIOUS
  <2>2. PICK f : Flat(ss, m, f)
    BY <2>1
  <2> HIDE DEF S
  <2> DEFINE last == IF m = 0 THEN ss[1] ELSE f[m] \o ss[m + 1]
             g    == [i \in 1..(m + 1) |-> IF i = m + 1 THEN last ELSE f[i]]
  <2>3. ASSUME NEW i \in 1..(m + 1)
        PROVE  g[i] = IF i = 1 THEN ss[i] ELSE g[i - 1] \o ss[i]
    <3>1. \A j \in 1..m : f[j] = IF j = 1 THEN ss[j] ELSE f[j - 1] \o ss[j]
      BY <2>1, <2>2, FlatJoins DEF Joins
    <3>2. CASE i = m + 1
      <4>1. g[i] = last
        BY <3>2, Zenon
      <4>2. CASE m = 0
        BY <3>2, <4>1, <4>2
      <4>3. CASE m # 0
        <5>1. i - 1 = m /\ m \in 1..(m + 1) /\ m # m + 1 /\ i # 1
          BY <2>1, <3>2, <4>3
        <5>2. g[i - 1] = f[m] /\ last = f[m] \o ss[i]
          BY <3>2, <4>3, <5>1
        <5> HIDE DEF g, last
        <5> QED
          BY <4>1, <5>1, <5>2
      <4> QED
        BY <4>2, <4>3
    <3>3. CASE i # m + 1
      <4>1. i \in 1..m /\ (i # 1 => i - 1 \in 1..(m + 1) /\ i - 1 # m + 1)
        BY <2>1, <3>3
      <4>2. g[i] = f[i] /\ (i # 1 => g[i - 1] = f[i - 1])
        BY <3>3, <4>1
      <4> HIDE DEF g, last
      <4> QED
        BY <3>1, <4>1, <4>2
    <3> QED
      BY <3>2, <3>3
  <2>4. Flat(ss, m + 1, g)
    <3>1. g = [i \in 1..(m + 1) |-> g[i]]
      OBVIOUS
    <3> HIDE DEF g
    <3> QED
      BY <2>3, <3>1 DEF Flat
  <2> QED
    BY <2>1, <2>4 DEF S
<1> HIDE DEF S
<1>3. S = Nat
  <2>1. S \in SUBSET Nat
    BY DEF S
  <2> QED
    BY <1>1, <1>2, <2>1, AllNumbers
<1> QED
  BY <1>3 DEF S

\* What the same sequences begin with, put together, is the same.
LEMMA FlatAgrees ==
  ASSUME NEW ss, NEW tt, NEW m \in Nat, NEW n \in Nat, NEW f, NEW g,
         Joins(ss, m, f), Joins(tt, n, g), m <= n, \A i \in 1..m : ss[i] = tt[i]
  PROVE  \A i \in 1..m : f[i] = g[i]
<1> DEFINE S == {k \in Nat : k \in 1..m => f[k] = g[k]}
<1>1. 0 \in S
  OBVIOUS
<1>2. ASSUME NEW k \in S PROVE k + 1 \in S
  <2>1. k \in Nat /\ (k \in 1..m => f[k] = g[k])
    OBVIOUS
  <2> HIDE DEF S
  <2>2. CASE k + 1 \in 1..m
    <3>1. k + 1 \in 1..n /\ ss[k + 1] = tt[k + 1] /\ (k + 1) - 1 = k
      BY <2>1, <2>2
    <3>2. /\ f[k + 1] = IF k + 1 = 1 THEN ss[k + 1] ELSE f[(k + 1) - 1] \o ss[k + 1]
          /\ g[k + 1] = IF k + 1 = 1 THEN tt[k + 1] ELSE g[(k + 1) - 1] \o tt[k + 1]
      BY <2>2, <3>1, Zenon DEF Joins
    <3>3. k + 1 # 1 => f[k] = g[k]
      BY <2>1, <2>2
    <3> QED
      BY <2>1, <3>1, <3>2, <3>3 DEF S
  <2> QED
    BY <2>1, <2>2 DEF S
<1> HIDE DEF S
<1>3. S = Nat
  <2>1. S \in SUBSET Nat
    BY DEF S
  <2> QED
    BY <1>1, <1>2, <2>1, AllNumbers
<1> QED
  BY <1>3 DEF S

\* FlattenSeq is the last of these.
LEMMA FlattenIs ==
  ASSUME NEW T, NEW ss \in Seq(T), ss # <<>>
  PROVE  \E f : Joins(ss, Len(ss), f) /\ FlattenSeq(ss) = f[Len(ss)]
<1>1. Len(ss) \in Nat /\ Len(ss) # 0
  BY EmptySeq
<1> DEFINE F == CHOOSE f : Flat(ss, Len(ss), f)
<1>2. Flat(ss, Len(ss), F)
  BY <1>1, FlatExists
<1>3. FlattenSeq(ss) = F[Len(ss)]
  BY <1>1 DEF FlattenSeq, Flat
<1> HIDE DEF F
<1> QED
  BY <1>1, <1>2, <1>3, FlatJoins

\* There is nothing in no sequences.
LEMMA FlattenOfNone == FlattenSeq(<<>>) = <<>>
BY DEF FlattenSeq

\* Put together, sequences of messages are a sequence of messages.
LEMMA FlattenType ==
  ASSUME NEW T, NEW ss \in Seq(Seq(T))
  PROVE  FlattenSeq(ss) \in Seq(T)
<1>1. CASE ss = <<>>
  BY <1>1, FlattenOfNone, EmptySeq
<1>2. CASE ss # <<>>
  <2>1. PICK f : Joins(ss, Len(ss), f) /\ FlattenSeq(ss) = f[Len(ss)]
    BY <1>2, FlattenIs
  <2>2. Len(ss) \in Nat /\ Len(ss) # 0
    BY <1>2, EmptySeq
  <2> DEFINE S == {k \in Nat : k \in 1..Len(ss) => f[k] \in Seq(T)}
  <2>3. 0 \in S
    OBVIOUS
  <2>4. ASSUME NEW k \in S PROVE k + 1 \in S
    <3>1. k \in Nat /\ (k \in 1..Len(ss) => f[k] \in Seq(T))
      OBVIOUS
    <3> HIDE DEF S
    <3>2. CASE k + 1 \in 1..Len(ss)
      <4>1. ss[k + 1] \in Seq(T) /\ (k + 1) - 1 = k
        BY <3>1, <3>2
      <4>2. f[k + 1] = IF k + 1 = 1 THEN ss[k + 1] ELSE f[(k + 1) - 1] \o ss[k + 1]
        BY <2>1, <3>2, Zenon DEF Joins
      <4>3. k + 1 # 1 => f[k] \in Seq(T)
        BY <3>1, <3>2
      <4>4. f[k + 1] \in Seq(T)
        BY <4>1, <4>2, <4>3, ConcatProperties
      <4> QED
        BY <3>1, <4>4 DEF S
    <3> QED
      BY <3>1, <3>2 DEF S
  <2> HIDE DEF S
  <2>5. S = Nat
    <3>1. S \in SUBSET Nat
      BY DEF S
    <3> QED
      BY <2>3, <2>4, <3>1, AllNumbers
  <2>6. f[Len(ss)] \in Seq(T)
    BY <2>2, <2>5 DEF S
  <2> QED
    BY <2>1, <2>6
<1> QED
  BY <1>1, <1>2

\* One more sequence comes after all others.
LEMMA FlattenAppend ==
  ASSUME NEW T, NEW ss \in Seq(Seq(T)), NEW x \in Seq(T)
  PROVE  FlattenSeq(Append(ss, x)) = FlattenSeq(ss) \o x
<1> DEFINE tt == Append(ss, x)
<1>1. /\ tt \in Seq(Seq(T)) /\ tt # <<>> /\ Len(tt) = Len(ss) + 1 /\ Len(ss) \in Nat
      /\ tt[Len(ss) + 1] = x /\ \A i \in 1..Len(ss) : ss[i] = tt[i]
  BY AppendProperties
<1> HIDE DEF tt
<1>2. PICK g : Joins(tt, Len(tt), g) /\ FlattenSeq(tt) = g[Len(tt)]
  BY <1>1, FlattenIs
<1>3. Len(tt) \in 1..Len(tt) /\ Len(tt) - 1 = Len(ss)
  BY <1>1
<1>4. g[Len(tt)] = IF Len(tt) = 1 THEN tt[Len(tt)] ELSE g[Len(tt) - 1] \o tt[Len(tt)]
  BY <1>2, <1>3, Zenon DEF Joins
<1>5. CASE ss = <<>>
  <2>1. Len(tt) = 1 /\ FlattenSeq(tt) = x
    BY <1>1, <1>2, <1>4, <1>5
  <2>2. FlattenSeq(ss) \o x = x
    BY <1>5, FlattenOfNone, ConcatEmptySeq
  <2> QED
    BY <2>1, <2>2 DEF tt
<1>6. CASE ss # <<>>
  <2>1. Len(ss) # 0 /\ Len(ss) \in 1..Len(ss) /\ Len(tt) # 1 /\ Len(ss) <= Len(tt)
    BY <1>1, <1>6, EmptySeq
  <2>2. PICK f : Joins(ss, Len(ss), f) /\ FlattenSeq(ss) = f[Len(ss)]
    BY <1>6, FlattenIs
  <2>3. Len(tt) \in Nat
    BY <1>1
  <2>4. \A i \in 1..Len(ss) : f[i] = g[i]
    <3>1. Len(ss) \in Nat /\ Len(ss) <= Len(tt) /\ \A i \in 1..Len(ss) : ss[i] = tt[i]
      BY <1>1, <2>1
    <3>2. Joins(ss, Len(ss), f) /\ Joins(tt, Len(tt), g)
      BY <1>2, <2>2
    <3>3. ASSUME NEW m \in Nat, NEW n \in Nat, Joins(ss, m, f), Joins(tt, n, g),
                 m <= n, \A i \in 1..m : ss[i] = tt[i]
          PROVE  \A i \in 1..m : f[i] = g[i]
      BY <3>3, FlatAgrees
    <3> QED
      BY <2>3, <3>1, <3>2, <3>3
  <2>5. FlattenSeq(tt) = g[Len(ss)] \o x
    BY <1>1, <1>2, <1>3, <1>4, <2>1
  <2> QED
    BY <2>1, <2>2, <2>4, <2>5 DEF tt
<1> QED
  BY <1>5, <1>6

\* One more message in the last sequence is one more message at the end.
LEMMA FlattenMore ==
  ASSUME NEW T, NEW ss \in Seq(Seq(T)), ss # <<>>, NEW m \in T
  PROVE  FlattenSeq([ss EXCEPT ![Len(ss)] = Append(@, m)]) = Append(FlattenSeq(ss), m)
<1> DEFINE n     == Len(ss)
           front == SubSeq(ss, 1, n - 1)
           last  == ss[n]
           more  == [ss EXCEPT ![n] = Append(@, m)]
<1>1. n \in Nat /\ n # 0 /\ last \in Seq(T) /\ Append(last, m) \in Seq(T)
  <2>1. n \in Nat /\ n # 0
    BY EmptySeq
  <2>2. last \in Seq(T)
    BY <2>1
  <2> QED
    BY <2>1, <2>2, AppendProperties
<1>2. /\ front \in Seq(Seq(T)) /\ Len(front) = n - 1
      /\ \A i \in 1..(n - 1) : front[i] = ss[i]
  <2>1. 1 \in Int /\ n - 1 \in Int /\ \A i \in 1..(n - 1) : ss[i] \in Seq(T)
    BY <1>1
  <2> HIDE DEF n
  <2>2. /\ front \in Seq(Seq(T)) /\ Len(front) = IF 1 <= n - 1 THEN (n - 1) - 1 + 1 ELSE 0
        /\ \A i \in 1..((n - 1) - 1 + 1) : front[i] = ss[1 + i - 1]
    BY <2>1, SubSeqProperties
  <2> HIDE DEF front
  <2> QED
    BY <1>1, <2>2
<1> HIDE DEF front
<1>3. more \in Seq(Seq(T)) /\ Len(more) = n /\ more[n] = Append(last, m)
      /\ \A i \in 1..(n - 1) : more[i] = ss[i]
  <2>1. n \in 1..Len(ss) /\ more = [ss EXCEPT ![n] = Append(last, m)]
    BY <1>1
  <2> QED
    BY <1>1, <2>1, ExceptSeq
<1> HIDE DEF more
<1>4. ASSUME NEW x \in Seq(T), NEW s \in Seq(Seq(T)), Len(s) = n, s[n] = x,
             \A i \in 1..(n - 1) : s[i] = ss[i]
      PROVE  s = Append(front, x)
  <2> DEFINE a == Append(front, x)
  <2>1. a \in Seq(Seq(T)) /\ Len(a) = n
        /\ a[n] = x /\ \A i \in 1..(n - 1) : a[i] = front[i]
    BY <1>1, <1>2, AppendProperties
  <2> HIDE DEF a
  <2>2. \A i \in 1..Len(s) : s[i] = a[i]
    <3>1. \A i \in 1..Len(s) : i = n \/ i \in 1..(n - 1)
      BY <1>1, <1>4
    <3> QED
      BY <1>2, <1>4, <2>1, <3>1, Zenon
  <2>3. s = a
    BY <1>4, <2>1, <2>2, SeqEqual
  <2> QED
    BY <2>3 DEF a
<1>5. ss = Append(front, last) /\ more = Append(front, Append(last, m))
  BY <1>1, <1>3, <1>4
<1>6. /\ FlattenSeq(ss) = FlattenSeq(front) \o last
      /\ FlattenSeq(more) = FlattenSeq(front) \o Append(last, m)
  BY <1>1, <1>2, <1>5, FlattenAppend
<1>7. FlattenSeq(front) \in Seq(T)
  BY <1>2, FlattenType
<1>8. ASSUME NEW a \in Seq(T), NEW b \in Seq(T)
      PROVE  a \o Append(b, m) = Append(a \o b, m)
  BY AppendIsConcat, ConcatAssociative, ConcatProperties
<1> HIDE DEF last
<1> QED
  BY <1>1, <1>6, <1>7, <1>8 DEF more

----------------------------------------------------------------------------
(* One file *)

\* Units that stand for whole records of these messages after a header, and at most one
\* that was begun.  A file that has no header yet has none.
Records(units, ms) ==
  /\ Len(units) \in {2 * Len(ms) + 1, 2 * Len(ms) + 2} \/ (units = <<>> /\ ms = <<>>)
  /\ units # <<>> => units[1] = Header
  /\ \A i \in 1..Len(ms) : units[2 * i] = <<ms[i], 1>> /\ units[2 * i + 1] = <<ms[i], 2>>

File == [units : Seq(Nat \X Nat), out : Nat, state : {"open", "rotated", "final"}]

\* A file as the archiver leaves it: closed with all of it on disk, rotated after a whole
\* record and once the limit was reached.
Good ==
  {f \in File :
     /\ \E ms \in Seq(Nat) : Records(f.units, ms)
     /\ f.out <= Len(f.units)
     /\ f.state # "open" => f.out = Len(f.units)
     /\ f.state = "rotated" => Len(f.units) % 2 = 1 /\ f.out >= max_file_size}

\* What is closed is good when all of it is on disk, whole and full if by a rotation.
LEMMA ClosedIsGood ==
  ASSUME NEW f \in File, \E ms \in Seq(Nat) : Records(f.units, ms), f.out = Len(f.units),
         f.state = "rotated" => Len(f.units) % 2 = 1 /\ f.out >= max_file_size
  PROVE  f \in Good
<1>1. f.out \in Nat
  BY DEF File
<1>2. f.out <= Len(f.units)
  <2> HIDE DEF File
  <2>1. \A x \in Nat : x <= x
    OBVIOUS
  <2> QED
    BY <1>1, <2>1
<1> QED
  BY <1>2, Zenon DEF Good

\* Two units to a record, after a header.
LEMMA TwoToARecord ==
  ASSUME NEW n \in Nat, NEW l \in Nat, n \in {2 * l + 1, 2 * l + 2}
  PROVE  /\ (n - 1) \div 2 = l
         /\ n % 2 = 1 => n = 2 * l + 1 /\ (n - 1) % 2 = 0
         /\ \A i \in 1..l : 2 * i \in 1..(2 * l + 1) /\ 2 * i + 1 \in 1..(2 * l + 1)
<1>1. ASSUME NEW i \in 1..l PROVE 2 * i \in 1..(2 * l + 1) /\ 2 * i + 1 \in 1..(2 * l + 1)
  OBVIOUS
<1>2. CASE n = 2 * l + 1
  <2>1. (n - 1) \div 2 = l /\ (n - 1) % 2 = 0
    BY <1>2
  <2> QED
    BY <1>1, <1>2, <2>1
<1>3. CASE n = 2 * l + 2
  <2>1. (n - 1) \div 2 = l /\ n % 2 = 0
    BY <1>3
  <2> QED
    BY <1>1, <2>1
<1> QED
  BY <1>2, <1>3

\* Of how many units the records of a file are.
LEMMA RecordsLen ==
  ASSUME NEW units \in Seq(Nat \X Nat), NEW ms \in Seq(Nat), Records(units, ms)
  PROVE  /\ Len(units) \in Nat /\ Len(ms) \in Nat
         /\ units # <<>> => Len(units) \in {2 * Len(ms) + 1, 2 * Len(ms) + 2}
         /\ Len(units) % 2 = 1 => units # <<>> /\ Len(units) = 2 * Len(ms) + 1
<1>1. Len(units) \in Nat /\ Len(ms) \in Nat
  BY LenProperties
<1>2. units # <<>> => Len(units) \in {2 * Len(ms) + 1, 2 * Len(ms) + 2}
  BY DEF Records
<1>3. ASSUME Len(units) % 2 = 1 PROVE units # <<>>
  <2>1. Len(<<>>) = 0 /\ 0 % 2 # 1
    OBVIOUS
  <2> QED
    BY <1>3, <2>1, Zenon
<1> QED
  BY <1>1, <1>2, <1>3, TwoToARecord

\* The first k of a sequence are its elements up to k.
LEMMA FirstOnes ==
  ASSUME NEW T, NEW s \in Seq(T), NEW k \in Nat, k <= Len(s)
  PROVE  [i \in 1..k |-> s[i]] = SubSeq(s, 1, k)
<1> DEFINE t == [i \in 1..k |-> s[i]]
<1>1. t \in Seq(T) /\ Len(t) = k /\ \A i \in 1..k : t[i] = s[i]
  <2>1. \A i \in 1..k : s[i] \in T
    OBVIOUS
  <2> QED
    BY <2>1
<1>2. SubSeq(s, 1, k) \in Seq(T) /\ Len(SubSeq(s, 1, k)) = k
      /\ \A i \in 1..k : SubSeq(s, 1, k)[i] = s[i]
  OBVIOUS
<1> HIDE DEF t
<1>3. t = SubSeq(s, 1, k)
  BY <1>1, <1>2, SeqEqual
<1> QED
  BY <1>3 DEF t

\* Nothing on disk has no header (ArchiveReader::open).
LEMMA ReadNone == Read(<<>>).events = <<>> /\ Read(<<>>).end # "clean"
BY DEF Read

\* Whatever number of units is on disk, the records that are whole are read, and the end is
\* clean only after a whole record (ArchiveReader::next).
LEMMA ReadIs ==
  ASSUME NEW units \in Seq(Nat \X Nat), NEW ms \in Seq(Nat), Records(units, ms),
         NEW n \in Nat, n # 0, n <= Len(units)
  PROVE  LET whole == (n - 1) \div 2
             r     == Read(SubSeq(units, 1, n))
         IN  /\ whole <= Len(ms) /\ r.events = SubSeq(ms, 1, whole)
             /\ (n - 1) % 2 = 0 => r.end = "clean"
<1> DEFINE disk  == SubSeq(units, 1, n)
           body  == Tail(disk)
           whole == (n - 1) \div 2
<1>1. /\ disk \in Seq(Nat \X Nat) /\ Len(disk) = n /\ disk # <<>>
      /\ \A k \in 1..n : disk[k] = units[k]
  <2>1. 1 \in Int /\ n \in Int /\ \A i \in 1..n : units[i] \in Nat \X Nat
    OBVIOUS
  <2>2. /\ disk \in Seq(Nat \X Nat) /\ Len(disk) = IF 1 <= n THEN n - 1 + 1 ELSE 0
        /\ \A i \in 1..(n - 1 + 1) : disk[i] = units[1 + i - 1]
    BY <2>1, SubSeqProperties
  <2> HIDE DEF disk
  <2>3. Len(disk) = n
    BY <2>2
  <2>4. ASSUME NEW k \in 1..n PROVE disk[k] = units[k]
    <3>1. k \in 1..(n - 1 + 1) /\ 1 + k - 1 = k
      OBVIOUS
    <3> QED
      BY <2>2, <3>1
  <2> QED
    BY <2>2, <2>3, <2>4, EmptySeq
<1> HIDE DEF disk
<1>2. Len(body) = n - 1 /\ \A k \in 1..(n - 1) : body[k] = units[k + 1]
  <2>1. \A k \in 1..(n - 1) : k + 1 \in 1..n
    OBVIOUS
  <2>2. Len(body) = n - 1 /\ \A k \in 1..(n - 1) : body[k] = disk[k + 1]
    BY <1>1, HeadTailProperties
  <2> QED
    BY <1>1, <2>1, <2>2
<1> HIDE DEF body
<1>3. /\ whole \in Nat /\ 2 * whole <= n - 1 /\ whole <= Len(ms)
      /\ disk[1] = Header
  <2>1. units # <<>> /\ 1 \in 1..n
    BY EmptySeq
  <2>2. Len(units) <= 2 * Len(ms) + 2 /\ units[1] = Header
    BY <2>1 DEF Records
  <2> QED
    BY <1>1, <2>1, <2>2
<1>4. ASSUME NEW i \in 1..whole
      PROVE  body[2 * i - 1] = <<ms[i], 1>> /\ body[2 * i] = <<ms[i], 2>>
  <2>1. /\ 2 * i - 1 \in 1..(n - 1) /\ 2 * i \in 1..(n - 1) /\ i \in 1..Len(ms)
        /\ (2 * i - 1) + 1 = 2 * i
    BY <1>3
  <2>2. units[2 * i] = <<ms[i], 1>> /\ units[2 * i + 1] = <<ms[i], 2>>
    BY <2>1 DEF Records
  <2> QED
    BY <1>2, <2>1, <2>2
<1> HIDE DEF whole
<1> DEFINE intact == \A i \in 1..whole : body[2*i - 1] = <<body[2*i][1], 1>> /\ body[2*i][2] = 2
<1>5. intact
  BY <1>4
<1> HIDE DEF intact
<1>6. [i \in 1..whole |-> body[2*i][1]] = SubSeq(ms, 1, whole)
  <2>1. ASSUME NEW i \in 1..whole PROVE body[2*i][1] = ms[i]
    <3>1. body[2*i] = <<ms[i], 2>>
      BY <1>4
    <3> QED
      BY <3>1
  <2>2. [i \in 1..whole |-> body[2*i][1]] = [i \in 1..whole |-> ms[i]]
    BY <2>1
  <2> QED
    BY <1>3, <2>2, FirstOnes
<1>7. Read(disk) =
        [events |-> [i \in 1..whole |-> body[2*i][1]],
         end    |-> IF (n - 1) % 2 = 0 THEN "clean" ELSE "error"]
  <2>1. Len(body) \div 2 = whole /\ Len(body) % 2 = (n - 1) % 2
    BY <1>2 DEF whole
  <2> QED
    BY <1>1, <1>3, <1>5, <2>1 DEF Read, intact, body
<1>8. (n - 1) % 2 = 0 => Read(disk).end = "clean"
  BY <1>7
<1>9. Read(disk).events = SubSeq(ms, 1, whole)
  BY <1>6, <1>7
<1> QED
  BY <1>3, <1>8, <1>9, Zenon DEF disk, whole

\* A file that has all its units reads as its records.
LEMMA AllIs ==
  ASSUME NEW f, f.units \in Seq(Nat \X Nat), NEW ms \in Seq(Nat), Records(f.units, ms)
  PROVE  All(f) = ms
<1> DEFINE units == f.units
           n     == Len(units)
<1>1. CASE units = <<>>
  <2>1. ms = <<>>
    BY <1>1, EmptySeq DEF Records
  <2> QED
    BY <1>1, <2>1, ReadNone DEF All
<1>2. CASE units # <<>>
  <2>1. n \in Nat /\ n # 0 /\ n <= Len(units) /\ SubSeq(units, 1, n) = units
    BY <1>2, EmptySeq, SubSeqFull
  <2>2. (n - 1) \div 2 = Len(ms)
    <3>1. n \in {2 * Len(ms) + 1, 2 * Len(ms) + 2} /\ Len(ms) \in Nat
      BY <1>2 DEF Records
    <3> QED
      BY <2>1, <3>1, TwoToARecord
  <2>3. Read(units).events = SubSeq(ms, 1, (n - 1) \div 2)
    BY <2>1, ReadIs
  <2> QED
    BY <2>2, <2>3, SubSeqFull DEF All
<1> QED
  BY <1>1, <1>2

\* A good file reads as a prefix of what was written to it, as all of it once it is closed,
\* and to a clean end if it was rotated.
LEMMA GoodReads ==
  ASSUME NEW f \in Good
  PROVE  /\ All(f) \in Seq(Nat) /\ Records(f.units, All(f))
         /\ IsPrefix(ReadBack(f).events, All(f))
         /\ f.state # "open" => ReadBack(f).events = All(f)
         /\ f.state = "rotated" => ReadBack(f).end = "clean" /\ f.out >= max_file_size
<1>1. /\ f.units \in Seq(Nat \X Nat) /\ f.out \in Nat /\ f.out <= Len(f.units)
      /\ f.state # "open" => f.out = Len(f.units)
      /\ f.state = "rotated" => Len(f.units) % 2 = 1 /\ f.out >= max_file_size
      /\ \E ms \in Seq(Nat) : Records(f.units, ms)
  BY DEF Good, File
<1>2. PICK ms \in Seq(Nat) : Records(f.units, ms)
  BY <1>1
<1>3. All(f) = ms
  BY <1>1, <1>2, AllIs
<1> DEFINE read == Read(SubSeq(f.units, 1, f.out))
<1>4. ReadBack(f) = read
  BY DEF ReadBack
<1>5. CASE f.out = 0
  <2>1. SubSeq(f.units, 1, f.out) = <<>>
    BY <1>1, <1>5, SubSeqEmpty
  <2>2. read.events = <<>>
    BY <2>1, ReadNone
  <2>3. IsPrefix(<<>>, ms)
    BY SubSeqEmpty, LenProperties DEF IsPrefix
  <2>4. f.state # "open" => ms = <<>> /\ f.state # "rotated"
    <3>1. f.state # "open" => f.units = <<>>
      BY <1>1, <1>5, EmptySeq
    <3>2. f.units = <<>> => ms = <<>> /\ Len(f.units) % 2 # 1
      <4>1. f.units = <<>> => ms = <<>>
        BY <1>2, EmptySeq DEF Records
      <4> QED
        BY <1>1, <1>2, <4>1, RecordsLen
    <3> QED
      BY <1>1, <3>1, <3>2
  <2> QED
    BY <1>1, <1>2, <1>3, <1>4, <2>2, <2>3, <2>4
<1>6. CASE f.out # 0
  <2> DEFINE k == (f.out - 1) \div 2
  <2>1. /\ k <= Len(ms) /\ read.events = SubSeq(ms, 1, k)
        /\ (f.out - 1) % 2 = 0 /\ f.state # "open" => read.end = "clean"
    BY <1>1, <1>2, <1>6, ReadIs
  <2>2. k \in Nat
    BY <1>1, <1>6
  <2>3. f.state # "open" => k = Len(ms)
    <3>1. ASSUME f.state # "open" PROVE f.units # <<>>
      BY <1>1, <1>6, <3>1, EmptySeq
    <3>2. f.state # "open" => f.out \in {2 * Len(ms) + 1, 2 * Len(ms) + 2}
      BY <1>1, <1>2, <3>1, RecordsLen
    <3> QED
      BY <1>1, <3>2, TwoToARecord, LenProperties
  <2>4. f.state = "rotated" => (f.out - 1) % 2 = 0
    <3>1. \A n \in Nat : n % 2 = 1 => (n - 1) % 2 = 0
      OBVIOUS
    <3> QED
      BY <1>1, <3>1
  <2> HIDE DEF k, read
  <2>5. IsPrefix(SubSeq(ms, 1, k), ms)
    <3>1. Len(SubSeq(ms, 1, k)) = k
      BY <2>1, <2>2
    <3>2. k = 0 \/ k \in 1..Len(ms)
      BY <2>1, <2>2
    <3>3. SubSeq(SubSeq(ms, 1, k), 1, k) = SubSeq(ms, 1, k)
      <4>1. SubSeq(ms, 1, k) \in Seq(Nat)
        BY <2>1, <2>2
      <4> QED
        BY <3>1, <4>1, SubSeqFull
    <3> QED
      BY <2>1, <3>1, <3>3 DEF IsPrefix
  <2>6. f.state # "open" => SubSeq(ms, 1, k) = ms
    BY <2>3, SubSeqFull
  <2> QED
    BY <1>1, <1>2, <1>3, <1>4, <2>1, <2>4, <2>5, <2>6
<1> QED
  BY <1>1, <1>5, <1>6

\* The two units of a record (write_record).
LEMMA TwoUnits ==
  ASSUME NEW units \in Seq(Nat \X Nat), NEW m \in Nat
  PROVE  /\ units \o Units(m) \in Seq(Nat \X Nat)
         /\ Len(units \o Units(m)) = Len(units) + 2
         /\ \A i \in 1..Len(units) : (units \o Units(m))[i] = units[i]
         /\ (units \o Units(m))[Len(units) + 1] = <<m, 1>>
         /\ (units \o Units(m))[Len(units) + 2] = <<m, 2>>
<1>1. Units(m) \in Seq(Nat \X Nat) /\ Len(Units(m)) = 2
      /\ Units(m)[1] = <<m, 1>> /\ Units(m)[2] = <<m, 2>>
  BY DEF Units
<1> DEFINE u == Units(m)
           v == units \o u
<1> HIDE DEF u
<1>2. /\ v \in Seq(Nat \X Nat) /\ Len(v) = Len(units) + Len(u)
      /\ \A i \in 1..Len(units) + Len(u) : v[i] = IF i <= Len(units) THEN units[i] ELSE u[i - Len(units)]
  BY <1>1, ConcatProperties DEF u
<1> HIDE DEF v
<1>3. Len(v) = Len(units) + 2 /\ Len(units) \in Nat
  BY <1>1, <1>2, LenProperties DEF u
<1>4. ASSUME NEW i \in 1..Len(units) PROVE v[i] = units[i]
  <2>1. i \in 1..Len(units) + Len(u) /\ i <= Len(units)
    BY <1>1, <1>3 DEF u
  <2> QED
    BY <1>2, <2>1
<1>5. v[Len(units) + 1] = u[1] /\ v[Len(units) + 2] = u[2]
  <2>1. /\ Len(units) + 1 \in 1..Len(units) + Len(u) /\ ~(Len(units) + 1 <= Len(units))
        /\ Len(units) + 2 \in 1..Len(units) + Len(u) /\ ~(Len(units) + 2 <= Len(units))
        /\ (Len(units) + 1) - Len(units) = 1 /\ (Len(units) + 2) - Len(units) = 2
    BY <1>1, <1>3 DEF u
  <2> QED
    BY <1>2, <2>1
<1> QED
  BY <1>1, <1>2, <1>3, <1>4, <1>5 DEF u, v

\* A record written whole after whole records is one more of them ...
LEMMA RecordsMore ==
  ASSUME NEW units \in Seq(Nat \X Nat), NEW ms \in Seq(Nat), Records(units, ms),
         Len(units) % 2 = 1, NEW m \in Nat
  PROVE  /\ Records(units \o Units(m), Append(ms, m))
         /\ Len(units \o Units(m)) % 2 = 1
<1> DEFINE v == units \o Units(m)
           s == Append(ms, m)
<1>1. /\ v \in Seq(Nat \X Nat) /\ Len(v) = Len(units) + 2
      /\ \A i \in 1..Len(units) : v[i] = units[i]
      /\ v[Len(units) + 1] = <<m, 1>> /\ v[Len(units) + 2] = <<m, 2>>
  BY TwoUnits
<1>2. /\ s \in Seq(Nat) /\ Len(s) = Len(ms) + 1 /\ s[Len(ms) + 1] = m
      /\ \A i \in 1..Len(ms) : s[i] = ms[i]
  BY AppendProperties
<1> HIDE DEF v, s
<1>3. Len(units) = 2 * Len(ms) + 1 /\ Len(units) \in Nat /\ Len(ms) \in Nat
  BY RecordsLen
<1>4. units # <<>> /\ v # <<>>
  BY <1>1, <1>3, EmptySeq
<1>5. v[1] = Header
  <2>1. 1 \in 1..Len(units) /\ units[1] = Header
    BY <1>3, <1>4 DEF Records
  <2> QED
    BY <1>1, <2>1
<1>6. ASSUME NEW i \in 1..Len(s)
      PROVE  v[2 * i] = <<s[i], 1>> /\ v[2 * i + 1] = <<s[i], 2>>
  <2>1. CASE i = Len(ms) + 1
    <3>1. 2 * i = Len(units) + 1 /\ 2 * i + 1 = Len(units) + 2 /\ s[i] = m
      BY <1>2, <1>3, <2>1
    <3> QED
      BY <1>1, <3>1
  <2>2. CASE i # Len(ms) + 1
    <3>1. i \in 1..Len(ms)
      BY <1>2, <1>3, <2>2
    <3>3. 2 * i \in 1..Len(units) /\ 2 * i + 1 \in 1..Len(units)
      BY <1>3, <3>1, TwoToARecord
    <3>2. units[2 * i] = <<ms[i], 1>> /\ units[2 * i + 1] = <<ms[i], 2>>
      BY <3>1 DEF Records
    <3> QED
      BY <1>1, <1>2, <3>1, <3>2, <3>3
  <2> QED
    BY <2>1, <2>2
<1>7. Len(v) = 2 * Len(s) + 1
  BY <1>1, <1>2, <1>3
<1>8. Records(v, s)
  BY <1>4, <1>5, <1>6, <1>7 DEF Records
<1>9. Len(v) % 2 = 1
  BY <1>2, <1>3, <1>7
<1> QED
  BY <1>8, <1>9 DEF v, s

\* ... and one that was only begun, or not even that, is none.
LEMMA RecordsTorn ==
  ASSUME NEW units \in Seq(Nat \X Nat), NEW ms \in Seq(Nat), Records(units, ms),
         Len(units) % 2 = 1, NEW m \in Nat, NEW k \in 0..1
  PROVE  LET v == units \o SubSeq(Units(m), 1, k)
         IN  v \in Seq(Nat \X Nat) /\ Len(v) = Len(units) + k /\ Records(v, ms)
<1> DEFINE torn == SubSeq(Units(m), 1, k)
           v    == units \o torn
<1>1. torn \in Seq(Nat \X Nat) /\ Len(torn) = k
  <2>1. Units(m) \in Seq(Nat \X Nat) /\ Len(Units(m)) = 2
    BY DEF Units
  <2>2. ASSUME NEW i \in 1..k PROVE Units(m)[i] \in Nat \X Nat
    <3>1. i \in 1..Len(Units(m))
      BY <2>1
    <3> QED
      BY <2>1, <3>1, ElementOfSeq
  <2>3. 1 \in Int /\ k \in Int
    OBVIOUS
  <2>4. torn \in Seq(Nat \X Nat) /\ Len(torn) = IF 1 <= k THEN k - 1 + 1 ELSE 0
    BY <2>2, <2>3, SubSeqProperties
  <2> HIDE DEF torn
  <2> QED
    BY <2>4
<1> HIDE DEF torn
<1>2. /\ v \in Seq(Nat \X Nat) /\ Len(v) = Len(units) + k
      /\ \A i \in 1..Len(units) : v[i] = units[i]
  BY <1>1, ConcatProperties
<1> HIDE DEF v
<1>3. Len(units) = 2 * Len(ms) + 1 /\ Len(units) \in Nat /\ Len(ms) \in Nat
  BY RecordsLen
<1>4. units # <<>> /\ v[1] = Header
  BY <1>2, <1>3, EmptySeq DEF Records
<1>5. ASSUME NEW i \in 1..Len(ms)
      PROVE  v[2 * i] = <<ms[i], 1>> /\ v[2 * i + 1] = <<ms[i], 2>>
  <2>1. 2 * i \in 1..Len(units) /\ 2 * i + 1 \in 1..Len(units)
    BY <1>3, TwoToARecord
  <2>2. units[2 * i] = <<ms[i], 1>> /\ units[2 * i + 1] = <<ms[i], 2>>
    BY DEF Records
  <2> QED
    BY <1>2, <2>1, <2>2
<1>6. Len(v) \in {2 * Len(ms) + 1, 2 * Len(ms) + 2}
  <2>1. k = 0 \/ k = 1
    OBVIOUS
  <2>2. Len(v) = Len(units) + k
    BY <1>2
  <2>3. ASSUME NEW l \in Nat, NEW n \in Nat, n = 2 * l + 1 PROVE n + k \in {2 * l + 1, 2 * l + 2}
    BY <2>1, <2>3
  <2> QED
    BY <1>3, <2>2, <2>3
<1>7. Records(v, ms)
  BY <1>4, <1>5, <1>6 DEF Records
<1>8. v \in Seq(Nat \X Nat) /\ Len(v) = Len(units) + k /\ Records(v, ms)
  BY <1>2, <1>7
<1> QED
  BY <1>8, Zenon DEF v, torn

----------------------------------------------------------------------------
(* All files *)

Alls(fs) == [i \in DOMAIN fs |-> All(fs[i])]

\* What the files hold is a sequence for each of them.
LEMMA AllsType ==
  ASSUME NEW fs \in Seq(Good)
  PROVE  Alls(fs) \in Seq(Seq(Nat)) /\ Len(Alls(fs)) = Len(fs)
<1>1. Len(fs) \in Nat /\ DOMAIN fs = 1..Len(fs) /\ \A i \in 1..Len(fs) : fs[i] \in Good
  BY LenProperties, ElementOfSeq
<1>2. \A i \in 1..Len(fs) : All(fs[i]) \in Seq(Nat)
  BY <1>1, GoodReads
<1> QED
  BY <1>1, <1>2 DEF Alls

\* Another last file: the ones before it hold what they held.
LEMMA LastFile ==
  ASSUME NEW fs \in Seq(Good), fs # <<>>, NEW g \in Good
  PROVE  LET new == [fs EXCEPT ![Len(fs)] = g]
         IN  /\ new \in Seq(Good) /\ Len(new) = Len(fs) /\ new[Len(fs)] = g
             /\ Alls(new) = [Alls(fs) EXCEPT ![Len(fs)] = All(g)]
<1> DEFINE n   == Len(fs)
           new == [fs EXCEPT ![n] = g]
<1>1. n \in Nat /\ n \in 1..Len(fs) /\ DOMAIN fs = 1..n
  BY EmptySeq, LenProperties
<1>2. /\ new \in Seq(Good) /\ Len(new) = n /\ DOMAIN new = DOMAIN fs
      /\ \A j \in 1..n : new[j] = IF j = n THEN g ELSE fs[j]
  BY <1>1, ExceptSeq
<1> HIDE DEF n, new
<1>3. Alls(new) = [Alls(fs) EXCEPT ![n] = All(g)]
  <2>1. /\ Alls(new) = [j \in 1..n |-> All(new[j])]
        /\ Alls(fs) = [j \in 1..n |-> All(fs[j])]
    BY <1>1, <1>2 DEF Alls
  <2>2. \A j \in 1..n : All(new[j]) = IF j = n THEN All(g) ELSE All(fs[j])
    BY <1>2
  <2> QED
    BY <2>1, <2>2
<1>4. new[n] = g
  BY <1>1, <1>2 DEF n
<1> QED
  BY <1>2, <1>3, <1>4, Zenon DEF n, new

\* The same, when the last file holds what it held.
LEMMA SameLast ==
  ASSUME NEW fs \in Seq(Good), fs # <<>>, NEW g \in Good, All(g) = All(fs[Len(fs)])
  PROVE  Alls([fs EXCEPT ![Len(fs)] = g]) = Alls(fs)
<1>1. Len(fs) \in DOMAIN fs
  BY EmptySeq, LenProperties
<1>2. Alls(fs)[Len(fs)] = All(g)
  BY <1>1 DEF Alls
<1>3. Alls(fs) = [i \in DOMAIN fs |-> All(fs[i])]
  BY DEF Alls
<1>4. [Alls(fs) EXCEPT ![Len(fs)] = All(g)] = Alls(fs)
  BY <1>1, <1>2, <1>3
<1> QED
  BY <1>4, LastFile

\* A new file holds nothing (ArchiveFile::create before the header).
LEMMA AnotherFile ==
  ASSUME NEW fs \in Seq(Good)
  PROVE  /\ Append(fs, NewFile) \in Seq(Good) /\ Append(fs, NewFile) # <<>>
         /\ Len(Append(fs, NewFile)) = Len(fs) + 1
         /\ Append(fs, NewFile)[Len(fs) + 1] = NewFile
         /\ Alls(Append(fs, NewFile)) = Append(Alls(fs), <<>>)
<1>1. NewFile \in Good /\ All(NewFile) = <<>>
  <2>1. NewFile \in File /\ NewFile.units = <<>> /\ NewFile.out = 0 /\ NewFile.state = "open"
    BY EmptySeq DEF NewFile, File
  <2>2. Records(<<>>, <<>>)
    BY EmptySeq DEF Records
  <2>3. <<>> \in Seq(Nat) /\ <<>> \in Seq(Nat \X Nat) /\ Len(<<>>) = 0 /\ 0 <= 0
    BY EmptySeq
  <2>4. All(NewFile) = <<>>
    BY <2>1, <2>2, <2>3, AllIs
  <2> QED
    BY <2>1, <2>2, <2>3, <2>4 DEF Good
<1> DEFINE new == Append(fs, NewFile)
           n   == Len(fs)
<1>2. /\ new \in Seq(Good) /\ new # <<>> /\ Len(new) = n + 1 /\ n \in Nat
      /\ new[n + 1] = NewFile /\ \A i \in 1..n : new[i] = fs[i]
  BY <1>1, AppendProperties, LenProperties
<1> HIDE DEF new
<1>3. Alls(new) = Append(Alls(fs), <<>>)
  <2> DEFINE b == Append(Alls(fs), <<>>)
  <2>1. Alls(fs) \in Seq(Seq(Nat)) /\ Len(Alls(fs)) = n /\ <<>> \in Seq(Nat)
    BY AllsType, EmptySeq
  <2>2. /\ b \in Seq(Seq(Nat)) /\ Len(b) = n + 1 /\ b[n + 1] = <<>>
        /\ \A i \in 1..n : b[i] = Alls(fs)[i]
    BY <2>1, AppendProperties
  <2> HIDE DEF b
  <2>3. Alls(new) \in Seq(Seq(Nat)) /\ Len(Alls(new)) = n + 1
    BY <1>2, AllsType
  <2>4. DOMAIN new = 1..(n + 1) /\ DOMAIN fs = 1..n
    BY <1>2, LenProperties
  <2>5. ASSUME NEW i \in 1..(n + 1) PROVE Alls(new)[i] = b[i]
    <3>1. CASE i = n + 1
      BY <1>1, <1>2, <2>2, <2>4, <3>1 DEF Alls
    <3>2. CASE i # n + 1
      <4>1. i \in 1..n
        BY <1>2, <3>2
      <4> QED
        BY <1>2, <2>2, <2>4, <4>1 DEF Alls
    <3> QED
      BY <3>1, <3>2
  <2>6. Alls(new) = b
    BY <2>2, <2>3, <2>5, SeqEqual
  <2> QED
    BY <2>6 DEF b
<1> QED
  BY <1>2, <1>3, Zenon DEF new

----------------------------------------------------------------------------
(* The inductive invariant *)

Running == {"create", "open", "finalize"}

\* While the archiver runs, its last file is open; nothing of it is written before the
\* header, and records only follow whole ones.
ArchInv ==
  /\ at \in Nat /\ sub \in Seq(Nat)
  /\ files \in Seq(Good)
  /\ taken \in Seq(Seq(Nat)) /\ runs = Len(taken)
  /\ stage \in Running => files # <<>> /\ taken # <<>> /\ files[Current].state = "open"
  /\ stage = "create" => files[Current].units = <<>>
  /\ stage = "open" => Len(files[Current].units) % 2 = 1
  /\ FlattenSeq(Alls(files)) = FlattenSeq(taken)

\* The invariant is what the property asks for: every file is good, and what they hold is
\* the stream.
LEMMA ArchInvGives == ArchInv => ArchiveIsWhole
<1> SUFFICES ASSUME ArchInv PROVE ArchiveIsWhole
  OBVIOUS
<1>1. \A i \in DOMAIN files : files[i] \in Good
  BY LenProperties, ElementOfSeq DEF ArchInv
<1>2. FlattenSeq([i \in DOMAIN files |-> All(files[i])]) = FlattenSeq(taken)
  BY DEF ArchInv, Alls
<1>3. ArchiveIsTheStream
  BY <1>1, <1>2, GoodReads DEF ArchiveIsTheStream
<1>4. RotatedAreWholeAndFull
  BY <1>1, GoodReads DEF RotatedAreWholeAndFull
<1> QED
  BY <1>3, <1>4 DEF ArchiveIsWhole

\* The file in hand.
LEMMA Current_ ==
  ASSUME ArchInv, stage \in Running
  PROVE  /\ files[Current] \in Good /\ files[Current] \in File /\ files[Current].state = "open"
         /\ files[Current].units \in Seq(Nat \X Nat) /\ files[Current].out \in Nat
         /\ files[Current].out <= Len(files[Current].units)
         /\ files \in Seq(Good) /\ files # <<>>
<1>1. files \in Seq(Good) /\ files # <<>> /\ files[Current].state = "open"
  BY DEF ArchInv
<1>2. files[Current] \in Good
  BY <1>1, EmptySeq, ElementOfSeq DEF Current
<1> QED
  BY <1>1, <1>2 DEF Good, File

\* What files hold is in the files alone.
LEMMA AllsPrimed == Alls(files)' = Alls(files')
BY DEF Alls, All

\* A step that takes no message and leaves every file with what it held.
LEMMA SameStream ==
  ASSUME ArchInv, stage \in Running, NEW g \in Good, All(g) = All(files[Current]),
         files' = [files EXCEPT ![Current] = g],
         at' \in Nat, sub' \in Seq(Nat), UNCHANGED <<args, taken, runs>>,
         stage' \in Running => g.state = "open",
         stage' = "open" => Len(g.units) % 2 = 1, stage' # "create"
  PROVE  ArchInv'
<1>1. files \in Seq(Good) /\ files # <<>>
  BY Current_
<1>2. /\ files' \in Seq(Good) /\ Len(files') = Len(files) /\ files'[Len(files)] = g
      /\ Alls(files') = Alls(files)
  BY <1>1, LastFile, SameLast DEF Current
<1>3. files' # <<>> /\ Current' = Len(files) /\ files'[Current'] = g
  BY <1>1, <1>2, EmptySeq DEF Current
<1>4. FlattenSeq(Alls(files)') = FlattenSeq(taken')
  BY <1>2, AllsPrimed DEF ArchInv
<1>5. taken' # <<>>
  BY DEF ArchInv
<1> QED
  BY <1>2, <1>3, <1>4, <1>5 DEF ArchInv

\* A step that touches neither the files nor what was taken.
LEMMA QuietStep ==
  ASSUME ArchInv, UNCHANGED <<args, files, taken, runs>>, at' \in Nat, sub' \in Seq(Nat),
         \/ stage' = stage
         \/ stage = "open" /\ stage' = "finalize"
  PROVE  ArchInv'
<1>1. Current' = Current
  BY DEF Current
<1>2. Alls(files)' = Alls(files)
  BY AllsPrimed
<1> QED
  BY <1>1, <1>2 DEF ArchInv, Running

\* A run that starts adds a file and a place in the stream, both empty (run).
LEMMA StartRunKeeps == ArchInv /\ StartRun /\ UNCHANGED args => ArchInv'
<1> SUFFICES ASSUME ArchInv, StartRun, UNCHANGED args PROVE ArchInv'
  OBVIOUS
<1>1. /\ files \in Seq(Good) /\ taken \in Seq(Seq(Nat)) /\ runs = Len(taken)
      /\ at \in Nat /\ at' = at /\ sub' = <<>> /\ stage' = "create" /\ runs' = runs + 1
      /\ files' = Append(files, NewFile) /\ taken' = Append(taken, <<>>)
      /\ FlattenSeq(Alls(files)) = FlattenSeq(taken)
  BY DEF ArchInv, StartRun
<1>2. <<>> \in Seq(Nat) /\ sub' \in Seq(Nat)
  BY <1>1, EmptySeq
<1>3. /\ files' \in Seq(Good) /\ files' # <<>> /\ Len(files') = Len(files) + 1
      /\ files'[Len(files) + 1] = NewFile /\ Alls(files') = Append(Alls(files), <<>>)
  BY <1>1, AnotherFile
<1>4. taken' \in Seq(Seq(Nat)) /\ taken' # <<>> /\ runs' = Len(taken')
  BY <1>1, <1>2, AppendProperties
<1>5. Current' = Len(files) + 1 /\ files'[Current'] = NewFile
  BY <1>3 DEF Current
<1>6. FlattenSeq(Alls(files')) = FlattenSeq(taken')
  <2>1. Alls(files) \in Seq(Seq(Nat))
    BY <1>1, AllsType
  <2>2. FlattenSeq(Alls(files')) = FlattenSeq(Alls(files)) \o <<>>
    BY <1>2, <1>3, <2>1, FlattenAppend
  <2>3. FlattenSeq(taken') = FlattenSeq(taken) \o <<>>
    BY <1>1, <1>2, FlattenAppend
  <2> QED
    BY <1>1, <2>2, <2>3
<1>7. Alls(files)' = Alls(files')
  BY AllsPrimed
<1>8. NewFile.state = "open" /\ NewFile.units = <<>>
  BY DEF NewFile
<1> QED
  BY <1>1, <1>2, <1>3, <1>4, <1>5, <1>6, <1>7, <1>8 DEF ArchInv

\* Where only what has left the buffers changes, nothing that was written does.
LEMMA OutMoves ==
  ASSUME NEW f \in Good, f.state = "open", NEW n \in Nat, n <= Len(f.units)
  PROVE  LET g == [f EXCEPT !.out = n]
         IN  g \in Good /\ All(g) = All(f) /\ g.state = "open" /\ g.units = f.units
<1> DEFINE g == [f EXCEPT !.out = n]
<1>1. f \in File /\ \E ms \in Seq(Nat) : Records(f.units, ms)
  BY DEF Good
<1>2. g \in File /\ g.state = "open" /\ g.units = f.units /\ g.out = n
  BY <1>1 DEF File
<1>3. All(g) = All(f)
  BY <1>2 DEF All
<1> HIDE DEF g
<1>4. g \in Good
  BY <1>1, <1>2 DEF Good
<1> QED
  BY <1>2, <1>3, <1>4 DEF g

\* The file is created, or was before something failed.
LEMMA CreateKeeps == ArchInv /\ create /\ UNCHANGED args => ArchInv'
<1> SUFFICES ASSUME ArchInv, create, UNCHANGED args PROVE ArchInv'
  OBVIOUS
<1>1. /\ stage = "create" /\ stage \in Running /\ stage' \in {"open", "failed"}
      /\ UNCHANGED <<at, sub, taken, runs>>
  BY DEF create, Running
<1> DEFINE f == files[Current]
<1>2. /\ f \in Good /\ f \in File /\ f.state = "open" /\ f.units = <<>>
      /\ files \in Seq(Good) /\ files # <<>>
  BY <1>1, Current_ DEF ArchInv
<1>3. PICK n \in 0..1 : files' = [files EXCEPT ![Current].units = <<Header>>, ![Current].out = n]
  <2>1. 1 \in 0..1
    OBVIOUS
  <2> QED
    BY <2>1 DEF create
<1> DEFINE g == [f EXCEPT !.units = <<Header>>, !.out = n]
<1>4. files' = [files EXCEPT ![Current] = g]
  BY <1>3
<1>5. /\ <<Header>> \in Seq(Nat \X Nat) /\ Len(<<Header>>) = 1 /\ 1 % 2 = 1
      /\ Records(<<Header>>, <<>>) /\ <<>> \in Seq(Nat)
  <2>1. Header \in Nat \X Nat
    BY DEF Header
  <2>2. /\ <<Header>> \in Seq(Nat \X Nat) /\ Len(<<Header>>) = 1 /\ <<Header>>[1] = Header
        /\ <<>> \in Seq(Nat) /\ Len(<<>>) = 0
    BY <2>1
  <2>3. Records(<<Header>>, <<>>)
    BY <2>2 DEF Records
  <2> QED
    BY <2>2, <2>3
<1>6. g \in File /\ g.units = <<Header>> /\ g.out = n /\ g.state = "open"
  <2>1. n \in Nat
    BY <1>3
  <2> HIDE DEF f
  <2> QED
    BY <1>2, <1>5, <2>1 DEF File
<1>7. All(f) = <<>>
  <2>1. Records(<<>>, <<>>) /\ f.units \in Seq(Nat \X Nat)
    BY <1>2, EmptySeq DEF Records
  <2> QED
    BY <1>2, <1>5, <2>1, AllIs
<1>8. All(g) = <<>>
  BY <1>5, <1>6, AllIs
<1> HIDE DEF g, f
<1>9. g \in Good
  <2>1. \E ms \in Seq(Nat) : Records(g.units, ms)
    BY <1>5, <1>6
  <2>2. n <= 1
    OBVIOUS
  <2> QED
    BY <1>5, <1>6, <2>1, <2>2 DEF Good
<1>10. at' \in Nat /\ sub' \in Seq(Nat) /\ UNCHANGED <<taken, runs>>
  BY <1>1 DEF ArchInv
<1>11. /\ stage' \in Running => g.state = "open"
       /\ stage' = "open" => Len(g.units) % 2 = 1
       /\ stage' # "create"
  BY <1>1, <1>5, <1>6
<1>12. All(g) = All(files[Current])
  BY <1>7, <1>8 DEF f
<1> QED
  BY <1>1, <1>4, <1>9, <1>10, <1>11, <1>12, SameStream

\* Emit, a crash and a finalize that fails move units out of the buffers or lose them.
LEMMA MoveKeeps ==
  ASSUME ArchInv, stage \in Running, stage # "create" \/ stage' # "create",
         NEW n \in Nat, n <= Len(files[Current].units),
         files' = [files EXCEPT ![Current].out = n],
         stage' \in {"failed", "down"} \/ stage' = stage,
         UNCHANGED <<args, at, sub, taken, runs>>
  PROVE  ArchInv'
<1> DEFINE f == files[Current]
           g == [f EXCEPT !.out = n]
<1>1. f \in Good /\ f.state = "open"
  BY Current_
<1>2. g \in Good /\ All(g) = All(f) /\ g.state = "open" /\ g.units = f.units
  BY <1>1, OutMoves
<1>3. files' = [files EXCEPT ![Current] = g]
  BY Zenon
<1>4. stage' = "open" => Len(g.units) % 2 = 1
  BY <1>2 DEF ArchInv
<1>5. at' \in Nat /\ sub' \in Seq(Nat)
  BY DEF ArchInv
<1> HIDE DEF g
<1> QED
  BY <1>2, <1>3, <1>4, <1>5, SameStream

\* g is f with one more record, still open.
OneMore(g, f, m) ==
  /\ g \in Good /\ g.state = "open" /\ Len(g.units) % 2 = 1
  /\ All(g) = Append(All(f), m)

\* A file with one more record (write_record).
LEMMA Written ==
  ASSUME NEW f \in Good, f.state = "open", Len(f.units) % 2 = 1, NEW m \in Nat,
         NEW n \in Nat, n <= Len(f.units \o Units(m)),
         NEW g, g = [[f EXCEPT !.units = @ \o Units(m)] EXCEPT !.out = n]
  PROVE  OneMore(g, f, m)
<1>1. f \in File /\ f.units \in Seq(Nat \X Nat)
  BY DEF Good, File
<1>2. All(f) \in Seq(Nat) /\ Records(f.units, All(f))
  BY GoodReads
<1> DEFINE u == f.units \o Units(m)
<1>3. /\ u \in Seq(Nat \X Nat) /\ Len(u) % 2 = 1
      /\ Records(u, Append(All(f), m)) /\ Append(All(f), m) \in Seq(Nat)
  BY <1>1, <1>2, TwoUnits, RecordsMore, AppendProperties
<1>4. n <= Len(u) /\ g = [f EXCEPT !.units = u, !.out = n]
  BY <1>1 DEF File
<1> HIDE DEF u
<1>5. g \in File /\ g.units = u /\ g.out = n /\ g.state = "open"
  BY <1>1, <1>3, <1>4 DEF File
<1>6. All(g) = Append(All(f), m)
  BY <1>3, <1>5, AllIs
<1>7. g \in Good
  <2>1. \E ms \in Seq(Nat) : Records(g.units, ms)
    BY <1>3, <1>5
  <2> QED
    BY <1>4, <1>5, <2>1 DEF Good
<1> QED
  BY <1>3, <1>5, <1>6, <1>7 DEF OneMore

\* The stream goes on in the last file.
LEMMA MoreStream ==
  ASSUME ArchInv, stage = "open", NEW m \in Nat, NEW g \in Good,
         All(g) = Append(All(files[Current]), m),
         taken' = [taken EXCEPT ![runs] = Append(@, m)],
         NEW fs, fs = [files EXCEPT ![Current] = g]
  PROVE  /\ fs \in Seq(Good) /\ fs # <<>> /\ Len(fs) = Len(files) /\ fs[Len(fs)] = g
         /\ taken' \in Seq(Seq(Nat)) /\ Len(taken') = Len(taken) /\ taken' # <<>>
         /\ FlattenSeq(Alls(fs)) = FlattenSeq(taken')
<1>1. /\ files \in Seq(Good) /\ files # <<>> /\ taken \in Seq(Seq(Nat)) /\ taken # <<>>
      /\ runs = Len(taken) /\ FlattenSeq(Alls(files)) = FlattenSeq(taken)
  BY DEF ArchInv, Running
<1> DEFINE all == Alls(files)
           n   == Len(files)
<1>2. all \in Seq(Seq(Nat)) /\ Len(all) = n /\ n \in Nat /\ n # 0 /\ n \in DOMAIN files
      /\ all[n] = All(files[n])
  <2>1. all \in Seq(Seq(Nat)) /\ Len(all) = n
    BY <1>1, AllsType
  <2>2. n \in Nat /\ n # 0 /\ n \in DOMAIN files
    BY <1>1, EmptySeq, LenProperties
  <2> QED
    BY <2>1, <2>2 DEF Alls
<1>3. /\ fs \in Seq(Good) /\ Len(fs) = n /\ fs[n] = g
      /\ Alls(fs) = [all EXCEPT ![n] = All(g)]
  BY <1>1, LastFile DEF Current
<1>4. fs # <<>>
  BY <1>2, <1>3, EmptySeq
<1> HIDE DEF all, n
<1>5. Alls(fs) = [all EXCEPT ![Len(all)] = Append(@, m)]
  <2>1. All(g) = Append(all[n], m)
    BY <1>2 DEF Current, n
  <2> QED
    BY <1>2, <1>3, <2>1
<1>6. all # <<>>
  BY <1>2, EmptySeq
<1>7. FlattenSeq(Alls(fs)) = Append(FlattenSeq(all), m)
  BY <1>2, <1>5, <1>6, FlattenMore
<1>8. FlattenSeq(taken') = Append(FlattenSeq(taken), m)
  BY <1>1, FlattenMore
<1>9. taken' \in Seq(Seq(Nat)) /\ Len(taken') = Len(taken)
  <2>1. Len(taken) \in 1..Len(taken)
    BY <1>1, EmptySeq
  <2>2. Append(taken[Len(taken)], m) \in Seq(Nat)
    BY <1>1, <2>1, AppendProperties
  <2>3. taken' = [taken EXCEPT ![Len(taken)] = Append(taken[Len(taken)], m)]
    BY <1>1
  <2> QED
    BY <1>1, <2>1, <2>2, <2>3, ExceptSeq
<1>10. taken' # <<>>
  BY <1>1, <1>9, EmptySeq
<1> QED
  BY <1>1, <1>3, <1>4, <1>7, <1>8, <1>9, <1>10 DEF all, n

\* A rotation closes the file, whole and full, and adds one that is empty (rotate).
LEMMA Rotated ==
  ASSUME NEW fs \in Seq(Good), fs # <<>>, NEW g \in Good, fs[Len(fs)] = g,
         g.state = "open", Len(g.units) % 2 = 1, needs_rotation(g)
  PROVE  /\ rotate(fs) \in Seq(Good) /\ rotate(fs) # <<>>
         /\ rotate(fs)[Len(rotate(fs))] = NewFile
         /\ Alls(rotate(fs)) = Append(Alls(fs), <<>>)
<1> DEFINE n  == Len(fs)
           h  == [g EXCEPT !.state = "rotated", !.out = Len(g.units)]
           hs == [fs EXCEPT ![n] = h]
<1>1. /\ g \in File /\ g.units \in Seq(Nat \X Nat) /\ g.out \in Nat /\ g.out <= Len(g.units)
      /\ Len(g.units) \in Nat /\ \E ms \in Seq(Nat) : Records(g.units, ms)
  BY LenProperties DEF Good, File
<1>2. Len(g.units) >= max_file_size
  <2>1. g.out >= max_file_size \/ Len(g.units) >= max_file_size
    BY DEF needs_rotation
  <2> QED
    BY <1>1, <2>1, ArchiveAssumption
<1>3. h \in File /\ h.units = g.units /\ h.out = Len(g.units) /\ h.state = "rotated"
  BY <1>1 DEF File
<1> HIDE DEF h
<1>4. h \in Good /\ All(h) = All(g)
  <2>1. All(h) = All(g)
    BY <1>3 DEF All
  <2>2. \E ms \in Seq(Nat) : Records(h.units, ms)
    BY <1>1, <1>3
  <2>3. h.out = Len(h.units)
    BY <1>3
  <2>4. h.state = "rotated" => Len(h.units) % 2 = 1 /\ h.out >= max_file_size
    BY <1>1, <1>2, <1>3
  <2>5. h \in File
    BY <1>3
  <2>6. h \in Good
    BY <2>2, <2>3, <2>4, <2>5, ClosedIsGood
  <2> QED
    BY <2>1, <2>6
<1>5. hs \in Seq(Good) /\ Len(hs) = n /\ Alls(hs) = Alls(fs)
  BY <1>4, LastFile, SameLast
<1>6. rotate(fs) = Append(hs, NewFile)
  <2>1. [fs EXCEPT ![n].state = "rotated", ![n].out = Len(fs[n].units)] = hs
    BY DEF h
  <2> QED
    BY <2>1 DEF rotate
<1> HIDE DEF hs
<1>7. /\ rotate(fs) \in Seq(Good) /\ rotate(fs) # <<>> /\ Len(rotate(fs)) = Len(hs) + 1
      /\ rotate(fs)[Len(hs) + 1] = NewFile /\ Alls(rotate(fs)) = Append(Alls(hs), <<>>)
  BY <1>5, <1>6, AnotherFile
<1> QED
  BY <1>5, <1>7


----------------------------------------------------------------------------
(* Every step *)

\* A message is skipped, or written whole, and the file may be rotated after it.
LEMMA Next1Keeps == ArchInv /\ Next1 /\ UNCHANGED args => ArchInv'
<1> SUFFICES ASSUME ArchInv, Next1, UNCHANGED args PROVE ArchInv'
  OBVIOUS
<1> DEFINE m == Head(sub)
           f == files[Current]
<1>1. /\ stage = "open" /\ stage \in Running /\ sub # <<>> /\ sub' = Tail(sub)
      /\ UNCHANGED <<at, runs>>
  BY DEF Next1, Running
<1>2. at' \in Nat /\ sub' \in Seq(Nat) /\ m \in Nat /\ runs' = Len(taken)
  BY <1>1, HeadTailProperties DEF ArchInv
<1>3. f \in Good /\ f.state = "open" /\ Len(f.units) % 2 = 1 /\ files # <<>>
  BY <1>1, Current_ DEF ArchInv
<1>4. CASE Published[m].kind = "garbage" \/ ~matches(m)
  <2>1. UNCHANGED <<args, files, taken, runs>> /\ stage' = stage
    BY <1>1, <1>4 DEF Next1
  <2> QED
    BY <1>2, <2>1, QuietStep
<1>5. CASE ~(Published[m].kind = "garbage" \/ ~matches(m))
  <2> DEFINE w == [f EXCEPT !.units = @ \o Units(m)]
  <2>1. PICK n \in w.out..Len(w.units) :
          LET g == [w EXCEPT !.out = n]
          IN  /\ taken' = [taken EXCEPT ![runs] = Append(@, m)]
              /\ IF needs_rotation(g)
                   THEN files' = rotate([files EXCEPT ![Current] = g]) /\ stage' = "create"
                   ELSE files' = [files EXCEPT ![Current] = g] /\ stage' = "open"
    BY <1>1, <1>5, Zenon DEF Next1
  <2> DEFINE g == [w EXCEPT !.out = n]
             fs == [files EXCEPT ![Current] = g]
  <2>2. n \in Nat /\ n <= Len(f.units \o Units(m))
    <3>1. f.units \in Seq(Nat \X Nat) /\ f.out \in Nat /\ f \in File
      BY <1>3 DEF Good, File
    <3>2. w.out = f.out /\ w.units = f.units \o Units(m)
      BY <3>1 DEF File
    <3>3. f.units \o Units(m) \in Seq(Nat \X Nat)
      BY <1>2, <3>1, ConcatProperties DEF Units
    <3>4. Len(f.units \o Units(m)) \in Nat
      BY <3>3, LenProperties
    <3> HIDE DEF f, m, w
    <3>5. n \in f.out..Len(f.units \o Units(m))
      BY <2>1, <3>2, Zenon
    <3> QED
      BY <3>1, <3>4, <3>5
  <2>3. /\ taken' = [taken EXCEPT ![runs] = Append(@, m)]
        /\ IF needs_rotation(g) THEN files' = rotate(fs) /\ stage' = "create"
                                ELSE files' = fs /\ stage' = "open"
    BY <2>1, Zenon
  <2> HIDE DEF m
  <2>4. g = [[f EXCEPT !.units = @ \o Units(m)] EXCEPT !.out = n]
    <3> HIDE DEF f, w
    <3>1. g = [w EXCEPT !.out = n]
      BY DEF g
    <3>2. w = [f EXCEPT !.units = @ \o Units(m)]
      BY DEF w
    <3> QED
      BY <3>1, <3>2, Zenon
  <2> HIDE DEF f
  <2> HIDE DEF g, w
  <2>5. /\ g \in Good /\ g.state = "open" /\ Len(g.units) % 2 = 1
        /\ All(g) = Append(All(f), m)
    <3>1. m \in Nat
      BY <1>2
    <3>2. OneMore(g, f, m)
      BY <1>3, <2>2, <2>4, <3>1, Written
    <3> QED
      BY <3>2 DEF OneMore
  <2> HIDE DEF fs
  <2>6. /\ fs \in Seq(Good) /\ fs # <<>> /\ Len(fs) = Len(files) /\ fs[Len(fs)] = g
        /\ taken' \in Seq(Seq(Nat)) /\ Len(taken') = Len(taken) /\ taken' # <<>>
        /\ FlattenSeq(Alls(fs)) = FlattenSeq(taken')
    BY <1>1, <1>2, <2>3, <2>5, MoreStream DEF f, fs
  <2>7. Alls(files)' = Alls(files')
    BY AllsPrimed
  <2>8. CASE needs_rotation(g)
    <3>1. files' = rotate(fs) /\ stage' = "create"
      BY <2>3, <2>8
    <3>2. /\ files' \in Seq(Good) /\ files' # <<>> /\ files'[Current'] = NewFile
          /\ Alls(files') = Append(Alls(fs), <<>>)
      BY <2>5, <2>6, <2>8, <3>1, Rotated DEF Current
    <3>3. FlattenSeq(Alls(files')) = FlattenSeq(taken')
      <4>1. Alls(fs) \in Seq(Seq(Nat)) /\ <<>> \in Seq(Nat)
        BY <2>6, AllsType, EmptySeq
      <4>2. FlattenSeq(Append(Alls(fs), <<>>)) = FlattenSeq(Alls(fs)) \o <<>>
        BY <4>1, FlattenAppend
      <4>3. FlattenSeq(Alls(fs)) \in Seq(Nat)
        BY <4>1, FlattenType
      <4> QED
        BY <2>6, <3>2, <4>2, <4>3, ConcatEmptySeq
    <3>4. NewFile.state = "open" /\ NewFile.units = <<>>
      BY DEF NewFile
    <3> QED
      BY <1>2, <2>6, <2>7, <3>1, <3>2, <3>3, <3>4 DEF ArchInv
  <2>9. CASE ~needs_rotation(g)
    <3>1. files' = fs /\ stage' = "open" /\ files'[Current'] = g
      BY <2>3, <2>6, <2>9 DEF Current
    <3> QED
      BY <1>2, <2>5, <2>6, <2>7, <3>1 DEF ArchInv
  <2> QED
    BY <2>8, <2>9
<1> QED
  BY <1>4, <1>5

\* The record was written before the rotation failed.
LEMMA RotationFailsKeeps == ArchInv /\ RotationFails /\ UNCHANGED args => ArchInv'
<1> SUFFICES ASSUME ArchInv, RotationFails, UNCHANGED args PROVE ArchInv'
  OBVIOUS
<1> DEFINE m == Head(sub)
           f == files[Current]
           w == [f EXCEPT !.units = @ \o Units(m)]
<1>1. /\ stage = "open" /\ stage \in Running /\ sub # <<>> /\ sub' = Tail(sub)
      /\ stage' = "failed" /\ UNCHANGED <<at, runs>>
      /\ taken' = [taken EXCEPT ![runs] = Append(@, m)]
  BY DEF RotationFails, Running
<1>2. at' \in Nat /\ sub' \in Seq(Nat) /\ m \in Nat /\ runs' = Len(taken)
  BY <1>1, HeadTailProperties DEF ArchInv
<1>3. f \in Good /\ f.state = "open" /\ Len(f.units) % 2 = 1 /\ files # <<>>
  BY <1>1, Current_ DEF ArchInv
<1>4. PICK n \in w.out..Len(w.units) : files' = [files EXCEPT ![Current] = [w EXCEPT !.out = n]]
  BY Zenon DEF RotationFails
<1> DEFINE g == [w EXCEPT !.out = n]
<1>5. n \in Nat /\ n <= Len(f.units \o Units(m))
  <2>1. f.units \in Seq(Nat \X Nat) /\ f.out \in Nat /\ f \in File
    BY <1>3 DEF Good, File
  <2>2. w.out = f.out /\ w.units = f.units \o Units(m)
    BY <2>1 DEF File
  <2>3. f.units \o Units(m) \in Seq(Nat \X Nat)
    BY <1>2, <2>1, ConcatProperties DEF Units
  <2>4. Len(f.units \o Units(m)) \in Nat
    BY <2>3, LenProperties
  <2> HIDE DEF f, m, w
  <2>5. n \in f.out..Len(f.units \o Units(m))
    BY <1>4, <2>2, Zenon
  <2> QED
    BY <2>1, <2>4, <2>5
<1>6. files' = [files EXCEPT ![Current] = g]
  BY <1>4, Zenon
<1> HIDE DEF m
<1>7. g = [[f EXCEPT !.units = @ \o Units(m)] EXCEPT !.out = n]
  OBVIOUS
<1> HIDE DEF f, g, w
<1>8. g \in Good /\ All(g) = Append(All(f), m)
  BY <1>2, <1>3, <1>5, <1>7, Written DEF OneMore
<1>9. /\ files' \in Seq(Good) /\ taken' \in Seq(Seq(Nat)) /\ Len(taken') = Len(taken)
      /\ FlattenSeq(Alls(files')) = FlattenSeq(taken')
  BY <1>1, <1>2, <1>6, <1>8, MoreStream DEF f
<1>10. Alls(files)' = Alls(files')
  BY AllsPrimed
<1> QED
  BY <1>1, <1>2, <1>9, <1>10 DEF ArchInv, Running

\* What a failing write leaves is no record.
LEMMA WriteFailsKeeps == ArchInv /\ WriteFails /\ UNCHANGED args => ArchInv'
<1> SUFFICES ASSUME ArchInv, WriteFails, UNCHANGED args PROVE ArchInv'
  OBVIOUS
<1> DEFINE m == Head(sub)
           f == files[Current]
<1>1. /\ stage = "open" /\ stage \in Running /\ sub # <<>> /\ sub' = Tail(sub)
      /\ stage' = "finalize" /\ UNCHANGED <<at, runs, taken>>
  BY DEF WriteFails, Running
<1>2. at' \in Nat /\ sub' \in Seq(Nat) /\ m \in Nat
  BY <1>1, HeadTailProperties DEF ArchInv
<1>3. f \in Good /\ f.state = "open" /\ Len(f.units) % 2 = 1 /\ files # <<>>
  BY <1>1, Current_ DEF ArchInv
<1>4. PICK k \in 0..1 : files' = [files EXCEPT ![Current].units = @ \o SubSeq(Units(m), 1, k)]
  BY Zenon DEF WriteFails
<1> DEFINE v == f.units \o SubSeq(Units(m), 1, k)
           g == [f EXCEPT !.units = v]
<1>5. files' = [files EXCEPT ![Current] = g]
  BY <1>4
<1> HIDE DEF m
<1>6. /\ f \in File /\ f.units \in Seq(Nat \X Nat) /\ f.out \in Nat /\ f.out <= Len(f.units)
      /\ Records(f.units, All(f)) /\ All(f) \in Seq(Nat)
  BY <1>3, GoodReads DEF Good, File
<1>7. v \in Seq(Nat \X Nat) /\ Len(v) = Len(f.units) + k /\ Records(v, All(f))
  BY <1>2, <1>3, <1>6, RecordsTorn
<1> HIDE DEF v, f
<1>8. g \in File /\ g.units = v /\ g.out = f.out /\ g.state = "open"
  BY <1>3, <1>6, <1>7 DEF File
<1> HIDE DEF g
<1>9. All(g) = All(f)
  BY <1>6, <1>7, <1>8, AllIs
<1>10. g \in Good
  <2>1. \E ms \in Seq(Nat) : Records(g.units, ms)
    BY <1>6, <1>7, <1>8
  <2>2. Len(f.units) \in Nat /\ k \in Nat
    BY <1>6, LenProperties
  <2>3. g.out <= Len(g.units)
    BY <1>6, <1>7, <1>8, <2>2
  <2> QED
    BY <1>8, <2>1, <2>3 DEF Good
<1> QED
  BY <1>1, <1>2, <1>5, <1>8, <1>9, <1>10, SameStream DEF f, Running

\* Closing a file puts all of it on disk, or some.
LEMMA FinalizeKeeps == ArchInv /\ finalize /\ UNCHANGED args => ArchInv'
<1> SUFFICES ASSUME ArchInv, finalize, UNCHANGED args PROVE ArchInv'
  OBVIOUS
<1> DEFINE f == files[Current]
<1>1. /\ stage = "finalize" /\ stage \in Running /\ UNCHANGED <<args, at, sub, taken, runs>>
  BY DEF finalize, Running
<1>2. /\ f \in Good /\ f \in File /\ f.units \in Seq(Nat \X Nat) /\ f.out \in Nat
      /\ Len(f.units) \in Nat
  BY <1>1, Current_, LenProperties
<1>3. at' \in Nat /\ sub' \in Seq(Nat)
  BY <1>1 DEF ArchInv
<1>4. CASE /\ stage' = "stopped"
           /\ files' = [files EXCEPT ![Current].state = "final",
                                     ![Current].out = Len(files[Current].units)]
  <2> DEFINE g == [f EXCEPT !.state = "final", !.out = Len(f.units)]
  <2>1. files' = [files EXCEPT ![Current] = g]
    BY <1>4
  <2> HIDE DEF f
  <2>2. g \in File /\ g.units = f.units /\ g.out = Len(f.units) /\ g.state = "final"
    BY <1>2 DEF File
  <2> HIDE DEF g
  <2>3. All(g) = All(f)
    BY <2>2 DEF All
  <2>4. \E ms \in Seq(Nat) : Records(g.units, ms)
    BY <1>2, <2>2 DEF Good
  <2>5. g.out = Len(g.units) /\ g.state # "rotated"
    BY <2>2
  <2>6. g \in Good
    BY <2>2, <2>4, <2>5, ClosedIsGood
  <2> QED
    BY <1>1, <1>3, <1>4, <2>1, <2>3, <2>6, SameStream DEF f, Running
<1>5. CASE /\ stage' = "failed"
           /\ \E n \in files[Current].out..Len(files[Current].units) :
                files' = [files EXCEPT ![Current].out = n]
  <2>1. PICK n \in f.out..Len(f.units) : files' = [files EXCEPT ![Current].out = n]
    BY <1>5
  <2> HIDE DEF f
  <2>2. n \in Nat /\ n <= Len(f.units)
    BY <1>2, <2>1
  <2> QED
    BY <1>1, <1>5, <2>1, <2>2, MoveKeeps DEF f
<1> QED
  BY <1>4, <1>5 DEF finalize

\* What a crash leaves of the file.
LEMMA CrashKeeps == ArchInv /\ Crash /\ UNCHANGED args => ArchInv'
<1> SUFFICES ASSUME ArchInv, Crash, UNCHANGED args PROVE ArchInv'
  OBVIOUS
<1> DEFINE f == files[Current]
<1>1. /\ stage \in Running /\ stage' = "down" /\ UNCHANGED <<args, at, sub, taken, runs>>
  BY DEF Crash, Running
<1>2. f.out \in Nat /\ f.out <= Len(f.units) /\ Len(f.units) \in Nat
  BY <1>1, Current_, LenProperties
<1>3. PICK n \in Min({1, f.out})..f.out : files' = [files EXCEPT ![Current].out = n]
  BY DEF Crash
<1> HIDE DEF f
<1>4. Min({1, f.out}) \in Nat
  <2>1. \E x \in {1, f.out} : \A y \in {1, f.out} : x =< y
    BY <1>2
  <2>2. Min({1, f.out}) \in {1, f.out}
    BY <2>1 DEF Min
  <2> QED
    BY <1>2, <2>2
<1>5. n \in Nat /\ n <= Len(f.units)
  BY <1>2, <1>3, <1>4
<1> QED
  BY <1>1, <1>3, <1>5, MoveKeeps DEF f

\* Units pass out of the buffers.
LEMMA EmitKeeps == ArchInv /\ Emit /\ UNCHANGED args => ArchInv'
<1> SUFFICES ASSUME ArchInv, Emit, UNCHANGED args PROVE ArchInv'
  OBVIOUS
<1> DEFINE f == files[Current]
<1>1. /\ stage = "open" /\ stage \in Running /\ UNCHANGED <<args, stage, at, sub, taken, runs>>
  BY DEF Emit, Running
<1>2. f.out \in Nat /\ Len(f.units) \in Nat
  BY <1>1, Current_, LenProperties
<1>3. PICK n \in f.out + 1..Len(f.units) : files' = [files EXCEPT ![Current].out = n]
  BY DEF Emit
<1> HIDE DEF f
<1>4. n \in Nat /\ n <= Len(f.units)
  BY <1>2, <1>3
<1> QED
  BY <1>1, <1>3, <1>4, MoveKeeps DEF f

\* The others do not touch the files.
LEMMA OthersKeep ==
  /\ ArchInv /\ UNCHANGED args
  /\ \/ PublishNext \/ LoseNats \/ RequestShutdown
     \/ StartDraining \/ Drained \/ DrainTimeout \/ SubscriptionEnds
  => ArchInv'
<1> SUFFICES ASSUME ArchInv, UNCHANGED args,
                    \/ PublishNext \/ LoseNats \/ RequestShutdown
                    \/ StartDraining \/ Drained \/ DrainTimeout \/ SubscriptionEnds
             PROVE  ArchInv'
  OBVIOUS
<1>1. at \in Nat /\ sub \in Seq(Nat)
  BY DEF ArchInv
<1>2. CASE PublishNext
  <2>1. UNCHANGED <<args, files, taken, runs, stage>> /\ at' = at + 1 /\ sub' \in {Append(sub, at'), sub}
    BY <1>2 DEF PublishNext
  <2>2. at' \in Nat /\ sub' \in Seq(Nat)
    BY <1>1, <2>1, AppendProperties
  <2> QED
    BY <2>1, <2>2, QuietStep
<1>3. CASE LoseNats \/ RequestShutdown
  BY <1>1, <1>3, QuietStep DEF LoseNats, RequestShutdown
<1>4. CASE StartDraining \/ Drained \/ DrainTimeout \/ SubscriptionEnds
  <2>1. /\ UNCHANGED <<args, files, taken, runs, at, sub>> /\ stage = "open"
        /\ stage' = "open" \/ stage' = "finalize"
    BY <1>4 DEF StartDraining, Drained, DrainTimeout, SubscriptionEnds
  <2> QED
    BY <1>1, <2>1, QuietStep
<1> QED
  BY <1>2, <1>3, <1>4

\* Nothing was archived yet.
LEMMA ArchInitially == ArchiveInit => ArchInv
<1> SUFFICES ASSUME ArchiveInit PROVE ArchInv
  OBVIOUS
<1>1. /\ files = <<>> /\ taken = <<>> /\ sub = <<>> /\ at = 0 /\ runs = 0 /\ stage = "stopped"
  BY DEF ArchiveInit
<1>2. /\ <<>> \in Seq(Good) /\ <<>> \in Seq(Seq(Nat)) /\ <<>> \in Seq(Nat) /\ Len(<<>>) = 0
  BY EmptySeq
<1>3. Alls(files) = <<>>
  BY <1>1, <1>2, AllsType, EmptySeq
<1> QED
  BY <1>1, <1>2, <1>3 DEF ArchInv, Running

\* Over rotations, failing writes, crashes and further runs the files in order are the
\* filtered stream, each record once and whole in one file; what reads back of a file is a
\* beginning of what it was given, all of it once it was closed, and one that was rotated
\* is whole and has reached the limit (archiver.rs, ArchiveFile, ArchiveReader).
THEOREM ArchivesAreTheStream == ArchiveSpec => []ArchiveIsWhole
<1>1. ArchiveInit => ArchInv
  BY ArchInitially
<1>2. ArchInv /\ [ArchiveNext]_avars => ArchInv'
  <2> SUFFICES ASSUME ArchInv, [ArchiveNext]_avars PROVE ArchInv'
    OBVIOUS
  <2>1. CASE UNCHANGED avars
    <3>1. UNCHANGED <<args, files, taken, runs, stage, at, sub>>
      BY <2>1 DEF avars
    <3> QED
      BY <3>1, QuietStep DEF ArchInv
  <2>2. CASE ArchiveNext
    <3>1. UNCHANGED args /\ ArchiveSteps
      BY <2>2 DEF ArchiveNext
    <3> QED
      BY <3>1, StartRunKeeps, CreateKeeps, EmitKeeps, Next1Keeps, WriteFailsKeeps,
         RotationFailsKeeps, FinalizeKeeps, CrashKeeps, OthersKeep DEF ArchiveSteps, Loop
  <2> QED
    BY <2>1, <2>2
<1>3. ArchInv => ArchiveIsWhole
  BY ArchInvGives
<1> QED
  BY <1>1, <1>2, <1>3, PTL DEF ArchiveSpec

=============================================================================
