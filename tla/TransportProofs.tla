--------------------------- MODULE TransportProofs ---------------------------
(***************************************************************************)
(* The readers of transport.rs implement the channel of MessageChannel,    *)
(* for every set of frames, every header and payload size, and however the *)
(* peer, the kernel and the ping timer cut the stream up.                  *)
(*                                                                         *)
(* The argument is one invariant about the stream, which is what has been  *)
(* read of the current frame followed by what is still on the wire: it     *)
(* starts at the first unit of the frame the reader is to hand up next,    *)
(* goes on unit by unit and frame by frame, and ends in the last frame     *)
(* sent.  A short read or a dropped future does not change the stream at   *)
(* all, which is the whole of "recv() is cancel-safe".                     *)
(***************************************************************************)
EXTENDS Transport, SequenceTheorems, TLAPS

----------------------------------------------------------------------------
(* Streams of the units of frames q over transport v.                       *)

Unit == Nat \X Nat

SizeOver(v, f) == IF v = 1 THEN HEADER + f.body ELSE 1

\* A unit of one of the frames.
IsSent(q, v, u) == u[1] \in 1..Len(q) /\ u[2] \in 1..SizeOver(v, q[u[1]])

\* The units of S at k and m >= k are m - k units apart, as far as the frame of either
\* tells; behind the end of the frame at k comes the first unit of the next.
Follows(q, v, S, k, m) ==
  LET place == S[k][2] + (m - k)
      size  == SizeOver(v, q[S[k][1]])
  IN  /\ place <= size => S[m] = <<S[k][1], place>>
      /\ place = size + 1 => S[m] = <<S[k][1] + 1, 1>>
      /\ S[m][2] - (m - k) >= 1 => S[k] = <<S[m][1], S[m][2] - (m - k)>>

\* S begins frame n and goes on without gap or repetition.
Framed(q, v, S, n) ==
  /\ \A k \in 1..Len(S) : IsSent(q, v, S[k])
  /\ S # <<>> => S[1] = <<n, 1>>
  /\ \A k, m \in 1..Len(S) : k <= m => Follows(q, v, S, k, m)

\* S, which begins frame n, ends in the last frame, and with it unless the connection
\* has ended.
EndsInLast(q, v, S, n, end) ==
  IF S = <<>> THEN n = Len(q) + 1
  ELSE /\ S[Len(S)][1] = Len(q)
       /\ end = "open" => S[Len(S)][2] = SizeOver(v, q[Len(q)])

\* Every frame takes at least one unit.
LEMMA SizePositive ==
  ASSUME NEW v \in {1, 2}, NEW f \in Frames
  PROVE  SizeOver(v, f) \in Nat \ {0}
<1>1. f.body \in Nat /\ HEADER \in Nat \ {0}
  BY TransportAssumption
<1> QED
  BY <1>1 DEF SizeOver

\* The units of the frame a stream begins with are in their places.
LEMMA FirstFrame ==
  ASSUME NEW q \in Seq(Frames), NEW v \in {1, 2},
         NEW S \in Seq(Unit), NEW n \in Nat, Framed(q, v, S, n), NEW m \in 1..Len(S)
  PROVE  /\ n \in 1..Len(q)
         /\ m <= SizeOver(v, q[n]) => S[m] = <<n, m>>
         /\ m = SizeOver(v, q[n]) + 1 => S[m] = <<n + 1, 1>>
<1>1. Len(S) \in Nat /\ 1 \in 1..Len(S) /\ S # <<>>
  BY EmptySeq
<1>2. S[1] = <<n, 1>> /\ IsSent(q, v, S[1])
  BY <1>1 DEF Framed
<1>3. S[1][1] = n /\ S[1][2] = 1 /\ n \in 1..Len(q)
  BY <1>2 DEF IsSent
<1>4. SizeOver(v, q[n]) \in Nat
  BY <1>3, ElementOfSeq, SizePositive
<1>5. Follows(q, v, S, 1, m)
  BY <1>1 DEF Framed
<1>6. 1 + (m - 1) = m
  OBVIOUS
<1> QED
  BY <1>3, <1>4, <1>5, <1>6 DEF Follows

\* The kernel's cut of a stream is still a stream.
LEMMA CutStream ==
  ASSUME NEW q \in Seq(Frames), NEW v \in {1, 2},
         NEW S \in Seq(Unit), NEW n \in Nat, Framed(q, v, S, n),
         NEW T \in Seq(Unit), Len(T) <= Len(S), \A k \in 1..Len(T) : T[k] = S[k]
  PROVE  Framed(q, v, T, n)
<1>1. Len(S) \in Nat /\ Len(T) \in Nat
  OBVIOUS
<1>2. \A k \in 1..Len(T) : k \in 1..Len(S) /\ T[k] = S[k]
  BY <1>1
<1>3. T # <<>> => 1 \in 1..Len(T) /\ S # <<>>
  BY <1>1, EmptySeq
<1>4. ASSUME NEW k \in 1..Len(T), NEW m \in 1..Len(T), k <= m
      PROVE  Follows(q, v, T, k, m)
  <2>1. Follows(q, v, S, k, m)
    BY <1>2, <1>4 DEF Framed
  <2> QED
    BY <1>2, <2>1 DEF Follows
<1> QED
  BY <1>2, <1>3, <1>4 DEF Framed

\* Handing up the frame a stream begins with leaves a stream that begins the next.
LEMMA DropFrame ==
  ASSUME NEW q \in Seq(Frames), NEW v \in {1, 2}, NEW end,
         NEW S \in Seq(Unit), NEW n \in Nat, Framed(q, v, S, n), EndsInLast(q, v, S, n, end),
         NEW T \in Seq(Unit), n \in 1..Len(q), S # <<>>,
         SizeOver(v, q[n]) <= Len(S), Len(T) = Len(S) - SizeOver(v, q[n]),
         \A k \in 1..Len(T) : T[k] = S[k + SizeOver(v, q[n])]
  PROVE  Framed(q, v, T, n + 1) /\ EndsInLast(q, v, T, n + 1, end)
<1> DEFINE z == SizeOver(v, q[n])
<1>1. z \in Nat \ {0} /\ Len(S) \in Nat /\ Len(T) \in Nat
  BY ElementOfSeq, SizePositive, SMTT(30)
<1> HIDE DEF z
<1>2. \A k \in 1..Len(T) : k + z \in 1..Len(S) /\ T[k] = S[k + z]
  BY <1>1 DEF z
<1>3. \A k \in 1..Len(T) : IsSent(q, v, T[k])
  BY <1>2 DEF Framed
<1>4. T # <<>> => T[1] = <<n + 1, 1>>
  <2> SUFFICES ASSUME T # <<>> PROVE T[1] = <<n + 1, 1>>
    OBVIOUS
  <2>1. 1 \in 1..Len(T)
    BY <1>1, EmptySeq
  <2>2. 1 + z \in 1..Len(S) /\ T[1] = S[1 + z] /\ 1 + z = z + 1
    BY <1>1, <1>2, <2>1
  <2> QED
    BY <2>2, FirstFrame DEF z
<1>5. ASSUME NEW k \in 1..Len(T), NEW m \in 1..Len(T), k <= m
      PROVE  Follows(q, v, T, k, m)
  <2>1. k + z \in 1..Len(S) /\ m + z \in 1..Len(S) /\ k + z <= m + z
        /\ (m + z) - (k + z) = m - k
    BY <1>1, <1>2, <1>5
  <2>2. T[k] = S[k + z] /\ T[m] = S[m + z]
    BY <1>2
  <2>3. Follows(q, v, S, k + z, m + z)
    BY <2>1 DEF Framed
  <2> QED
    BY <2>1, <2>2, <2>3 DEF Follows
<1>6. CASE T = <<>>
  <2>1. Len(S) = z
    BY <1>1, <1>6, EmptySeq DEF z
  <2>2. S[Len(S)] = <<n, z>>
    BY <1>1, <2>1, FirstFrame, SMTT(30) DEF z
  <2>3. n = Len(q)
    BY <2>2 DEF EndsInLast
  <2> QED
    BY <1>3, <1>4, <1>5, <1>6, <2>3 DEF Framed, EndsInLast
<1>7. CASE T # <<>>
  <2>1. Len(T) \in 1..Len(T) /\ Len(T) + z = Len(S)
    BY <1>1, <1>7, EmptySeq DEF z
  <2>2. T[Len(T)] = S[Len(S)]
    BY <1>2, <2>1
  <2> QED
    BY <1>3, <1>4, <1>5, <1>7, <2>2 DEF Framed, EndsInLast
<1> QED
  BY <1>6, <1>7

\* The peer's next frame continues a stream that is whole.
LEMMA AddFrame ==
  ASSUME NEW q \in Seq(Frames), NEW v \in {1, 2}, NEW f \in Frames,
         NEW S \in Seq(Unit), NEW n \in Nat, Framed(q, v, S, n), EndsInLast(q, v, S, n, "open"),
         NEW T \in Seq(Unit), Len(T) = Len(S) + SizeOver(v, f),
         \A k \in 1..Len(S) : T[k] = S[k],
         \A k \in 1..SizeOver(v, f) : T[Len(S) + k] = <<Len(q) + 1, k>>
  PROVE  /\ Framed(Append(q, f), v, T, n)
         /\ EndsInLast(Append(q, f), v, T, n, "open")
<1> DEFINE p == Append(q, f)
           last == Len(q) + 1
           z == SizeOver(v, f)
<1>1. /\ last \in Nat /\ Len(p) = last /\ p[last] = f
      /\ \A i \in 1..Len(q) : i \in 1..Len(p) /\ p[i] = q[i]
  BY AppendProperties
<1>2. z \in Nat \ {0}
  BY SizePositive
<1>3. Len(S) \in Nat /\ Len(T) = Len(S) + z
  OBVIOUS
<1>4. \A k \in 1..z : T[Len(S) + k] = <<last, k>>
  OBVIOUS
<1>5. z = SizeOver(v, p[last])
  BY <1>1
<1> HIDE DEF p, z, last
<1>6. ASSUME NEW k \in 1..Len(T), k \notin 1..Len(S)
      PROVE  T[k] = <<last, k - Len(S)>> /\ k - Len(S) \in 1..z
  <2>1. k - Len(S) \in 1..z /\ Len(S) + (k - Len(S)) = k
    BY <1>2, <1>3, <1>6
  <2> QED
    BY <1>4, <2>1
<1>7. ASSUME NEW k \in 1..Len(T)
      PROVE  IsSent(p, v, T[k])
  <2>1. CASE k \in 1..Len(S)
    BY <1>1, <2>1 DEF Framed, IsSent
  <2>2. CASE k \notin 1..Len(S)
    BY <1>1, <1>5, <1>6, <2>2 DEF IsSent, last
  <2> QED
    BY <2>1, <2>2
<1>8. T[1] = <<n, 1>>
  <2>1. CASE S = <<>>
    <3>1. Len(S) = 0 /\ n = last /\ 1 \in 1..z
      BY <1>2, <2>1, EmptySeq DEF EndsInLast, last
    <3> QED
      BY <1>4, <3>1
  <2>2. CASE S # <<>>
    BY <1>3, <2>2, EmptySeq DEF Framed
  <2> QED
    BY <2>1, <2>2
<1>9. ASSUME NEW k \in 1..Len(T), NEW m \in 1..Len(T), k <= m
      PROVE  Follows(p, v, T, k, m)
  <2>1. CASE k \in 1..Len(S) /\ m \in 1..Len(S)
    <3>1. S[k][1] \in 1..Len(q) /\ Follows(q, v, S, k, m)
      BY <1>9, <2>1 DEF Framed, IsSent
    <3> QED
      BY <1>1, <2>1, <3>1 DEF Follows
  <2>2. CASE k \in 1..Len(S) /\ m \notin 1..Len(S)
    <3> DEFINE i == S[k][1]
               j == S[k][2]
               l == Len(S)
               x == SizeOver(v, q[i])
    <3>1. i \in 1..Len(q) /\ j \in 1..x /\ x \in Nat /\ p[i] = q[i] /\ T[k] = S[k]
      BY <1>1, <2>2, ElementOfSeq, SizePositive DEF Framed, IsSent
    <3>2. S # <<>> /\ l \in 1..l /\ l \in Nat /\ k \in Nat /\ k <= l /\ m \in Nat /\ l < m
      BY <1>3, <2>2, EmptySeq
    <3>3. S[l][1] = Len(q) /\ S[l][2] = SizeOver(v, q[Len(q)])
      BY <3>2 DEF EndsInLast
    <3>4. Follows(q, v, S, k, l)
      BY <2>2, <3>2 DEF Framed
    <3>5. j + (l - k) <= x => S[l] = <<i, j + (l - k)>>
      BY <3>4 DEF Follows
    <3>6. T[m] = <<last, m - l>>
      BY <1>6, <2>2
    <3>7. j \in Nat
      BY <3>1, SMTT(30)
    <3> HIDE DEF i, j, l, x
    <3>8. ASSUME j + (m - k) <= x + 1
          PROVE  i = Len(q) /\ j + (l - k) = x
      <4>1. j + (l - k) <= x
        BY <3>1, <3>2, <3>7, <3>8
      <4>2. S[l][1] = i /\ S[l][2] = j + (l - k)
        BY <3>5, <4>1
      <4> QED
        BY <3>3, <4>2 DEF x
    <3>9. ~(j + (m - k) <= x)
      BY <3>1, <3>2, <3>7, <3>8
    <3>10. ASSUME j + (m - k) = x + 1
           PROVE  T[m] = <<i + 1, 1>>
      <4>1. i = Len(q) /\ m - l = 1
        BY <3>1, <3>2, <3>7, <3>8, <3>10
      <4> QED
        BY <3>6, <4>1 DEF last
    <3>11. T[m][2] - (m - k) = k - l
      BY <3>2, <3>6
    <3>12. ~(T[m][2] - (m - k) >= 1)
      BY <3>2, <3>11
    <3> QED
      BY <3>1, <3>9, <3>10, <3>12 DEF Follows, i, j, x
  <2>3. CASE k \notin 1..Len(S)
    <3>1. m \notin 1..Len(S)
      BY <1>3, <1>9, <2>3
    <3>2. T[k] = <<last, k - Len(S)>> /\ T[m] = <<last, m - Len(S)>> /\ m - Len(S) \in 1..z
      BY <1>6, <2>3, <3>1
    <3>3. (k - Len(S)) + (m - k) = m - Len(S)
      BY <1>3
    <3>4. /\ T[k][1] = last /\ T[k][2] + (m - k) = m - Len(S)
          /\ T[m][1] = last /\ T[m][2] - (m - k) = k - Len(S)
      BY <1>3, <3>2, <3>3
    <3> QED
      BY <1>2, <1>5, <3>2, <3>4 DEF Follows
  <2> QED
    BY <2>1, <2>2, <2>3
<1>10. T # <<>> /\ T[Len(T)] = <<last, z>>
  <2>1. T[Len(S) + z] = <<last, z>>
    <3>1. z \in 1..z
      BY <1>2
    <3> QED
      BY <1>4, <3>1
  <2>2. Len(T) # 0
    BY <1>2, <1>3
  <2> QED
    BY <1>3, <2>1, <2>2, EmptySeq
<1> QED
  BY <1>1, <1>5, <1>7, <1>8, <1>9, <1>10 DEF Framed, EndsInLast, p

\* A connection that ends inside the last frame leaves a stream that ends in it.
LEMMA CutInLast ==
  ASSUME NEW q \in Seq(Frames), NEW v \in {1, 2},
         NEW S \in Seq(Unit), NEW n \in Nat, Framed(q, v, S, n), EndsInLast(q, v, S, n, "open"),
         NEW cut \in 0..Len(S), cut > 0 => cut < SizeOver(v, q[Len(q)]),
         NEW T \in Seq(Unit), Len(T) = Len(S) - cut, \A k \in 1..Len(T) : T[k] = S[k],
         NEW end, end # "open"
  PROVE  EndsInLast(q, v, T, n, end)
<1> DEFINE l == Len(S)
           z == SizeOver(v, q[Len(q)])
<1>1. l \in Nat /\ cut \in Nat /\ Len(T) \in Nat /\ cut <= l /\ Len(T) = l - cut
  OBVIOUS
<1>2. CASE cut = 0
  <2>1. S = <<>> <=> T = <<>>
    BY <1>1, <1>2, EmptySeq
  <2>2. T # <<>> => T[Len(T)] = S[l]
    BY <1>1, <1>2, EmptySeq
  <2> QED
    BY <1>1, <1>2, <2>1, <2>2 DEF EndsInLast
<1>3. CASE cut > 0
  <2>1. S # <<>> /\ l \in 1..l /\ 1 \in 1..l
    BY <1>1, <1>3, EmptySeq
  <2>2. S[l][1] = Len(q) /\ S[l][2] = z
    BY <2>1 DEF EndsInLast
  <2>3. IsSent(q, v, S[l])
    BY <2>1 DEF Framed
  <2>4. Len(q) \in 1..Len(q) /\ z \in Nat
    BY <2>2, <2>3, ElementOfSeq, SizePositive DEF IsSent
  <2>5. \A k \in 1..l : z - (l - k) >= 1 => S[k] = <<Len(q), z - (l - k)>>
    <3> TAKE k \in 1..l
    <3>1. Follows(q, v, S, k, l)
      BY <2>1 DEF Framed
    <3> QED
      BY <2>2, <3>1 DEF Follows
  <2> HIDE DEF l, z
  <2>6. Len(T) # 0
    <3> SUFFICES ASSUME Len(T) = 0 PROVE FALSE
      OBVIOUS
    <3>1. cut = l /\ z - (l - 1) >= 2 /\ z - (l - 1) >= 1
      BY <1>1, <1>3, <2>4 DEF z
    <3>2. S[1] = <<Len(q), z - (l - 1)>>
      BY <2>1, <2>5, <3>1
    <3>3. S[1] = <<n, 1>>
      BY <2>1 DEF Framed
    <3> QED
      BY <3>1, <3>2, <3>3
  <2>7. T[Len(T)] = <<Len(q), z - cut>>
    <3> DEFINE k == l - cut
    <3>1. k \in 1..l /\ l - k = cut /\ z - (l - k) >= 1
      BY <1>1, <1>3, <2>4, <2>6 DEF z
    <3>2. S[k] = <<Len(q), z - (l - k)>>
      BY <2>5, <3>1
    <3> QED
      BY <1>1, <2>6, <3>1, <3>2
  <2>8. T # <<>>
    BY <2>6, EmptySeq
  <2> QED
    BY <2>7, <2>8 DEF EndsInLast
<1>4. cut = 0 \/ cut > 0
  OBVIOUS
<1> QED
  BY <1>2, <1>3, <1>4

----------------------------------------------------------------------------
(* The invariant.                                                           *)

TransportType ==
  /\ version \in {1, 2}
  /\ sent \in Seq(Frames)
  /\ closed \in {"open", "fin", "reset"}
  /\ wire \in Seq(Unit) /\ buf \in Seq(Unit)
  /\ state \in {"Header", "Payload"}
  /\ polling \in BOOLEAN
  /\ taken \in Nat

Stream == buf \o wire

\* What has been read of the current frame fits the state of the reader.
BufferFits ==
  /\ version = 2 => buf = <<>> /\ state = "Header"
  /\ state = "Header" => Len(buf) <= HEADER
  /\ state = "Payload" =>
       /\ taken < Len(sent)
       /\ sent[taken + 1].magic /\ sent[taken + 1].len <= MAX_V1_PAYLOAD
       /\ Len(buf) \in HEADER..HEADER + sent[taken + 1].len

InStep ==
  /\ TransportType
  /\ polling => verdict = "none"
  /\ taken <= Len(sent)
  /\ Framed(sent, version, Stream, taken + 1)
  /\ EndsInLast(sent, version, Stream, taken + 1, closed)
  /\ BufferFits

\* A step of the reader is one of the channel, or none that its session can see.
ChannelStep == Channel!ChannelNext \/ UNCHANGED <<version, sent, closed, taken, delivered, verdict>>

\* What the reader can know of the frames.
LEMMA FrameTypes ==
  ASSUME TransportType, NEW i \in 1..Len(sent)
  PROVE  /\ sent[i] \in Frames
         /\ sent[i].len \in Nat /\ sent[i].body \in Nat
         /\ Size(sent[i]) = SizeOver(version, sent[i])
<1>1. sent[i] \in Frames
  BY ElementOfSeq DEF TransportType
<1>2. sent[i].len \in Nat /\ sent[i].body \in Nat
  BY <1>1, TransportAssumption
<1> QED
  BY <1>1, <1>2 DEF Size, SizeOver

\* A new connection.
LEMMA InitInStep == TransportInit => InStep
<1> SUFFICES ASSUME TransportInit PROVE InStep
  OBVIOUS
<1>1. Stream = <<>> /\ Len(<<>>) = 0
  BY ConcatEmptySeq, EmptySeq DEF TransportInit, Stream
<1>2. TransportType
  <2>1. <<>> \in Seq(Unit) /\ <<>> \in Seq(Frames)
    BY EmptySeq
  <2>2. polling \in BOOLEAN
    BY Zenon DEF TransportInit
  <2> QED
    BY <2>1, <2>2 DEF TransportInit, TransportType
<1>3. BufferFits
  BY <1>1, TransportAssumption DEF TransportInit, BufferFits
<1>4. Framed(sent, version, <<>>, 1) /\ EndsInLast(sent, version, <<>>, 1, "open")
  BY EmptySeq DEF TransportInit, Framed, EndsInLast
<1> QED
  BY <1>1, <1>2, <1>3, <1>4 DEF TransportInit, InStep, EndsInLast

\* How a stream is cut into what is read and what is not makes no difference.
LEMMA StreamAssociative ==
  ASSUME NEW b \in Seq(Unit), NEW w \in Seq(Unit), NEW u \in Seq(Unit)
  PROVE  (b \o w) \o u = b \o (w \o u)
OBVIOUS

\* The stream as a sequence.
LEMMA StreamParts ==
  ASSUME NEW b \in Seq(Unit), NEW w \in Seq(Unit)
  PROVE  /\ b \o w \in Seq(Unit)
         /\ Len(b) \in Nat /\ Len(w) \in Nat /\ Len(b \o w) = Len(b) + Len(w)
         /\ \A k \in 1..Len(b) + Len(w) : (b \o w)[k] = IF k <= Len(b) THEN b[k] ELSE w[k - Len(b)]
         /\ \A k \in 1..Len(b) : (b \o w)[k] = b[k]
         /\ \A k \in 1..Len(w) : (b \o w)[Len(b) + k] = w[k]
<1>1. /\ b \o w \in Seq(Unit)
      /\ Len(b) \in Nat /\ Len(w) \in Nat /\ Len(b \o w) = Len(b) + Len(w)
      /\ \A k \in 1..Len(b) + Len(w) : (b \o w)[k] = IF k <= Len(b) THEN b[k] ELSE w[k - Len(b)]
  BY ConcatProperties, LenProperties
<1>2. \A k \in 1..Len(b) : k \in 1..Len(b) + Len(w) /\ k <= Len(b)
  BY <1>1
<1>3. \A k \in 1..Len(w) : /\ Len(b) + k \in 1..Len(b) + Len(w) /\ ~(Len(b) + k <= Len(b))
                          /\ (Len(b) + k) - Len(b) = k
  BY <1>1
<1> QED
  BY <1>1, <1>2, <1>3

\* The peer writes a frame: the channel's PeerSends.
LEMMA SendStep ==
  ASSUME InStep, NEW f \in Frames, Send(f)
  PROVE  InStep' /\ ChannelStep
<1> DEFINE z == SizeOver(version, f)
           last == Len(sent) + 1
           U == Units(last, f)
<1>1. /\ version \in {1, 2} /\ sent \in Seq(Frames) /\ wire \in Seq(Unit) /\ buf \in Seq(Unit)
      /\ taken \in Nat /\ taken + 1 \in Nat /\ closed = "open" /\ sent' = Append(sent, f)
      /\ wire' = wire \o U
      /\ UNCHANGED <<version, closed, state, buf, polling, taken, delivered, undecodable, verdict>>
  BY DEF InStep, TransportType, Send, reader
<1>2. Framed(sent, version, Stream, taken + 1) /\ EndsInLast(sent, version, Stream, taken + 1, "open")
  BY <1>1 DEF InStep, EndsInLast
<1>3. z \in Nat \ {0} /\ last \in Nat
  BY <1>1, SizePositive
<1>4. U = [k \in 1..z |-> <<last, k>>]
  BY DEF Units, Size, SizeOver
<1> HIDE DEF z, last, U
<1>5. U \in Seq(Unit) /\ Len(U) = z /\ \A k \in 1..z : U[k] = <<last, k>>
  <2>1. \A k \in 1..z : <<last, k>> \in Unit
    BY <1>3 DEF Unit
  <2>2. U \in Seq(Unit)
    BY <1>3, <1>4, <2>1, IsASeq
  <2>3. DOMAIN U = 1..z
    BY <1>4
  <2> QED
    BY <1>3, <1>4, <2>2, <2>3, LenProperties
<1>6. wire' \in Seq(Unit) /\ Stream' = Stream \o U /\ Stream \in Seq(Unit)
  <2>1. Stream' = buf \o (wire \o U)
    BY <1>1 DEF Stream
  <2>2. wire' \in Seq(Unit) /\ Stream \in Seq(Unit)
    BY <1>1, <1>5, StreamParts DEF Stream
  <2>3. (buf \o wire) \o U = buf \o (wire \o U)
    <3>1. buf \in Seq(Unit) /\ wire \in Seq(Unit) /\ U \in Seq(Unit)
      BY <1>1, <1>5
    <3> QED
      BY <3>1, StreamAssociative
  <2> QED
    BY <2>1, <2>2, <2>3 DEF Stream
<1>7. /\ Stream' \in Seq(Unit) /\ Len(Stream') = Len(Stream) + z
      /\ \A k \in 1..Len(Stream) : Stream'[k] = Stream[k]
      /\ \A k \in 1..z : Stream'[Len(Stream) + k] = <<last, k>>
  BY <1>5, <1>6, StreamParts, ZenonT(40)
<1>8. /\ Framed(Append(sent, f), version, Stream', taken + 1)
      /\ EndsInLast(Append(sent, f), version, Stream', taken + 1, "open")
  BY <1>1, <1>2, <1>6, <1>7, AddFrame DEF z, last
<1>9. sent' \in Seq(Frames) /\ Len(sent') = Len(sent) + 1 /\ Len(sent) \in Nat
      /\ \A i \in 1..Len(sent) : sent'[i] = sent[i]
  BY <1>1, AppendProperties
<1>10. BufferFits'
  <2>1. taken < Len(sent) => taken + 1 \in 1..Len(sent) /\ taken < Len(sent')
    BY <1>1, <1>9
  <2> QED
    BY <1>1, <1>9, <2>1 DEF BufferFits, InStep
<1>11. EndsInLast(sent', version', Stream', taken' + 1, closed')
  BY <1>1, <1>8 DEF EndsInLast
<1>12. InStep'
  BY <1>1, <1>6, <1>8, <1>9, <1>10, <1>11 DEF InStep, TransportType
<1> QED
  BY <1>1, <1>12 DEF ChannelStep, Channel!ChannelNext, Channel!PeerSends

\* The connection ends: the channel's PeerCloses.
LEMMA HangUpStep ==
  ASSUME InStep, NEW how \in {"fin", "reset"}, NEW cut \in 0..Len(wire), HangUp(how, cut)
  PROVE  InStep' /\ ChannelStep
<1>1. /\ version \in {1, 2} /\ sent \in Seq(Frames) /\ wire \in Seq(Unit) /\ buf \in Seq(Unit)
      /\ taken \in Nat /\ taken + 1 \in Nat
      /\ closed = "open" /\ closed' \in {"fin", "reset"}
      /\ wire' = SubSeq(wire, 1, Len(wire) - cut)
      /\ UNCHANGED <<version, sent, state, buf, polling, taken, delivered, undecodable, verdict>>
  BY DEF InStep, TransportType, HangUp, reader
<1>2. Framed(sent, version, Stream, taken + 1) /\ EndsInLast(sent, version, Stream, taken + 1, "open")
  BY <1>1 DEF InStep, EndsInLast
<1>3. wire' \in Seq(Unit) /\ Len(wire') = Len(wire) - cut
      /\ \A k \in 1..Len(wire') : wire'[k] = wire[k]
  <2>1. Len(wire) \in Nat /\ 1 \in Int /\ Len(wire) - cut \in Nat
    BY <1>1
  <2> QED
    BY <1>1, <2>1, SubSeqProperties
<1>4. Stream' = buf \o wire' /\ Stream = buf \o wire
  BY <1>1 DEF Stream
<1>5. /\ Stream \in Seq(Unit) /\ Stream' \in Seq(Unit)
      /\ Len(Stream) = Len(buf) + Len(wire) /\ Len(Stream') = Len(buf) + Len(wire')
      /\ Len(Stream') = Len(Stream) - cut /\ cut \in 0..Len(Stream) /\ Len(Stream') <= Len(Stream)
  BY <1>1, <1>3, <1>4, StreamParts, SMTT(30)
<1>6. \A k \in 1..Len(Stream') : Stream'[k] = Stream[k]
  <2> TAKE k \in 1..Len(Stream')
  <2>1. Len(buf) \in Nat /\ Len(wire) \in Nat /\ k \in 1..Len(buf) + Len(wire')
        /\ k \in 1..Len(buf) + Len(wire)
        /\ (~(k <= Len(buf)) => k - Len(buf) \in 1..Len(wire'))
    BY <1>1, <1>3, <1>5, SMTT(30)
  <2> QED
    BY <1>1, <1>3, <1>4, <2>1, StreamParts
<1>7. Framed(sent, version, Stream', taken + 1)
  BY <1>1, <1>2, <1>5, <1>6, CutStream
<1>8. EndsInLast(sent, version, Stream', taken + 1, closed')
  <2>1. cut > 0 => cut < SizeOver(version, sent[Len(sent)])
    BY DEF HangUp, Size, SizeOver
  <2> QED
    BY <1>1, <1>2, <1>5, <1>6, <2>1, CutInLast
<1>9. EndsInLast(sent', version', Stream', taken' + 1, closed')
  BY <1>1, <1>8 DEF EndsInLast
<1>10. InStep'
  BY <1>1, <1>3, <1>7, <1>9 DEF InStep, TransportType, BufferFits
<1> QED
  BY <1>1, <1>10 DEF ChannelStep, Channel!ChannelNext, Channel!PeerCloses

----------------------------------------------------------------------------
(* The reader of a v1 stream.                                               *)

\* The buffer, once it holds a header, holds the header of the frame to hand up next,
\* and of that frame as much as there is.
LEMMA HeaderIsNext ==
  ASSUME InStep, version = 1, NEW b \in Seq(Unit), NEW w \in Seq(Unit), b \o w = Stream,
         Len(b) >= HEADER
  PROVE  /\ HeaderOf(b) = taken + 1
         /\ taken + 1 \in 1..Len(sent) /\ Stream # <<>>
         /\ Size(sent[taken + 1]) = HEADER + sent[taken + 1].body
         /\ \A k \in 1..Len(b) : k <= Size(sent[taken + 1]) => b[k] = <<taken + 1, k>>
<1> DEFINE n == taken + 1
<1>1. /\ TransportType /\ sent \in Seq(Frames) /\ n \in Nat /\ HEADER \in Nat \ {0}
      /\ Framed(sent, 1, Stream, n)
  BY TransportAssumption DEF InStep, TransportType
<1> HIDE DEF n
<1>2. /\ Stream \in Seq(Unit) /\ Len(b) \in Nat /\ Len(Stream) = Len(b) + Len(w) /\ Len(w) \in Nat
      /\ \A k \in 1..Len(b) : Stream[k] = b[k]
  BY StreamParts
<1>3. 1 \in 1..Len(Stream) /\ \A k \in 1..Len(b) : k \in 1..Len(Stream)
  BY <1>1, <1>2
<1>4. n \in 1..Len(sent)
  BY <1>1, <1>2, <1>3, FirstFrame
<1>5. Size(sent[n]) = HEADER + sent[n].body /\ SizeOver(1, sent[n]) = Size(sent[n])
      /\ sent[n].body \in Nat
  BY <1>1, <1>4, FrameTypes DEF SizeOver
<1>6. ASSUME NEW k \in 1..Len(b), k <= Size(sent[n])
      PROVE  b[k] = <<n, k>>
  <2>1. k \in 1..Len(Stream) /\ Stream[k] = b[k] /\ k <= SizeOver(1, sent[n])
    BY <1>2, <1>3, <1>5, <1>6
  <2>2. Stream \in Seq(Unit) /\ 1 \in {1, 2}
    BY <1>2
  <2>3. k <= SizeOver(1, sent[n]) => Stream[k] = <<n, k>>
    BY <1>1, <2>1, <2>2, FirstFrame
  <2> QED
    BY <2>1, <2>3
<1>7. \A k \in 1..HEADER : k \in 1..Len(b) /\ k <= Size(sent[n])
  BY <1>1, <1>2, <1>5, SMTT(30)
<1>8. HeaderOf(b) = n
  <2>1. 1 \in 1..HEADER
    BY <1>1
  <2>2. b[1][1] = n
    BY <1>6, <1>7, <2>1
  <2> QED
    BY <1>6, <1>7, <2>2 DEF HeaderOf
<1>9. Stream # <<>>
  BY <1>2, <1>3, EmptySeq
<1> QED
  BY <1>4, <1>5, <1>6, <1>8, <1>9 DEF n

\* The checksum and the decoder get every byte of the frame and no other, unless the
\* header lied about its length; what they say is what the frame deserves.
LEMMA FinishStep ==
  ASSUME InStep, version = 1, polling, NEW b \in Seq(Unit), wire' \in Seq(Unit), b \o wire' = Stream,
         taken < Len(sent) => sent[taken + 1].magic /\ sent[taken + 1].len <= MAX_V1_PAYLOAD,
         Len(b) >= HEADER, Len(b) = HEADER + sent[taken + 1].len,
         Finish(b), UNCHANGED <<version, sent, closed>>
  PROVE  InStep' /\ ChannelStep
<1> DEFINE n == taken + 1
           f == sent[n]
           size == SizeOver(1, f)
<1>1. /\ sent \in Seq(Frames) /\ n \in Nat /\ taken \in Nat /\ verdict = "none"
      /\ closed \in {"open", "fin", "reset"} /\ 1 \in {1, 2}
      /\ Framed(sent, 1, Stream, n) /\ EndsInLast(sent, 1, Stream, n, closed)
  BY DEF InStep, TransportType
<1>2. /\ HeaderOf(b) = n /\ n \in 1..Len(sent) /\ Stream # <<>>
      /\ Size(f) = HEADER + f.body
      /\ \A k \in 1..Len(b) : k <= Size(f) => b[k] = <<n, k>>
  BY HeaderIsNext
<1>3. taken < Len(sent) /\ Len(sent) \in Nat /\ n <= Len(sent)
  BY <1>1, <1>2
<1>4. /\ f \in Frames /\ f.len \in Nat /\ f.body \in Nat /\ Size(f) = size
      /\ HEADER \in Nat /\ MAX_V1_PAYLOAD \in Nat
  BY <1>2, FrameTypes, TransportAssumption DEF InStep
<1>5. f.magic /\ f.len <= MAX_V1_PAYLOAD /\ Len(b) = HEADER + f.len
  BY <1>3
<1> HIDE DEF n, f, size
<1>6. b = Units(n, f) <=> f.len = f.body
  <2>1. Units(n, f) = [k \in 1..Size(f) |-> <<n, k>>] /\ Size(f) \in Nat
    BY <1>2, <1>4 DEF Units
  <2>2. b = [k \in 1..Len(b) |-> b[k]] /\ DOMAIN b = 1..Len(b) /\ Len(b) \in Nat
    BY LenProperties
  <2>3. ASSUME f.len = f.body
        PROVE  b = Units(n, f)
    <3>1. Len(b) = Size(f)
      BY <1>2, <1>5, <2>3
    <3>2. \A k \in 1..Len(b) : b[k] = <<n, k>>
      BY <1>2, <2>1, <3>1
    <3> QED
      BY <2>1, <2>2, <3>1, <3>2
  <2>4. ASSUME b = Units(n, f)
        PROVE  f.len = f.body
    <3>1. 1..Len(b) = 1..Size(f)
      BY <2>1, <2>2, <2>4
    <3>2. Len(b) = Size(f)
      BY <2>1, <2>2, <3>1
    <3> QED
      BY <1>2, <1>4, <1>5, <3>2, SMTT(30)
  <2> QED
    BY <2>3, <2>4
<1>7. Channel!Deserves(1, f) =
        IF ~f.sum \/ f.len # f.body \/ ~(f.decodes \/ f.named) THEN "Decode" ELSE "none"
  BY <1>4, <1>5 DEF Channel!Deserves
<1>8. Channel!Skipped(1, f) <=> f.sum /\ f.len = f.body
  BY <1>4, <1>5 DEF Channel!Skipped
<1>9. CASE f.sum /\ b = Units(n, f)
  <2>1. buf' = <<>> /\ state' = "Header" /\ HandUp(n)
    BY <1>2, <1>9 DEF Finish, f
  <2>2. polling' = FALSE /\ taken' = n
    BY <2>1 DEF HandUp
  <2>3. Stream' = wire'
    BY <2>1, ConcatEmptySeq DEF Stream
  <2>4. /\ Stream \in Seq(Unit) /\ Len(Stream) = Len(b) + Len(wire')
        /\ Len(wire') \in Nat /\ Len(b) \in Nat
        /\ \A k \in 1..Len(wire') : Stream[Len(b) + k] = wire'[k]
    BY StreamParts, ZenonT(40)
  <2>5. Len(b) = size
    BY <1>2, <1>4, <1>5, <1>6, <1>9
  <2>6. /\ size <= Len(Stream) /\ Len(wire') = Len(Stream) - size
        /\ \A k \in 1..Len(wire') : wire'[k] = Stream[k + size]
    <3>1. size \in Nat /\ Len(wire') \in Nat /\ Len(Stream) = size + Len(wire')
      BY <2>4, <2>5
    <3>2. ASSUME NEW k \in 1..Len(wire') PROVE wire'[k] = Stream[k + size]
      <4>1. Stream[Len(b) + k] = wire'[k]
        BY <2>4
      <4>2. Len(b) + k = k + size
        BY <2>4, <2>5, SMTT(30)
      <4> QED
        BY <4>1, <4>2
    <3> QED
      BY <3>1, <3>2
  <2>7. Framed(sent, 1, Stream', n + 1) /\ EndsInLast(sent, 1, Stream', n + 1, closed)
    <3>1. /\ SizeOver(1, sent[n]) <= Len(Stream)
          /\ Len(wire') = Len(Stream) - SizeOver(1, sent[n])
          /\ \A k \in 1..Len(wire') : wire'[k] = Stream[k + SizeOver(1, sent[n])]
      BY <2>6 DEF f, size
    <3>2. /\ sent \in Seq(Frames) /\ 1 \in {1, 2} /\ Stream \in Seq(Unit) /\ n \in Nat
          /\ Framed(sent, 1, Stream, n) /\ EndsInLast(sent, 1, Stream, n, closed)
          /\ wire' \in Seq(Unit) /\ n \in 1..Len(sent) /\ Stream # <<>>
      BY <1>1, <1>2, <2>4
    <3>3. Framed(sent, 1, wire', n + 1) /\ EndsInLast(sent, 1, wire', n + 1, closed)
      BY <3>1, <3>2, DropFrame
    <3> QED
      BY <2>3, <3>3
  <2>8. InStep'
    <3>1. TransportType'
      BY <1>1, <2>1, <2>2, EmptySeq DEF InStep, TransportType
    <3>2. BufferFits'
      BY <1>4, <2>1, EmptySeq DEF BufferFits
    <3> QED
      BY <1>3, <2>2, <2>7, <3>1, <3>2 DEF InStep
  <2>9. CASE f.decodes \/ f.named
    <3>1. Channel!Deserves(1, f) = "none"
      BY <1>6, <1>7, <1>9, <2>9
    <3>2. verdict' = verdict
          /\ delivered' = Append(delivered, [frame |-> n, as |-> IF f.decodes THEN "message" ELSE "Unknown"])
      BY <2>1, <2>9 DEF HandUp, f
    <3>3. Channel!Deliver
      BY <1>1, <1>3, <2>2, <3>1, <3>2 DEF Channel!Deliver, Channel!HandedUp, n, f
    <3> QED
      BY <2>8, <3>3 DEF ChannelStep, Channel!ChannelNext
  <2>10. CASE ~(f.decodes \/ f.named)
    <3>1. Channel!Deserves(1, f) = "Decode" /\ Channel!Skipped(1, f)
      BY <1>6, <1>7, <1>8, <1>9, <2>10
    <3>2. verdict' = "Decode" /\ delivered' = delivered
      BY <2>1, <2>10 DEF HandUp, f
    <3>3. Channel!Refuse
      BY <1>1, <1>3, <2>2, <3>1, <3>2 DEF Channel!Refuse, n, f
    <3> QED
      BY <2>8, <3>3 DEF ChannelStep, Channel!ChannelNext
  <2> QED
    BY <2>9, <2>10
<1>10. CASE ~(f.sum /\ b = Units(n, f))
  <2>1. /\ buf' = b /\ state' = "Payload" /\ polling' = FALSE /\ verdict' = "Decode"
        /\ taken' = taken /\ delivered' = delivered
    BY <1>2, <1>10 DEF Finish, Fail, f
  <2>2. Stream' = Stream
    BY <2>1 DEF Stream
  <2>3. InStep'
    <3>1. TransportType'
      BY <1>1, <2>1 DEF InStep, TransportType
    <3>2. BufferFits'
      BY <1>3, <1>4, <1>5, <2>1, SMTT(30) DEF BufferFits, n, f
    <3> QED
      BY <1>1, <1>3, <2>1, <2>2, <3>1, <3>2 DEF InStep, n
  <2>4. Channel!Deserves(1, f) = "Decode" /\ ~Channel!Skipped(1, f)
    BY <1>6, <1>7, <1>8, <1>10
  <2>5. Channel!Refuse
    BY <1>1, <1>3, <2>1, <2>4 DEF Channel!Refuse, n, f
  <2> QED
    BY <2>3, <2>5 DEF ChannelStep, Channel!ChannelNext
<1> QED
  BY <1>9, <1>10

\* A reader that only moved bytes from the wire to its buffer has done nothing that
\* its session or the peer could tell.
LEMMA BytesMoveUnseen ==
  ASSUME InStep, version = 1, wire' \in Seq(Unit), buf' \in Seq(Unit), buf' \o wire' = Stream,
         state' \in {"Header", "Payload"}, BufferFits',
         polling' \in BOOLEAN, polling' => verdict' = "none",
         UNCHANGED <<version, sent, closed, taken>>
  PROVE  InStep'
<1>1. Stream' = Stream
  BY DEF Stream
<1>2. TransportType'
  BY DEF InStep, TransportType
<1> QED
  BY <1>1, <1>2 DEF InStep

\* A whole header: what the magic and the length say of it is what its frame deserves.
LEMMA StartPayloadStep ==
  ASSUME InStep, version = 1, polling, NEW b \in Seq(Unit), wire' \in Seq(Unit), b \o wire' = Stream,
         Len(b) = HEADER, state = "Header",
         StartPayload(b), UNCHANGED <<version, sent, closed>>
  PROVE  InStep' /\ ChannelStep
<1> DEFINE n == taken + 1
           f == sent[n]
<1>1. taken \in Nat /\ verdict = "none" /\ HEADER \in Nat \ {0} /\ MAX_V1_PAYLOAD \in Nat
      /\ sent \in Seq(Frames) /\ Len(sent) \in Nat
  BY TransportAssumption, LenProperties DEF InStep, TransportType
<1>2. HeaderOf(b) = n /\ n \in 1..Len(sent)
  <2>1. Len(b) >= HEADER
    BY <1>1
  <2> QED
    BY <2>1, HeaderIsNext
<1>3. n # 0 /\ taken < Len(sent)
  BY <1>1, <1>2
<1>4. f \in Frames /\ f.len \in Nat /\ f.body \in Nat
  BY <1>2, FrameTypes DEF InStep
<1> HIDE DEF n, f
<1>5. CASE ~f.magic
  <2>1. /\ buf' = b /\ state' = "Header" /\ polling' = FALSE /\ verdict' = "WrongMagic"
        /\ UNCHANGED <<taken, delivered, undecodable>>
    BY <1>2, <1>5 DEF StartPayload, Fail, f
  <2>2. BufferFits'
    BY <1>1, <2>1 DEF BufferFits
  <2>3. InStep'
    BY <2>1, <2>2, BytesMoveUnseen
  <2>4. Channel!Deserves(1, f) = "WrongMagic" /\ ~Channel!Skipped(1, f)
    BY <1>5 DEF Channel!Deserves, Channel!Skipped
  <2>5. Channel!Refuse
    BY <1>1, <1>3, <2>1, <2>4 DEF Channel!Refuse, n, f
  <2> QED
    BY <2>3, <2>5 DEF ChannelStep, Channel!ChannelNext
<1>6. CASE f.magic /\ f.len > MAX_V1_PAYLOAD
  <2>1. /\ buf' = b /\ state' = "Header" /\ polling' = FALSE /\ verdict' = "Oversized"
        /\ UNCHANGED <<taken, delivered, undecodable>>
    BY <1>2, <1>3, <1>6 DEF StartPayload, Fail, f
  <2>2. BufferFits'
    BY <1>1, <2>1 DEF BufferFits
  <2>3. InStep'
    BY <2>1, <2>2, BytesMoveUnseen
  <2>4. Channel!Deserves(1, f) = "Oversized" /\ ~Channel!Skipped(1, f)
    BY <1>1, <1>4, <1>6 DEF Channel!Deserves, Channel!Skipped
  <2>5. Channel!Refuse
    BY <1>1, <1>3, <2>1, <2>4 DEF Channel!Refuse, n, f
  <2> QED
    BY <2>3, <2>5 DEF ChannelStep, Channel!ChannelNext
<1>7. CASE f.magic /\ ~(f.len > MAX_V1_PAYLOAD) /\ f.len = 0
  <2>1. Finish(b)
    BY <1>2, <1>3, <1>7 DEF StartPayload, f
  <2>2. f.len <= MAX_V1_PAYLOAD /\ Len(b) >= HEADER /\ Len(b) = HEADER + f.len
    BY <1>1, <1>7
  <2> QED
    BY <1>7, <2>1, <2>2, FinishStep DEF n, f
<1>8. CASE f.magic /\ ~(f.len > MAX_V1_PAYLOAD) /\ f.len # 0
  <2>1. /\ buf' = b /\ state' = "Payload"
        /\ UNCHANGED <<polling, verdict, taken, delivered, undecodable>>
    BY <1>2, <1>3, <1>8 DEF StartPayload, f
  <2>2. f.len <= MAX_V1_PAYLOAD /\ Len(b) \in HEADER..HEADER + f.len
    BY <1>1, <1>4, <1>8
  <2>3. BufferFits'
    BY <1>3, <1>8, <2>1, <2>2 DEF BufferFits, n, f
  <2>4. InStep'
    BY <2>1, <2>3, BytesMoveUnseen DEF InStep, TransportType
  <2> QED
    BY <2>1, <2>4 DEF ChannelStep
<1> QED
  BY <1>5, <1>6, <1>7, <1>8

\* However much of what is wanted a read brings.
LEMMA ProceedStep ==
  ASSUME InStep, version = 1, polling, NEW b \in Seq(Unit), wire' \in Seq(Unit), b \o wire' = Stream,
         NEW wanted \in Nat, Len(b) >= Len(buf), Len(b) + wanted = Len(buf) + Wanted,
         Proceed(b, wanted), UNCHANGED <<version, sent, closed>>
  PROVE  InStep' /\ ChannelStep
<1>1. /\ taken \in Nat /\ verdict = "none" /\ HEADER \in Nat \ {0}
      /\ buf \in Seq(Unit) /\ wire \in Seq(Unit) /\ Len(buf) \in Nat /\ Len(b) \in Nat
      /\ state \in {"Header", "Payload"}
  BY TransportAssumption, LenProperties DEF InStep, TransportType
<1>2. CASE state = "Header"
  <2>1. Len(b) + wanted = HEADER
    BY <1>1, <1>2 DEF Wanted
  <2>2. CASE wanted > 0
    <3>1. buf' = b /\ UNCHANGED <<state, polling, verdict, taken, delivered, undecodable>>
      BY <2>2 DEF Proceed
    <3>2. Len(b) <= HEADER
      BY <1>1, <2>1
    <3>3. BufferFits'
      BY <1>2, <3>1, <3>2 DEF BufferFits
    <3>4. InStep'
      BY <3>1, <3>3, BytesMoveUnseen DEF InStep, TransportType
    <3> QED
      BY <3>1, <3>4 DEF ChannelStep
  <2>3. CASE ~(wanted > 0)
    <3>1. StartPayload(b) /\ Len(b) = HEADER
      BY <1>1, <1>2, <2>1, <2>3 DEF Proceed
    <3> QED
      BY <1>2, <3>1, StartPayloadStep
  <2> QED
    BY <2>2, <2>3
<1>3. CASE state = "Payload"
  <2>1. /\ taken < Len(sent)
        /\ sent[taken + 1].magic /\ sent[taken + 1].len <= MAX_V1_PAYLOAD
        /\ Len(buf) \in HEADER..HEADER + sent[taken + 1].len
    BY <1>3 DEF InStep, BufferFits
  <2>2. Len(buf) >= HEADER /\ Len(b) >= HEADER
    BY <1>1, <2>1
  <2>3. HeaderOf(buf) = taken + 1 /\ taken + 1 \in 1..Len(sent)
    BY <1>1, <2>2, HeaderIsNext DEF Stream
  <2>4. sent[taken + 1].len \in Nat
    BY <2>3, FrameTypes DEF InStep
  <2>5. Len(b) + wanted = HEADER + sent[taken + 1].len
    BY <1>1, <1>3, <2>3, <2>4, SMTT(30) DEF Wanted
  <2>6. CASE wanted > 0
    <3>1. buf' = b /\ UNCHANGED <<state, polling, verdict, taken, delivered, undecodable>>
      BY <2>6 DEF Proceed
    <3>2. Len(b) \in HEADER..HEADER + sent[taken + 1].len
      BY <1>1, <2>2, <2>4, <2>5
    <3>3. BufferFits'
      BY <1>3, <2>1, <3>1, <3>2 DEF BufferFits
    <3>4. InStep'
      BY <3>1, <3>3, BytesMoveUnseen DEF InStep, TransportType
    <3> QED
      BY <3>1, <3>4 DEF ChannelStep
  <2>7. CASE ~(wanted > 0)
    <3>1. Finish(b) /\ Len(b) = HEADER + sent[taken + 1].len
      BY <1>1, <1>3, <2>4, <2>5, <2>7 DEF Proceed
    <3> QED
      BY <2>1, <2>2, <3>1, FinishStep
  <2> QED
    BY <2>6, <2>7
<1> QED
  BY <1>1, <1>2, <1>3

\* One read of the v1 socket.
LEMMA V1RecvStep ==
  ASSUME InStep, V1Recv
  PROVE  InStep' /\ ChannelStep
<1>1. /\ version = 1 /\ polling /\ verdict = "none" /\ UNCHANGED <<version, sent, closed>>
      /\ taken \in Nat /\ buf \in Seq(Unit) /\ wire \in Seq(Unit)
      /\ Len(buf) \in Nat /\ Len(wire) \in Nat /\ Stream = buf \o wire
  BY LenProperties DEF V1Recv, InStep, TransportType, Stream
<1>2. ASSUME Wanted = 0, Proceed(buf, 0), wire' = wire
      PROVE  InStep' /\ ChannelStep
  <2>1. Len(buf) >= Len(buf) /\ Len(buf) + 0 = Len(buf) + Wanted /\ 0 \in Nat
    BY <1>1, <1>2
  <2> QED
    BY <1>1, <1>2, <2>1, ProceedStep
<1>3. ASSUME Wanted > 0, NEW m \in 1..Len(wire), m <= Wanted,
             Proceed(buf \o SubSeq(wire, 1, m), Wanted - m),
             wire' = SubSeq(wire, m + 1, Len(wire))
      PROVE  InStep' /\ ChannelStep
  <2> DEFINE r == SubSeq(wire, 1, m)
  <2>1. r \in Seq(Unit) /\ Len(r) = m /\ wire' \in Seq(Unit)
    <3>1. m \in Nat /\ m + 1 \in Nat /\ m <= Len(wire)
      BY <1>1
    <3>2. \A i \in 1..m : i \in 1..Len(wire)
      BY <1>1
    <3>3. \A i \in m + 1..Len(wire) : i \in 1..Len(wire)
      BY <1>1
    <3>4. r \in Seq(Unit) /\ Len(r) = m
      BY <1>1, <3>1, <3>2, SubSeqProperties
    <3>5. wire' \in Seq(Unit)
      BY <1>1, <1>3, <3>1, <3>3, SubSeqProperties
    <3> QED
      BY <3>4, <3>5
  <2>2. r \o wire' = wire
    BY <1>1, <1>3
  <2> HIDE DEF r
  <2>3. (buf \o r) \o wire' = Stream
    BY <1>1, <2>1, <2>2, StreamAssociative
  <2>4. buf \o r \in Seq(Unit) /\ Len(buf \o r) = Len(buf) + m
    BY <1>1, <2>1, StreamParts
  <2>5. Wanted \in Int
    <3>1. Wanted \notin Int => FALSE
      <4>1. CASE state = "Header"
        BY <1>1, <4>1, TransportAssumption DEF Wanted
      <4>2. CASE state # "Header"
        <5>1. Len(buf) >= HEADER /\ HEADER \in Nat
          BY <1>1, <4>2, TransportAssumption DEF InStep, TransportType, BufferFits
        <5>2. HeaderOf(buf) = taken + 1 /\ taken + 1 \in 1..Len(sent)
          BY <1>1, <5>1, HeaderIsNext
        <5>3. sent[taken + 1].len \in Nat
          BY <5>2, FrameTypes DEF InStep
        <5> QED
          BY <1>1, <4>2, <5>1, <5>2, <5>3 DEF Wanted
      <4> QED
        BY <4>1, <4>2
    <3> QED
      BY <3>1
  <2>6. Wanted - m \in Nat /\ Len(buf \o r) >= Len(buf)
        /\ Len(buf \o r) + (Wanted - m) = Len(buf) + Wanted
    BY <1>1, <1>3, <2>4, <2>5
  <2>7. Proceed(buf \o r, Wanted - m)
    BY <1>3 DEF r
  <2> QED
    BY <1>1, <2>1, <2>3, <2>4, <2>6, <2>7, ProceedStep
<1>4. ASSUME wire = <<>>, closed = "fin",
             Fail(IF buf = <<>> THEN "PeerClosed" ELSE "Truncated"),
             UNCHANGED <<wire, state, buf, taken, delivered, undecodable>>
      PROVE  InStep' /\ ChannelStep
  <2>1. Stream = buf
    BY <1>1, <1>4, ConcatEmptySeq
  <2>2. polling' = FALSE /\ verdict' = IF buf = <<>> THEN "PeerClosed" ELSE "Truncated"
    BY <1>4 DEF Fail
  <2>3. BufferFits'
    BY <1>1, <1>4 DEF InStep, BufferFits
  <2>4. InStep'
    BY <1>1, <1>4, <2>2, <2>3, BytesMoveUnseen DEF InStep, TransportType
  <2>5. buf = <<>> <=> ~(taken < Len(sent))
    <3>1. /\ sent \in Seq(Frames) /\ Len(sent) \in Nat /\ taken + 1 \in Nat /\ 1 \in {1, 2}
          /\ Framed(sent, 1, buf, taken + 1) /\ EndsInLast(sent, 1, buf, taken + 1, closed)
      BY <1>1, <2>1, LenProperties DEF InStep, TransportType
    <3>2. buf = <<>> => ~(taken < Len(sent))
      BY <1>1, <3>1 DEF EndsInLast
    <3>3. ASSUME buf # <<>> PROVE taken < Len(sent)
      <4>1. 1 \in 1..Len(buf)
        BY <1>1, <3>3, EmptySeq
      <4>2. taken + 1 \in 1..Len(sent)
        BY <1>1, <3>1, <4>1, FirstFrame
      <4> QED
        BY <1>1, <3>1, <4>2
    <3> QED
      BY <3>2, <3>3
  <2>6. Channel!RunOut
    BY <1>1, <1>4, <2>2, <2>5 DEF Channel!RunOut
  <2> QED
    BY <2>4, <2>6 DEF ChannelStep, Channel!ChannelNext
<1> QED
  BY <1>2, <1>3, <1>4 DEF V1Recv

----------------------------------------------------------------------------
(* The reader of a BIP324 stream, the session's loop, and the socket.       *)

\* One packet is one frame: handed up, or refused and gone.
LEMMA V2RecvStep ==
  ASSUME InStep, V2Recv
  PROVE  InStep' /\ ChannelStep
<1> DEFINE n == taken + 1
           f == sent[n]
<1>1. /\ version = 2 /\ polling /\ verdict = "none"
      /\ UNCHANGED <<version, sent, closed, state, buf>>
      /\ buf = <<>> /\ state = "Header"
      /\ wire \in Seq(Unit) /\ Len(wire) \in Nat
      /\ taken \in Nat /\ sent \in Seq(Frames) /\ Len(sent) \in Nat
      /\ closed \in {"open", "fin", "reset"} /\ 2 \in {1, 2} /\ n \in Nat
  BY LenProperties DEF V2Recv, InStep, TransportType, BufferFits
<1>2. Stream = wire
  BY <1>1, ConcatEmptySeq DEF Stream
<1>3. Framed(sent, 2, wire, n) /\ EndsInLast(sent, 2, wire, n, closed)
  BY <1>1, <1>2 DEF InStep
<1>4. ASSUME polling' = FALSE, taken' \in Nat, taken' <= Len(sent), wire' \in Seq(Unit),
             Framed(sent, 2, wire', taken' + 1), EndsInLast(sent, 2, wire', taken' + 1, closed)
      PROVE  InStep'
  <2>1. Stream' = wire'
    BY <1>1, <1>4, ConcatEmptySeq DEF Stream
  <2>2. TransportType'
    BY <1>1, <1>4, EmptySeq DEF InStep, TransportType
  <2>3. BufferFits'
    BY <1>1 DEF InStep, BufferFits
  <2> QED
    BY <1>1, <1>4, <2>1, <2>2, <2>3 DEF InStep
<1>5. CASE wire # <<>>
  <2>1. wire' = Tail(wire) /\ Len(wire) >= 1 /\ 1 \in 1..Len(wire)
    BY <1>1, <1>5, EmptySeq DEF V2Recv
  <2>2. wire[1][1] = n /\ n \in 1..Len(sent)
    <3>1. wire[1] = <<n, 1>>
      BY <1>3, <1>5 DEF Framed
    <3>2. n \in 1..Len(sent)
      BY <1>1, <1>3, <2>1, FirstFrame
    <3> QED
      BY <3>1, <3>2
  <2>3. taken < Len(sent) /\ n <= Len(sent)
    BY <1>1, <2>2
  <2>4. SizeOver(2, f) = 1
    BY DEF SizeOver
  <2>5. /\ wire' \in Seq(Unit) /\ Len(wire') = Len(wire) - 1
        /\ \A k \in 1..Len(wire') : wire'[k] = wire[k + 1]
    BY <1>1, <1>5, <2>1, HeadTailProperties
  <2>6. Framed(sent, 2, wire', n + 1) /\ EndsInLast(sent, 2, wire', n + 1, closed)
    <3>1. /\ SizeOver(2, sent[n]) <= Len(wire)
          /\ Len(wire') = Len(wire) - SizeOver(2, sent[n])
          /\ \A k \in 1..Len(wire') : wire'[k] = wire[k + SizeOver(2, sent[n])]
      BY <2>1, <2>4, <2>5
    <3>2. /\ sent \in Seq(Frames) /\ 2 \in {1, 2} /\ wire \in Seq(Unit) /\ n \in Nat
          /\ Framed(sent, 2, wire, n) /\ EndsInLast(sent, 2, wire, n, closed)
          /\ wire' \in Seq(Unit) /\ n \in 1..Len(sent) /\ wire # <<>>
      BY <1>1, <1>3, <1>5, <2>2, <2>5
    <3> HIDE DEF n, f
    <3> QED
      BY <3>1, <3>2, DropFrame
  <2> HIDE DEF n, f
  <2>7. CASE f.sum
    <3>1. HandUp(n)
      BY <1>5, <2>2, <2>7 DEF V2Recv, f
    <3>2. polling' = FALSE /\ taken' = n
      BY <3>1 DEF HandUp
    <3>3. InStep'
      BY <1>1, <1>4, <2>3, <2>5, <2>6, <3>2
    <3>4. CASE f.decodes \/ f.named
      <4>1. Channel!Deserves(2, f) = "none"
        BY <2>7, <3>4 DEF Channel!Deserves
      <4>2. verdict' = verdict
            /\ delivered' = Append(delivered, [frame |-> n, as |-> IF f.decodes THEN "message" ELSE "Unknown"])
        BY <3>1, <3>4 DEF HandUp, f
      <4>3. Channel!Deliver
        BY <1>1, <2>3, <3>2, <4>1, <4>2 DEF Channel!Deliver, Channel!HandedUp, n, f
      <4> QED
        BY <3>3, <4>3 DEF ChannelStep, Channel!ChannelNext
    <3>5. CASE ~(f.decodes \/ f.named)
      <4>1. Channel!Deserves(2, f) = "Decode" /\ Channel!Skipped(2, f)
        BY <2>7, <3>5 DEF Channel!Deserves, Channel!Skipped
      <4>2. verdict' = "Decode" /\ delivered' = delivered
        BY <3>1, <3>5 DEF HandUp, f
      <4>3. Channel!Refuse
        BY <1>1, <2>3, <3>2, <4>1, <4>2 DEF Channel!Refuse, n, f
      <4> QED
        BY <3>3, <4>3 DEF ChannelStep, Channel!ChannelNext
    <3> QED
      BY <3>4, <3>5
  <2>8. CASE ~f.sum
    <3>1. Fail("V2Decrypt") /\ taken' = n /\ delivered' = delivered
      BY <1>5, <2>2, <2>8 DEF V2Recv, f
    <3>2. polling' = FALSE /\ verdict' = "V2Decrypt"
      BY <3>1 DEF Fail
    <3>3. InStep'
      BY <1>1, <1>4, <2>3, <2>5, <2>6, <3>1, <3>2
    <3>4. Channel!Deserves(2, f) = "V2Decrypt" /\ Channel!Skipped(2, f)
      BY <2>8 DEF Channel!Deserves, Channel!Skipped
    <3>5. Channel!Refuse
      BY <1>1, <2>3, <3>1, <3>2, <3>4 DEF Channel!Refuse, n, f
    <3> QED
      BY <3>3, <3>5 DEF ChannelStep, Channel!ChannelNext
  <2> QED
    BY <2>7, <2>8
<1>6. CASE wire = <<>>
  <2>1. /\ closed = "fin" /\ polling' = FALSE /\ verdict' = "PeerClosed"
        /\ UNCHANGED <<wire, taken, delivered>>
    BY <1>6 DEF V2Recv, Fail
  <2>2. InStep'
    BY <1>1, <1>3, <1>4, <2>1 DEF InStep
  <2>3. Channel!RunOut
    BY <1>1, <2>1 DEF Channel!RunOut
  <2> QED
    BY <2>2, <2>3 DEF ChannelStep, Channel!ChannelNext
<1> QED
  BY <1>5, <1>6

\* The steps that touch neither the stream nor the reader's place in it: a new recv()
\* future, a dropped one, a socket that fails.
LEMMA PlaceKept ==
  ASSUME InStep, polling' \in BOOLEAN, polling' => verdict' = "none",
         UNCHANGED <<version, sent, closed, wire, state, buf, taken>>
  PROVE  InStep'
<1>1. Stream' = Stream
  BY DEF Stream
<1>2. TransportType' /\ BufferFits'
  BY DEF InStep, TransportType, BufferFits
<1> QED
  BY <1>1, <1>2 DEF InStep

\* Every step keeps the invariant and is one the channel allows.
LEMMA NextInStep ==
  ASSUME InStep, [TransportNext]_tvars
  PROVE  InStep' /\ ChannelStep
<1>1. ASSUME Poll PROVE InStep' /\ ChannelStep
  <2>1. /\ polling' = TRUE
        /\ UNCHANGED <<version, sent, closed, wire, state, buf, taken, delivered>>
        /\ verdict' = "none"
        /\ verdict' = verdict \/ verdict # "none"
    <3>1. "none" \notin Faults
      BY DEF Faults
    <3> QED
      BY <1>1, <3>1 DEF Poll
  <2>2. InStep'
    BY <2>1, PlaceKept
  <2>3. CASE verdict' = verdict
    BY <2>1, <2>2, <2>3 DEF ChannelStep
  <2>4. CASE verdict # "none"
    <3>1. Channel!AskAgain
      BY <2>1, <2>4 DEF Channel!AskAgain
    <3> QED
      BY <2>2, <3>1 DEF ChannelStep, Channel!ChannelNext
  <2> QED
    BY <2>1, <2>3, <2>4
<1>2. ASSUME Cancel PROVE InStep' /\ ChannelStep
  <2>1. /\ polling' = FALSE
        /\ UNCHANGED <<version, sent, closed, wire, state, buf, taken, delivered, verdict>>
    BY <1>2 DEF Cancel
  <2>2. InStep'
    BY <2>1, PlaceKept
  <2> QED
    BY <2>1, <2>2 DEF ChannelStep
<1>3. ASSUME RecvFails PROVE InStep' /\ ChannelStep
  <2>1. /\ polling' = FALSE /\ closed = "reset" /\ verdict' = "Reset" /\ verdict = "none"
        /\ UNCHANGED <<version, sent, closed, wire, state, buf, taken, delivered>>
    BY <1>3 DEF RecvFails, Fail, InStep
  <2>2. InStep'
    BY <2>1, PlaceKept
  <2>3. Channel!SocketFails
    BY <2>1 DEF Channel!SocketFails
  <2> QED
    BY <2>2, <2>3 DEF ChannelStep, Channel!ChannelNext
<1>4. ASSUME SendFails PROVE InStep' /\ ChannelStep
  <2>1. /\ ~polling /\ verdict = "none" /\ verdict' = "Write"
        /\ UNCHANGED <<version, sent, closed, wire, state, buf, polling, taken, delivered>>
    BY <1>4 DEF SendFails
  <2>2. InStep'
    BY <2>1, PlaceKept DEF InStep, TransportType
  <2>3. Channel!SocketFails
    BY <2>1 DEF Channel!SocketFails
  <2> QED
    BY <2>2, <2>3 DEF ChannelStep, Channel!ChannelNext
<1>5. ASSUME UNCHANGED tvars PROVE InStep' /\ ChannelStep
  <2>1. UNCHANGED <<version, sent, closed, wire, state, buf, polling, taken, delivered, verdict>>
    BY <1>5 DEF tvars
  <2>2. InStep'
    BY <2>1, PlaceKept DEF InStep, TransportType
  <2> QED
    BY <2>1, <2>2 DEF ChannelStep
<1> QED
  BY <1>1, <1>2, <1>3, <1>4, <1>5, SendStep, HangUpStep, V1RecvStep, V2RecvStep
     DEF TransportNext, Peer, Recv

----------------------------------------------------------------------------

\* The reader is always in step with the stream, however it came in and however often
\* recv() was abandoned (V1Reader keeps its state and buffer between calls).
THEOREM ReaderStaysInStep == TransportSpec => []InStep
<1>1. TransportInit => InStep
  BY InitInStep
<1>2. InStep /\ [TransportNext]_tvars => InStep'
  BY NextInStep
<1>3. TransportSpec => TransportInit /\ [][TransportNext]_tvars
  BY PTL DEF TransportSpec
<1> QED
  BY <1>1, <1>2, <1>3, PTL

\* transport.rs implements the channel its session relies on: no message lost, repeated,
\* reordered or misread over short reads and dropped futures, and every fault the one
\* the peer gave cause for.
THEOREM TransportIsChannel == TransportSpec => ImplementsChannel
<1>1. TransportInit => Channel!ChannelInit
  BY DEF TransportInit, Channel!ChannelInit
<1>2. InStep /\ [TransportNext]_tvars => [Channel!ChannelNext]_(Channel!cvars)
  BY NextInStep DEF ChannelStep, Channel!cvars
<1>3. TransportSpec => TransportInit /\ [][TransportNext]_tvars
  BY PTL DEF TransportSpec
<1>4. TransportSpec => []InStep
  BY ReaderStaysInStep
<1> QED
  BY <1>1, <1>2, <1>3, <1>4, PTL DEF ImplementsChannel, Channel!ChannelSpec
=============================================================================
