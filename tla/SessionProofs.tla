----------------------------- MODULE SessionProofs -----------------------------
(***************************************************************************)
(* What holds of every connection attempt and its session, whatever the    *)
(* network, the hint, the errors and the peer, and for any length of it:   *)
(* the ping timer keeps a peer that answers and drops one that does not,   *)
(* neither bucket ever gives more than it earned, and the stream, the      *)
(* address manager and the registry are told one and the same story.       *)
(***************************************************************************)
EXTENDS Attempt, SequenceTheorems, FiniteSetTheorems, WellFoundedInduction, TLAPS

----------------------------------------------------------------------------
(* The inductive invariant *)

\* An answer to one of our pings, as against the pongs a peer makes up.
IsAnswer(m)  == m.command = "pong" /\ m.nonce \in Nat
IsMessage(m) == m \in Says \cup Gossips \/ (m = [command |-> "pong", nonce |-> m.nonce] /\ m.nonce \in Nat)

IsSeq(q) == \E S : q \in Seq(S)

IsBucket(b, burst) ==
  /\ b = [tokens |-> b.tokens, updated |-> b.updated]
  /\ b.tokens \in 0..(burst * REFILL) /\ b.updated \in 0..now

IsConn(c) ==
  /\ c = [outstanding_pings |-> c.outstanding_pings, last_pong |-> c.last_pong,
          unsolicited_pongs |-> c.unsolicited_pongs, getheaders_ignored |-> c.getheaders_ignored,
          by_command |-> c.by_command, messages |-> c.messages,
          messages_other |-> c.messages_other, running |-> c.running, writing |-> c.writing,
          tick |-> c.tick, addr |-> c.addr, getheaders |-> c.getheaders,
          getaddr_outstanding |-> c.getaddr_outstanding]
  /\ c.outstanding_pings \in Seq(Nat)
  /\ c.last_pong \in 0..now /\ c.tick \in Nat /\ c.getheaders_ignored \in Nat
  /\ c.running \in BOOLEAN /\ c.getaddr_outstanding \in BOOLEAN
  /\ IsBucket(c.addr, ADDR_BURST) /\ IsBucket(c.getheaders, GETHEADERS_BURST)

SessionType ==
  /\ now \in Nat /\ heard \in 0..now /\ stalls \in Nat
  /\ taking \in BOOLEAN /\ overdue \in BOOLEAN
  /\ IsSeq(inbox) /\ \A i \in 1..Len(inbox) : IsMessage(inbox[i])
  /\ known \subseteq Nat /\ due \subseteq Nat
  /\ IsConn(conn)

\* Both buckets: what was given since an entry and what is left to give is at most the
\* burst and what was earned since.
Buckets ==
  /\ learned \in Seq([at : 0..conn.addr.updated, before : Nat, upto : Nat])
  /\ \A i \in 1..Len(learned) :
       REFILL * (Charged - learned[i].before) + conn.addr.tokens
         <= ADDR_BURST * REFILL + (conn.addr.updated - learned[i].at)
  /\ free = IF conn.getaddr_outstanding THEN 0 ELSE 1
  /\ answered \in Seq(0..conn.getheaders.updated)
  /\ \A i \in 1..Len(answered) :
       REFILL * (Len(answered) - i + 1) + conn.getheaders.tokens
         <= GETHEADERS_BURST * REFILL + (conn.getheaders.updated - answered[i])

\* While no write has waited for the peer, the timer fires on time, and the deadline is
\* never more than one tick away from being looked at.
Prompt ==
  /\ taking /\ conn.writing \in {"none", "opening"}
  /\ now \in (conn.tick - PING_INTERVAL)..conn.tick
  /\ conn.last_pong <= heard
  /\ conn.tick <= conn.last_pong + PING_INTERVAL
       \/ (conn.outstanding_pings # <<>>
            /\ conn.tick <= conn.last_pong + Max({PING_TIMEOUT, PING_INTERVAL}) + PING_INTERVAL)
  /\ \A i \in 1..Len(inbox) : IsAnswer(inbox[i]) => heard = now

\* The pings whose answer is on its way or not yet due.
Owed == due \cup {inbox[i].nonce : i \in {j \in 1..Len(inbox) : IsAnswer(inbox[j])}}

\* A ping that has not been unanswered for Patience.
InTime(n) == n = now \/ now - n < Patience

\* The nonces remembered are of pings an interval apart, in the order they were sent.
Spaced(pings, last) ==
  \A i \in 1..Len(pings) :
    /\ pings[i] + (Len(pings) - i) * PING_INTERVAL <= last
    /\ \A j \in 1..Len(pings) : i < j => pings[i] < pings[j]

\* The first ping after the last answer, if there was one yet, is remembered.
Recent(pings, last_pong, last) ==
  \/ last <= last_pong
  \/ \E i \in 1..Len(pings) : pings[i] \in (last_pong + 1)..(last_pong + PING_INTERVAL)

\* While no ping has been left unanswered for Patience: every nonce remembered is still
\* owed, so none of them was forgotten for want of room.
OnTime ==
  LET pings == conn.outstanding_pings
      last  == conn.tick - PING_INTERVAL
  IN
  /\ now \in last..conn.tick
  /\ known \subseteq due
  /\ \A n \in due : n <= last
  /\ \A n \in Owed : InTime(n)
  /\ \A i \in 1..Len(pings) : pings[i] \in Owed
  /\ Spaced(pings, last) /\ Recent(pings, conn.last_pong, last)
  /\ conn.writing = "ping" => Last(pings) \in due \ known

InRun ==
  /\ SessionType /\ Buckets
  /\ conn.running /\ conn.writing = "ping" => conn.outstanding_pings # <<>>
  /\ conn.running /\ stalls = 0 => Prompt
  /\ conn.running /\ ~overdue => OnTime

\* Outside a session nothing of one is left but how it ended.
Quiet ==
  /\ now = 0 /\ inbox = <<>> /\ taking = TRUE /\ known = {} /\ stalls = 0
  /\ learned = <<>> /\ free = 0 /\ answered = <<>> /\ due = {} /\ heard = 0

BeforeRun == {"start", "connect", "transport", "version", "shaken", "failed", "announce", "register"}

SessionInv ==
  /\ stage \in {"run", "ended"} => InRun
  /\ stage = "run" => conn.running /\ ended = "none"
  /\ stage # "run" => ~conn.running
  /\ stage \notin {"run", "ended"} => Quiet
  /\ stage \in BeforeRun => ended = "none" /\ ~overdue
  /\ overdue \in BOOLEAN /\ (ended = "PingTimeout" => overdue)

----------------------------------------------------------------------------
(* Numbers and sequences *)

\* The smaller and the larger of two numbers.
LEMMA OfTwo ==
  ASSUME NEW a \in Int, NEW b \in Int
  PROVE  /\ Min({a, b}) = IF a <= b THEN a ELSE b
         /\ Max({a, b}) = IF a >= b THEN a ELSE b
<1>1. \E x \in {a, b} : \A y \in {a, b} : x <= y
  OBVIOUS
<1>2. \E x \in {a, b} : \A y \in {a, b} : x >= y
  OBVIOUS
<1>3. Min({a, b}) \in {a, b} /\ \A y \in {a, b} : Min({a, b}) <= y
  BY <1>1 DEF Min
<1>4. Max({a, b}) \in {a, b} /\ \A y \in {a, b} : Max({a, b}) >= y
  BY <1>2 DEF Max
<1> QED
  BY <1>3, <1>4

\* A set of positions that is not empty has a first one.
LEMMA FirstOf ==
  ASSUME NEW T \in SUBSET Nat, T # {}
  PROVE  Min(T) \in T
<1>1. PICK x \in T : \A y \in T : ~(<<y, x>> \in OpToRel(<, Nat))
  BY WFMin, NatLessThanWellFounded
<1>2. ASSUME NEW y \in T, y < x PROVE FALSE
  <2>1. <<y, x>> \in Nat \X Nat /\ <<y, x>>[1] < <<y, x>>[2]
    BY <1>2
  <2>2. <<y, x>> \in OpToRel(<, Nat)
    BY <2>1, Zenon DEF OpToRel
  <2> QED
    BY <1>1, <2>2
<1>3. \A y \in T : x <= y
  BY <1>2
<1> QED
  BY <1>3 DEF Min

\* What is left of a queue without its j-th element.
LEMMA Without ==
  ASSUME NEW S, NEW s \in Seq(S), NEW j \in 1..Len(s)
  PROVE  /\ RemoveAt(s, j) \in Seq(S) /\ Len(RemoveAt(s, j)) = Len(s) - 1
         /\ \A i \in 1..(Len(s) - 1) : RemoveAt(s, j)[i] = IF i < j THEN s[i] ELSE s[i + 1]
<1> DEFINE a == SubSeq(s, 1, j - 1)
           b == SubSeq(s, j + 1, Len(s))
<1>1. Len(s) \in Nat /\ \A i \in 1..Len(s) : s[i] \in S
  OBVIOUS
<1>2. /\ a \in Seq(S) /\ Len(a) = j - 1
      /\ \A i \in 1..(j - 1) : a[i] = s[i]
  <2>1. 1 \in Int /\ j - 1 \in Int /\ (\A i \in 1..(j - 1) : s[i] \in S)
    BY <1>1
  <2>2. /\ a \in Seq(S) /\ Len(a) = IF 1 <= j - 1 THEN (j - 1) - 1 + 1 ELSE 0
        /\ \A i \in 1..((j - 1) - 1 + 1) : a[i] = s[1 + i - 1]
    BY <2>1, SubSeqProperties
  <2> HIDE DEF a
  <2> QED
    BY <1>1, <2>2
<1>3. /\ b \in Seq(S) /\ Len(b) = Len(s) - j
      /\ \A i \in 1..(Len(s) - j) : b[i] = s[j + i]
  <2>1. j + 1 \in Int /\ Len(s) \in Int /\ (\A i \in (j + 1)..Len(s) : s[i] \in S)
    BY <1>1
  <2>2. /\ b \in Seq(S) /\ Len(b) = IF j + 1 <= Len(s) THEN Len(s) - (j + 1) + 1 ELSE 0
        /\ \A i \in 1..(Len(s) - (j + 1) + 1) : b[i] = s[j + 1 + i - 1]
    BY <2>1, SubSeqProperties
  <2> HIDE DEF b
  <2> QED
    BY <1>1, <2>2
<1> HIDE DEF a, b
<1>4. /\ a \o b \in Seq(S) /\ Len(a \o b) = Len(a) + Len(b)
      /\ \A i \in 1..(Len(a) + Len(b)) : (a \o b)[i] = IF i <= Len(a) THEN a[i] ELSE b[i - Len(a)]
  BY <1>2, <1>3, ConcatProperties
<1>5. ASSUME NEW i \in 1..(Len(s) - 1)
      PROVE  (a \o b)[i] = IF i < j THEN s[i] ELSE s[i + 1]
  <2>1. CASE i < j
    BY <1>1, <1>2, <1>3, <1>4, <2>1
  <2>2. CASE ~(i < j)
    <3>1. (a \o b)[i] = b[i - (j - 1)]
      BY <1>1, <1>2, <1>3, <1>4, <2>2
    <3>2. b[i - (j - 1)] = s[j + (i - (j - 1))]
      BY <1>1, <1>3, <2>2
    <3>3. j + (i - (j - 1)) = i + 1
      BY <1>1
    <3> QED
      BY <2>2, <3>1, <3>2, <3>3
  <2> QED
    BY <2>1, <2>2
<1>6. Len(a \o b) = Len(s) - 1
  BY <1>1, <1>2, <1>3, <1>4
<1>7. RemoveAt(s, j) = a \o b
  BY DEF RemoveAt, a, b
<1> QED
  BY <1>4, <1>5, <1>6, <1>7

\* A queue with one more message, and without its first.
LEMMA OneIn ==
  ASSUME NEW q, IsSeq(q), NEW x
  PROVE  /\ IsSeq(Append(q, x)) /\ Len(q) \in Nat /\ Len(Append(q, x)) = Len(q) + 1
         /\ \A i \in 1..Len(q) : Append(q, x)[i] = q[i]
         /\ Append(q, x)[Len(q) + 1] = x
<1>1. PICK S : q \in Seq(S)
  BY DEF IsSeq
<1>2. q \in Seq(S \cup {x}) /\ x \in S \cup {x}
  BY <1>1
<1> QED
  BY <1>2, AppendProperties DEF IsSeq

\* Taking the first message from the socket: the rest moves up by one.
LEMMA OneOut ==
  ASSUME NEW q, IsSeq(q), q # <<>>
  PROVE  /\ IsSeq(Tail(q)) /\ Len(q) \in Nat \ {0} /\ Len(Tail(q)) = Len(q) - 1
         /\ \A i \in 1..(Len(q) - 1) : Tail(q)[i] = q[i + 1]
         /\ Head(q) = q[1]
<1>1. PICK S : q \in Seq(S)
  BY DEF IsSeq
<1>2. Len(q) \in Nat /\ Len(q) # 0
  BY <1>1, EmptySeq
<1> QED
  BY <1>1, <1>2, HeadTailProperties DEF IsSeq

\* Whole tokens never cost more than the bucket holds.
LEMMA WholeTokens ==
  ASSUME NEW a \in Nat, NEW d \in Nat \ {0}
  PROVE  a \div d \in Nat /\ (a \div d) * d <= a
  OBVIOUS

\* Multiplication where the provers need it spelled out.
LEMMA Products ==
  ASSUME NEW a \in Int, NEW b \in Int, NEW d \in Int
  PROVE  /\ a * b \in Int /\ a * b = b * a
         /\ (a + 1) * b = a * b + b /\ (a - 1) * b = a * b - b
         /\ b * (a + 1) = b * a + b /\ b * (a + d) = b * a + b * d
         /\ (a >= 0 /\ b >= 0 => a * b >= 0)
         /\ (a <= b /\ d >= 0 => a * d <= b * d)
  OBVIOUS

----------------------------------------------------------------------------
(* The connection *)

\* What the timer sees of a connection, and what the two limits see of it.
Timer(c)  == <<c.outstanding_pings, c.last_pong, c.tick, c.writing, c.running>>
Limits(c) == <<c.addr, c.getheaders, c.getaddr_outstanding>>

\* The nonces and the deadline of a connection replaced, or the nonces alone.
LEMMA NewTimer ==
  ASSUME NEW c, IsConn(c), NEW q \in Seq(Nat), NEW t \in 0..now, NEW d
  PROVE  /\ d = [c EXCEPT !.outstanding_pings = q, !.last_pong = t] =>
              IsConn(d) /\ Limits(d) = Limits(c) /\ Timer(d) = <<q, t, c.tick, c.writing, c.running>>
         /\ d = [c EXCEPT !.outstanding_pings = q] =>
              IsConn(d) /\ Limits(d) = Limits(c)
                /\ Timer(d) = <<q, c.last_pong, c.tick, c.writing, c.running>>
  BY DEF IsConn, Timer, Limits

\* Counting a message touches neither the timer nor the limits.
LEMMA RecordMessage ==
  ASSUME NEW c, IsConn(c), NEW command
  PROVE  LET d == record_message(c, command)
         IN  /\ IsConn(d) /\ Timer(d) = Timer(c) /\ Limits(d) = Limits(c)
             /\ d.getheaders_ignored = c.getheaders_ignored
<1>1. \E x, y, z :
        \/ record_message(c, command) = [c EXCEPT !.messages = x]
        \/ record_message(c, command) = [c EXCEPT !.by_command = y, !.messages = x]
        \/ record_message(c, command) = [c EXCEPT !.messages_other = z]
  BY DEF record_message
<1>2. ASSUME NEW x, NEW y, NEW z, NEW d,
             d = [c EXCEPT !.messages = x] \/ d = [c EXCEPT !.by_command = y, !.messages = x]
               \/ d = [c EXCEPT !.messages_other = z]
      PROVE  /\ IsConn(d) /\ Timer(d) = Timer(c) /\ Limits(d) = Limits(c)
             /\ d.getheaders_ignored = c.getheaders_ignored
  BY <1>2 DEF IsConn, Timer, Limits
<1> QED
  BY <1>1, <1>2

\* A pong either claims one of the nonces remembered, and starts the deadline anew, or
\* touches nothing the timer looks at (protocol.rs claim_pong).
LEMMA ClaimPong ==
  ASSUME SessionType, NEW c, IsConn(c), NEW nonce
  PROVE  LET d == claim_pong(c, nonce)
         IN  /\ IsConn(d) /\ Limits(d) = Limits(c)
             /\ \/ /\ \A i \in 1..Len(c.outstanding_pings) : c.outstanding_pings[i] # nonce
                   /\ Timer(d) = Timer(c)
                \/ \E j \in 1..Len(c.outstanding_pings) :
                     /\ c.outstanding_pings[j] = nonce
                     /\ Timer(d) = <<RemoveAt(c.outstanding_pings, j), now, c.tick, c.writing, c.running>>
<1> DEFINE I == {i \in 1..Len(c.outstanding_pings) : c.outstanding_pings[i] = nonce}
           at == SelectInSeq(c.outstanding_pings, LAMBDA n : n = nonce)
           d  == claim_pong(c, nonce)
<1>1. c.outstanding_pings \in Seq(Nat) /\ now \in Nat
  BY DEF IsConn, SessionType
<1>2. at = IF I # {} THEN Min(I) ELSE 0
  BY DEF SelectInSeq
<1>3. d = IF at # 0
            THEN [c EXCEPT !.outstanding_pings = RemoveAt(@, at), !.last_pong = now]
            ELSE [c EXCEPT !.unsolicited_pongs = @ + 1]
  BY DEF claim_pong
<1> HIDE DEF at, d
<1>4. CASE I = {}
  <2>1. at = 0
    BY <1>2, <1>4
  <2>2. PICK n : d = [c EXCEPT !.unsolicited_pongs = n]
    BY <1>3, <2>1
  <2>3. IsConn(d) /\ Limits(d) = Limits(c) /\ Timer(d) = Timer(c)
    BY <2>2 DEF IsConn, Timer, Limits
  <2> QED
    BY <1>4, <2>3 DEF d
<1>5. CASE I # {}
  <2>1. at \in I
    <3>1. I \in SUBSET Nat /\ at = Min(I)
      BY <1>2, <1>5
    <3> QED
      BY <1>5, <3>1, FirstOf
  <2>2. at \in 1..Len(c.outstanding_pings) /\ c.outstanding_pings[at] = nonce /\ at # 0
    BY <1>1, <2>1
  <2>3. d = [c EXCEPT !.outstanding_pings = RemoveAt(@, at), !.last_pong = now]
    BY <1>3, <2>2
  <2>4. RemoveAt(c.outstanding_pings, at) \in Seq(Nat)
    BY <1>1, <2>2, Without
  <2>5. IsConn(d) /\ Limits(d) = Limits(c)
        /\ Timer(d) = <<RemoveAt(c.outstanding_pings, at), now, c.tick, c.writing, c.running>>
    <3> DEFINE q == RemoveAt(c.outstanding_pings, at)
    <3>1. d = [c EXCEPT !.outstanding_pings = q, !.last_pong = now] /\ q \in Seq(Nat) /\ now \in 0..now
      BY <1>1, <2>3, <2>4
    <3> HIDE DEF q
    <3>2. IsConn(d) /\ Limits(d) = Limits(c) /\ Timer(d) = <<q, now, c.tick, c.writing, c.running>>
      <4>1. \A e : e = [c EXCEPT !.outstanding_pings = q, !.last_pong = now] =>
              IsConn(e) /\ Limits(e) = Limits(c) /\ Timer(e) = <<q, now, c.tick, c.writing, c.running>>
        BY ONLY <3>1, NewTimer, IsConn(c), Zenon
      <4> QED
        BY ONLY <3>1, <4>1, Zenon
    <3> QED
      BY <3>2 DEF q
  <2> QED
    BY <2>2, <2>5 DEF d
<1> QED
  BY <1>4, <1>5

\* A ping is remembered last; the oldest is forgotten if there is no room for it.
LEMMA RecordPing ==
  ASSUME SessionType, NEW c, IsConn(c), NEW nonce \in Nat
  PROVE  LET d == record_ping(c, nonce)
             all == Append(c.outstanding_pings, nonce)
         IN  /\ IsConn(d) /\ Limits(d) = Limits(c)
             /\ \/ /\ Len(c.outstanding_pings) < OUTSTANDING_PINGS
                   /\ Timer(d) = <<all, c.last_pong, c.tick, c.writing, c.running>>
                \/ /\ Len(c.outstanding_pings) >= OUTSTANDING_PINGS
                   /\ Timer(d) = <<Tail(all), c.last_pong, c.tick, c.writing, c.running>>
<1> DEFINE all == Append(c.outstanding_pings, nonce)
<1>1. c.outstanding_pings \in Seq(Nat) /\ OUTSTANDING_PINGS \in Nat \ {0} /\ Len(c.outstanding_pings) \in Nat
  BY SessionAssumption DEF IsConn
<1>2. all \in Seq(Nat) /\ Len(all) = Len(c.outstanding_pings) + 1 /\ all # <<>>
  BY <1>1, AppendProperties
<1>3. Tail(all) \in Seq(Nat)
  BY <1>2, HeadTailProperties
<1>4. record_ping(c, nonce) = [c EXCEPT !.outstanding_pings = IF Len(all) > OUTSTANDING_PINGS THEN Tail(all) ELSE all]
  BY DEF record_ping
<1>7. 0 \in 0..now
  BY DEF SessionType
<1> HIDE DEF all
<1>5. CASE Len(all) > OUTSTANDING_PINGS
  <2>1. record_ping(c, nonce) = [c EXCEPT !.outstanding_pings = Tail(all)]
    BY <1>4, <1>5
  <2> QED
    <3>1. LET d == record_ping(c, nonce)
          IN  /\ IsConn(d) /\ Limits(d) = Limits(c)
              /\ Timer(d) = <<Tail(all), c.last_pong, c.tick, c.writing, c.running>>
      BY <1>3, <2>1, <1>7, NewTimer
    <3>2. Len(c.outstanding_pings) >= OUTSTANDING_PINGS
      BY <1>1, <1>2, <1>5
    <3> QED
      BY <3>1, <3>2 DEF all
<1>6. CASE ~(Len(all) > OUTSTANDING_PINGS)
  <2>1. record_ping(c, nonce) = [c EXCEPT !.outstanding_pings = all]
    BY <1>4, <1>6
  <2> QED
    <3>1. LET d == record_ping(c, nonce)
          IN  /\ IsConn(d) /\ Limits(d) = Limits(c)
              /\ Timer(d) = <<all, c.last_pong, c.tick, c.writing, c.running>>
      BY <1>2, <2>1, <1>7, NewTimer
    <3>2. Len(c.outstanding_pings) < OUTSTANDING_PINGS
      BY <1>1, <1>2, <1>6
    <3> QED
      BY <3>1, <3>2 DEF all
<1> QED
  BY <1>5, <1>6

\* A bucket looked at: never over its burst, and never richer by more than the time that
\* has passed (Refilled, protocol.rs offer_gossip and may_answer_getheaders).
LEMMA Refill ==
  ASSUME SessionType, NEW b, NEW burst \in Nat, IsBucket(b, burst)
  PROVE  LET r == Refilled(b, burst)
         IN  /\ r = [tokens |-> r.tokens, updated |-> now]
             /\ r.tokens \in 0..(burst * REFILL)
             /\ r.tokens <= b.tokens + (now - b.updated)
<1>1. REFILL \in Nat /\ now \in Nat
  BY SessionAssumption DEF SessionType
<1>2. burst * REFILL \in Nat
  BY <1>1
<1> DEFINE cap == burst * REFILL
<1> HIDE DEF cap
<1>3. b.tokens \in 0..cap /\ b.updated \in 0..now /\ cap \in Nat
  BY <1>2 DEF IsBucket, cap
<1>4. Min({b.tokens + (now - b.updated), cap})
        = IF b.tokens + (now - b.updated) <= cap THEN b.tokens + (now - b.updated) ELSE cap
  BY <1>1, <1>3, OfTwo
<1>5. Refilled(b, burst) = [tokens |-> Min({b.tokens + (now - b.updated), cap}), updated |-> now]
  BY DEF Refilled, cap
<1>6. LET r == Refilled(b, burst)
      IN  /\ r = [tokens |-> r.tokens, updated |-> now]
          /\ r.tokens \in 0..cap /\ r.tokens <= b.tokens + (now - b.updated)
  BY <1>1, <1>3, <1>4, <1>5
<1> QED
  BY <1>6 DEF cap

\* The limits of a connection replaced.
LEMMA NewAddr ==
  ASSUME NEW c, IsConn(c), NEW b, IsBucket(b, ADDR_BURST), NEW g \in BOOLEAN,
         NEW d, d = [c EXCEPT !.addr = b, !.getaddr_outstanding = g]
  PROVE  IsConn(d) /\ Timer(d) = Timer(c) /\ Limits(d) = <<b, c.getheaders, g>>
  BY DEF IsConn, Timer, Limits

\* A use of the getheaders bucket changes nothing of the other limit or of the timer.
LEMMA NewGetheaders ==
  ASSUME NEW c, IsConn(c), NEW b, IsBucket(b, GETHEADERS_BURST),
         NEW d, d = [c EXCEPT !.getheaders = b]
  PROVE  /\ IsConn(d) /\ Timer(d) = Timer(c) /\ Limits(d) = <<c.addr, b, c.getaddr_outstanding>>
         /\ d.getheaders_ignored = c.getheaders_ignored
  BY DEF IsConn, Timer, Limits

\* A getheaders is answered for one token, or ignored for none.
LEMMA MayAnswer ==
  ASSUME SessionType, NEW c, IsConn(c)
  PROVE  LET d == may_answer_getheaders(c)
         IN  /\ IsConn(d) /\ Timer(d) = Timer(c)
             /\ \E b : /\ Limits(d) = <<c.addr, b, c.getaddr_outstanding>>
                       /\ b.updated = now /\ b.tokens \in Nat
                       /\ IF d.getheaders_ignored > c.getheaders_ignored
                            THEN /\ b.tokens <= c.getheaders.tokens + (now - c.getheaders.updated)
                            ELSE /\ b.tokens + REFILL <= c.getheaders.tokens + (now - c.getheaders.updated)
                                 /\ b.tokens + REFILL <= GETHEADERS_BURST * REFILL
<1> DEFINE r == Refilled(c.getheaders, GETHEADERS_BURST)
           d == may_answer_getheaders(c)
           cap == GETHEADERS_BURST * REFILL
<1>1. REFILL \in Nat \ {0} /\ GETHEADERS_BURST \in Nat /\ now \in Nat /\ IsBucket(c.getheaders, GETHEADERS_BURST)
      /\ c.getheaders_ignored \in Nat
  BY SessionAssumption DEF IsConn, SessionType
<1>2. /\ r = [tokens |-> r.tokens, updated |-> now] /\ r.tokens \in 0..cap
      /\ r.tokens <= c.getheaders.tokens + (now - c.getheaders.updated)
  BY <1>1, Refill
<1>3. d = IF r.tokens < REFILL
            THEN [c EXCEPT !.getheaders = r, !.getheaders_ignored = @ + 1]
            ELSE [c EXCEPT !.getheaders = [r EXCEPT !.tokens = @ - REFILL]]
  BY DEF may_answer_getheaders
<1>4. cap \in Nat /\ r.tokens \in Nat
  BY <1>1, <1>2
<1> HIDE DEF r, d
<1>5. CASE r.tokens < REFILL
  <2>1. IsBucket(r, GETHEADERS_BURST)
    BY <1>1, <1>2 DEF IsBucket
  <2>2. d = [c EXCEPT !.getheaders = r, !.getheaders_ignored = c.getheaders_ignored + 1]
    BY <1>3, <1>5
  <2>3. /\ IsConn(d) /\ Timer(d) = Timer(c) /\ Limits(d) = <<c.addr, r, c.getaddr_outstanding>>
        /\ d.getheaders_ignored = c.getheaders_ignored + 1
    <3> DEFINE n == c.getheaders_ignored + 1
    <3>1. n \in Nat /\ d = [c EXCEPT !.getheaders = r, !.getheaders_ignored = n]
      BY <1>1, <2>2
    <3> HIDE DEF n
    <3>2. /\ IsConn(d) /\ Timer(d) = Timer(c) /\ Limits(d) = <<c.addr, r, c.getaddr_outstanding>>
          /\ d.getheaders_ignored = n
      BY <2>1, <3>1 DEF IsConn, Timer, Limits
    <3> QED
      BY <3>2 DEF n
  <2>4. d.getheaders_ignored > c.getheaders_ignored
    BY <1>1, <2>3
  <2>5. r.updated = now /\ r.tokens <= c.getheaders.tokens + (now - c.getheaders.updated)
    BY <1>2
  <2> HIDE DEF cap
  <2> QED
    BY <1>4, <2>3, <2>4, <2>5 DEF d
<1>6. CASE ~(r.tokens < REFILL)
  <2> DEFINE b == [r EXCEPT !.tokens = @ - REFILL]
  <2>1. /\ b = [tokens |-> r.tokens - REFILL, updated |-> now]
    BY <1>2
  <2>2. b.tokens = r.tokens - REFILL /\ b.updated = now
    BY <2>1
  <2>3. /\ b.tokens \in Nat /\ b.tokens + REFILL <= c.getheaders.tokens + (now - c.getheaders.updated)
        /\ b.tokens + REFILL <= cap /\ b.tokens <= cap
    <3>1. b.tokens + REFILL = r.tokens
      BY <1>1, <1>4, <2>2
    <3> HIDE DEF cap, b
    <3> QED
      BY <1>1, <1>2, <1>4, <1>6, <2>2, <3>1
  <2>4. IsBucket(b, GETHEADERS_BURST)
    <3>1. b = [tokens |-> b.tokens, updated |-> b.updated]
      BY <2>1
    <3> HIDE DEF b
    <3>2. b.tokens \in 0..cap /\ b.updated \in 0..now
      <4> HIDE DEF cap
      <4> QED
        BY <1>1, <1>4, <2>2, <2>3
    <3> QED
      BY <3>1, <3>2 DEF IsBucket
  <2>5. d = [c EXCEPT !.getheaders = b]
    BY <1>3, <1>6
  <2> HIDE DEF b
  <2>6. /\ IsConn(d) /\ Timer(d) = Timer(c) /\ Limits(d) = <<c.addr, b, c.getaddr_outstanding>>
        /\ d.getheaders_ignored = c.getheaders_ignored
    BY <2>4, <2>5, NewGetheaders
  <2>7. ~(d.getheaders_ignored > c.getheaders_ignored)
    BY <1>1, <2>6
  <2>8. b.tokens + REFILL <= GETHEADERS_BURST * REFILL
    BY <2>3
  <2> HIDE DEF cap
  <2> QED
    BY <2>2, <2>3, <2>6, <2>7, <2>8 DEF d
<1> QED
  BY <1>5, <1>6

\* How many entries of an address message can be used is a number, however much of it
\* could not be read (protocol.rs parse_addrv2_leniently).
LEMMA Counted ==
  ASSUME NEW m \in Gossips
  PROVE  Cardinality({i \in Received(m).read : m.entries[i] \notin {"refused", "foreign"}}) \in Nat
<1> DEFINE I == {i \in Received(m).read : m.entries[i] \notin {"refused", "foreign"}}
<1>1. PICK K : m.entries \in Seq(K)
  BY MessagesAssumption
<1>2. Len(m.entries) \in Nat /\ DOMAIN m.entries = 1..Len(m.entries)
  BY <1>1, LenProperties
<1>3. Received(m).read \subseteq DOMAIN m.entries
  BY DEF Received, parse_addrv2_leniently
<1>4. IsFiniteSet(1..Len(m.entries)) /\ I \subseteq 1..Len(m.entries)
  BY <1>2, <1>3, FS_Interval, SMTT(30)
<1> QED
  BY <1>4, FS_Subset, FS_CardinalityType

\* What an address message is charged for comes out of the bucket, and one message in a
\* session is not charged (protocol.rs offer_gossip).
LEMMA OfferGossip ==
  ASSUME SessionType, NEW c, IsConn(c), NEW m \in Gossips
  PROVE  LET o == offer_gossip(c, m)
         IN  /\ IsConn(o.conn) /\ Timer(o.conn) = Timer(c) /\ o.conn.getheaders = c.getheaders
             /\ o.spent \in Nat /\ o.conn.addr.updated = now /\ o.conn.addr.tokens \in Nat
             /\ o.conn.addr.tokens + REFILL * o.spent <= c.addr.tokens + (now - c.addr.updated)
             /\ o.conn.addr.tokens + REFILL * o.spent <= ADDR_BURST * REFILL
             /\ \/ o.free = 0 /\ o.conn.getaddr_outstanding = c.getaddr_outstanding
                \/ o.free = 1 /\ c.getaddr_outstanding /\ ~o.conn.getaddr_outstanding
<1> DEFINE taken       == Received(m)
           parsed    == Cardinality({i \in taken.read : m.entries[i] \notin {"refused", "foreign"}})
           own       == taken.received = 1 /\ parsed = 1 /\ m.entries[1] = "self"
           solicited == ~own /\ c.getaddr_outstanding
           r         == Refilled(c.addr, ADDR_BURST)
           allowed   == r.tokens \div REFILL
           kept      == IF solicited THEN parsed ELSE Min({parsed, allowed})
           spent     == IF solicited THEN 0 ELSE kept
           b         == [r EXCEPT !.tokens = @ - spent * REFILL]
           cap       == ADDR_BURST * REFILL
           o         == offer_gossip(c, m)
<1>1. /\ o.conn = [c EXCEPT !.addr = b, !.getaddr_outstanding = @ /\ own]
      /\ o.spent = spent /\ o.free = IF solicited THEN 1 ELSE 0
  BY DEF offer_gossip
<1>2. REFILL \in Nat \ {0} /\ ADDR_BURST \in Nat /\ now \in Nat /\ IsBucket(c.addr, ADDR_BURST)
      /\ c.getaddr_outstanding \in BOOLEAN
  BY SessionAssumption DEF IsConn, SessionType
<1>3. /\ r = [tokens |-> r.tokens, updated |-> now] /\ r.tokens \in 0..cap
      /\ r.tokens <= c.addr.tokens + (now - c.addr.updated)
  BY <1>2, Refill
<1>4. cap \in Nat /\ r.tokens \in Nat
  BY <1>2, <1>3
<1>5. parsed \in Nat
  BY Counted
<1>6. allowed \in Nat /\ allowed * REFILL <= r.tokens
  BY <1>2, <1>4, WholeTokens
<1>7. own \in BOOLEAN /\ solicited \in BOOLEAN
  OBVIOUS
<1>8. b = [tokens |-> r.tokens - spent * REFILL, updated |-> now]
  BY <1>3
<1>9. (solicited => spent = 0) /\ (~solicited => spent = Min({parsed, allowed}))
  OBVIOUS
<1> HIDE DEF taken, parsed, r, allowed, kept, spent, b, cap, o
<1>10. spent \in Nat /\ spent <= allowed
  BY <1>5, <1>6, <1>9, OfTwo
<1>11. spent * REFILL \in Nat /\ spent * REFILL <= r.tokens /\ REFILL * spent = spent * REFILL
  <2>1. spent * REFILL <= allowed * REFILL
    BY <1>2, <1>6, <1>10, Products
  <2>2. spent * REFILL \in Int /\ spent * REFILL = REFILL * spent /\ spent * REFILL >= 0
    BY <1>2, <1>10, Products
  <2>3. allowed * REFILL \in Int
    BY <1>2, <1>6, Products
  <2> QED
    BY <1>4, <1>6, <2>1, <2>2, <2>3
<1>12. b.tokens = r.tokens - spent * REFILL /\ b.updated = now
  BY <1>8
<1>13. /\ b.tokens \in 0..cap
       /\ b.tokens + REFILL * spent <= c.addr.tokens + (now - c.addr.updated)
       /\ b.tokens + REFILL * spent <= cap
  BY <1>3, <1>4, <1>11, <1>12
<1>14. IsBucket(b, ADDR_BURST)
  <2>1. b = [tokens |-> b.tokens, updated |-> b.updated]
    BY <1>8, <1>12
  <2> QED
    BY <1>2, <1>12, <1>13, <2>1 DEF IsBucket, cap
<1>15. (c.getaddr_outstanding /\ own) \in BOOLEAN
  OBVIOUS
<1>16. /\ IsConn(o.conn) /\ Timer(o.conn) = Timer(c)
       /\ Limits(o.conn) = <<b, c.getheaders, c.getaddr_outstanding /\ own>>
  <2> DEFINE g == c.getaddr_outstanding /\ own
  <2>1. g \in BOOLEAN /\ o.conn = [c EXCEPT !.addr = b, !.getaddr_outstanding = g]
    BY <1>1, <1>15
  <2> HIDE DEF g
  <2>2. IsConn(o.conn) /\ Timer(o.conn) = Timer(c) /\ Limits(o.conn) = <<b, c.getheaders, g>>
    BY <1>14, <2>1, NewAddr
  <2> QED
    BY <2>2 DEF g
<1>17. o.conn.addr = b /\ o.conn.getheaders = c.getheaders
       /\ o.conn.getaddr_outstanding = (c.getaddr_outstanding /\ own)
  BY <1>16 DEF Limits
<1>18. \/ o.free = 0 /\ o.conn.getaddr_outstanding = c.getaddr_outstanding
       \/ o.free = 1 /\ c.getaddr_outstanding /\ ~o.conn.getaddr_outstanding
  BY <1>1, <1>2, <1>7, <1>17
<1>19. /\ o.spent \in Nat /\ o.conn.addr.updated = now /\ o.conn.addr.tokens \in Nat
       /\ o.conn.addr.tokens + REFILL * o.spent <= c.addr.tokens + (now - c.addr.updated)
       /\ o.conn.addr.tokens + REFILL * o.spent <= cap
  BY <1>1, <1>4, <1>10, <1>12, <1>13, <1>17
<1> QED
  BY <1>16, <1>17, <1>18, <1>19 DEF o, cap

----------------------------------------------------------------------------
(* Both buckets over a whole session *)

\* A window that has room for x has it a while later for what was spent since, if the
\* bucket earned it (TokenBucket::refill).
LEMMA StillRoom ==
  ASSUME NEW x \in Int, NEW before \in Int, NEW upto \in Int,
         NEW after \in Int, NEW then \in Int, NEW cap \in Int, NEW at \in Int,
         x + before <= cap + (upto - at),
         after <= before + (then - upto)
  PROVE  x + after <= cap + (then - at)
OBVIOUS

\* A list with one more than a positive number has one more than none.
LEMMA OneLess ==
  ASSUME NEW n \in Nat, NEW k \in Nat \ {0}, n >= k
  PROVE  (n + 1) - 1 # 0
OBVIOUS

\* What was charged since a window began, and with a later charge (offer_gossip).
LEMMA Since ==
  ASSUME NEW m \in Nat, NEW n \in Nat, NEW more \in Nat
  PROVE  m - n \in Int /\ (m + more) - n = (m - n) + more
OBVIOUS

\* How much has been charged is a number.
LEMMA ChargedType ==
  ASSUME Buckets
  PROVE  /\ Charged \in Nat /\ learned \in Seq([at : 0..conn.addr.updated, before : Nat, upto : Nat])
         /\ Len(learned) \in Nat
<1> DEFINE S == [at : 0..conn.addr.updated, before : Nat, upto : Nat]
<1>1. learned \in Seq(S)
  BY DEF Buckets
<1>2. CASE learned = <<>>
  BY <1>1, <1>2 DEF Charged
<1>3. CASE learned # <<>>
  <2> HIDE DEF S
  <2>1. Len(learned) \in 1..Len(learned) /\ learned[Len(learned)] \in S
    BY <1>1, <1>3, EmptySeq
  <2>2. Last(learned).upto \in Nat
    BY <2>1 DEF Last, S
  <2> QED
    BY <1>1, <1>3, <2>2 DEF Charged, S
<1> QED
  BY <1>2, <1>3

\* A getheaders that is answered costs a token, one that is ignored none: no stretch of
\* the session is answered more than the bucket had and earned.
LEMMA AskedKeepsBuckets ==
  ASSUME SessionType, Buckets, UNCHANGED <<learned, free>>,
         conn'.addr = conn.addr, conn'.getaddr_outstanding = conn.getaddr_outstanding,
         conn'.getheaders.updated = now, conn'.getheaders.tokens \in Nat,
         \/ /\ answered' = answered
            /\ conn'.getheaders.tokens <= conn.getheaders.tokens + (now - conn.getheaders.updated)
         \/ /\ answered' = Append(answered, now)
            /\ conn'.getheaders.tokens + REFILL <= conn.getheaders.tokens + (now - conn.getheaders.updated)
            /\ conn'.getheaders.tokens + REFILL <= GETHEADERS_BURST * REFILL
  PROVE  Buckets'
<1> DEFINE cap == GETHEADERS_BURST * REFILL
           g   == conn.getheaders
           h   == conn'.getheaders
           Spent(n) == REFILL * n
<1>1. REFILL \in Nat /\ GETHEADERS_BURST \in Nat /\ now \in Nat /\ g.tokens \in Int /\ g.updated \in 0..now
  <2>1. g.tokens \in 0..cap /\ g.updated \in 0..now /\ now \in Nat
    BY DEF SessionType, IsConn, IsBucket
  <2> QED
    BY <2>1, SessionAssumption
<1>2. cap \in Nat
  BY <1>1
<1>3. \A n \in Int : Spent(n) \in Int /\ Spent(n + 1) = Spent(n) + REFILL
  BY <1>1, Products
<1>4. /\ answered \in Seq(0..g.updated) /\ Len(answered) \in Nat
      /\ \A i \in 1..Len(answered) : answered[i] \in 0..now
      /\ \A i \in 1..Len(answered) : Spent(Len(answered) - i + 1) + g.tokens <= cap + (g.updated - answered[i])
  <2>1. answered \in Seq(0..g.updated)
    BY DEF Buckets
  <2>2. \A i \in 1..Len(answered) : answered[i] \in 0..g.updated
    BY <2>1, ElementOfSeq
  <2>3. \A i \in 1..Len(answered) : answered[i] \in 0..now
    BY <1>1, <2>2
  <2>4. \A i \in 1..Len(answered) : Spent(Len(answered) - i + 1) + g.tokens <= cap + (g.updated - answered[i])
    BY DEF Buckets
  <2>5. Len(answered) \in Nat
    BY <2>1
  <2> QED
    BY <2>1, <2>3, <2>4, <2>5
<1>5. answered \in Seq(0..now)
  <2>1. 0..g.updated \subseteq 0..now
    BY <1>1
  <2> QED
    BY <1>4, <2>1, SeqMonotonic
<1> HIDE DEF cap, g, h, Spent
<1>6. /\ answered' \in Seq(0..now)
      /\ \A i \in 1..Len(answered') : Spent(Len(answered') - i + 1) + h.tokens <= cap + (now - answered'[i])
  <2>1. CASE answered' = answered /\ h.tokens <= g.tokens + (now - g.updated)
    <3> SUFFICES ASSUME NEW i \in 1..Len(answered)
                 PROVE  Spent(Len(answered) - i + 1) + h.tokens <= cap + (now - answered[i])
      BY <1>5, <2>1
    <3>1. Spent(Len(answered) - i + 1) \in Int
      BY <1>3, <1>4
    <3>2. h.tokens \in Nat
      BY DEF h
    <3>3. Spent(Len(answered) - i + 1) + g.tokens <= cap + (g.updated - answered[i])
      BY <1>4
    <3>4. answered[i] \in Int
      BY <1>1, <1>4
    <3> DEFINE x == Spent(Len(answered) - i + 1)
    <3>5. x \in Int /\ x + g.tokens <= cap + (g.updated - answered[i])
      BY <3>1, <3>3
    <3> HIDE DEF x
    <3>6. x + h.tokens <= cap + (now - answered[i])
      <4>1. g.tokens \in Int /\ g.updated \in Int /\ now \in Int /\ h.tokens \in Int /\ cap \in Int
        BY <1>1, <1>2, <3>2
      <4>2. h.tokens <= g.tokens + (now - g.updated)
        BY <2>1
      <4> QED
        <5>1. x \in Int
          BY <3>5
        <5>2. x + g.tokens <= cap + (g.updated - answered[i])
          BY <3>5
        <5> QED
          BY ONLY <3>4, <4>1, <4>2, <5>1, <5>2, StillRoom, Zenon
    <3> QED
      BY <3>6 DEF x
  <2>2. CASE /\ answered' = Append(answered, now)
             /\ h.tokens + REFILL <= g.tokens + (now - g.updated)
             /\ h.tokens + REFILL <= cap
    <3>1. /\ answered' \in Seq(0..now) /\ Len(answered') = Len(answered) + 1
          /\ \A i \in 1..Len(answered) : answered'[i] = answered[i]
          /\ answered'[Len(answered) + 1] = now
      <4>1. now \in 0..now
        BY <1>1
      <4> QED
        BY <1>5, <2>2, <4>1, AppendProperties
    <3>2. h.tokens \in Nat
      BY DEF h
    <3>3. ASSUME NEW i \in 1..Len(answered)
          PROVE  Spent(Len(answered') - i + 1) + h.tokens <= cap + (now - answered'[i])
      <4>1. Len(answered') - i + 1 = (Len(answered) - i + 1) + 1 /\ Len(answered) - i + 1 \in Int
        BY <1>4, <3>1
      <4>2. Spent(Len(answered') - i + 1) = Spent(Len(answered) - i + 1) + REFILL
            /\ Spent(Len(answered) - i + 1) \in Int
        BY <1>3, <4>1
      <4>3. Spent(Len(answered) - i + 1) + g.tokens <= cap + (g.updated - answered[i])
        BY <1>4
      <4>4. answered[i] \in Int /\ answered'[i] = answered[i]
        <5>1. answered[i] \in 0..now
          BY <1>4, Zenon
        <5>2. answered'[i] = answered[i]
          BY <3>1, Zenon
        <5> QED
          BY <1>1, <5>1, <5>2
      <4> DEFINE x == Spent(Len(answered) - i + 1)
      <4>5. x \in Int /\ x + g.tokens <= cap + (g.updated - answered[i])
        BY <4>2, <4>3
      <4>6. Spent(Len(answered') - i + 1) = x + REFILL
        BY <4>2
      <4> HIDE DEF x
      <4>7. x + REFILL + h.tokens <= cap + (now - answered[i])
        <5>1. g.tokens \in Int /\ g.updated \in Int /\ now \in Int /\ h.tokens \in Int /\ cap \in Int /\ REFILL \in Int
          BY <1>1, <1>2, <3>2
        <5>2. h.tokens + REFILL <= g.tokens + (now - g.updated)
          BY <2>2
        <5> QED
          <6>1. x \in Int /\ answered[i] \in Int
            BY <4>4, <4>5
          <6>2. x + g.tokens <= cap + (g.updated - answered[i])
            BY <4>5
          <6> QED
            <7> DEFINE before == g.tokens
                       upto   == g.updated
                       after  == h.tokens
                       at     == answered[i]
            <7>1. /\ x \in Int /\ at \in Int /\ before \in Int /\ upto \in Int /\ now \in Int
                  /\ after \in Int /\ cap \in Int /\ REFILL \in Int
                  /\ x + before <= cap + (upto - at) /\ after + REFILL <= before + (now - upto)
              BY <5>1, <5>2, <6>1, <6>2
            <7> HIDE DEF before, upto, after, at
            <7>2. x + REFILL + after <= cap + (now - at)
              BY ONLY <7>1
            <7> QED
              BY <7>2 DEF after, at
      <4> QED
        BY <4>4, <4>6, <4>7
    <3>4. Spent(Len(answered') - (Len(answered) + 1) + 1) + h.tokens <= cap + (now - answered'[Len(answered) + 1])
      <4>1. Len(answered') - (Len(answered) + 1) + 1 = 1 /\ 1 = 0 + 1
        BY <1>4, <3>1
      <4>2. Spent(1) = REFILL
        BY <1>1 DEF Spent
      <4> QED
        BY <1>1, <1>2, <2>2, <3>1, <3>2, <4>1, <4>2
    <3>5. \A i \in 1..Len(answered') : i \in 1..Len(answered) \/ i = Len(answered) + 1
      BY <1>4, <3>1
    <3> QED
      BY <3>1, <3>3, <3>4, <3>5
  <2> QED
    BY <2>1, <2>2 DEF g, h, cap
<1>7. Charged' = Charged
  BY DEF Charged, Last
<1> QED
  BY <1>6, <1>7 DEF Buckets, cap, h, Spent

\* Addresses that are charged cost a token each: no stretch of the session brings more
\* charged addresses than the bucket had and earned, and one message is free.
LEMMA OfferedKeepsBuckets ==
  ASSUME SessionType, Buckets, answered' = answered, conn'.getheaders = conn.getheaders,
         NEW spent \in Nat,
         learned' = IF spent = 0 THEN learned
                    ELSE Append(learned, [at |-> now, before |-> Charged, upto |-> Charged + spent]),
         conn'.addr.updated = now, conn'.addr.tokens \in Nat,
         conn'.addr.tokens + REFILL * spent <= conn.addr.tokens + (now - conn.addr.updated),
         conn'.addr.tokens + REFILL * spent <= ADDR_BURST * REFILL,
         \/ free' = free /\ conn'.getaddr_outstanding = conn.getaddr_outstanding
         \/ free' = free + 1 /\ conn.getaddr_outstanding /\ ~conn'.getaddr_outstanding
  PROVE  Buckets'
<1> DEFINE cap == ADDR_BURST * REFILL
           g   == conn.addr
           h   == conn'.addr
           S   == [at : 0..g.updated, before : Nat, upto : Nat]
           T   == [at : 0..now, before : Nat, upto : Nat]
           e   == [at |-> now, before |-> Charged, upto |-> Charged + spent]
           Cost(n) == REFILL * n
<1>1. REFILL \in Nat /\ ADDR_BURST \in Nat /\ now \in Nat /\ g.tokens \in Int /\ g.updated \in 0..now
  <2>1. g.tokens \in 0..cap /\ g.updated \in 0..now /\ now \in Nat
    BY DEF SessionType, IsConn, IsBucket
  <2> QED
    BY <2>1, SessionAssumption, SMTT(30)
<1>2. cap \in Nat
  BY <1>1
<1>3. /\ \A n \in Int : Cost(n) \in Int
      /\ \A n \in Int : Cost(n + spent) = Cost(n) + Cost(spent)
  BY <1>1, Products
<1>4. Charged \in Nat /\ learned \in Seq(S) /\ Len(learned) \in Nat
  BY ChargedType
<1>5. \A i \in 1..Len(learned) : Cost(Charged - learned[i].before) + g.tokens <= cap + (g.updated - learned[i].at)
  BY DEF Buckets
<1>6. \A i \in 1..Len(learned) : learned[i].at \in Int /\ learned[i].before \in Nat
  <2> SUFFICES ASSUME NEW i \in 1..Len(learned)
               PROVE  learned[i].at \in Int /\ learned[i].before \in Nat
    OBVIOUS
  <2>1. learned[i] \in S
    BY <1>4, ElementOfSeq
  <2> QED
    BY <1>1, <2>1, SMTT(30)
<1>7. learned \in Seq(T)
  <2>1. S \subseteq T
    BY <1>1
  <2> HIDE DEF S, T
  <2> QED
    BY <1>4, <2>1, SeqMonotonic
<1>8. e \in T
  BY <1>1, <1>4
<1>9. h.tokens \in Nat /\ h.updated = now /\ Cost(spent) \in Int
      /\ h.tokens + Cost(spent) <= g.tokens + (now - g.updated) /\ h.tokens + Cost(spent) <= cap
  BY <1>3
<1>10. e.before = Charged /\ e.at = now /\ e.upto = Charged + spent
  OBVIOUS
<1>11. CASE spent = 0
  <2>1. learned' = learned /\ Charged' = Charged /\ Cost(spent) = 0
    BY <1>1, <1>11 DEF Charged, Last
  <2> HIDE DEF cap, g, h, T, Cost, e
  <2>2. ASSUME NEW i \in 1..Len(learned)
        PROVE  Cost(Charged - learned[i].before) + h.tokens <= cap + (now - learned[i].at)
    <3>1. Cost(Charged - learned[i].before) \in Int /\ learned[i].at \in Int
      <4>1. learned[i].before \in Nat /\ learned[i].at \in Int
        BY <1>6
      <4>2. Charged - learned[i].before \in Int
        BY <1>4, <4>1, Since, Zenon
      <4> QED
        BY <1>3, <4>1, <4>2
    <3>2. Cost(Charged - learned[i].before) + g.tokens <= cap + (g.updated - learned[i].at)
      BY <1>5
    <3> DEFINE x == Cost(Charged - learned[i].before)
               a == learned[i].at
    <3>3. x \in Int /\ a \in Int /\ x + g.tokens <= cap + (g.updated - a)
      BY <3>1, <3>2
    <3> HIDE DEF x, a
    <3>4. x + h.tokens <= cap + (now - a)
      <4>1. g.tokens \in Int /\ g.updated \in Int /\ now \in Int /\ h.tokens \in Int /\ cap \in Int
        BY <1>1, <1>2, <1>9
      <4>2. h.tokens <= g.tokens + (now - g.updated)
        <5>1. h.tokens + 0 <= g.tokens + (now - g.updated) /\ h.tokens + 0 = h.tokens
          BY <1>9, <2>1
        <5> QED
          BY <5>1
      <4> QED
        BY ONLY <3>3, <4>1, <4>2, StillRoom, Zenon
    <3> QED
      BY <3>4 DEF x, a
  <2>3. /\ learned' \in Seq(T)
        /\ \A i \in 1..Len(learned') : Cost(Charged' - learned'[i].before) + h.tokens <= cap + (now - learned'[i].at)
    BY <1>7, <2>1, <2>2
  <2> QED
    BY <1>9, <2>3 DEF Buckets, cap, h, T, Cost
<1>12. CASE spent # 0
  <2>1. learned' = Append(learned, e)
    BY <1>12
  <2> HIDE DEF cap, g, h, T, Cost, e
  <2>2. /\ learned' \in Seq(T) /\ Len(learned') = Len(learned) + 1 /\ learned' # <<>>
        /\ \A i \in 1..Len(learned) : learned'[i] = learned[i]
        /\ learned'[Len(learned) + 1] = e
    BY <1>7, <1>8, <2>1, AppendProperties
  <2>3. Charged' = Charged + spent
    BY <1>10, <2>2 DEF Charged, Last
  <2>4. ASSUME NEW i \in 1..Len(learned)
        PROVE  Cost(Charged' - learned'[i].before) + h.tokens <= cap + (now - learned'[i].at)
    <3>1. Charged' - learned'[i].before = (Charged - learned[i].before) + spent
          /\ Charged - learned[i].before \in Int /\ learned'[i].at = learned[i].at
      <4>1. learned[i].before \in Nat /\ learned[i].at \in Int /\ learned'[i] = learned[i]
        BY <1>6, <2>2
      <4>2. /\ Charged - learned[i].before \in Int
            /\ (Charged + spent) - learned[i].before = (Charged - learned[i].before) + spent
        BY <1>4, <4>1, Since, ZenonT(40)
      <4> QED
        BY <2>3, <4>1, <4>2, Zenon
    <3>2. Cost(Charged' - learned'[i].before) = Cost(Charged - learned[i].before) + Cost(spent)
          /\ Cost(Charged - learned[i].before) \in Int
      BY <1>3, <3>1
    <3>3. Cost(Charged - learned[i].before) + g.tokens <= cap + (g.updated - learned[i].at)
      BY <1>5
    <3>4. learned[i].at \in Int
      BY <1>6
    <3> DEFINE x == Cost(Charged - learned[i].before)
               a == learned[i].at
    <3>5. x \in Int /\ a \in Int /\ x + g.tokens <= cap + (g.updated - a)
      BY <3>2, <3>3, <3>4
    <3>6. Cost(Charged' - learned'[i].before) = x + Cost(spent) /\ learned'[i].at = a
      BY <3>1, <3>2
    <3> HIDE DEF x, a
    <3>7. x + Cost(spent) + h.tokens <= cap + (now - a)
      <4>1. g.tokens \in Int /\ g.updated \in Int /\ now \in Int /\ h.tokens \in Int /\ cap \in Int /\ Cost(spent) \in Int
        BY <1>1, <1>2, <1>9
      <4>2. h.tokens + Cost(spent) <= g.tokens + (now - g.updated)
        BY <1>9
      <4> QED
        <5>1. x \in Int /\ a \in Int
          BY <3>5
        <5>2. x + g.tokens <= cap + (g.updated - a)
          BY <3>5
        <5> QED
          <6> DEFINE before == g.tokens
                     upto   == g.updated
                     after  == h.tokens
                     cost   == Cost(spent)
          <6>1. /\ x \in Int /\ a \in Int /\ before \in Int /\ upto \in Int /\ now \in Int
                /\ after \in Int /\ cap \in Int /\ cost \in Int
                /\ x + before <= cap + (upto - a) /\ after + cost <= before + (now - upto)
            BY <4>1, <4>2, <5>1, <5>2
          <6> HIDE DEF before, upto, after, cost
          <6>2. x + cost + after <= cap + (now - a)
            BY ONLY <6>1
          <6> QED
            BY <6>2 DEF after, cost
    <3> QED
      BY <3>6, <3>7
  <2>5. Cost(Charged' - learned'[Len(learned) + 1].before) + h.tokens <= cap + (now - learned'[Len(learned) + 1].at)
    <3>1. Charged' - learned'[Len(learned) + 1].before = spent /\ learned'[Len(learned) + 1].at = now
      BY <1>4, <1>10, <2>2, <2>3
    <3> QED
      BY <1>1, <1>2, <1>9, <3>1
  <2>6. \A i \in 1..Len(learned') : i \in 1..Len(learned) \/ i = Len(learned) + 1
    BY <1>4, <2>2
  <2>7. /\ learned' \in Seq(T)
        /\ \A i \in 1..Len(learned') : Cost(Charged' - learned'[i].before) + h.tokens <= cap + (now - learned'[i].at)
    BY <2>2, <2>4, <2>5, <2>6
  <2> QED
    BY <1>9, <2>7 DEF Buckets, cap, h, T, Cost
<1> QED
  BY <1>11, <1>12

----------------------------------------------------------------------------
(* Steps of the session *)

\* A step of the session keeps the invariant, and ends the session with an error or not
\* at all.
Fine ==
  /\ InRun'
  /\ conn'.running <=> ended' = "none"
  /\ ended' = "PingTimeout" => overdue'

\* A connection is still one a while later.
LEMMA ConnLater ==
  ASSUME IsConn(conn'), now \in Nat, now' \in Nat, now <= now'
  PROVE  IsConn(conn)'
<1>1. ASSUME NEW x \in 0..now PROVE x \in 0..now'
  OBVIOUS
<1>2. IsBucket(conn'.addr, ADDR_BURST) => IsBucket(conn.addr, ADDR_BURST)'
  BY <1>1 DEF IsBucket
<1>3. IsBucket(conn'.getheaders, GETHEADERS_BURST) => IsBucket(conn.getheaders, GETHEADERS_BURST)'
  BY <1>1 DEF IsBucket
<1>4. conn'.last_pong \in 0..now => conn'.last_pong \in 0..now'
  BY <1>1
<1> QED
  BY <1>2, <1>3, <1>4 DEF IsConn

\* The loop ends: what was remembered of the pings no longer matters (run_session).
LEMMA Ending ==
  ASSUME NEW c, IsConn(c), NEW d, d = [c EXCEPT !.running = FALSE]
  PROVE  IsConn(d) /\ Limits(d) = Limits(c) /\ ~d.running
  BY DEF IsConn, Limits

\* writer.send: what the task waits in is the only thing that changes.
LEMMA Writes ==
  ASSUME NEW c, IsConn(c), NEW what, taking \in BOOLEAN, Write(c, what)
  PROVE  /\ IsConn(conn') /\ Limits(conn') = Limits(c)
         /\ Timer(conn') = <<c.outstanding_pings, c.last_pong, c.tick,
                             IF taking THEN c.writing ELSE what, c.running>>
<1>1. CASE taking
  BY <1>1 DEF Write, Timer
<1>2. CASE ~taking
  <2>1. conn' = [c EXCEPT !.writing = what]
    BY <1>2 DEF Write
  <2> QED
    BY <1>2, <2>1 DEF IsConn, Limits, Timer
<1> QED
  BY <1>1, <1>2

\* A step that asks nothing of either bucket.
LEMMA SameLimits ==
  ASSUME Buckets, Limits(conn') = Limits(conn), UNCHANGED <<learned, free, answered>>
  PROVE  Buckets'
<1>1. /\ conn'.addr = conn.addr /\ conn'.getheaders = conn.getheaders
      /\ conn'.getaddr_outstanding = conn.getaddr_outstanding
  BY DEF Limits
<1>2. Charged' = Charged
  BY DEF Charged, Last
<1> QED
  BY <1>1, <1>2 DEF Buckets

\* The last step of a session, by whatever error: nothing is asked of its timer any more.
LEMMA EndsFine ==
  ASSUME InRun, NEW e, EndWith(e), e # "none", e = "PingTimeout" => overdue,
         UNCHANGED <<now, heard, stalls, taking, overdue, due, known, learned, free, answered>>,
         IsSeq(inbox'), \A i \in 1..Len(inbox') : IsMessage(inbox'[i])
  PROVE  Fine
<1>1. SessionType /\ Buckets /\ IsConn(conn)
  BY DEF InRun, SessionType
<1>2. IsConn(conn') /\ Limits(conn') = Limits(conn) /\ ~conn'.running
  BY <1>1, Ending DEF EndWith
<1>3. IsConn(conn)'
  BY <1>1, <1>2, ConnLater DEF SessionType
<1>4. SessionType'
  BY <1>1, <1>3 DEF SessionType, IsSeq
<1>5. Buckets'
  BY <1>1, <1>2, SameLimits
<1> QED
  BY <1>2, <1>4, <1>5 DEF Fine, InRun, EndWith

\* A peer makes up no answer to a ping of ours: our nonces are random (send_ping).
LEMMA NotAnAnswer ==
  ASSUME NEW m \in Says \cup Gossips
  PROVE  IsMessage(m) /\ ~IsAnswer(m)
BY MessagesAssumption DEF IsMessage, IsAnswer

\* What is owed, now and after a step.
LEMMA WhatIsOwed ==
  /\ \A n : n \in Owed <=> n \in due \/ \E i \in 1..Len(inbox) : IsAnswer(inbox[i]) /\ inbox[i].nonce = n
  /\ \A n : n \in Owed' <=> n \in due' \/ \E i \in 1..Len(inbox') : IsAnswer(inbox'[i]) /\ inbox'[i].nonce = n
BY DEF Owed, IsAnswer

\* The stream ends or the read fails (protocol.rs run).
LEMMA PeerGoneFine ==
  ASSUME InRun, NEW fault \in {"PeerClosed", "Oversized"}, PeerGone(fault)
  PROVE  Fine
<1>1. IsSeq(inbox') /\ \A i \in 1..Len(inbox') : IsMessage(inbox'[i])
  BY DEF PeerGone, InRun, SessionType
<1>2. /\ EndWith(fault) /\ fault # "none" /\ fault # "PingTimeout"
      /\ UNCHANGED <<now, heard, stalls, taking, overdue, due, known, learned, free, answered>>
  BY DEF PeerGone
<1> QED
  BY <1>1, <1>2, EndsFine

\* A peer says something of its own.
LEMMA SayFine ==
  ASSUME InRun, conn.running, ended = "none", NEW m \in Says \cup Gossips, Say(m)
  PROVE  Fine
<1>1. /\ UNCHANGED <<now, conn, taking, known, ended, stalls, learned, free, answered, due, heard, overdue>>
      /\ inbox' = Append(inbox, m)
  BY DEF Say
<1>2. SessionType /\ Buckets
  BY DEF InRun
<1>3. IsMessage(m) /\ ~IsAnswer(m)
  BY NotAnAnswer
<1>4. /\ IsSeq(inbox') /\ Len(inbox) \in Nat /\ Len(inbox') = Len(inbox) + 1
      /\ \A i \in 1..Len(inbox) : inbox'[i] = inbox[i]
      /\ inbox'[Len(inbox) + 1] = m
  BY <1>1, <1>2, OneIn DEF SessionType
<1>5. \A i \in 1..Len(inbox') : i \in 1..Len(inbox) \/ i = Len(inbox) + 1
  BY <1>4
<1>6. SessionType'
  <2>1. \A i \in 1..Len(inbox') : IsMessage(inbox'[i])
    BY <1>2, <1>3, <1>4, <1>5 DEF SessionType
  <2>2. IsConn(conn)'
    BY <1>1, <1>2, ConnLater DEF SessionType
  <2> QED
    BY <1>1, <1>2, <1>4, <2>1, <2>2 DEF SessionType, IsSeq
<1>7. Buckets'
  BY <1>1, <1>2, SameLimits
<1>8. Prompt => Prompt'
  BY <1>1, <1>3, <1>4, <1>5 DEF Prompt
<1>9. OnTime => OnTime'
  <2>1. \A n : n \in Owed' <=> n \in Owed
    <3>1. \A i \in 1..Len(inbox) : i \in 1..Len(inbox')
      BY <1>4
    <3> QED
      BY <1>1, <1>3, <1>4, <1>5, <3>1, WhatIsOwed
  <2> QED
    BY <1>1, <2>1 DEF OnTime, InTime, Spaced, Recent
<1> QED
  BY <1>1, <1>6, <1>7, <1>8, <1>9 DEF Fine, InRun

\* A peer answers a ping it has read: the answer is owed until it is read.
LEMMA AnswerFine ==
  ASSUME InRun, conn.running, ended = "none", NEW nonce \in known, Answer(nonce)
  PROVE  Fine
<1> DEFINE m == [command |-> "pong", nonce |-> nonce]
<1>1. /\ UNCHANGED <<now, conn, taking, ended, stalls, learned, free, answered, overdue>>
      /\ inbox' = Append(inbox, m) /\ known' = known \ {nonce} /\ due' = due \ {nonce} /\ heard' = now
  BY DEF Answer
<1>2. SessionType /\ Buckets
  BY DEF InRun
<1>3. nonce \in Nat
  BY <1>2 DEF SessionType
<1>4. IsMessage(m) /\ IsAnswer(m) /\ m.nonce = nonce
  BY <1>3 DEF IsMessage, IsAnswer
<1> HIDE DEF m
<1>5. /\ IsSeq(inbox') /\ Len(inbox) \in Nat /\ Len(inbox') = Len(inbox) + 1
      /\ \A i \in 1..Len(inbox) : inbox'[i] = inbox[i]
      /\ inbox'[Len(inbox) + 1] = m
  BY <1>1, <1>2, OneIn DEF SessionType
<1>6. \A i \in 1..Len(inbox') : i \in 1..Len(inbox) \/ i = Len(inbox) + 1
  BY <1>5
<1>7. SessionType'
  <2>1. \A i \in 1..Len(inbox') : IsMessage(inbox'[i])
    BY <1>2, <1>4, <1>5, <1>6 DEF SessionType
  <2>2. IsConn(conn)'
    BY <1>1, <1>2, ConnLater DEF SessionType
  <2>3. now \in 0..now
    BY <1>2 DEF SessionType
  <2> QED
    BY <1>1, <1>2, <1>5, <2>1, <2>2, <2>3 DEF SessionType, IsSeq
<1>8. Buckets'
  BY <1>1, <1>2, SameLimits
<1>9. Prompt => Prompt'
  <2>1. conn.last_pong <= now
    BY <1>2 DEF SessionType, IsConn
  <2> QED
    BY <1>1, <2>1 DEF Prompt
<1>10. OnTime => OnTime'
  <2> SUFFICES ASSUME OnTime PROVE OnTime'
    OBVIOUS
  <2>1. nonce \in due
    BY DEF OnTime
  <2>2. \A n : n \in Owed' <=> n \in Owed
    <3>1. (\A i \in 1..Len(inbox) : i \in 1..Len(inbox')) /\ Len(inbox) + 1 \in 1..Len(inbox')
      BY <1>5
    <3> QED
      BY <1>1, <1>4, <1>5, <1>6, <2>1, <3>1, WhatIsOwed
  <2>3. conn.writing = "ping" => Last(conn.outstanding_pings) \in due' \ known'
    BY <1>1 DEF OnTime
  <2>4. known' \subseteq due' /\ \A n \in due' : n \in due
    BY <1>1 DEF OnTime
  <2> QED
    BY <1>1, <2>2, <2>3, <2>4 DEF OnTime, InTime, Spaced, Recent
<1> QED
  BY <1>1, <1>7, <1>8, <1>9, <1>10 DEF Fine, InRun

\* A peer stops taking what is written to it, and takes it again.
LEMMA TakingFine ==
  ASSUME InRun, conn.running, ended = "none", StopTaking \/ TakeAgain
  PROVE  Fine
<1>1. /\ UNCHANGED <<now, conn, inbox, known, ended, learned, free, answered, due, heard, overdue>>
      /\ taking' \in BOOLEAN
      /\ \/ stalls' = stalls + 1
         \/ stalls' = stalls /\ ~taking
  BY DEF StopTaking, TakeAgain
<1>2. SessionType /\ Buckets
  BY DEF InRun
<1>3. SessionType'
  <2>1. IsConn(conn)'
    BY <1>1, <1>2, ConnLater DEF SessionType
  <2> QED
    BY <1>1, <1>2, <2>1 DEF SessionType, IsSeq
<1>4. Buckets'
  BY <1>1, <1>2, SameLimits
<1>5. stalls' # 0
  BY <1>1, <1>2 DEF InRun, Prompt, SessionType
<1>6. OnTime => OnTime'
  <2>1. Owed' = Owed
    BY <1>1 DEF Owed
  <2> QED
    BY <1>1, <2>1 DEF OnTime, InTime
<1>7. conn'.running /\ ~overdue' => OnTime'
  BY <1>1, <1>6 DEF InRun
<1>8. InRun'
  BY <1>1, <1>3, <1>4, <1>5, <1>7 DEF InRun
<1> QED
  BY <1>1, <1>8 DEF Fine

\* The patience of the ping timer is a number, and no more than either way a ping can
\* be lost sight of allows.
LEMMA PatienceType ==
  /\ Patience \in Int /\ PING_INTERVAL \in Nat \ {0} /\ PING_TIMEOUT \in Nat \ {0} /\ OUTSTANDING_PINGS \in Nat \ {0}
  /\ Patience <= PING_TIMEOUT - PING_INTERVAL /\ Patience <= OUTSTANDING_PINGS * PING_INTERVAL
  /\ OUTSTANDING_PINGS * PING_INTERVAL >= PING_INTERVAL
<1>1. PING_INTERVAL \in Nat \ {0} /\ PING_TIMEOUT \in Nat \ {0} /\ OUTSTANDING_PINGS \in Nat \ {0}
  BY SessionAssumption
<1>2. OUTSTANDING_PINGS * PING_INTERVAL \in Int
  BY <1>1
<1>3. OUTSTANDING_PINGS * PING_INTERVAL >= PING_INTERVAL
  <2>1. 1 * PING_INTERVAL <= OUTSTANDING_PINGS * PING_INTERVAL
    BY <1>1, Products
  <2> QED
    BY <1>1, <2>1
<1> DEFINE a == PING_TIMEOUT - PING_INTERVAL
           b == OUTSTANDING_PINGS * PING_INTERVAL
<1>4. a \in Int /\ b \in Int
  BY <1>1, <1>2
<1>5. Patience = Min({a, b})
  BY DEF Patience
<1> HIDE DEF a, b
<1>6. Patience \in Int /\ Patience <= a /\ Patience <= b
  BY <1>4, <1>5, OfTwo
<1> QED
  BY <1>1, <1>3, <1>6 DEF a, b

\* Time passes: only while nothing is to be read and the timer is not due, or in a write
\* that the peer does not take.
LEMMA TickFine ==
  ASSUME InRun, conn.running, ended = "none", Tick
  PROVE  Fine
<1>1. /\ UNCHANGED <<conn, taking, inbox, known, ended, stalls, learned, free, answered, heard>>
      /\ now' = now + 1
      /\ conn.writing # "none" \/ (inbox = <<>> /\ now < conn.tick)
      /\ ~(conn.writing # "none" /\ taking)
      /\ overdue' = (overdue \/ conn.writing # "none" \/ \E n \in due : now' - n >= Patience)
      /\ due' = IF overdue' THEN {} ELSE due
  BY DEF Tick
<1>2. SessionType /\ Buckets
  BY DEF InRun
<1>3. now \in Nat /\ now' \in Nat /\ now < now' /\ heard \in 0..now' /\ conn.tick \in Nat
  BY <1>1, <1>2 DEF SessionType, IsConn
<1>4. SessionType'
  <2>1. IsConn(conn)'
    BY <1>1, <1>2, <1>3, ConnLater DEF SessionType
  <2>2. due' \subseteq Nat /\ overdue' \in BOOLEAN
    BY <1>1, <1>2 DEF SessionType
  <2> QED
    BY <1>1, <1>2, <1>3, <2>1, <2>2 DEF SessionType, IsSeq
<1>5. Buckets'
  BY <1>1, <1>2, SameLimits
<1>6. Prompt => Prompt'
  <2> SUFFICES ASSUME Prompt PROVE Prompt'
    OBVIOUS
  <2>1. conn.writing = "none" /\ inbox = <<>> /\ now < conn.tick
    BY <1>1 DEF Prompt
  <2>2. now' \in (conn.tick - PING_INTERVAL)..conn.tick
    BY <1>1, <1>3, <2>1, SessionAssumption, SMTT(30) DEF Prompt
  <2>3. \A i \in 1..Len(inbox') : FALSE
    BY <1>1, <2>1
  <2> QED
    BY <1>1, <2>1, <2>2, <2>3 DEF Prompt
<1>7. ASSUME ~overdue' PROVE ~overdue /\ (OnTime => OnTime')
  <2>1. /\ ~overdue /\ conn.writing = "none" /\ inbox = <<>> /\ now < conn.tick /\ due' = due
        /\ \A n \in due : ~(now' - n >= Patience)
    BY <1>1, <1>7
  <2> SUFFICES ASSUME OnTime PROVE OnTime'
    BY <2>1
  <2>2. now' \in (conn.tick - PING_INTERVAL)..conn.tick
    BY <1>1, <1>3, <2>1, SessionAssumption, SMTT(30) DEF OnTime
  <2>3. Owed' = Owed
    BY <1>1, <2>1 DEF Owed
  <2>4. \A n \in Owed' : n \in due
    <3>1. ~ \E i \in 1..Len(inbox) : TRUE
      BY <2>1
    <3> QED
      BY <2>3, <3>1, WhatIsOwed
  <2>5. \A n \in Owed' : InTime(n)'
    <3> SUFFICES ASSUME NEW n \in due PROVE InTime(n)'
      BY <2>4
    <3>1. n \in Int /\ Patience \in Int
      BY <1>2, PatienceType DEF SessionType
    <3>2. ~(now' - n >= Patience)
      BY <2>1
    <3> DEFINE t == now'
               p == Patience
    <3>3. t \in Int /\ p \in Int /\ ~(t - n >= p)
      <4>1. t \in Int
        BY <1>3
      <4>2. p \in Int
        BY <3>1
      <4>3. ~(t - n >= p)
        BY ONLY <3>2 DEF t, p
      <4> QED
        BY ONLY <4>1, <4>2, <4>3
    <3> HIDE DEF t, p
    <3>4. t - n < p
      BY ONLY <3>1, <3>3
    <3> QED
      BY <3>4 DEF InTime, Patience, t, p
  <2> QED
    BY <1>1, <2>1, <2>2, <2>3, <2>5 DEF OnTime
<1>8. InRun'
  BY <1>1, <1>4, <1>5, <1>6, <1>7 DEF InRun
<1>9. ended' = "none" /\ conn'.running
  BY <1>1
<1> QED
  BY <1>8, <1>9 DEF Fine

\* A write ends because the peer takes it, or fails (writer.send).
LEMMA FinishWriteFine ==
  ASSUME InRun, conn.running, ended = "none", FinishWrite
  PROVE  Fine
<1>1. /\ UNCHANGED <<now, inbox, taking, stalls, learned, free, answered, due, heard, overdue>>
      /\ conn.writing # "none"
  BY DEF FinishWrite
<1>2. SessionType /\ Buckets /\ IsConn(conn)
  BY DEF InRun, SessionType
<1>3. CASE EndWith("Write") /\ UNCHANGED known
  <2>1. IsSeq(inbox') /\ \A i \in 1..Len(inbox') : IsMessage(inbox'[i])
    BY <1>1, <1>2 DEF SessionType
  <2> QED
    BY <1>1, <1>3, <2>1, EndsFine
<1>4. CASE /\ taking /\ conn' = [conn EXCEPT !.writing = "none"]
           /\ known' = IF conn.writing = "ping" THEN Knows(Last(conn.outstanding_pings)) ELSE known
           /\ UNCHANGED ended
  <2>1. /\ IsConn(conn') /\ Limits(conn') = Limits(conn)
        /\ Timer(conn') = <<conn.outstanding_pings, conn.last_pong, conn.tick, "none", conn.running>>
    BY <1>2, <1>4 DEF IsConn, Limits, Timer
  <2>2. ASSUME conn.writing = "ping"
        PROVE  Last(conn.outstanding_pings) \in Nat
    <3>1. conn.outstanding_pings \in Seq(Nat) /\ conn.outstanding_pings # <<>>
      BY <1>2, <2>2 DEF IsConn, InRun
    <3>2. Len(conn.outstanding_pings) \in 1..Len(conn.outstanding_pings)
      BY <3>1, EmptySeq
    <3> QED
      BY <3>1, <3>2, ElementOfSeq DEF Last
  <2>3. \A n \in known' : n \in known \/ (conn.writing = "ping" /\ n = Last(conn.outstanding_pings))
    BY <1>4 DEF Knows
  <2>4. /\ conn'.outstanding_pings = conn.outstanding_pings /\ conn'.last_pong = conn.last_pong
        /\ conn'.tick = conn.tick /\ conn'.writing = "none" /\ conn'.running = conn.running
    BY <2>1 DEF Timer
  <2>5. SessionType'
    <3>1. IsConn(conn)'
      BY <1>1, <1>2, <2>1, ConnLater DEF SessionType
    <3>2. known' \subseteq Nat
      BY <1>2, <2>2, <2>3 DEF SessionType
    <3> QED
      BY <1>1, <1>2, <3>1, <3>2 DEF SessionType, IsSeq
  <2>6. Buckets'
    BY <1>1, <1>2, <2>1, SameLimits
  <2>7. Prompt => Prompt'
    BY <1>1, <1>4, <2>4 DEF Prompt
  <2>8. OnTime => OnTime'
    <3> SUFFICES ASSUME OnTime PROVE OnTime'
      OBVIOUS
    <3>1. Owed' = Owed
      BY <1>1 DEF Owed
    <3>2. known' \subseteq due'
      BY <1>1, <2>3 DEF OnTime
    <3> QED
      BY <1>1, <2>4, <3>1, <3>2 DEF OnTime, InTime
  <2>9. InRun'
    BY <1>1, <2>4, <2>5, <2>6, <2>7, <2>8 DEF InRun
  <2> QED
    BY <1>4, <2>4, <2>9 DEF Fine
<1> QED
  BY <1>3, <1>4 DEF FinishWrite

----------------------------------------------------------------------------
(* The ping timer *)

\* The times between two pings, where they are multiplied.
LEMMA Intervals ==
  ASSUME NEW a \in Int, NEW b \in Int
  PROVE  /\ a * PING_INTERVAL \in Int /\ PING_INTERVAL \in Nat \ {0}
         /\ (a + 1) * PING_INTERVAL = a * PING_INTERVAL + PING_INTERVAL
         /\ a >= 0 => a * PING_INTERVAL >= 0
         /\ a <= b => a * PING_INTERVAL <= b * PING_INTERVAL
<1>1. PING_INTERVAL \in Nat \ {0}
  BY SessionAssumption
<1> QED
  BY <1>1, Products

\* The nonces remembered, with that of the ping the timer sends now.
LEMMA OneMorePing ==
  ASSUME NEW pings \in Seq(Nat), NEW last \in Int, NEW last_pong \in Nat, Spaced(pings, last)
  PROVE  LET at == last + PING_INTERVAL
         IN  /\ at \in Nat => Spaced(Append(pings, at), at)
             /\ at \in Nat /\ Recent(pings, last_pong, last) => Recent(Append(pings, at), last_pong, at)
<1> DEFINE at  == last + PING_INTERVAL
           all == Append(pings, at)
           n   == Len(pings)
<1> SUFFICES ASSUME at \in Nat
             PROVE  /\ Spaced(all, at)
                    /\ Recent(pings, last_pong, last) => Recent(all, last_pong, at)
  OBVIOUS
<1>1. n \in Nat /\ PING_INTERVAL \in Nat \ {0} /\ \A i \in 1..n : pings[i] \in Nat
  <2>1. PING_INTERVAL \in Nat \ {0}
    BY SessionAssumption
  <2> HIDE DEF at
  <2>2. n \in Nat /\ \A i \in 1..n : pings[i] \in Nat
    BY ElementOfSeq
  <2> QED
    BY <2>1, <2>2
<1>2. /\ Len(all) = n + 1 /\ all[n + 1] = at
      /\ \A i \in 1..n : all[i] = pings[i]
  BY AppendProperties
<1>3. \A i \in 1..Len(all) : i \in 1..n \/ i = n + 1
  BY <1>1, <1>2
<1>4. \A i \in 1..n : pings[i] + (n - i) * PING_INTERVAL <= last /\ \A j \in 1..n : i < j => pings[i] < pings[j]
  BY DEF Spaced
<1>5. at = last + PING_INTERVAL
  OBVIOUS
<1> HIDE DEF at, all, n
<1>6. ASSUME NEW i \in 1..n
      PROVE  /\ all[i] + (Len(all) - i) * PING_INTERVAL <= at
             /\ \A j \in 1..Len(all) : i < j => all[i] < all[j]
  <2>1. n - i \in Int /\ n - i >= 0 /\ Len(all) - i = (n - i) + 1
    BY <1>1, <1>2
  <2>2. /\ (n - i) * PING_INTERVAL \in Int /\ (n - i) * PING_INTERVAL >= 0
        /\ (Len(all) - i) * PING_INTERVAL = (n - i) * PING_INTERVAL + PING_INTERVAL
    BY <2>1, Intervals
  <2>3. all[i] = pings[i] /\ pings[i] \in Nat /\ pings[i] + (n - i) * PING_INTERVAL <= last
    BY <1>1, <1>2, <1>4
  <2> DEFINE x == (n - i) * PING_INTERVAL
             y == (Len(all) - i) * PING_INTERVAL
             p == pings[i]
  <2>4. x \in Int /\ x >= 0 /\ y = x + PING_INTERVAL /\ p \in Nat /\ p + x <= last /\ all[i] = p
    BY <2>2, <2>3
  <2> HIDE DEF x, y, p
  <2>5. all[i] + y <= at /\ all[i] < at
    BY ONLY <1>1, <1>5, <2>4, last \in Int
  <2>6. ASSUME NEW j \in 1..n, i < j PROVE all[i] < all[j]
    BY <1>2, <1>4, <2>6
  <2>7. \A j \in 1..Len(all) : i < j => all[i] < all[j]
    BY <1>2, <1>3, <2>5, <2>6
  <2> QED
    BY <2>5, <2>7 DEF y
<1>7. /\ all[n + 1] + (Len(all) - (n + 1)) * PING_INTERVAL <= at
      /\ \A j \in 1..Len(all) : ~(n + 1 < j)
  <2>1. Len(all) - (n + 1) = 0
    BY <1>1, <1>2
  <2>2. 0 * PING_INTERVAL = 0
    BY <1>1
  <2>3. at \in Int
    BY <1>1, <1>5
  <2> QED
    BY <1>1, <1>2, <2>1, <2>2, <2>3
<1>8. Spaced(all, at)
  BY <1>3, <1>6, <1>7 DEF Spaced
<1>9. ASSUME Recent(pings, last_pong, last) PROVE Recent(all, last_pong, at)
  <2>1. CASE last <= last_pong /\ ~(at <= last_pong)
    <3>1. all[n + 1] \in (last_pong + 1)..(last_pong + PING_INTERVAL) /\ n + 1 \in 1..Len(all)
      BY <1>1, <1>2, <1>5, <2>1
    <3> QED
      BY <3>1 DEF Recent
  <2>2. CASE at <= last_pong
    BY <2>2 DEF Recent
  <2>3. CASE \E i \in 1..n : pings[i] \in (last_pong + 1)..(last_pong + PING_INTERVAL)
    <3>1. PICK i \in 1..n : pings[i] \in (last_pong + 1)..(last_pong + PING_INTERVAL)
      BY <2>3
    <3>2. i \in 1..Len(all) /\ all[i] = pings[i]
      BY <1>1, <1>2
    <3> QED
      BY <3>1, <3>2 DEF Recent
  <2> QED
    BY <1>9, <2>1, <2>2, <2>3 DEF Recent, n
<1> QED
  BY <1>8, <1>9

\* The nonces remembered, without the one that was answered.
LEMMA OnePingAnswered ==
  ASSUME NEW pings \in Seq(Nat), NEW last \in Int, Spaced(pings, last), NEW j \in 1..Len(pings)
  PROVE  /\ Spaced(RemoveAt(pings, j), last)
         /\ \A i \in 1..Len(RemoveAt(pings, j)) :
              \E k \in 1..Len(pings) : RemoveAt(pings, j)[i] = pings[k] /\ pings[k] # pings[j]
<1> DEFINE rest == RemoveAt(pings, j)
           n    == Len(pings)
           At(i) == IF i < j THEN i ELSE i + 1
<1>1. n \in Nat /\ j \in 1..n /\ \A i \in 1..n : pings[i] \in Nat
  OBVIOUS
<1>2. Len(rest) = n - 1 /\ \A i \in 1..(n - 1) : rest[i] = IF i < j THEN pings[i] ELSE pings[i + 1]
  BY Without
<1>3. \A i \in 1..n : pings[i] + (n - i) * PING_INTERVAL <= last /\ \A k \in 1..n : i < k => pings[i] < pings[k]
  BY DEF Spaced
<1> HIDE DEF rest, n
<1>4. ASSUME NEW i \in 1..Len(rest)
      PROVE  /\ At(i) \in 1..n /\ rest[i] = pings[At(i)] /\ At(i) # j
             /\ At(i) <= i + 1 /\ At(i) >= i
             /\ \A k \in 1..Len(rest) : i < k => At(i) < At(k)
  <2>1. i \in 1..(n - 1)
    BY <1>2
  <2>2. rest[i] = IF i < j THEN pings[i] ELSE pings[i + 1]
    BY <1>2, <2>1
  <2>3. At(i) \in 1..n /\ At(i) # j /\ At(i) <= i + 1 /\ At(i) >= i
    BY <1>1, <2>1
  <2>4. \A k \in 1..Len(rest) : i < k => At(i) < At(k)
    <3> SUFFICES ASSUME NEW k \in 1..(n - 1), i < k PROVE At(i) < At(k)
      BY <1>2
    <3> QED
      BY <1>1, <2>1
  <2> QED
    BY <2>2, <2>3, <2>4
<1>5. ASSUME NEW i \in 1..Len(rest)
      PROVE  /\ rest[i] + (Len(rest) - i) * PING_INTERVAL <= last
             /\ \A k \in 1..Len(rest) : i < k => rest[i] < rest[k]
             /\ \E k \in 1..n : rest[i] = pings[k] /\ pings[k] # pings[j]
  <2> DEFINE a == At(i)
  <2>1. a \in 1..n /\ rest[i] = pings[a] /\ a # j /\ a <= i + 1 /\ \A k \in 1..Len(rest) : i < k => a < At(k)
    BY <1>4
  <2> HIDE DEF a
  <2>2. pings[a] + (n - a) * PING_INTERVAL <= last
    BY <1>3, <2>1
  <2>3. Len(rest) - i \in Int /\ n - a \in Int /\ Len(rest) - i <= n - a
    BY <1>1, <1>2, <2>1
  <2>4. /\ (Len(rest) - i) * PING_INTERVAL <= (n - a) * PING_INTERVAL
        /\ (Len(rest) - i) * PING_INTERVAL \in Int /\ (n - a) * PING_INTERVAL \in Int
    BY <2>3, Intervals
  <2>5. rest[i] + (Len(rest) - i) * PING_INTERVAL <= last
    <3> DEFINE x == (Len(rest) - i) * PING_INTERVAL
               y == (n - a) * PING_INTERVAL
               p == pings[a]
    <3>1. x <= y /\ x \in Int /\ y \in Int /\ p \in Nat /\ p + y <= last /\ rest[i] = p
      BY <1>1, <2>1, <2>2, <2>4
    <3> HIDE DEF x, y, p
    <3>2. p + x <= last
      BY ONLY <3>1, last \in Int
    <3> QED
      BY <3>1, <3>2 DEF x
  <2>6. \A k \in 1..Len(rest) : i < k => rest[i] < rest[k]
    <3> SUFFICES ASSUME NEW k \in 1..Len(rest), i < k PROVE rest[i] < rest[k]
      OBVIOUS
    <3> DEFINE b == At(k)
    <3>1. b \in 1..n /\ rest[k] = pings[b] /\ a < b
      BY <1>4, <2>1
    <3> HIDE DEF b
    <3> QED
      BY <1>3, <2>1, <3>1
  <2>7. pings[a] # pings[j]
    <3>1. a < j \/ j < a
      BY <1>1, <2>1
    <3>2. pings[a] < pings[j] \/ pings[j] < pings[a]
      BY <1>1, <1>3, <2>1, <3>1
    <3> QED
      BY <1>1, <2>1, <3>2
  <2> QED
    BY <2>1, <2>5, <2>6, <2>7
<1>6. Spaced(rest, last)
  BY <1>5 DEF Spaced
<1> QED
  BY <1>5, <1>6 DEF rest, n

\* When the timer fires on time, every ping remembered was sent at an earlier tick and
\* is not unanswered for Patience; so there is still room to remember one.
LEMMA Waiting ==
  ASSUME SessionType, OnTime, now >= conn.tick
  PROVE  LET pings == conn.outstanding_pings
         IN  /\ now = conn.tick
             /\ \A i \in 1..Len(pings) : pings[i] \in Nat /\ pings[i] <= now - PING_INTERVAL
                                          /\ now - pings[i] < Patience
             /\ Len(pings) < OUTSTANDING_PINGS
<1> DEFINE pings == conn.outstanding_pings
           n     == Len(pings)
           last  == conn.tick - PING_INTERVAL
<1>1. /\ pings \in Seq(Nat) /\ conn.tick \in Nat /\ now \in Nat
      /\ \A m \in Owed : InTime(m)
      /\ \A i \in 1..n : pings[i] \in Owed
      /\ Spaced(pings, last) /\ now \in last..conn.tick
  BY DEF SessionType, IsConn, OnTime
<1>2. now = conn.tick /\ last = now - PING_INTERVAL /\ last \in Int /\ PING_INTERVAL \in Nat \ {0}
  BY <1>1, SessionAssumption, SMTT(30)
<1>3. n \in Nat /\ \A i \in 1..n : pings[i] \in Nat
  BY <1>1, ElementOfSeq
<1>4. \A i \in 1..n : pings[i] + (n - i) * PING_INTERVAL <= last
  BY <1>1 DEF Spaced
<1> HIDE DEF pings, n, last
<1>5. ASSUME NEW i \in 1..n
      PROVE  /\ pings[i] + (n - i) * PING_INTERVAL <= now - PING_INTERVAL
             /\ (n - i) * PING_INTERVAL \in Int /\ pings[i] <= now - PING_INTERVAL
             /\ now - pings[i] < Patience
  <2>1. n - i \in Int /\ n - i >= 0
    BY <1>3
  <2>2. (n - i) * PING_INTERVAL \in Int /\ (n - i) * PING_INTERVAL >= 0
    BY <2>1, Intervals
  <2> DEFINE x == (n - i) * PING_INTERVAL
             p == pings[i]
  <2>3. x \in Int /\ x >= 0 /\ p \in Nat /\ p + x <= now - PING_INTERVAL
    BY <1>2, <1>3, <1>4, <2>2
  <2>4. InTime(p)
    BY <1>1 DEF pings, n
  <2> HIDE DEF x, p
  <2>5. p <= now - PING_INTERVAL /\ p # now
    BY <1>1, <1>2, <2>3
  <2>6. now - p < Patience
    BY <2>4, <2>5 DEF InTime
  <2> QED
    BY <2>3, <2>5, <2>6 DEF x, p
<1>6. n < OUTSTANDING_PINGS
  <2> SUFFICES ASSUME n >= OUTSTANDING_PINGS PROVE FALSE
    BY <1>3, PatienceType
  <2>1. 1 \in 1..n /\ n - 1 \in Int /\ OUTSTANDING_PINGS - 1 \in Int /\ OUTSTANDING_PINGS - 1 <= n - 1
        /\ OUTSTANDING_PINGS = (OUTSTANDING_PINGS - 1) + 1
    BY <1>3, PatienceType
  <2>2. /\ (OUTSTANDING_PINGS - 1) * PING_INTERVAL <= (n - 1) * PING_INTERVAL
        /\ OUTSTANDING_PINGS * PING_INTERVAL = (OUTSTANDING_PINGS - 1) * PING_INTERVAL + PING_INTERVAL
        /\ (OUTSTANDING_PINGS - 1) * PING_INTERVAL \in Int /\ (n - 1) * PING_INTERVAL \in Int
    BY <2>1, Intervals
  <2> DEFINE x == (OUTSTANDING_PINGS - 1) * PING_INTERVAL
             y == (n - 1) * PING_INTERVAL
             z == OUTSTANDING_PINGS * PING_INTERVAL
             p == pings[1]
             q == Patience
  <2>3. x <= y /\ z = x + PING_INTERVAL /\ x \in Int /\ y \in Int
    BY <2>2
  <2>4. p + y <= now - PING_INTERVAL /\ now - p < q
    BY <1>5, <2>1
  <2>5. p \in Nat /\ q \in Int /\ q <= z
    BY <1>3, <2>1, PatienceType
  <2> HIDE DEF x, y, z, p, q
  <2> QED
    BY ONLY <1>1, <1>2, <2>3, <2>4, <2>5
<1> QED
  BY <1>2, <1>3, <1>5, <1>6 DEF pings, n

\* A ping that timed out was left unanswered for Patience (ping_timed_out).
LEMMA TimedOut ==
  ASSUME SessionType, OnTime, now >= conn.tick, ping_timed_out(conn)
  PROVE  FALSE
<1> DEFINE pings == conn.outstanding_pings
           n     == Len(pings)
           last  == conn.tick - PING_INTERVAL
           lp    == conn.last_pong
           q     == Patience
<1>1. pings \in Seq(Nat) /\ lp \in Nat /\ now \in Nat /\ conn.tick \in Nat
  BY DEF SessionType, IsConn
<1>2. pings # <<>> /\ now - lp >= PING_TIMEOUT
  BY DEF ping_timed_out
<1>3. /\ now = conn.tick
      /\ \A i \in 1..n : pings[i] \in Nat /\ pings[i] <= now - PING_INTERVAL /\ now - pings[i] < q
  BY Waiting
<1>4. Recent(pings, lp, last)
  BY DEF OnTime
<1>5. q \in Int /\ PING_INTERVAL \in Nat /\ PING_TIMEOUT \in Nat /\ q <= PING_TIMEOUT - PING_INTERVAL
  BY PatienceType
<1>6. 1 \in 1..n
  BY <1>1, <1>2, EmptySeq
<1>7. last = now - PING_INTERVAL
  BY <1>3
<1> HIDE DEF pings, n, last, lp, q
<1>8. CASE last <= lp
  <2> DEFINE p == pings[1]
  <2>1. p \in Nat /\ p <= now - PING_INTERVAL /\ now - p < q
    BY <1>3, <1>6
  <2> HIDE DEF p
  <2> QED
    BY ONLY <1>1, <1>2, <1>5, <1>7, <1>8, <2>1
<1>9. CASE \E i \in 1..n : pings[i] \in (lp + 1)..(lp + PING_INTERVAL)
  <2>1. PICK i \in 1..n : pings[i] \in (lp + 1)..(lp + PING_INTERVAL)
    BY <1>9
  <2> DEFINE p == pings[i]
  <2>2. p \in Nat /\ p <= now - PING_INTERVAL /\ now - p < q
    BY <1>3
  <2>3. p <= lp + PING_INTERVAL
    BY <1>1, <1>5, <2>1
  <2> HIDE DEF p
  <2> QED
    BY ONLY <1>1, <1>2, <1>5, <1>7, <2>2, <2>3
<1> QED
  BY <1>4, <1>8, <1>9 DEF Recent, n

\* The timer sends its next ping and remembers it.
LEMMA PingSent ==
  ASSUME InRun, conn.running, ended = "none", conn.writing = "none", now >= conn.tick, ~ping_timed_out(conn),
         send_ping(conn),
         UNCHANGED <<now, inbox, taking, said, stalls, learned, free, answered, heard, overdue>>
  PROVE  Fine
<1> DEFINE pings == conn.outstanding_pings
           all   == Append(pings, now)
           c     == record_ping(conn, now)
           d     == [c EXCEPT !.tick = @ + PING_INTERVAL]
           last  == conn.tick - PING_INTERVAL
<1>1. SessionType /\ Buckets /\ IsConn(conn) /\ now \in Nat /\ conn.tick \in Nat
      /\ PING_INTERVAL \in Nat \ {0} /\ taking \in BOOLEAN /\ conn.last_pong \in Nat
  <2>1. SessionType /\ Buckets /\ IsConn(conn)
    BY DEF InRun, SessionType
  <2>2. now \in Nat /\ taking \in BOOLEAN
    BY <2>1 DEF SessionType
  <2>3. conn.tick \in Nat /\ conn.last_pong \in 0..now
    BY <2>1 DEF IsConn
  <2> QED
    BY <2>1, <2>2, <2>3, SessionAssumption
<1>2. pings \in Seq(Nat) /\ Len(pings) \in Nat /\ all \in Seq(Nat) /\ Len(all) = Len(pings) + 1 /\ all[Len(all)] = now
  <2>1. pings \in Seq(Nat)
    BY <1>1 DEF IsConn
  <2> QED
    BY <1>1, <2>1, AppendProperties
<1>3. /\ Write(d, "ping") /\ known' = (IF taking THEN Knows(now) ELSE known)
      /\ due' = Awaiting(now) /\ ended' = ended
  BY DEF send_ping
<1>4. /\ IsConn(c) /\ Limits(c) = Limits(conn)
      /\ \/ /\ Len(pings) < OUTSTANDING_PINGS
            /\ Timer(c) = <<all, conn.last_pong, conn.tick, "none", TRUE>>
         \/ /\ Len(pings) >= OUTSTANDING_PINGS
            /\ Timer(c) = <<Tail(all), conn.last_pong, conn.tick, "none", TRUE>>
  <2>1. conn.running = TRUE
    BY <1>1 DEF IsConn
  <2> QED
    BY <1>1, <2>1, RecordPing
<1>5. PICK q : /\ q \in {all, Tail(all)} /\ (Len(pings) < OUTSTANDING_PINGS => q = all) /\ q # <<>>
               /\ Timer(c) = <<q, conn.last_pong, conn.tick, "none", TRUE>>
  <2>1. all # <<>>
    <3> HIDE DEF all
    <3>1. Len(all) # 0
      BY <1>2
    <3> QED
      BY <3>1
  <2>2. Len(pings) >= OUTSTANDING_PINGS => Tail(all) # <<>>
    <3> SUFFICES ASSUME Len(pings) >= OUTSTANDING_PINGS PROVE Len(Tail(all)) # 0
      BY <1>2, <2>1, HeadTailProperties, EmptySeq
    <3>1. Len(Tail(all)) = Len(all) - 1
      BY <1>2, <2>1, HeadTailProperties
    <3>2. OUTSTANDING_PINGS \in Nat \ {0}
      BY PatienceType
    <3> HIDE DEF all, pings
    <3>3. (Len(pings) + 1) - 1 # 0
      BY <1>2, <3>2, OneLess, Zenon
    <3> QED
      BY <1>2, <3>1, <3>3, Zenon
  <2>3. OUTSTANDING_PINGS \in Nat /\ ~(Len(pings) < OUTSTANDING_PINGS /\ Len(pings) >= OUTSTANDING_PINGS)
    BY <1>2, SessionAssumption
  <2> HIDE DEF all, pings, c
  <2> QED
    BY <1>4, <2>1, <2>2, <2>3
<1> HIDE DEF c, pings, all
<1>6. IsConn(d) /\ Limits(d) = Limits(conn)
      /\ Timer(d) = <<q, conn.last_pong, conn.tick + PING_INTERVAL, "none", TRUE>>
  <2> DEFINE t == c.tick + PING_INTERVAL
  <2>1. c.tick = conn.tick
    BY <1>5 DEF Timer
  <2>2. t \in Nat /\ d = [c EXCEPT !.tick = t] /\ t = conn.tick + PING_INTERVAL
    BY <1>1, <1>4, <2>1 DEF IsConn
  <2> HIDE DEF t, d
  <2>3. IsConn(d) /\ Limits(d) = Limits(c) /\ Timer(d) = <<c.outstanding_pings, c.last_pong, t, c.writing, c.running>>
    BY <1>4, <2>2 DEF IsConn, Limits, Timer
  <2>4. c.outstanding_pings = q /\ c.last_pong = conn.last_pong /\ c.writing = "none" /\ c.running = TRUE
    BY <1>5 DEF Timer
  <2> QED
    BY <1>4, <2>2, <2>3, <2>4
<1> HIDE DEF d
<1>7. /\ IsConn(conn') /\ Limits(conn') = Limits(conn)
      /\ conn'.outstanding_pings = q /\ conn'.last_pong = conn.last_pong
      /\ conn'.tick = conn.tick + PING_INTERVAL
      /\ conn'.writing = (IF taking THEN "none" ELSE "ping") /\ conn'.running = TRUE
  <2>1. /\ IsConn(conn') /\ Limits(conn') = Limits(d)
        /\ Timer(conn') = <<d.outstanding_pings, d.last_pong, d.tick, IF taking THEN d.writing ELSE "ping", d.running>>
    BY <1>1, <1>3, <1>6, Writes
  <2>2. /\ d.outstanding_pings = q /\ d.last_pong = conn.last_pong /\ d.tick = conn.tick + PING_INTERVAL
        /\ d.writing = "none" /\ d.running = TRUE
    BY <1>6 DEF Timer
  <2> QED
    BY <1>6, <2>1, <2>2 DEF Timer
<1>8. \A n \in known' : n \in known \/ (taking /\ n = now)
  BY <1>3 DEF Knows
<1>9. \A n : n \in due' <=> ~overdue /\ (n \in due \/ n = now)
  BY <1>3 DEF Awaiting
<1>10. SessionType'
  <2>1. IsConn(conn)'
    BY <1>1, <1>7, ConnLater
  <2>2. known' \subseteq Nat /\ due' \subseteq Nat
    BY <1>1, <1>8, <1>9 DEF SessionType
  <2> QED
    BY <1>1, <2>1, <2>2 DEF SessionType, IsSeq
<1>11. Buckets'
  BY <1>1, <1>7, SameLimits
<1>12. Prompt => Prompt'
  <2> SUFFICES ASSUME Prompt PROVE Prompt'
    OBVIOUS
  <2>1. taking /\ now = conn.tick /\ conn.last_pong <= heard
    BY <1>1 DEF Prompt
  <2>2. now \in (conn'.tick - PING_INTERVAL)..conn'.tick
    BY <1>1, <1>7, <2>1
  <2>3. conn'.outstanding_pings # <<>>
    BY <1>5, <1>7
  <2>4. conn'.tick <= conn'.last_pong + Max({PING_TIMEOUT, PING_INTERVAL}) + PING_INTERVAL
    <3> DEFINE m  == Max({PING_TIMEOUT, PING_INTERVAL})
               lp == conn.last_pong
    <3>1. PING_TIMEOUT \in Nat
      BY SessionAssumption
    <3>2. m \in Int /\ m >= PING_TIMEOUT /\ m >= PING_INTERVAL
      <4>1. m = IF PING_TIMEOUT >= PING_INTERVAL THEN PING_TIMEOUT ELSE PING_INTERVAL
        BY <1>1, <3>1, OfTwo
      <4> HIDE DEF m
      <4> QED
        BY <1>1, <3>1, <4>1
    <3>3. lp \in Nat
      BY <1>1
    <3>4. conn.outstanding_pings # <<>> => now - lp < PING_TIMEOUT
      BY <1>1, <3>1 DEF ping_timed_out
    <3>5. conn.tick <= lp + PING_INTERVAL \/ conn.outstanding_pings # <<>>
      BY DEF Prompt
    <3> HIDE DEF m, lp
    <3>6. conn.tick <= lp + m
      BY <1>1, <2>1, <3>1, <3>2, <3>3, <3>4, <3>5
    <3>7. conn.tick + PING_INTERVAL <= lp + m + PING_INTERVAL
      BY <1>1, <3>2, <3>3, <3>6
    <3> QED
      BY <1>7, <3>7 DEF m, lp
  <2> QED
    BY <1>7, <2>1, <2>2, <2>3, <2>4 DEF Prompt
<1>13. ASSUME ~overdue PROVE OnTime => OnTime'
  <2> SUFFICES ASSUME OnTime PROVE OnTime'
    OBVIOUS
  <2>1. now = conn.tick /\ q = all
    BY <1>1, <1>5, Waiting DEF pings
  <2>2. now = last + PING_INTERVAL /\ last \in Int /\ conn'.tick - PING_INTERVAL = now
    BY <1>1, <1>7, <2>1
  <2>3. Spaced(all, now) /\ Recent(all, conn.last_pong, now)
    <3>1. Spaced(pings, last) /\ Recent(pings, conn.last_pong, last)
      BY DEF OnTime, pings
    <3> HIDE DEF last
    <3> QED
      BY <1>1, <1>2, <2>2, <3>1, OneMorePing DEF all
  <2>4. now \in now..conn'.tick
    BY <1>1, <1>7, <2>1
  <2>5. known' \subseteq due'
    BY <1>8, <1>9, <1>13 DEF OnTime
  <2>6. \A n \in due : n \in Nat /\ n < now
    <3> SUFFICES ASSUME NEW n \in due PROVE n \in Nat /\ n < now
      OBVIOUS
    <3>1. n \in Nat /\ n <= last
      BY <1>1 DEF OnTime, SessionType
    <3> HIDE DEF last
    <3> QED
      BY <1>1, <2>2, <3>1
  <2>7. \A n \in due' : n <= now
    BY <1>1, <1>9, <2>6
  <2>8. \A n : n \in Owed' <=> n \in Owed \/ n = now
    BY <1>9, <1>13, WhatIsOwed
  <2>9. \A n \in Owed' : InTime(n)'
    BY <2>8 DEF OnTime, InTime
  <2>10. \A i \in 1..Len(all) : all[i] \in Owed'
    <3>1. \A i \in 1..Len(pings) : all[i] = pings[i]
      BY <1>1, <1>2, AppendProperties DEF all
    <3>2. \A i \in 1..Len(all) : i \in 1..Len(pings) \/ i = Len(all)
      BY <1>2
    <3>3. \A i \in 1..Len(pings) : pings[i] \in Owed
      BY DEF OnTime, pings
    <3> QED
      BY <1>2, <2>8, <3>1, <3>2, <3>3
  <2>11. conn'.writing = "ping" => Last(all) \in due' \ known'
    <3> SUFFICES ASSUME ~taking PROVE now \in due' \ known'
      BY <1>2, <1>7 DEF Last
    <3>1. now \notin known
      <4>1. \A n \in due : n # now
        BY <1>1, <2>6
      <4> QED
        BY <4>1 DEF OnTime
    <3> QED
      BY <1>8, <1>9, <1>13, <3>1
  <2> QED
    BY <1>7, <2>1, <2>2, <2>3, <2>4, <2>5, <2>7, <2>9, <2>10, <2>11 DEF OnTime
<1>14. InRun'
  BY <1>5, <1>7, <1>10, <1>11, <1>12, <1>13 DEF InRun
<1> QED
  BY <1>3, <1>7, <1>14 DEF Fine

\* The timer fires (ping_tick): the session ends over a silence, or it sends a ping.
LEMMA PingTickFine ==
  ASSUME InRun, conn.running, ended = "none", ping_tick
  PROVE  Fine
<1>1. /\ conn.writing = "none" /\ now >= conn.tick
      /\ UNCHANGED <<now, inbox, taking, said, stalls, learned, free, answered, heard, overdue>>
  BY DEF ping_tick, Runnable
<1>2. CASE ping_timed_out(conn)
  <2>1. EndWith("PingTimeout") /\ UNCHANGED <<known, due>>
    BY <1>2 DEF ping_tick
  <2>2. overdue
    <3>1. SessionType /\ (~overdue => OnTime)
      BY DEF InRun
    <3> QED
      BY <1>1, <1>2, <3>1, TimedOut
  <2>3. IsSeq(inbox') /\ \A i \in 1..Len(inbox') : IsMessage(inbox'[i])
    BY <1>1 DEF InRun, SessionType
  <2> QED
    BY <1>1, <2>1, <2>2, <2>3, EndsFine
<1>3. CASE ~ping_timed_out(conn)
  <2>1. send_ping(conn)
    BY <1>3 DEF ping_tick
  <2> QED
    BY <1>1, <1>3, <2>1, PingSent
<1> QED
  BY <1>2, <1>3

----------------------------------------------------------------------------
(* Messages *)

\* A message read from the socket either leaves the timer alone, as far as it looks at
\* it, or answers one of the pings it remembers.
LEMMA ReadFine ==
  ASSUME InRun, conn.running, ended = "none", conn.writing = "none", inbox # <<>>, inbox' = Tail(inbox),
         UNCHANGED <<now, taking, known, stalls, due, heard, overdue, ended>>,
         IsConn(conn'), Buckets', conn'.tick = conn.tick, conn'.running = TRUE,
         conn'.writing # "ping", taking => conn'.writing = "none",
         \/ /\ conn'.outstanding_pings = conn.outstanding_pings /\ conn'.last_pong = conn.last_pong
            /\ \A i \in 1..Len(conn.outstanding_pings) :
                 conn.outstanding_pings[i] # Head(inbox).nonce \/ ~IsAnswer(Head(inbox))
         \/ \E j \in 1..Len(conn.outstanding_pings) :
              /\ conn.outstanding_pings[j] = Head(inbox).nonce /\ IsAnswer(Head(inbox))
              /\ conn'.outstanding_pings = RemoveAt(conn.outstanding_pings, j)
              /\ conn'.last_pong = now
  PROVE  Fine
<1> DEFINE pings == conn.outstanding_pings
           last  == conn.tick - PING_INTERVAL
<1>1. SessionType /\ IsConn(conn)
  BY DEF InRun, SessionType
<1>2. /\ IsSeq(inbox') /\ Len(inbox) \in Nat \ {0} /\ Len(inbox') = Len(inbox) - 1
      /\ \A i \in 1..(Len(inbox) - 1) : inbox'[i] = inbox[i + 1]
      /\ Head(inbox) = inbox[1]
  BY <1>1, OneOut DEF SessionType
<1>3. \A i \in 1..Len(inbox') : i + 1 \in 1..Len(inbox) /\ inbox'[i] = inbox[i + 1]
  BY <1>2
<1>4. \A i \in 1..Len(inbox) : i = 1 \/ (i - 1 \in 1..Len(inbox') /\ inbox[i] = inbox'[i - 1])
  BY <1>2
<1>5. 1 \in 1..Len(inbox)
  BY <1>2
<1>6. SessionType'
  <2>1. IsConn(conn)'
    BY <1>1, ConnLater DEF SessionType
  <2>2. \A i \in 1..Len(inbox') : IsMessage(inbox'[i])
    BY <1>1, <1>3 DEF SessionType
  <2> QED
    BY <1>1, <1>2, <2>1, <2>2 DEF SessionType, IsSeq
<1>7. now \in Nat /\ conn.tick \in Nat /\ pings \in Seq(Nat) /\ PING_INTERVAL \in Nat \ {0} /\ conn.last_pong \in 0..now
  BY <1>1, SessionAssumption DEF SessionType, IsConn
<1>8. Prompt => Prompt'
  <2> SUFFICES ASSUME Prompt PROVE Prompt'
    OBVIOUS
  <2>1. \A i \in 1..Len(inbox') : IsAnswer(inbox'[i]) => heard' = now'
    BY <1>3 DEF Prompt
  <2>2. CASE conn'.outstanding_pings = conn.outstanding_pings /\ conn'.last_pong = conn.last_pong
    BY <2>1, <2>2 DEF Prompt
  <2>3. CASE IsAnswer(Head(inbox)) /\ conn'.last_pong = now
    <3>1. heard = now
      BY <1>2, <1>5, <2>3 DEF Prompt
    <3>2. now \in last..conn.tick
      BY DEF Prompt
    <3>3. conn.tick <= now + PING_INTERVAL
      BY <1>7, <3>2
    <3>4. conn'.last_pong <= heard' /\ conn'.tick <= conn'.last_pong + PING_INTERVAL
      BY <1>7, <2>3, <3>1, <3>3
    <3> QED
      BY <2>1, <3>4 DEF Prompt
  <2> QED
    BY <2>2, <2>3
<1>9. ASSUME OnTime PROVE OnTime'
  <2>1. \A n : n \in Owed' => n \in Owed
    BY <1>3, WhatIsOwed
  <2>2. \A n : n \in Owed => n \in Owed' \/ (IsAnswer(Head(inbox)) /\ n = Head(inbox).nonce)
    <3> SUFFICES ASSUME NEW n \in Owed, n \notin Owed' PROVE IsAnswer(Head(inbox)) /\ n = Head(inbox).nonce
      OBVIOUS
    <3>1. PICK i \in 1..Len(inbox) : IsAnswer(inbox[i]) /\ inbox[i].nonce = n
      BY WhatIsOwed
    <3>2. ~ (i - 1 \in 1..Len(inbox') /\ inbox[i] = inbox'[i - 1])
      BY <3>1, WhatIsOwed
    <3> QED
      BY <1>2, <1>4, <3>1, <3>2
  <2>3. /\ now \in last..conn.tick /\ Spaced(pings, last) /\ Recent(pings, conn.last_pong, last)
        /\ \A i \in 1..Len(pings) : pings[i] \in Owed
    BY <1>9 DEF OnTime
  <2>4. /\ Spaced(conn'.outstanding_pings, last) /\ Recent(conn'.outstanding_pings, conn'.last_pong, last)
        /\ \A i \in 1..Len(conn'.outstanding_pings) : conn'.outstanding_pings[i] \in Owed'
    <3>1. CASE /\ conn'.outstanding_pings = conn.outstanding_pings /\ conn'.last_pong = conn.last_pong
               /\ \A i \in 1..Len(pings) : pings[i] # Head(inbox).nonce \/ ~IsAnswer(Head(inbox))
      BY <2>2, <2>3, <3>1
    <3>2. CASE \E j \in 1..Len(pings) :
                 /\ pings[j] = Head(inbox).nonce /\ IsAnswer(Head(inbox))
                 /\ conn'.outstanding_pings = RemoveAt(pings, j)
                 /\ conn'.last_pong = now
      <4>1. PICK j \in 1..Len(pings) :
                 /\ pings[j] = Head(inbox).nonce
                 /\ conn'.outstanding_pings = RemoveAt(pings, j)
                 /\ conn'.last_pong = now
        BY <3>2
      <4>2. last \in Int /\ last <= now
        BY <1>7, <2>3
      <4> HIDE DEF last, pings
      <4>3. /\ Spaced(RemoveAt(pings, j), last)
            /\ \A i \in 1..Len(RemoveAt(pings, j)) :
                 \E k \in 1..Len(pings) : RemoveAt(pings, j)[i] = pings[k] /\ pings[k] # pings[j]
        BY <1>7, <2>3, <4>2, OnePingAnswered
      <4>4. \A i \in 1..Len(RemoveAt(pings, j)) : RemoveAt(pings, j)[i] \in Owed'
        BY <2>2, <2>3, <4>1, <4>3
      <4>5. Recent(RemoveAt(pings, j), now, last)
        BY <4>2 DEF Recent
      <4> QED
        BY <4>1, <4>3, <4>4, <4>5
    <3> QED
      BY <3>1, <3>2
  <2> QED
    BY <1>9, <2>1, <2>3, <2>4 DEF OnTime, InTime
<1>10. InRun'
  BY <1>6, <1>8, <1>9 DEF InRun
<1> QED
  BY <1>10 DEF Fine

\* What is done with a message, by what it is.
LEMMA Handled ==
  ASSUME handle_message
  PROVE  LET m == Head(inbox)
             c == record_message(conn, m.command)
         IN  /\ conn.writing = "none" /\ inbox # <<>> /\ inbox' = Tail(inbox)
             /\ UNCHANGED <<now, taking, known, stalls, due, heard, overdue>>
             /\ \/ /\ m.command = "pong" /\ conn' = claim_pong(c, m.nonce)
                   /\ UNCHANGED <<ended, learned, free, answered>>
                \/ m.command = "ping" /\ Write(c, "pong") /\ UNCHANGED <<ended, learned, free, answered>>
                \/ LET asked == may_answer_getheaders(c)
                   IN  /\ m.command = "getheaders" /\ UNCHANGED <<ended, learned, free>>
                       /\ IF asked.getheaders_ignored > c.getheaders_ignored
                            THEN conn' = asked /\ answered' = answered
                            ELSE Write(asked, "headers") /\ answered' = Append(answered, now)
                \/ LET o == offer_gossip(c, m)
                   IN  /\ m.command \in {"addr", "addrv2"} /\ conn' = o.conn /\ free' = free + o.free
                       /\ learned' = IF o.spent = 0 THEN learned
                                     ELSE Append(learned, [at |-> now, before |-> Charged, upto |-> Charged + o.spent])
                       /\ UNCHANGED <<ended, answered>>
                \/ EndWith("ProtocolViolation") /\ UNCHANGED <<learned, free, answered>>
                \/ m.command # "pong" /\ conn' = c /\ UNCHANGED <<ended, learned, free, answered>>
<1> DEFINE m == Head(inbox)
           c == record_message(conn, m.command)
<1>1. /\ conn.writing = "none" /\ inbox # <<>> /\ inbox' = Tail(inbox)
      /\ UNCHANGED <<now, taking, known, stalls, due, heard, overdue>>
  BY DEF handle_message, Runnable
<1>2. CASE m.command = "pong"
  BY <1>1, <1>2 DEF handle_message
<1>3. CASE m.command = "ping"
  BY <1>1, <1>3 DEF handle_message
<1>4. CASE m.command = "getheaders"
  BY <1>1, <1>4 DEF handle_message
<1>5. CASE m.command \in {"addr", "addrv2"}
  BY <1>1, <1>5 DEF handle_message
<1>6. CASE m.command = "inv"
  BY <1>1, <1>6 DEF handle_message
<1>7. CASE m.command \notin {"pong", "ping", "getheaders", "addr", "addrv2", "inv"}
  BY <1>1, <1>7 DEF handle_message
<1> QED
  BY <1>2, <1>3, <1>4, <1>5, <1>6, <1>7

\* Reading a message and doing what it asks (Connection::handle_message).
LEMMA HandleMessageFine ==
  ASSUME InRun, conn.running, ended = "none", handle_message
  PROVE  Fine
<1> DEFINE m == Head(inbox)
           c == record_message(conn, m.command)
           pings == conn.outstanding_pings
           Alone == /\ conn'.outstanding_pings = pings /\ conn'.last_pong = conn.last_pong
                    /\ conn'.tick = conn.tick /\ conn'.running = TRUE
                    /\ conn'.writing # "ping" /\ (taking => conn'.writing = "none")
<1>1. SessionType /\ Buckets /\ IsConn(conn)
  BY DEF InRun, SessionType
<1>2. /\ conn.writing = "none" /\ inbox # <<>> /\ inbox' = Tail(inbox)
      /\ UNCHANGED <<now, taking, known, stalls, due, heard, overdue>>
  BY Handled
<1>3. IsMessage(m)
  <2>1. Head(inbox) = inbox[1] /\ 1 \in 1..Len(inbox)
    BY <1>1, <1>2, OneOut DEF SessionType
  <2> QED
    BY <1>1, <2>1 DEF SessionType
<1>4. IsConn(c) /\ Timer(c) = Timer(conn) /\ Limits(c) = Limits(conn)
      /\ c.getheaders_ignored = conn.getheaders_ignored
  BY <1>1, RecordMessage
<1>5. /\ c.outstanding_pings = pings /\ c.last_pong = conn.last_pong /\ c.tick = conn.tick
      /\ c.writing = "none" /\ c.running = TRUE
      /\ c.addr = conn.addr /\ c.getheaders = conn.getheaders /\ c.getaddr_outstanding = conn.getaddr_outstanding
  <2>1. conn.running = TRUE
    BY <1>1 DEF IsConn
  <2> QED
    BY <1>2, <1>4, <2>1 DEF Timer, Limits
<1>6. taking \in BOOLEAN /\ pings \in Seq(Nat)
  BY <1>1 DEF SessionType, IsConn
<1>7. \/ m.command = "pong" /\ conn' = claim_pong(c, m.nonce) /\ UNCHANGED <<ended, learned, free, answered>>
      \/ m.command = "ping" /\ Write(c, "pong") /\ UNCHANGED <<ended, learned, free, answered>>
      \/ LET asked == may_answer_getheaders(c)
         IN  /\ m.command = "getheaders" /\ UNCHANGED <<ended, learned, free>>
             /\ IF asked.getheaders_ignored > c.getheaders_ignored
                  THEN conn' = asked /\ answered' = answered
                  ELSE Write(asked, "headers") /\ answered' = Append(answered, now)
      \/ LET o == offer_gossip(c, m)
         IN  /\ m.command \in {"addr", "addrv2"} /\ conn' = o.conn /\ free' = free + o.free
             /\ learned' = IF o.spent = 0 THEN learned
                           ELSE Append(learned, [at |-> now, before |-> Charged, upto |-> Charged + o.spent])
             /\ UNCHANGED <<ended, answered>>
      \/ EndWith("ProtocolViolation") /\ UNCHANGED <<learned, free, answered>>
      \/ m.command # "pong" /\ conn' = c /\ UNCHANGED <<ended, learned, free, answered>>
  BY Handled
<1> HIDE DEF m, c, pings
<1>8. ASSUME m.command # "pong", Alone, IsConn(conn'), Buckets', ended' = ended
      PROVE  Fine
  <2>1. ~IsAnswer(Head(inbox))
    BY <1>8 DEF IsAnswer, m
  <2> QED
    BY <1>2, <1>8, <2>1, ReadFine DEF pings
<1>9. CASE m.command = "pong" /\ conn' = claim_pong(c, m.nonce) /\ UNCHANGED <<ended, learned, free, answered>>
  <2>1. /\ IsConn(conn') /\ Limits(conn') = Limits(c)
        /\ \/ /\ \A i \in 1..Len(pings) : pings[i] # m.nonce
              /\ Timer(conn') = Timer(c)
           \/ \E j \in 1..Len(pings) :
                /\ pings[j] = m.nonce
                /\ Timer(conn') = <<RemoveAt(pings, j), now, c.tick, c.writing, c.running>>
    BY <1>1, <1>4, <1>5, <1>9, ClaimPong
  <2>2. Buckets'
    BY <1>1, <1>4, <1>9, <2>1, SameLimits
  <2>3. CASE Timer(conn') = Timer(c) /\ \A i \in 1..Len(pings) : pings[i] # m.nonce
    <3>1. Alone
      BY <1>5, <2>3 DEF Timer
    <3> QED
      BY <1>2, <1>9, <2>1, <2>2, <2>3, <3>1, ReadFine DEF pings, m
  <2>4. CASE \E j \in 1..Len(pings) :
               /\ pings[j] = m.nonce
               /\ Timer(conn') = <<RemoveAt(pings, j), now, c.tick, c.writing, c.running>>
    <3>1. PICK j \in 1..Len(pings) :
               /\ pings[j] = m.nonce
               /\ Timer(conn') = <<RemoveAt(pings, j), now, c.tick, c.writing, c.running>>
      BY <2>4
    <3>2. IsAnswer(m)
      BY <1>6, <1>9, <3>1, ElementOfSeq DEF IsAnswer
    <3>3. /\ conn'.outstanding_pings = RemoveAt(pings, j) /\ conn'.last_pong = now /\ conn'.tick = conn.tick
          /\ conn'.writing = "none" /\ conn'.running = TRUE
      BY <1>5, <3>1 DEF Timer
    <3>4. \E k \in 1..Len(conn.outstanding_pings) :
              /\ conn.outstanding_pings[k] = Head(inbox).nonce /\ IsAnswer(Head(inbox))
              /\ conn'.outstanding_pings = RemoveAt(conn.outstanding_pings, k)
              /\ conn'.last_pong = now
      BY <3>1, <3>2, <3>3 DEF pings, m
    <3> QED
      BY <1>2, <1>9, <2>1, <2>2, <3>3, <3>4, ReadFine
  <2> QED
    BY <2>1, <2>3, <2>4
<1>10. CASE m.command = "ping" /\ Write(c, "pong") /\ UNCHANGED <<ended, learned, free, answered>>
  <2>1. /\ IsConn(conn') /\ Limits(conn') = Limits(c)
        /\ Timer(conn') = <<c.outstanding_pings, c.last_pong, c.tick,
                            IF taking THEN c.writing ELSE "pong", c.running>>
    BY <1>4, <1>6, <1>10, Writes
  <2>2. Buckets'
    BY <1>1, <1>4, <1>10, <2>1, SameLimits
  <2>3. Alone
    BY <1>5, <1>6, <2>1 DEF Timer
  <2> QED
    BY <1>8, <1>10, <2>1, <2>2, <2>3
<1>11. CASE LET asked == may_answer_getheaders(c)
            IN  /\ m.command = "getheaders" /\ UNCHANGED <<ended, learned, free>>
                /\ IF asked.getheaders_ignored > c.getheaders_ignored
                     THEN conn' = asked /\ answered' = answered
                     ELSE Write(asked, "headers") /\ answered' = Append(answered, now)
  <2> DEFINE d == may_answer_getheaders(c)
  <2>1. /\ m.command = "getheaders" /\ UNCHANGED <<ended, learned, free>>
        /\ IF d.getheaders_ignored > c.getheaders_ignored
             THEN conn' = d /\ answered' = answered
             ELSE Write(d, "headers") /\ answered' = Append(answered, now)
    BY <1>11
  <2>2. /\ IsConn(d) /\ Timer(d) = Timer(c)
        /\ \E b : /\ Limits(d) = <<c.addr, b, c.getaddr_outstanding>>
                  /\ b.updated = now /\ b.tokens \in Nat
                  /\ IF d.getheaders_ignored > c.getheaders_ignored
                       THEN /\ b.tokens <= c.getheaders.tokens + (now - c.getheaders.updated)
                       ELSE /\ b.tokens + REFILL <= c.getheaders.tokens + (now - c.getheaders.updated)
                            /\ b.tokens + REFILL <= GETHEADERS_BURST * REFILL
    BY <1>1, <1>4, MayAnswer
  <2> HIDE DEF d
  <2>3. /\ IsConn(conn') /\ Limits(conn') = Limits(d)
        /\ \E w \in {"none", "headers"} :
             /\ Timer(conn') = <<d.outstanding_pings, d.last_pong, d.tick, w, d.running>>
             /\ taking => w = "none"
    <3>1. CASE conn' = d
      BY <1>5, <2>2, <3>1 DEF Timer
    <3>2. CASE Write(d, "headers")
      BY <1>5, <1>6, <2>2, <3>2, Writes DEF Timer
    <3> QED
      BY <2>1, <3>1, <3>2
  <2>4. Alone
    BY <1>5, <2>2, <2>3 DEF Timer
  <2>5. Buckets'
    <3>1. PICK b : /\ Limits(d) = <<c.addr, b, c.getaddr_outstanding>>
                   /\ b.updated = now /\ b.tokens \in Nat
                   /\ IF d.getheaders_ignored > c.getheaders_ignored
                        THEN /\ b.tokens <= c.getheaders.tokens + (now - c.getheaders.updated)
                        ELSE /\ b.tokens + REFILL <= c.getheaders.tokens + (now - c.getheaders.updated)
                             /\ b.tokens + REFILL <= GETHEADERS_BURST * REFILL
      BY <2>2
    <3>2. conn'.addr = conn.addr /\ conn'.getheaders = b /\ conn'.getaddr_outstanding = conn.getaddr_outstanding
      BY <1>5, <2>3, <3>1 DEF Limits
    <3>3. \/ /\ answered' = answered
             /\ conn'.getheaders.tokens <= conn.getheaders.tokens + (now - conn.getheaders.updated)
          \/ /\ answered' = Append(answered, now)
             /\ conn'.getheaders.tokens + REFILL <= conn.getheaders.tokens + (now - conn.getheaders.updated)
             /\ conn'.getheaders.tokens + REFILL <= GETHEADERS_BURST * REFILL
      BY <1>5, <2>1, <3>1, <3>2
    <3>4. conn'.getheaders.updated = now /\ conn'.getheaders.tokens \in Nat /\ UNCHANGED <<learned, free>>
      BY <2>1, <3>1, <3>2
    <3> QED
      BY <1>1, <3>2, <3>3, <3>4, AskedKeepsBuckets
  <2> QED
    BY <1>8, <2>1, <2>3, <2>4, <2>5
<1>12. CASE LET o == offer_gossip(c, m)
            IN  /\ m.command \in {"addr", "addrv2"} /\ conn' = o.conn /\ free' = free + o.free
                /\ learned' = IF o.spent = 0 THEN learned
                              ELSE Append(learned, [at |-> now, before |-> Charged, upto |-> Charged + o.spent])
                /\ UNCHANGED <<ended, answered>>
  <2> DEFINE o == offer_gossip(c, m)
  <2>1. /\ m.command \in {"addr", "addrv2"} /\ conn' = o.conn /\ free' = free + o.free
        /\ learned' = IF o.spent = 0 THEN learned
                      ELSE Append(learned, [at |-> now, before |-> Charged, upto |-> Charged + o.spent])
        /\ UNCHANGED <<ended, answered>>
    BY <1>12
  <2>2. m \in Gossips
    BY <1>3, <2>1, MessagesAssumption DEF IsMessage
  <2>3. /\ IsConn(o.conn) /\ Timer(o.conn) = Timer(c) /\ o.conn.getheaders = c.getheaders
        /\ o.spent \in Nat /\ o.conn.addr.updated = now /\ o.conn.addr.tokens \in Nat
        /\ o.conn.addr.tokens + REFILL * o.spent <= c.addr.tokens + (now - c.addr.updated)
        /\ o.conn.addr.tokens + REFILL * o.spent <= ADDR_BURST * REFILL
        /\ \/ o.free = 0 /\ o.conn.getaddr_outstanding = c.getaddr_outstanding
           \/ o.free = 1 /\ c.getaddr_outstanding /\ ~o.conn.getaddr_outstanding
    BY <1>1, <1>4, <2>2, OfferGossip
  <2> HIDE DEF o
  <2>4. Alone
    BY <1>5, <2>1, <2>3 DEF Timer
  <2>5. Buckets'
    <3> DEFINE spent == o.spent
    <3>1. /\ spent \in Nat /\ answered' = answered /\ conn'.getheaders = conn.getheaders
          /\ learned' = (IF spent = 0 THEN learned
                         ELSE Append(learned, [at |-> now, before |-> Charged, upto |-> Charged + spent]))
          /\ conn'.addr.updated = now /\ conn'.addr.tokens \in Nat
          /\ conn'.addr.tokens + REFILL * spent <= conn.addr.tokens + (now - conn.addr.updated)
          /\ conn'.addr.tokens + REFILL * spent <= ADDR_BURST * REFILL
      BY <1>5, <2>1, <2>3
    <3>2. \/ free' = free /\ conn'.getaddr_outstanding = conn.getaddr_outstanding
          \/ free' = free + 1 /\ conn.getaddr_outstanding /\ ~conn'.getaddr_outstanding
      <4>1. free \in Int
        BY <1>1 DEF Buckets
      <4> QED
        BY <1>5, <2>1, <2>3, <4>1
    <3> HIDE DEF spent
    <3> QED
      BY <1>1, <3>1, <3>2, OfferedKeepsBuckets
  <2> QED
    BY <1>8, <2>1, <2>3, <2>4, <2>5
<1>13. CASE EndWith("ProtocolViolation") /\ UNCHANGED <<learned, free, answered>>
  <2>1. IsSeq(inbox') /\ \A i \in 1..Len(inbox') : IsMessage(inbox'[i])
    <3>1. /\ IsSeq(inbox') /\ Len(inbox) \in Nat \ {0} /\ Len(inbox') = Len(inbox) - 1
          /\ \A i \in 1..(Len(inbox) - 1) : inbox'[i] = inbox[i + 1]
      BY <1>1, <1>2, OneOut DEF SessionType
    <3>2. \A i \in 1..Len(inbox') : i + 1 \in 1..Len(inbox) /\ inbox'[i] = inbox[i + 1]
      BY <3>1
    <3> QED
      BY <1>1, <3>1, <3>2 DEF SessionType
  <2> QED
    BY <1>2, <1>13, <2>1, EndsFine
<1>14. CASE m.command # "pong" /\ conn' = c /\ UNCHANGED <<ended, learned, free, answered>>
  <2>1. Alone
    BY <1>5, <1>14
  <2>2. Buckets'
    BY <1>1, <1>4, <1>14, SameLimits
  <2> QED
    BY <1>4, <1>8, <1>14, <2>1, <2>2
<1> QED
  BY <1>7, <1>9, <1>10, <1>11, <1>12, <1>13, <1>14

----------------------------------------------------------------------------
(* The session in its attempt *)

\* Any step of the message loop, of the peer or of the clock (run).
LEMMA RunFine ==
  ASSUME InRun, conn.running, ended = "none", Run
  PROVE  Fine
<1>1. CASE PeerGone("PeerClosed") \/ PeerGone("Oversized")
  BY <1>1, PeerGoneFine
<1>2. CASE LoopStep
  BY <1>2, PingTickFine, HandleMessageFine, FinishWriteFine DEF LoopStep
<1>3. CASE PeerStep
  <2>1. ASSUME NEW m \in Says \cup Gossips, Say(m) PROVE Fine
    BY <2>1, SayFine
  <2>2. ASSUME NEW nonce \in known, Answer(nonce) PROVE Fine
    BY <2>2, AnswerFine
  <2>3. CASE StopTaking \/ TakeAgain
    BY <2>3, TakingFine
  <2> QED
    BY <1>3, <2>1, <2>2, <2>3 DEF PeerStep
<1>4. CASE Tick
  BY <1>4, TickFine
<1> QED
  BY <1>1, <1>2, <1>3, <1>4, FinishWriteFine DEF Run

\* A session begins with nothing remembered of any ping, and full buckets (run_session).
LEMMA NewSession ==
  ASSUME Quiet, overdue = FALSE, overdue' = overdue, conn' = NewConnection,
         UNCHANGED <<now, inbox, taking, known, stalls, learned, free, answered, due, heard>>
  PROVE  InRun' /\ conn'.running = TRUE
<1>1. /\ now = 0 /\ inbox = <<>> /\ taking = TRUE /\ known = {} /\ stalls = 0 /\ learned = <<>> /\ free = 0
      /\ answered = <<>> /\ due = {} /\ heard = 0
  BY DEF Quiet
<1>2. /\ PING_INTERVAL \in Nat /\ REFILL \in Nat /\ ADDR_BURST \in Nat /\ GETHEADERS_BURST \in Nat
  BY SessionAssumption
<1>3. ADDR_BURST * REFILL \in Nat /\ GETHEADERS_BURST * REFILL \in Nat
  BY <1>2
<1>4. /\ conn'.outstanding_pings = <<>> /\ conn'.last_pong = 0 /\ conn'.tick = PING_INTERVAL
      /\ conn'.writing = "opening" /\ conn'.running = TRUE /\ conn'.getaddr_outstanding = TRUE
      /\ conn'.addr = [tokens |-> ADDR_BURST * REFILL, updated |-> 0]
      /\ conn'.getheaders = [tokens |-> GETHEADERS_BURST * REFILL, updated |-> 0]
      /\ conn'.getheaders_ignored = 0
  BY <1>1, <1>2 DEF NewConnection, Bucket
<1>5. IsConn(conn')
  <2>1. IsBucket(conn'.addr, ADDR_BURST) /\ IsBucket(conn'.getheaders, GETHEADERS_BURST)
    BY <1>1, <1>3, <1>4 DEF IsBucket
  <2>2. conn' = [outstanding_pings |-> conn'.outstanding_pings, last_pong |-> conn'.last_pong,
          unsolicited_pongs |-> conn'.unsolicited_pongs, getheaders_ignored |-> conn'.getheaders_ignored,
          by_command |-> conn'.by_command, messages |-> conn'.messages,
          messages_other |-> conn'.messages_other, running |-> conn'.running, writing |-> conn'.writing,
          tick |-> conn'.tick, addr |-> conn'.addr, getheaders |-> conn'.getheaders,
          getaddr_outstanding |-> conn'.getaddr_outstanding]
    BY DEF NewConnection
  <2>3. conn'.outstanding_pings \in Seq(Nat)
    BY <1>4
  <2>4. /\ conn'.last_pong \in 0..now /\ conn'.tick \in Nat /\ conn'.getheaders_ignored \in Nat
        /\ conn'.running \in BOOLEAN /\ conn'.getaddr_outstanding \in BOOLEAN
    <3>1. 0 \in 0..0 /\ 0 \in Nat
      OBVIOUS
    <3>2. TRUE \in BOOLEAN
      OBVIOUS
    <3> QED
      BY <1>1, <1>2, <1>4, <3>1, <3>2, Zenon
  <2> DEFINE d == conn'
  <2>5. \A e : e = d => IsConn(e)
    <3> SUFFICES ASSUME NEW e, e = d PROVE IsConn(e)
      OBVIOUS
    <3>1. e = [outstanding_pings |-> e.outstanding_pings, last_pong |-> e.last_pong,
          unsolicited_pongs |-> e.unsolicited_pongs, getheaders_ignored |-> e.getheaders_ignored,
          by_command |-> e.by_command, messages |-> e.messages,
          messages_other |-> e.messages_other, running |-> e.running, writing |-> e.writing,
          tick |-> e.tick, addr |-> e.addr, getheaders |-> e.getheaders,
          getaddr_outstanding |-> e.getaddr_outstanding]
      BY <2>2
    <3>2. /\ IsBucket(e.addr, ADDR_BURST) /\ IsBucket(e.getheaders, GETHEADERS_BURST)
          /\ e.outstanding_pings \in Seq(Nat)
          /\ e.last_pong \in 0..now /\ e.tick \in Nat /\ e.getheaders_ignored \in Nat
          /\ e.running \in BOOLEAN /\ e.getaddr_outstanding \in BOOLEAN
      BY <2>1, <2>3, <2>4
    <3> QED
      BY ONLY <3>1, <3>2, Zenon DEF IsConn
  <2> QED
    BY <2>5
<1>6. SessionType'
  <2>1. IsConn(conn)'
    BY <1>1, <1>5, ConnLater
  <2>2. <<>> \in Seq({}) /\ \A i \in 1..Len(<<>>) : FALSE
    OBVIOUS
  <2>3. IsSeq(inbox)' /\ \A i \in 1..Len(inbox') : IsMessage(inbox[i])'
    BY <1>1, <2>2 DEF IsSeq
  <2>4. now' \in Nat /\ heard' \in 0..now' /\ stalls' \in Nat /\ taking' \in BOOLEAN /\ overdue' \in BOOLEAN
    <3>1. 0 \in 0..0 /\ 0 \in Nat /\ TRUE \in BOOLEAN /\ FALSE \in BOOLEAN
      OBVIOUS
    <3> QED
      BY <1>1, <3>1, Zenon
  <2> QED
    BY <1>1, <2>1, <2>3, <2>4 DEF SessionType
<1>7. Buckets'
  <2>1. \A S : <<>> \in Seq(S)
    OBVIOUS
  <2>2. Len(<<>>) = 0
    OBVIOUS
  <2> QED
    BY <1>1, <1>4, <2>1, <2>2 DEF Buckets
<1>8. Prompt'
  <2>1. 0 \in (PING_INTERVAL - PING_INTERVAL)..PING_INTERVAL /\ PING_INTERVAL <= 0 + PING_INTERVAL /\ 0 <= 0
    BY <1>2
  <2>2. Len(<<>>) = 0
    OBVIOUS
  <2> QED
    BY <1>1, <1>4, <2>1, <2>2 DEF Prompt
<1>9. OnTime'
  <2>1. PING_INTERVAL - PING_INTERVAL = 0 /\ 0 \in 0..PING_INTERVAL
    BY <1>2
  <2>2. \A i \in 1..Len(<<>>) : FALSE
    OBVIOUS
  <2>3. Owed' = {}
    BY <1>1, <2>2 DEF Owed
  <2> QED
    BY <1>1, <1>4, <2>1, <2>2, <2>3 DEF OnTime, Spaced, Recent
<1>10. InRun'
  BY <1>4, <1>6, <1>7, <1>8, <1>9 DEF InRun
<1> QED
  BY <1>4, <1>10

\* Steps of the attempt that touch nothing of the session keep all that is said of it.
LEMMA Untouched ==
  ASSUME UNCHANGED svars
  PROVE  /\ (InRun => InRun') /\ (Quiet => Quiet')
         /\ conn' = conn /\ ended' = ended /\ overdue' = overdue
<1>1. UNCHANGED <<now, conn, inbox, taking, known, ended, stalls, learned, free, answered, due, heard, overdue>>
  BY DEF svars
<1>2. SessionType => SessionType'
  BY <1>1, ConnLater DEF SessionType, IsSeq
<1>3. Buckets => Buckets'
  BY <1>1, SameLimits
<1>4. Prompt => Prompt'
  BY <1>1 DEF Prompt
<1>5. OnTime => OnTime'
  <2>1. Owed' = Owed
    BY <1>1 DEF Owed
  <2> QED
    BY <1>1, <2>1 DEF OnTime, InTime
<1>6. InRun => InRun'
  BY <1>1, <1>2, <1>3, <1>4, <1>5 DEF InRun
<1>7. Quiet => Quiet'
  BY <1>1 DEF Quiet
<1> QED
  BY <1>1, <1>6, <1>7

\* The invariant holds of an attempt that has not begun.
LEMMA SessionInvInit ==
  ASSUME AttemptInit
  PROVE  SessionInv
BY DEF AttemptInit, NoConnection, SessionInv, Quiet, BeforeRun

\* Every step of an attempt keeps it.
LEMMA SessionInvNext ==
  ASSUME SessionInv, [AttemptNext]_<<svars, avars>>
  PROVE  SessionInv'
<1>1. ASSUME UNCHANGED svars,
             stage \in {"run", "ended"} <=> stage' \in {"run", "ended"},
             stage' = "run" => stage = "run", stage' # "run" => stage # "run",
             stage' \in BeforeRun => stage \in BeforeRun
      PROVE  SessionInv'
  <2>1. /\ (InRun => InRun') /\ (Quiet => Quiet')
        /\ conn' = conn /\ ended' = ended /\ overdue' = overdue
    BY <1>1, Untouched
  <2>2. stage' \in {"run", "ended"} => InRun'
    BY <1>1, <2>1, Zenon DEF SessionInv
  <2>3. stage' = "run" => conn'.running /\ ended' = "none"
    BY <1>1, <2>1, Zenon DEF SessionInv
  <2>4. stage' # "run" => ~conn'.running
    BY <1>1, <2>1, Zenon DEF SessionInv
  <2>5. stage' \notin {"run", "ended"} => Quiet'
    BY <1>1, <2>1, Zenon DEF SessionInv
  <2>6. stage' \in BeforeRun => ended' = "none" /\ ~overdue'
    BY <1>1, <2>1, Zenon DEF SessionInv
  <2>7. overdue' \in BOOLEAN /\ (ended' = "PingTimeout" => overdue')
    BY <2>1, Zenon DEF SessionInv
  <2> QED
    BY <2>2, <2>3, <2>4, <2>5, <2>6, <2>7 DEF SessionInv, BeforeRun
<1>2. ASSUME stage \in BeforeRun, stage' \in BeforeRun, UNCHANGED svars PROVE SessionInv'
  <2>1. stage \notin {"run", "ended"} /\ stage' \notin {"run", "ended"}
    BY <1>2 DEF BeforeRun
  <2> QED
    BY <1>1, <1>2, <2>1
<1>3. CASE Start \/ tcp_connect \/ connect_v2 \/ version_handshake \/ Connected \/ emit_handshake
  <2>1. UNCHANGED svars /\ stage \in BeforeRun
    BY <1>3 DEF Start, tcp_connect, connect_v2, version_handshake, Connected, emit_handshake, BeforeRun
  <2>2. \A e : Failed(e) => stage' \in BeforeRun
    BY DEF Failed, BeforeRun
  <2>3. stage' \in BeforeRun
    BY <1>3, <2>2 DEF Start, tcp_connect, connect_v2, version_handshake, Connected, emit_handshake, BeforeRun
  <2> QED
    BY <1>2, <2>1, <2>3
<1>4. CASE Register
  <2>1. /\ stage = "register" /\ stage' = "run" /\ conn' = NewConnection
        /\ UNCHANGED <<now, inbox, taking, known, ended, stalls, learned, free, answered, due, heard, overdue>>
    BY <1>4 DEF Register
  <2>2. Quiet /\ ended = "none" /\ overdue = FALSE
    BY <2>1 DEF SessionInv, BeforeRun
  <2>3. InRun' /\ conn'.running = TRUE /\ overdue' \in BOOLEAN
    BY <2>1, <2>2, NewSession
  <2> QED
    BY <2>1, <2>2, <2>3 DEF SessionInv
<1>5. CASE Run
  <2>1. stage = "run" /\ stage' = IF ended' # "none" THEN "ended" ELSE "run"
    BY <1>5 DEF Run
  <2>2. InRun /\ conn.running /\ ended = "none"
    BY <2>1 DEF SessionInv
  <2>3. Fine
    BY <1>5, <2>2, RunFine
  <2>4. overdue' \in BOOLEAN
    BY <2>3 DEF Fine, InRun, SessionType
  <2> QED
    BY <2>1, <2>3, <2>4 DEF SessionInv, Fine, BeforeRun
<1>6. CASE Unregister
  <2>1. stage = "ended" /\ stage' = "report" /\ CloseSocket /\ UNCHANGED <<conn, ended, overdue>>
    BY <1>6 DEF Unregister
  <2>2. Quiet'
    BY <2>1 DEF CloseSocket, Quiet
  <2> QED
    BY <2>1, <2>2 DEF SessionInv, BeforeRun
<1>7. CASE emit_result \/ finish
  <2>1. /\ UNCHANGED svars /\ stage \in {"report", "failed", "finish", "give up"}
        /\ stage' \in {"finish", "give up", "done"}
    BY <1>7 DEF emit_result, finish
  <2> QED
    BY <1>1, <2>1 DEF BeforeRun
<1>8. CASE Abort
  <2>1. /\ stage' = "aborted" /\ CloseSocket
        /\ conn' = NoConnection /\ ended' = "none" /\ overdue' = FALSE
    BY <1>8 DEF Abort
  <2>2. Quiet' /\ ~conn'.running
    BY <2>1 DEF CloseSocket, Quiet, NoConnection
  <2> QED
    BY <2>1, <2>2 DEF SessionInv, BeforeRun
<1>9. CASE UNCHANGED <<svars, avars>>
  <2>1. UNCHANGED svars /\ stage' = stage
    BY <1>9 DEF avars
  <2> QED
    BY <1>1, <2>1
<1> QED
  BY <1>3, <1>4, <1>5, <1>6, <1>7, <1>8, <1>9 DEF AttemptNext

\* What the three properties below rest on: in every attempt the session's types, its
\* buckets, its timer and its nonces are as SessionInv says, at every step.
THEOREM SessionIsSound == AttemptSpec => []SessionInv
<1>1. AttemptInit => SessionInv
  BY SessionInvInit
<1>2. SessionInv /\ [AttemptNext]_<<svars, avars>> => SessionInv'
  BY SessionInvNext
<1> QED
  BY <1>1, <1>2, PTL DEF AttemptSpec

\* A peer whose answers are in our socket in time, and which takes what we write, is
\* never dropped as silent, for every interval, deadline and number of nonces kept
\* (ping_tick, claim_pong, OUTSTANDING_PINGS).
THEOREM AnsweringPeersAreKept == AttemptSpec => []AnsweringPeerKept
<1>1. SessionInv => AnsweringPeerKept
  BY DEF SessionInv, AnsweringPeerKept
<1> QED
  BY <1>1, SessionIsSound, PTL

\* A session that never waits in a write ends within the deadline and one interval of
\* what its peer last answered, however much else the peer sends (ping_timed_out).
THEOREM SilentPeersAreDropped == AttemptSpec => []NotHeldOpen
<1>1. SessionInv => NotHeldOpen
  <2> SUFFICES ASSUME SessionInv, conn.running, stalls = 0
               PROVE  now - heard <= Max({PING_TIMEOUT, PING_INTERVAL}) + PING_INTERVAL
    BY DEF NotHeldOpen
  <2>1. SessionType /\ Prompt
    BY DEF SessionInv, InRun
  <2> DEFINE m  == Max({PING_TIMEOUT, PING_INTERVAL})
             lp == conn.last_pong
             t  == conn.tick
  <2>2. PING_INTERVAL \in Nat /\ PING_TIMEOUT \in Nat
    BY PatienceType
  <2>3. m = IF PING_TIMEOUT >= PING_INTERVAL THEN PING_TIMEOUT ELSE PING_INTERVAL
    <3>1. PING_INTERVAL \in Int /\ PING_TIMEOUT \in Int
      BY <2>2
    <3> QED
      BY ONLY <3>1, OfTwo
  <2>4. now \in Nat /\ heard \in Nat /\ lp \in Nat /\ t \in Nat
    BY <2>1 DEF SessionType, IsConn
  <2>5. now \in (t - PING_INTERVAL)..t /\ lp <= heard
        /\ (t <= lp + PING_INTERVAL \/ t <= lp + m + PING_INTERVAL)
    BY <2>1 DEF Prompt
  <2> HIDE DEF m, lp, t
  <2>6. m \in Int /\ m >= 0
    BY <2>2, <2>3
  <2>7. now <= t
    BY <2>2, <2>4, <2>5
  <2>8. now - heard <= m + PING_INTERVAL
    BY ONLY <2>2, <2>4, <2>5, <2>6, <2>7
  <2> QED
    BY <2>8 DEF m
<1> QED
  BY <1>1, SessionIsSound, PTL

\* Over any stretch of a session the book learns no more addresses, and a peer draws no
\* more headers out of us, than the burst and what the bucket earned in that stretch, for
\* every burst and rate (offer_gossip, may_answer_getheaders).
THEOREM BucketsAreNeverOverdrawn == AttemptSpec => []RatesHold
<1>1. SessionInv => RatesHold
  <2> SUFFICES ASSUME SessionInv PROVE RatesHold
    OBVIOUS
  <2>1. CASE stage \notin {"run", "ended"}
    <3>1. learned = <<>> /\ free = 0 /\ answered = <<>>
      BY <2>1 DEF SessionInv, Quiet
    <3>2. DOMAIN <<>> = {} /\ 0 <= 1
      OBVIOUS
    <3> QED
      BY <3>1, <3>2 DEF RatesHold, LearnsNoFasterThanBucket, AnswersNoFasterThanBucket
  <2>2. CASE stage \in {"run", "ended"}
    <3>1. SessionType /\ Buckets
      BY <2>2 DEF SessionInv, InRun
    <3>2. now \in Nat /\ IsConn(conn) /\ REFILL \in Nat /\ ADDR_BURST \in Nat /\ GETHEADERS_BURST \in Nat
      BY <3>1, SessionAssumption DEF SessionType
    <3>3. ASSUME NEW b, NEW burst \in Nat, IsBucket(b, burst), NEW given, NEW at \in Int,
                 REFILL * given + b.tokens <= burst * REFILL + (b.updated - at), given \in Int
          PROVE  REFILL * given <= REFILL * burst + (now - at)
      <4>1. burst * REFILL \in Int /\ burst * REFILL = REFILL * burst /\ REFILL * given \in Int
        BY <3>2, <3>3, Products
      <4> DEFINE x == REFILL * given
                 y == REFILL * burst
                 u == b.updated
                 t == b.tokens
      <4>2. x \in Int /\ y \in Int /\ x + t <= y + (u - at)
        BY <3>3, <4>1
      <4>3. t \in 0..y /\ u \in 0..now
        BY <3>3, <4>1 DEF IsBucket
      <4> HIDE DEF x, y, u, t
      <4>4. x <= y + (now - at)
        BY <3>2, <3>3, <4>2, <4>3
      <4> QED
        BY <4>4 DEF x, y
    <3>4. LearnsNoFasterThanBucket
      <4>1. Charged \in Nat /\ learned \in Seq([at : 0..conn.addr.updated, before : Nat, upto : Nat])
        BY <3>1, ChargedType
      <4>2. free <= 1
        BY <3>1 DEF Buckets
      <4>3. ASSUME NEW i \in DOMAIN learned
            PROVE  REFILL * (Charged - learned[i].before) <= REFILL * ADDR_BURST + (now - learned[i].at)
        <5> DEFINE S == [at : 0..conn.addr.updated, before : Nat, upto : Nat]
        <5>1. i \in 1..Len(learned) /\ learned[i] \in S
          <6>1. learned \in Seq(S)
            BY <4>1
          <6> HIDE DEF S
          <6>2. DOMAIN learned = 1..Len(learned)
            BY <6>1, LenProperties
          <6> QED
            BY <6>1, <6>2, ElementOfSeq
        <5>2. learned[i].at \in Int /\ Charged - learned[i].before \in Int
          BY <4>1, <5>1
        <5>3. REFILL * (Charged - learned[i].before) + conn.addr.tokens
                <= ADDR_BURST * REFILL + (conn.addr.updated - learned[i].at)
          BY <3>1, <5>1 DEF Buckets
        <5>4. IsBucket(conn.addr, ADDR_BURST)
          BY <3>2 DEF IsConn
        <5> QED
          BY <3>2, <3>3, <5>2, <5>3, <5>4
      <4> QED
        BY <4>2, <4>3 DEF LearnsNoFasterThanBucket
    <3>5. AnswersNoFasterThanBucket
      <4>1. answered \in Seq(0..conn.getheaders.updated)
        BY <3>1 DEF Buckets
      <4>2. ASSUME NEW i \in DOMAIN answered
            PROVE  REFILL * (Len(answered) - i + 1) <= REFILL * GETHEADERS_BURST + (now - answered[i])
        <5>1. i \in 1..Len(answered) /\ answered[i] \in 0..conn.getheaders.updated
          <6>1. DOMAIN answered = 1..Len(answered)
            BY <4>1, LenProperties
          <6> QED
            BY <4>1, <6>1, ElementOfSeq
        <5>2. answered[i] \in Int /\ Len(answered) - i + 1 \in Int
          BY <4>1, <5>1
        <5>3. REFILL * (Len(answered) - i + 1) + conn.getheaders.tokens
                <= GETHEADERS_BURST * REFILL + (conn.getheaders.updated - answered[i])
          BY <3>1, <5>1 DEF Buckets
        <5>4. IsBucket(conn.getheaders, GETHEADERS_BURST)
          BY <3>2 DEF IsConn
        <5> QED
          BY <3>2, <3>3, <5>2, <5>3, <5>4
      <4> QED
        BY <4>2 DEF AnswersNoFasterThanBucket
    <3> QED
      BY <3>4, <3>5 DEF RatesHold
  <2> QED
    BY <2>1, <2>2
<1> QED
  BY <1>1, SessionIsSound, PTL

----------------------------------------------------------------------------
(* One story per attempt *)

allvars == <<svars, avars>>

\* What the manager has heard before the version handshake is over, and after it.
Preludes  == {<<>>, << <<"v1_only">> >>}
Announced == {<< <<"connected">> >>, << <<"v1_only">>, <<"connected">> >>}

Dialling == {"start", "connect", "transport", "version", "shaken", "failed"}
Meeting  == {"announce"}
InSession    == {"register", "run", "ended", "report"}

Handshake == <<"Handshake", version, "none">>
IsEnd(note) == note \notin Notes
IsLoss(event) == event[1] = "Disconnected" /\ event[2] = version

\* Where the attempt is decides what each of its three listeners has been told.  A dial
\* falls back once, so a note of it is never followed by a second one.
Story ==
  /\ stage \in Dialling => told \in Preludes /\ events = <<>>
  /\ stage \in Dialling /\ told # <<>> => version = 1 /\ stage # "start"
  /\ stage = "announce" => told \in Announced /\ events = <<>>
  /\ stage \in InSession => told \in Announced /\ events = <<Handshake>>
  /\ stage = "finish" =>
       /\ told \in Announced
       /\ \E e : IsLoss(e) /\ events = <<Handshake, e>>
  /\ stage = "give up" => told \in Preludes /\ \E e : events = <<e>>
  /\ stage = "done" =>
       \E note : IsEnd(note) /\
         \/ \E t \in Announced : told = Append(t, note) /\ \E e : IsLoss(e) /\ events = <<Handshake, e>>
         \/ \E t \in Preludes : told = Append(t, note) /\ \E e : events = <<e>>
  /\ stage = "aborted" =>
       \E note : IsEnd(note) /\
         \E t \in Preludes \cup Announced :
           told = Append(t, note) /\ events \in {<<>>, <<Handshake>>}

Stages == Dialling \cup Meeting \cup InSession \cup {"finish", "give up", "done", "aborted"}

\* The registry has the session from Register until it is dropped with run_session.
Registration ==
  /\ DOMAIN registry \subseteq {ID}
  /\ DOMAIN registry # {} => stage \in {"run", "ended"}

StoryInv == stage \in Stages /\ Story /\ Registration

\* Queueing a note or an event adds it after the ones before.
LEMMA OneMore ==
  /\ \A x : Append(<<>>, x) = <<x>>
  /\ \A x, y : Append(<<x>>, y) = <<x, y>>
<1>1. ASSUME NEW x PROVE Append(<<>>, x) = <<x>>
  <2>1. <<>> \in Seq({x}) /\ <<x>> \in Seq({x}) /\ Len(<<>>) = 0 /\ Len(<<x>>) = 1
    OBVIOUS
  <2>2. Append(<<>>, x) \in Seq({x}) /\ Len(Append(<<>>, x)) = 1 /\ Append(<<>>, x)[1] = x
    BY <2>1, AppendProperties
  <2> QED
    BY <2>1, <2>2, SeqEqual
<1>2. ASSUME NEW x, NEW y PROVE Append(<<x>>, y) = <<x, y>>
  <2>1. <<x>> \in Seq({x, y}) /\ <<x, y>> \in Seq({x, y}) /\ Len(<<x>>) = 1 /\ Len(<<x, y>>) = 2
    OBVIOUS
  <2>2. /\ Append(<<x>>, y) \in Seq({x, y}) /\ Len(Append(<<x>>, y)) = 2
        /\ Append(<<x>>, y)[1] = x /\ Append(<<x>>, y)[2] = y
    BY <2>1, AppendProperties
  <2>3. \A i \in 1..2 : Append(<<x>>, y)[i] = <<x, y>>[i]
    BY <2>2
  <2> HIDE <2>2
  <2>4. Append(<<x>>, y) \in Seq({x, y}) /\ Len(Append(<<x>>, y)) = 2
    BY <2>2
  <2> QED
    BY <2>1, <2>3, <2>4, SeqEqual
<1> QED
  BY <1>1, <1>2

\* The steps of the session (protocol.rs run) leave the registration in place.
LEMMA RunKeepsRegistration ==
  ASSUME Run
  PROVE  DOMAIN registry' = DOMAIN registry
<1>1. CASE PeerGone("PeerClosed") \/ PeerGone("Oversized")
  BY <1>1 DEF PeerGone
<1>2. CASE LoopStep \/ FinishWrite
  <2>1. CASE ping_tick
    BY <2>1 DEF ping_tick, send_ping, refresh
  <2>2. CASE handle_message
    BY <2>2 DEF handle_message
  <2>3. CASE FinishWrite
    BY <2>3 DEF FinishWrite
  <2> QED
    BY <1>2, <2>1, <2>2, <2>3 DEF LoopStep
<1>3. CASE PeerStep
  <2>1. CASE \E m \in Says \cup Gossips : Say(m)
    BY <2>1 DEF Say
  <2>2. CASE \E nonce \in known : Answer(nonce)
    BY <2>2 DEF Answer
  <2>3. CASE StopTaking \/ TakeAgain
    BY <2>3 DEF StopTaking, TakeAgain
  <2> QED
    BY <1>3, <2>1, <2>2, <2>3 DEF PeerStep
<1>4. CASE Tick
  BY <1>4 DEF Tick
<1> QED
  BY <1>1, <1>2, <1>3, <1>4 DEF Run

\* The outcomes the manager is told of (classify, session_outcome) are ends of an
\* attempt, never one of its notes on the way.
LEMMA OutcomesAreEnds ==
  /\ \A e, n : IsEnd(classify(e, n))
  /\ \A e, c : IsEnd(session_outcome(e, c))
  /\ IsEnd(<<"Ended">>)
<1>1. \A x, y : IsEnd(<<x, y>>)
  BY DEF IsEnd, Notes
<1>2. \A e, n : \E x, y : classify(e, n) = <<x, y>>
  BY DEF classify
<1>3. \A e, c : session_outcome(e, c) = <<"Violated">> \/ \E y : session_outcome(e, c) = <<"Disconnected", y>>
  BY DEF session_outcome
<1>4. IsEnd(<<"Violated">>) /\ IsEnd(<<"Ended">>)
  BY DEF IsEnd, Notes
<1> QED
  BY <1>1, <1>2, <1>3, <1>4

\* A dial that is not over has told nothing final, and a fallback is told of only by a
\* dial that still used v2 (connect_and_run).
LEMMA FailedKeepsStory ==
  ASSUME StoryInv, NEW e, Failed(e), stage \in {"connect", "transport", "version"},
         UNCHANGED <<registry, hint>>
  PROVE  StoryInv'
<1>1. told \in Preludes /\ events = <<>> /\ (told # <<>> => version = 1) /\ events' = events
  BY DEF StoryInv, Story, Dialling, Failed
<1>2. DOMAIN registry = {} /\ registry' = registry
  BY DEF StoryInv, Registration
<1>3. CASE version' = 1 /\ stage' = "connect" /\ Tell(<<"v1_only">>) /\ version = 2
  <2>1. told = <<>>
    BY <1>1, <1>3 DEF Preludes
  <2>2. told' = << <<"v1_only">> >>
    BY <1>3, <2>1 DEF Tell
  <2> QED
    BY <1>1, <1>2, <1>3, <2>2 DEF StoryInv, Story, Registration, Preludes, Dialling, InSession, Stages
<1>4. CASE stage' = "failed" /\ UNCHANGED <<version, told>>
  BY <1>1, <1>2, <1>4 DEF StoryInv, Story, Registration, Dialling, InSession, Stages
<1> QED
  BY <1>3, <1>4 DEF Failed

\* Every step of an attempt keeps the three listeners in step with each other.
LEMMA StoryStep ==
  ASSUME StoryInv, [AttemptNext]_allvars
  PROVE  StoryInv'
<1> USE DEF svars, avars
<1>0. /\ stage \in Stages /\ Story /\ Registration
  BY DEF StoryInv
<1>1. CASE Start
  BY <1>1, <1>0 DEF Start, StoryInv, Story, Registration, Dialling, InSession, Stages, Meeting
<1>2. CASE tcp_connect
  <2>1. CASE \E e \in ConnectErrors : Failed(e)
    BY <1>2, <2>1, FailedKeepsStory DEF tcp_connect
  <2>2. CASE stage' = (IF version = 2 THEN "transport" ELSE "version") /\ UNCHANGED <<version, err, events, told>>
    BY <1>0, <1>2, <2>2 DEF tcp_connect, StoryInv, Story, Registration, Dialling, InSession, Stages, Meeting
  <2> QED
    BY <1>2, <2>1, <2>2 DEF tcp_connect
<1>3. CASE connect_v2
  <2>1. CASE \E e \in TransportErrors : Failed(e)
    BY <1>3, <2>1, FailedKeepsStory DEF connect_v2
  <2>2. CASE stage' = "version" /\ UNCHANGED <<version, err, events, told>>
    BY <1>0, <1>3, <2>2 DEF connect_v2, StoryInv, Story, Registration, Dialling, InSession, Stages, Meeting
  <2> QED
    BY <1>3, <2>1, <2>2 DEF connect_v2
<1>4. CASE version_handshake
  <2>1. CASE \E e \in HandshakeErrors : Failed(e)
    BY <1>4, <2>1, FailedKeepsStory DEF version_handshake
  <2>2. CASE stage' \in {"shaken", "version"} /\ UNCHANGED <<version, err, events, told>>
    BY <1>0, <1>4, <2>2 DEF version_handshake, StoryInv, Story, Registration, Dialling, InSession, Stages, Meeting
  <2> QED
    BY <1>4, <2>1, <2>2 DEF version_handshake
<1>5. CASE Connected
  <2>1. told \in Preludes /\ events = <<>> /\ told' = Append(told, <<"connected">>)
    BY <1>0, <1>5 DEF Connected, Tell, Story, Dialling
  <2>2. told' \in Announced
    BY <2>1, OneMore DEF Preludes, Announced
  <2> QED
    BY <1>0, <1>5, <2>1, <2>2 DEF Connected, StoryInv, Story, Registration, Dialling, InSession, Stages, Meeting
<1>6. CASE emit_handshake
  <2>1. told \in Announced /\ events = <<>> /\ events' = <<Handshake>>'
    BY <1>0, <1>6 DEF emit_handshake, Publish, Story, Handshake
  <2> QED
    BY <1>0, <1>6, <2>1 DEF emit_handshake, StoryInv, Story, Registration, Dialling, InSession, Stages, Meeting
<1>7. CASE Register
  <2>1. DOMAIN registry' \subseteq {ID}
    BY <1>0, <1>7 DEF Register, register, Registration
  <2>2. Handshake' = Handshake /\ told \in Announced /\ events = <<Handshake>>
    BY <1>0, <1>7 DEF Register, Handshake, Story, InSession
  <2> QED
    BY <1>0, <1>7, <2>1, <2>2 DEF Register, StoryInv, Story, Registration, Dialling, InSession, Stages, Meeting
<1>8. CASE Run
  <2>1. DOMAIN registry' = DOMAIN registry /\ stage = "run" /\ stage' \in {"run", "ended"}
    BY <1>8, RunKeepsRegistration DEF Run
  <2>2. UNCHANGED <<events, told, version>> /\ Handshake' = Handshake
    BY <1>8 DEF Run, Handshake
  <2>3. told \in Announced /\ events = <<Handshake>>
    BY <1>0, <2>1 DEF Story, InSession
  <2> QED
    BY <1>0, <2>1, <2>2, <2>3 DEF StoryInv, Story, Registration, Dialling, InSession, Stages, Meeting
<1>9. CASE Unregister
  <2>1. DOMAIN registry' = {}
    BY <1>0, <1>9 DEF Unregister, unregister, Registration
  <2>2. UNCHANGED <<events, told>> /\ Handshake' = Handshake /\ told \in Announced /\ events = <<Handshake>>
    BY <1>0, <1>9 DEF Unregister, Handshake, Story, InSession
  <2> QED
    BY <1>0, <1>9, <2>1, <2>2 DEF Unregister, StoryInv, Story, Registration, Dialling, InSession, Stages, Meeting
<1>10. CASE emit_result
  <2>1. DOMAIN registry' = {} /\ UNCHANGED <<version, told>> /\ Handshake' = Handshake
    BY <1>0, <1>10 DEF emit_result, Registration, Handshake
  <2>2. CASE stage = "report"
    <3>1. events' = Append(<<Handshake>>, disconnected_result(version, ended)) /\ told \in Announced
          /\ stage' = "finish"
      BY <1>0, <1>10, <2>2 DEF emit_result, Publish, Story, InSession
    <3>2. IsLoss(disconnected_result(version, ended))'
      BY <2>1 DEF IsLoss, disconnected_result
    <3>3. \E e : IsLoss(e)' /\ events' = <<Handshake', e>>
      <4>1. IsLoss(<<"Disconnected", version, classify_session_end(ended)>>)'
        BY <2>1 DEF IsLoss
      <4>2. events' = <<Handshake', <<"Disconnected", version, classify_session_end(ended)>> >>
        BY <2>1, <3>1, OneMore DEF disconnected_result
      <4> QED
        BY <4>1, <4>2, <2>1 DEF IsLoss
    <3> QED
      BY <1>0, <2>1, <3>1, <3>3 DEF StoryInv, Story, Registration, Dialling, InSession, Stages, Meeting
  <2>3. CASE stage = "failed"
    <3>1. events' = Append(<<>>, failed_result(err, net, hint)) /\ told \in Preludes /\ stage' = "give up"
      BY <1>0, <1>10, <2>3 DEF emit_result, Publish, Story, Dialling
    <3>2. \E e : events' = <<e>>
      BY <3>1, OneMore
    <3> QED
      BY <1>0, <2>1, <3>1, <3>2 DEF StoryInv, Story, Registration, Dialling, InSession, Stages, Meeting
  <2> QED
    BY <1>10, <2>2, <2>3 DEF emit_result
<1>11. CASE finish
  <2>1. DOMAIN registry' = {} /\ UNCHANGED <<version, events>> /\ Handshake' = Handshake
        /\ stage' = "done"
    BY <1>0, <1>11 DEF finish, Registration, Handshake
  <2>2. PICK note : IsEnd(note) /\ told' = Append(told, note)
    <3>1. \E note : told' = Append(told, note) /\
            (note = session_outcome(ended, conn) \/ note = classify(err, net))
      BY <1>11 DEF finish, Tell
    <3> QED
      BY <3>1, OutcomesAreEnds
  <2>3. CASE stage = "finish"
    <3>1. told \in Announced /\ \E e : IsLoss(e) /\ events = <<Handshake, e>>
      BY <1>0, <2>3 DEF Story
    <3>2. \E e : IsLoss(e)' /\ events' = <<Handshake', e>>
      BY <2>1, <3>1 DEF IsLoss
    <3> QED
      BY <1>0, <2>1, <2>2, <3>1, <3>2 DEF StoryInv, Story, Registration, Dialling, InSession, Stages, Meeting, IsEnd
  <2>4. CASE stage = "give up"
    <3>1. told \in Preludes /\ \E e : events' = <<e>>
      BY <1>0, <2>1, <2>4 DEF Story
    <3> QED
      BY <1>0, <2>1, <2>2, <3>1 DEF StoryInv, Story, Registration, Dialling, InSession, Stages, Meeting, IsEnd
  <2> QED
    BY <1>11, <2>3, <2>4 DEF finish
<1>12. CASE Abort
  <2>1. DOMAIN registry' = {} /\ UNCHANGED <<version, events>> /\ Handshake' = Handshake
        /\ stage' = "aborted" /\ told' = Append(told, <<"Ended">>) /\ IsEnd(<<"Ended">>)
    BY <1>0, <1>12, OutcomesAreEnds DEF Abort, unregister, Registration, Handshake, Tell
  <2>2. told \in Preludes \cup Announced /\ events \in {<<>>, <<Handshake>>}
    BY <1>0, <1>12 DEF Abort, Story, Dialling, InSession
  <2>3. \E t \in Preludes \cup Announced : told' = Append(t, <<"Ended">>) /\ events' \in {<<>>, <<Handshake'>>}
    BY <2>1, <2>2
  <2> QED
    BY <1>0, <2>1, <2>3 DEF StoryInv, Story, Registration, Dialling, InSession, Stages, Meeting, IsEnd
<1>13. CASE UNCHANGED allvars
  BY <1>0, <1>13, ZenonT(40) DEF allvars, StoryInv, Story, Registration, Dialling, InSession, Stages, Meeting,
                     IsEnd, IsLoss, Handshake
<1> QED
  BY <1>1, <1>2, <1>3, <1>4, <1>5, <1>6, <1>7, <1>8, <1>9, <1>10, <1>11, <1>12, <1>13 DEF AttemptNext

\* An attempt starts with nothing told and nothing registered.
LEMMA StoryStarts == AttemptInit => StoryInv
<1> SUFFICES ASSUME AttemptInit PROVE StoryInv
  OBVIOUS
<1>1. stage = "start" /\ told = <<>> /\ events = <<>> /\ registry = <<>> /\ DOMAIN registry = {}
  BY DEF AttemptInit
<1> QED
  BY <1>1 DEF StoryInv, Story, Registration, Preludes, Dialling, InSession, Stages, Meeting

\* At every stage, what has been told so far is consistent (connection.rs attempt).
THEOREM StoryIsInvariant == AttemptSpec => []StoryInv
<1>1. AttemptInit => StoryInv
  BY StoryStarts
<1>2. StoryInv /\ [AttemptNext]_<<svars, avars>> => StoryInv'
  BY StoryStep DEF allvars
<1> QED
  BY <1>1, <1>2, PTL DEF AttemptSpec

\* What the manager heard before its last note.
LEMMA ToldSoFar ==
  /\ \A t \in Preludes : /\ \A i \in DOMAIN t : t[i] \in Notes
                         /\ ~Contains(t, <<"connected">>)
  /\ \A t \in Announced : /\ \A i \in DOMAIN t : t[i] \in Notes
                          /\ Contains(t, <<"connected">>) /\ t # <<>> /\ Last(t) = <<"connected">>
<1>1. ASSUME NEW t \in Preludes
      PROVE  (\A i \in DOMAIN t : t[i] \in Notes) /\ ~Contains(t, <<"connected">>)
  <2>1. CASE t = <<>>
    BY <2>1 DEF Contains
  <2>2. CASE t = << <<"v1_only">> >>
    BY <2>2 DEF Contains, Notes
  <2> QED
    BY <2>1, <2>2 DEF Preludes
<1>2. ASSUME NEW t \in Announced
      PROVE  /\ \A i \in DOMAIN t : t[i] \in Notes
             /\ Contains(t, <<"connected">>) /\ t # <<>> /\ Last(t) = <<"connected">>
  <2>1. CASE t = << <<"connected">> >>
    BY <2>1 DEF Contains, Notes, Last
  <2>2. CASE t = << <<"v1_only">>, <<"connected">> >>
    BY <2>2 DEF Contains, Notes, Last
  <2> QED
    BY <2>1, <2>2 DEF Announced
<1> QED
  BY <1>1, <1>2

\* An end of the attempt, told after everything else, is told once and last.
LEMMA EndIsLast ==
  ASSUME NEW t \in Preludes \cup Announced, NEW note, IsEnd(note), NEW u, u = Append(t, note)
  PROVE  /\ \A i \in DOMAIN u : u[i] \notin Notes => i = Len(u)
         /\ u # <<>> /\ Last(u) \notin Notes
         /\ Contains(u, <<"connected">>) <=> Contains(t, <<"connected">>)
<1>1. \A i \in DOMAIN t : t[i] \in Notes
  BY ToldSoFar
<1>2. PICK S : t \in Seq(S) /\ note \in S
  <2>1. t \in Seq({<<"v1_only">>, <<"connected">>, note})
    <3> DEFINE S == {<<"v1_only">>, <<"connected">>, note}
    <3>1. <<"v1_only">> \in S /\ <<"connected">> \in S
      OBVIOUS
    <3> HIDE DEF S
    <3>2. \A x, y \in S : <<>> \in Seq(S) /\ <<x>> \in Seq(S) /\ <<x, y>> \in Seq(S)
      OBVIOUS
    <3>3. t \in Seq(S)
      BY <3>1, <3>2 DEF Preludes, Announced
    <3> QED
      BY <3>3 DEF S
  <2> QED
    BY <2>1
<1>3. /\ u \in Seq(S) /\ Len(u) = Len(t) + 1 /\ u # <<>>
      /\ \A i \in 1..Len(t) : u[i] = t[i]
      /\ u[Len(t) + 1] = note
  BY <1>2, AppendProperties
<1>4. Len(t) \in Nat /\ DOMAIN t = 1..Len(t) /\ DOMAIN u = 1..Len(u)
  BY <1>2, <1>3, LenProperties
<1>5. note # <<"connected">> /\ note \notin Notes
  BY DEF IsEnd, Notes
<1>6. \A i \in DOMAIN u : u[i] \notin Notes => i = Len(u)
  BY <1>1, <1>3, <1>4
<1>7. Last(u) = note
  BY <1>3 DEF Last
<1>8. Contains(u, <<"connected">>) <=> Contains(t, <<"connected">>)
  <2>1. \A i \in 1..Len(u) : u[i] = <<"connected">> => i \in 1..Len(t) /\ t[i] = <<"connected">>
    <3> SUFFICES ASSUME NEW i \in 1..Len(u), u[i] = <<"connected">>
                 PROVE  i \in 1..Len(t) /\ t[i] = <<"connected">>
      OBVIOUS
    <3>1. i \in 1..Len(t) \/ i = Len(t) + 1
      BY <1>3, <1>4
    <3>2. i # Len(t) + 1
      BY <1>3, <1>5
    <3> QED
      BY <1>3, <3>1, <3>2
  <2>2. \A i \in 1..Len(t) : i \in 1..Len(u) /\ u[i] = t[i]
    BY <1>3, <1>4
  <2> QED
    BY <2>1, <2>2, Zenon DEF Contains
<1> QED
  BY <1>3, <1>5, <1>6, <1>7, <1>8

\* A stream of an attempt is a handshake and one loss on the same transport, or one
\* event alone.
LEMMA StreamOfAnAttempt ==
  /\ Len(<<>>) = 0 /\ \A e : Len(<<e>>) = 1 /\ <<e>>[1] = e
  /\ \A e : IsLoss(e) =>
       LET s == <<Handshake, e>>
       IN  /\ Len(s) = 2 /\ s[1][1] = "Handshake" /\ s[2][1] = "Disconnected"
           /\ s[1][2] = s[2][2]
  BY DEF IsLoss, Handshake

\* The stream, the manager and the registry tell one story of an attempt, however it
\* ends: one result after at most one handshake, on the same transport; one end told to
\* the manager, after everything else; and no session listed by the RPC that either has
\* been told is over.
THEOREM ListenersAgree == AttemptSpec => []OneStoryPerAttempt
<1>1. StoryInv => OneStoryPerAttempt
  <2> SUFFICES ASSUME StoryInv PROVE StoryToldOnce /\ NoGhostSession
    BY DEF OneStoryPerAttempt
  <2>1. stage \in Stages /\ Story /\ Registration
    BY DEF StoryInv
  <2>2. connections_list # {} => stage \in {"run", "ended"}
    BY <2>1 DEF connections_list, snapshot, Registration
  <2>3. NoGhostSession
    <3> SUFFICES ASSUME connections_list # {}
                 PROVE  /\ \A i \in DOMAIN events : events[i][1] = "Handshake"
                        /\ told = <<>> \/ Last(told) = <<"connected">>
      BY DEF NoGhostSession
    <3>1. told \in Announced /\ events = <<Handshake>>
      BY <2>1, <2>2 DEF Story, InSession
    <3> QED
      BY <3>1, ToldSoFar DEF Handshake
  <2>4. CASE stage \in Dialling \cup {"announce"} \cup InSession
    <3>1. told \in Preludes \cup Announced /\ (events = <<>> \/ events = <<Handshake>>)
      BY <2>1, <2>4 DEF Story
    <3>2. Len(events) \in {0, 1}
      BY <3>1, StreamOfAnAttempt
    <3> QED
      BY <2>4, <3>1, <3>2, <2>3, ToldSoFar, SMTT(30) DEF StoryToldOnce, Dialling, InSession
  <2>5. CASE stage = "finish"
    <3>1. PICK e : told \in Announced /\ IsLoss(e) /\ events = <<Handshake, e>>
      BY <2>1, <2>5 DEF Story
    <3> QED
      BY <2>3, <2>5, <3>1, StreamOfAnAttempt, ToldSoFar DEF StoryToldOnce
  <2>6. CASE stage = "give up"
    <3>1. told \in Preludes /\ Len(events) = 1
      BY <2>1, <2>6, StreamOfAnAttempt DEF Story
    <3>2. \A i \in DOMAIN told : told[i] \in Notes
      BY <3>1, ToldSoFar
    <3>3. Len(events) <= 2 /\ Len(events) # 2
      BY <3>1
    <3> QED
      BY <2>3, <2>6, <3>2, <3>3 DEF StoryToldOnce
  <2>7. CASE stage = "done"
    <3>1. PICK note : IsEnd(note) /\
            (\/ \E t \in Announced : told = Append(t, note) /\ \E e : IsLoss(e) /\ events = <<Handshake, e>>
             \/ \E t \in Preludes : told = Append(t, note) /\ \E e : events = <<e>>)
      BY <2>1, <2>7 DEF Story
    <3>2. CASE \E t \in Announced : told = Append(t, note) /\ \E e : IsLoss(e) /\ events = <<Handshake, e>>
      <4>1. PICK t \in Announced : told = Append(t, note) /\ \E e : IsLoss(e) /\ events = <<Handshake, e>>
        BY <3>2
      <4>2. PICK e : IsLoss(e) /\ events = <<Handshake, e>>
        BY <4>1
      <4>3. /\ Len(events) = 2 /\ events[1][1] = "Handshake" /\ events[2][1] = "Disconnected"
            /\ events[1][2] = events[2][2]
        BY <4>2, StreamOfAnAttempt
      <4>4. /\ \A i \in DOMAIN told : told[i] \notin Notes => i = Len(told)
            /\ told # <<>> /\ Last(told) \notin Notes /\ Contains(told, <<"connected">>)
        BY <3>1, <4>1, EndIsLast, ToldSoFar
      <4> QED
        BY <2>3, <4>3, <4>4 DEF StoryToldOnce
    <3>3. CASE \E t \in Preludes : told = Append(t, note) /\ \E e : events = <<e>>
      <4>1. PICK t \in Preludes : told = Append(t, note) /\ \E e : events = <<e>>
        BY <3>3
      <4>2. Len(events) = 1
        BY <4>1, StreamOfAnAttempt
      <4>3. /\ \A i \in DOMAIN told : told[i] \notin Notes => i = Len(told)
            /\ told # <<>> /\ Last(told) \notin Notes /\ ~Contains(told, <<"connected">>)
        BY <3>1, <4>1, EndIsLast, ToldSoFar
      <4> QED
        BY <2>3, <4>2, <4>3 DEF StoryToldOnce
    <3> QED
      BY <3>1, <3>2, <3>3
  <2>8. CASE stage = "aborted"
    <3>1. \E note : \E t \in Preludes \cup Announced :
            IsEnd(note) /\ told = Append(t, note) /\ events \in {<<>>, <<Handshake>>}
      <4>1. \E note : IsEnd(note) /\
              \E t \in Preludes \cup Announced : told = Append(t, note) /\ events \in {<<>>, <<Handshake>>}
        BY <2>1, <2>8, Zenon DEF Story
      <4> QED
        BY <4>1, Zenon
    <3>2. Len(events) \in {0, 1}
      BY <3>1, StreamOfAnAttempt
    <3>3. /\ \A i \in DOMAIN told : told[i] \notin Notes => i = Len(told)
          /\ told # <<>> /\ Last(told) \notin Notes
      <4>1. PICK note : \E t \in Preludes \cup Announced : IsEnd(note) /\ told = Append(t, note)
        BY <3>1
      <4>2. PICK t \in Preludes \cup Announced : told = Append(t, note)
        BY <4>1
      <4> QED
        BY <4>1, <4>2, EndIsLast
    <3> QED
      BY <2>3, <2>8, <3>2, <3>3 DEF StoryToldOnce
  <2> QED
    BY <2>1, <2>4, <2>5, <2>6, <2>7, <2>8 DEF Stages, Meeting
<1> QED
  BY <1>1, StoryIsInvariant, PTL
=============================================================================
