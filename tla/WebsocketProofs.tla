---------------------------- MODULE WebsocketProofs ----------------------------
(***************************************************************************)
(* What every client of the websocket tool is sent, for any number of      *)
(* clients, networks and events and any length of the queues: a hello,     *)
(* then events without a gap, and never less than the last status of every *)
(* network.                                                                *)
(***************************************************************************)
EXTENDS Websocket, SequenceTheorems, FiniteSetTheorems, TLAPS

----------------------------------------------------------------------------
(* A queue and what was sent before it *)

StatusTexts == {Status(n, v) : n \in Networks, v \in Nat}
Texts == {Hello} \cup {Event(n) : n \in Nat} \cup StatusTexts
Gots  == [hello : BOOLEAN, last : Nat, statuses : SUBSET StatusTexts]

\* The last event sent or queued, if there is one, is the given one.
UpTo(q, g, last) ==
  LET events == EventsAt(q) IN
  /\ events = {} => g.last \in {0, last}
  /\ \A i \in events : (\A j \in events : j <= i) => q[i][2] = last

\* The kinds of message a client gets (Msg).
LEMMA Kinds ==
  ASSUME NEW t \in Texts
  PROVE  /\ t[1] \in {"hello", "event", "status"}
         /\ t[1] = "event" => t[2] \in Nat
         /\ t[1] = "status" => t \in StatusTexts
         /\ t \in StatusTexts => t[1] = "status"
<1>1. CASE t = Hello
  <2>1. t[1] = "hello"
    BY <1>1 DEF Hello
  <2>2. t \in StatusTexts => t[1] = "status"
    BY DEF StatusTexts, Status
  <2> QED
    BY <2>1, <2>2
<1>2. CASE t \in {Event(n) : n \in Nat}
  <2>1. t[1] = "event" /\ t[2] \in Nat
    BY <1>2 DEF Event
  <2>2. t \in StatusTexts => t[1] = "status"
    BY DEF StatusTexts, Status
  <2> QED
    BY <2>1, <2>2
<1>3. CASE t \in StatusTexts
  <2>1. t[1] = "status"
    BY <1>3 DEF StatusTexts, Status
  <2> QED
    BY <1>3, <2>1
<1> QED
  BY <1>1, <1>2, <1>3 DEF Texts

\* A message put into a queue (try_send and send of the client's channel).
LEMMA Appended ==
  ASSUME NEW q \in Seq(Texts), NEW g \in Gots, NEW t \in Texts,
         NEW a, a = Append(q, t)
  PROVE  /\ a \in Seq(Texts) /\ Len(a) = Len(q) + 1 /\ a # <<>>
         /\ ToSet(a) = ToSet(q) \cup {t}
         /\ t[1] # "hello" /\ (g.hello \/ q # <<>>) /\ HelloLeads(q, g) => HelloLeads(a, g)
         /\ t[1] # "event" =>
              /\ EventsAt(a) = EventsAt(q)
              /\ NoGap(q, g) => NoGap(a, g)
              /\ \A last : UpTo(q, g, last) => UpTo(a, g, last)
         /\ \A last \in Nat :
              t = Event(last + 1) /\ NoGap(q, g) /\ UpTo(q, g, last) =>
                NoGap(a, g) /\ UpTo(a, g, last + 1)
<1> DEFINE n == Len(q)
<1>1. /\ a \in Seq(Texts) /\ a # <<>> /\ Len(a) = n + 1
      /\ \A i \in 1..n : a[i] = q[i]
      /\ a[n + 1] = t
  BY AppendProperties
<1>2. n \in Nat /\ DOMAIN q = 1..n /\ DOMAIN a = 1..(n + 1) /\ (q # <<>> => n # 0)
  BY <1>1, LenProperties, EmptySeq
<1> HIDE DEF n
<1>3. \A i \in 1..(n + 1) : i \in 1..n \/ i = n + 1
  BY <1>2
<1>4. \A i \in 1..n : i \in 1..(n + 1) /\ i # n + 1 /\ i < n + 1 /\ i \in Int
  BY <1>2
<1>5. n + 1 \in 1..(n + 1)
  BY <1>2
<1>6. ToSet(a) = ToSet(q) \cup {t}
  <2>1. ToSet(a) = {a[i] : i \in 1..(n + 1)} /\ ToSet(q) = {q[i] : i \in 1..n}
    BY <1>2 DEF ToSet
  <2> QED
    BY <1>1, <1>3, <1>4, <1>5, <2>1
<1>7. ASSUME t[1] # "hello", g.hello \/ q # <<>>, HelloLeads(q, g) PROVE HelloLeads(a, g)
  <2>1. CASE g.hello
    <3>1. \A i \in 1..(n + 1) : a[i][1] # "hello"
      BY <1>1, <1>2, <1>3, <1>7, <2>1 DEF HelloLeads
    <3> QED
      BY <1>2, <2>1, <3>1 DEF HelloLeads
  <2>2. CASE ~g.hello
    <3>1. n + 1 # 1
      BY <1>2, <1>7, <2>2
    <3>2. \A i \in 1..(n + 1) : a[i][1] = "hello" <=> i = 1
      BY <1>1, <1>2, <1>3, <1>7, <2>2, <3>1 DEF HelloLeads
    <3> QED
      BY <1>2, <1>7, <2>2, <3>2 DEF HelloLeads
  <2> QED
    BY <2>1, <2>2
<1>8. /\ EventsAt(q) \subseteq 1..n /\ EventsAt(a) \subseteq 1..(n + 1)
      /\ \A i \in 1..n : i \in EventsAt(a) <=> i \in EventsAt(q)
      /\ n + 1 \in EventsAt(a) <=> t[1] = "event"
  BY <1>1, <1>2, <1>4, <1>5 DEF EventsAt
<1>9. ASSUME t[1] # "event"
      PROVE  /\ EventsAt(a) = EventsAt(q)
             /\ NoGap(q, g) => NoGap(a, g)
             /\ \A last : UpTo(q, g, last) => UpTo(a, g, last)
  <2>1. EventsAt(a) = EventsAt(q)
    BY <1>3, <1>4, <1>8, <1>9
  <2>2. \A i \in EventsAt(q) : a[i] = q[i]
    BY <1>1, <1>8
  <2>3. ASSUME NoGap(q, g) PROVE NoGap(a, g)
    <3>1. \A i, j \in EventsAt(q) : Adjacent(a, i, j) <=> Adjacent(q, i, j)
      BY <2>1 DEF Adjacent
    <3>2. /\ \A i \in EventsAt(q) : (\A j \in EventsAt(q) : i <= j) /\ g.last > 0 => q[i][2] = g.last + 1
          /\ \A i, j \in EventsAt(q) : Adjacent(q, i, j) => q[j][2] = q[i][2] + 1
      BY <2>3 DEF NoGap
    <3>3. \A i \in EventsAt(q) : (\A j \in EventsAt(q) : i <= j) /\ g.last > 0 => a[i][2] = g.last + 1
      BY <2>2, <3>2
    <3>4. \A i, j \in EventsAt(q) : Adjacent(a, i, j) => a[j][2] = a[i][2] + 1
      BY <2>2, <3>1, <3>2
    <3> QED
      BY <2>1, <3>3, <3>4 DEF NoGap
  <2>4. ASSUME NEW last, UpTo(q, g, last) PROVE UpTo(a, g, last)
    BY <2>1, <2>2, <2>4 DEF UpTo
  <2> QED
    BY <2>1, <2>3, <2>4
<1>10. ASSUME NEW last \in Nat, t = Event(last + 1), NoGap(q, g), UpTo(q, g, last)
       PROVE  NoGap(a, g) /\ UpTo(a, g, last + 1)
  <2>1. t[1] = "event" /\ t[2] = last + 1
    BY <1>10 DEF Event
  <2>2. EventsAt(a) = EventsAt(q) \cup {n + 1}
    BY <1>3, <1>4, <1>8, <2>1
  <2>3. \A i \in EventsAt(q) : a[i] = q[i] /\ i < n + 1 /\ i \in Int
    BY <1>1, <1>4, <1>8
  <2>4. ASSUME NEW i \in EventsAt(a), \A j \in EventsAt(a) : i <= j, g.last > 0
        PROVE  a[i][2] = g.last + 1
    <3>1. CASE i \in EventsAt(q)
      <4>1. \A j \in EventsAt(q) : i <= j
        BY <2>2, <2>4
      <4>2. q[i][2] = g.last + 1
        BY <1>10, <2>4, <3>1, <4>1 DEF NoGap
      <4> QED
        BY <2>3, <3>1, <4>2
    <3>2. CASE i = n + 1
      <4>1. EventsAt(q) = {}
        <5> SUFFICES ASSUME NEW j \in EventsAt(q) PROVE FALSE
          OBVIOUS
        <5>1. n + 1 <= j /\ j < n + 1 /\ j \in Int
          BY <2>2, <2>3, <2>4, <3>2
        <5> QED
          BY <1>2, <5>1
      <4>2. g.last = last
        BY <1>10, <2>4, <4>1 DEF UpTo, Gots
      <4> QED
        BY <1>1, <2>1, <3>2, <4>2
    <3> QED
      BY <2>2, <3>1, <3>2
  <2>5. ASSUME NEW i \in EventsAt(a), NEW j \in EventsAt(a), i < j,
               \A k \in EventsAt(a) : k <= i \/ j <= k
        PROVE  a[j][2] = a[i][2] + 1
    <3>1. i \in EventsAt(q)
      BY <1>2, <2>2, <2>3, <2>5
    <3>2. CASE j \in EventsAt(q)
      <4>1. Adjacent(q, i, j)
        BY <2>2, <2>5 DEF Adjacent
      <4>2. q[j][2] = q[i][2] + 1
        BY <1>10, <3>1, <3>2, <4>1 DEF NoGap
      <4> QED
        BY <2>3, <3>1, <3>2, <4>2
    <3>3. CASE j = n + 1
      <4>1. \A k \in EventsAt(q) : k <= i
        <5> SUFFICES ASSUME NEW k \in EventsAt(q) PROVE k <= i
          OBVIOUS
        <5>1. k < n + 1 /\ k \in Int /\ (k <= i \/ n + 1 <= k)
          BY <2>2, <2>3, <2>5, <3>3
        <5> QED
          BY <1>2, <5>1
      <4>2. q[i][2] = last
        BY <1>10, <3>1, <4>1 DEF UpTo
      <4> QED
        BY <1>1, <2>1, <2>3, <3>1, <3>3, <4>2
    <3> QED
      BY <2>2, <3>2, <3>3
  <2>6. NoGap(a, g)
    BY <2>4, <2>5 DEF NoGap, Adjacent
  <2>7. UpTo(a, g, last + 1)
    <3>1. ASSUME NEW i \in EventsAt(a), \A j \in EventsAt(a) : j <= i PROVE a[i][2] = last + 1
      <4>1. n + 1 <= i
        BY <2>2, <3>1
      <4>2. i = n + 1
        BY <1>2, <2>2, <2>3, <3>1, <4>1
      <4> QED
        BY <1>1, <2>1, <4>2
    <3> QED
      BY <2>2, <3>1 DEF UpTo
  <2> QED
    BY <2>6, <2>7
<1> QED
  BY <1>1, <1>6, <1>7, <1>9, <1>10 DEF n

\* A message the writer sends on: what is left in the queue follows what was sent.
LEMMA Taken ==
  ASSUME NEW q \in Seq(Texts), q # <<>>, NEW g \in Gots, HelloLeads(q, g),
         NEW rest, rest = Tail(q), NEW h, h = Delivered(g, Head(q))
  PROVE  /\ rest \in Seq(Texts) /\ h \in Gots /\ h.hello
         /\ HelloLeads(rest, h)
         /\ g.statuses \cup ToSet(q) \subseteq h.statuses \cup ToSet(rest) \cup (Texts \ StatusTexts)
         /\ EventsAt(q) = {} => EventsAt(rest) = {} /\ h.last = g.last
         /\ NoGap(q, g) => NoGap(rest, h)
         /\ NoGap(q, g) => \A last : UpTo(q, g, last) => UpTo(rest, h, last)
<1> DEFINE n == Len(q)
           t == q[1]
<1>1. n \in Nat \ {0} /\ DOMAIN q = 1..n /\ Head(q) = t
  BY LenProperties, EmptySeq
<1>2. /\ rest \in Seq(Texts) /\ Len(rest) = n - 1
      /\ \A i \in 1..(n - 1) : rest[i] = q[i + 1]
  BY HeadTailProperties
<1>3. DOMAIN rest = 1..(n - 1)
  BY <1>2, LenProperties
<1>4. t \in Texts
  BY <1>1, ElementOfSeq
<1> HIDE DEF n, t
<1>5. h = Delivered(g, t)
  BY <1>1
<1>6. \A i \in 1..(n - 1) : i + 1 \in 1..n /\ i + 1 # 1 /\ i \in Int
  BY <1>1
<1>7. \A i \in 1..n : i = 1 \/ (i - 1 \in 1..(n - 1) /\ (i - 1) + 1 = i)
  BY <1>1
<1>8. 1 \in 1..n
  BY <1>1
<1>9. /\ h \in Gots
      /\ h.hello = (g.hello \/ t[1] = "hello")
      /\ h.last = IF t[1] = "event" THEN t[2] ELSE g.last
      /\ h.statuses = IF t[1] = "status" THEN g.statuses \cup {t} ELSE g.statuses
  <2>0. g \in Gots
    OBVIOUS
  <2>1. CASE t[1] = "hello"
    <3>1. h = [g EXCEPT !.hello = TRUE]
      BY <1>5, <2>1 DEF Delivered
    <3> QED
      BY <2>0, <2>1, <3>1 DEF Gots
  <2>2. CASE t[1] = "event"
    <3>1. h = [g EXCEPT !.last = t[2]] /\ t[2] \in Nat
      BY <1>4, <1>5, <2>2, Kinds DEF Delivered
    <3> QED
      BY <2>0, <2>2, <3>1 DEF Gots
  <2>3. CASE t[1] = "status"
    <3>1. h = [g EXCEPT !.statuses = @ \cup {t}] /\ t \in StatusTexts
      BY <1>4, <1>5, <2>3, Kinds DEF Delivered
    <3> QED
      BY <2>0, <2>3, <3>1 DEF Gots
  <2> QED
    BY <1>4, <2>1, <2>2, <2>3, Kinds
<1>10. h.hello
  <2>1. CASE g.hello
    BY <1>9, <2>1
  <2>2. CASE ~g.hello
    BY <1>1, <1>8, <1>9, <2>2 DEF HelloLeads, t
  <2> QED
    BY <2>1, <2>2
<1>11. HelloLeads(rest, h)
  <2>1. \A i \in 1..(n - 1) : rest[i][1] # "hello"
    BY <1>1, <1>2, <1>6 DEF HelloLeads
  <2> QED
    BY <1>3, <1>10, <2>1 DEF HelloLeads
<1>12. g.statuses \cup ToSet(q) \subseteq h.statuses \cup ToSet(rest) \cup (Texts \ StatusTexts)
  <2>1. ToSet(q) = {q[i] : i \in 1..n} /\ ToSet(rest) = {rest[i] : i \in 1..(n - 1)}
    BY <1>1, <1>3 DEF ToSet
  <2>2. ToSet(q) \subseteq ToSet(rest) \cup {t}
    BY <1>2, <1>7, <2>1 DEF t
  <2>3. t \in h.statuses \/ t \in Texts \ StatusTexts
    BY <1>4, <1>9, Kinds
  <2> QED
    BY <1>9, <2>2, <2>3
<1>13. /\ EventsAt(rest) = {i \in 1..(n - 1) : i + 1 \in EventsAt(q)}
       /\ EventsAt(q) \subseteq 1..n
       /\ 1 \in EventsAt(q) <=> t[1] = "event"
       /\ \A i \in EventsAt(rest) : rest[i] = q[i + 1]
  BY <1>1, <1>2, <1>3, <1>6, <1>8 DEF EventsAt, t
<1>14. \A k \in EventsAt(q) : k = 1 \/ k - 1 \in EventsAt(rest)
  BY <1>7, <1>13
<1>15. ASSUME EventsAt(q) = {} PROVE EventsAt(rest) = {} /\ h.last = g.last
  BY <1>9, <1>13, <1>15
<1>16. ASSUME NoGap(q, g) PROVE NoGap(rest, h)
  <2>1. ASSUME NEW i \in EventsAt(rest), \A j \in EventsAt(rest) : i <= j, h.last > 0
        PROVE  rest[i][2] = h.last + 1
    <3>1. i + 1 \in EventsAt(q) /\ rest[i] = q[i + 1] /\ i \in 1..(n - 1)
      BY <1>13
    <3>2. \A k \in EventsAt(q) : k = 1 \/ i + 1 <= k
      <4> SUFFICES ASSUME NEW k \in EventsAt(q), k # 1 PROVE i + 1 <= k
        OBVIOUS
      <4>1. i <= k - 1 /\ k \in Int
        BY <1>13, <1>14, <2>1
      <4> QED
        BY <3>1, <4>1
    <3>3. CASE t[1] = "event"
      <4>1. 1 \in EventsAt(q) /\ 1 < i + 1
        BY <1>13, <3>1, <3>3
      <4>2. \A k \in EventsAt(q) : k <= 1 \/ i + 1 <= k
        BY <3>2
      <4>3. q[i + 1][2] = q[1][2] + 1
        BY <1>16, <3>1, <4>1, <4>2 DEF NoGap, Adjacent
      <4> QED
        BY <1>9, <3>1, <3>3, <4>3 DEF t
    <3>4. CASE t[1] # "event"
      <4>1. \A k \in EventsAt(q) : i + 1 <= k
        BY <1>13, <3>2, <3>4
      <4>2. h.last = g.last
        BY <1>9, <3>4
      <4> QED
        BY <1>16, <2>1, <3>1, <4>1, <4>2 DEF NoGap
    <3> QED
      BY <3>3, <3>4
  <2>2. ASSUME NEW i \in EventsAt(rest), NEW j \in EventsAt(rest), i < j,
               \A k \in EventsAt(rest) : k <= i \/ j <= k
        PROVE  rest[j][2] = rest[i][2] + 1
    <3>1. /\ i + 1 \in EventsAt(q) /\ rest[i] = q[i + 1] /\ i \in 1..(n - 1)
          /\ j + 1 \in EventsAt(q) /\ rest[j] = q[j + 1] /\ j \in 1..(n - 1)
      BY <1>13
    <3>2. \A k \in EventsAt(q) : k <= i + 1 \/ j + 1 <= k
      <4> SUFFICES ASSUME NEW k \in EventsAt(q) PROVE k <= i + 1 \/ j + 1 <= k
        OBVIOUS
      <4>1. CASE k = 1
        BY <3>1, <4>1
      <4>2. CASE k # 1
        <5>1. (k - 1 <= i \/ j <= k - 1) /\ k \in Int
          BY <1>13, <1>14, <2>2, <4>2
        <5> QED
          BY <3>1, <5>1
      <4> QED
        BY <4>1, <4>2
    <3>3. i + 1 < j + 1
      BY <2>2, <3>1
    <3>4. q[j + 1][2] = q[i + 1][2] + 1
      BY <1>16, <3>1, <3>2, <3>3 DEF NoGap, Adjacent
    <3> QED
      BY <3>1, <3>4
  <2> QED
    BY <2>1, <2>2 DEF NoGap, Adjacent
<1>17. ASSUME NEW last, UpTo(q, g, last) PROVE UpTo(rest, h, last)
  <2>1. ASSUME EventsAt(rest) = {} PROVE h.last \in {0, last}
    <3>1. \A k \in EventsAt(q) : k = 1
      BY <1>14, <2>1
    <3>2. CASE t[1] = "event"
      <4>1. 1 \in EventsAt(q) /\ \A k \in EventsAt(q) : k <= 1
        BY <1>13, <3>1, <3>2
      <4>2. q[1][2] = last
        BY <1>17, <4>1 DEF UpTo
      <4> QED
        BY <1>9, <3>2, <4>2 DEF t
    <3>3. CASE t[1] # "event"
      <4>1. EventsAt(q) = {}
        BY <1>13, <3>1, <3>3
      <4> QED
        BY <1>9, <1>17, <3>3, <4>1 DEF UpTo
    <3> QED
      BY <3>2, <3>3
  <2>2. ASSUME NEW i \in EventsAt(rest), \A j \in EventsAt(rest) : j <= i
        PROVE  rest[i][2] = last
    <3>1. i + 1 \in EventsAt(q) /\ rest[i] = q[i + 1] /\ i \in 1..(n - 1)
      BY <1>13
    <3>2. \A k \in EventsAt(q) : k <= i + 1
      <4> SUFFICES ASSUME NEW k \in EventsAt(q) PROVE k <= i + 1
        OBVIOUS
      <4>1. CASE k = 1
        BY <3>1, <4>1
      <4>2. CASE k # 1
        <5>1. k - 1 <= i /\ k \in Int
          BY <1>13, <1>14, <2>2, <4>2
        <5> QED
          BY <3>1, <5>1
      <4> QED
        BY <4>1, <4>2
    <3> QED
      BY <1>17, <3>1, <3>2 DEF UpTo
  <2> QED
    BY <2>1, <2>2 DEF UpTo
<1> QED
  BY <1>2, <1>9, <1>10, <1>11, <1>12, <1>15, <1>16, <1>17

----------------------------------------------------------------------------
(* The inductive invariant *)

Pcs == {"none", "hello", "read", "cache", "cached", "end", "gone"}

WsType ==
  /\ at \in Nat /\ sending \in BOOLEAN /\ (sending => at > 0)
  /\ clients \subseteq Clients
  /\ subs \in [Clients -> SUBSET {"event", "status"}]
  /\ queue \in [Clients -> Seq(Texts)] /\ rx \in [Clients -> BOOLEAN]
  /\ handler \in [Clients -> [pc : Pcs, todo : Seq(StatusTexts)]]
  /\ asked \in [Clients -> Nat] /\ got \in [Clients -> Gots]
  /\ answered \in [Networks -> Nat] /\ latest_status = answered
  /\ status.pc = "answered" => status.network \in Networks

\* The event that everyone who gets events was sent last.
LastOf == IF sending THEN at - 1 ELSE at

Takes(c, kind) == c \in clients /\ kind \in subs[c] /\ rx[c]

\* What was sent and what is queued is one stream, which ends with the last event for
\* who takes them.  Nothing comes before the hello, nor before the first subscription.
InStream(c) ==
  LET new == handler[c].pc \in {"none", "hello"} IN
  /\ new => queue[c] = <<>> /\ got[c] = Unsent /\ rx[c] /\ subs[c] = {} /\ asked[c] = 0
  /\ asked[c] = 0 => subs[c] = {} /\ EventsAt(queue[c]) = {} /\ got[c].last = 0
  /\ ~rx[c] => queue[c] = <<>>
  /\ rx[c] /\ ~new => got[c].hello \/ queue[c] # <<>>
  /\ HelloLeads(queue[c], got[c])
  /\ asked[c] = 1 => NoGap(queue[c], got[c])
  /\ asked[c] = 1 /\ Takes(c, "event") => UpTo(queue[c], got[c], LastOf)

Sent(c) == got[c].statuses \cup ToSet(queue[c])

\* The last answers a broadcast is not still to bring.
Current(n) == answered[n] > 0 /\ ~(status.pc = "answered" /\ status.network = n)

\* Between reading the cache and having sent it all, a client has the last answers in
\* what it was sent or in what its handler is about to send.
UpToDate(c) ==
  Takes(c, "status") =>
    \A n \in Networks : Current(n) =>
      LET text == Status(n, answered[n]) IN
      /\ handler[c].pc = "read" => text \in Sent(c)
      /\ handler[c].pc = "cached" => text \in Sent(c) \/ text \in ToSet(handler[c].todo)

WsInv == WsType /\ \A c \in Clients : InStream(c) /\ UpToDate(c)

----------------------------------------------------------------------------
(* What a step leaves of a client *)

\* A step that leaves the client's queue alone keeps its stream, if it ends no later than
\* the last event or the client takes none.
LEMMA StreamKept ==
  ASSUME NEW c \in Clients, InStream(c),
         queue'[c] = queue[c], got'[c] = got[c], rx'[c] = rx[c], asked'[c] = asked[c],
         \/ handler'[c].pc = handler[c].pc
         \/ handler'[c].pc \notin {"none", "hello"} /\ handler[c].pc \notin {"none", "hello"},
         subs'[c] = {} \/ (subs'[c] = subs[c] /\ (c \in clients' => c \in clients)),
         LastOf' = LastOf \/ ~Takes(c, "event")
  PROVE  InStream(c)'
<1>1. (Takes(c, "event"))' => Takes(c, "event") /\ LastOf' = LastOf
  BY DEF Takes
<1>2. asked'[c] = 1 /\ (Takes(c, "event"))' => UpTo(queue'[c], got'[c], LastOf')
  BY <1>1 DEF InStream
<1> HIDE DEF Takes, LastOf
<1> QED
  BY <1>2 DEF InStream

\* A step that takes nothing away from what a client was sent keeps it up to date, if
\* every answer that is newly due was sent with it.
LEMMA StatusKept ==
  ASSUME NEW c \in Clients, UpToDate(c),
         (Takes(c, "status"))' => Takes(c, "status"),
         handler'[c] = handler[c],
         Sent(c) \cap StatusTexts \subseteq (Sent(c))',
         answered \in [Networks -> Nat],
         \A n \in Networks : (Current(n))' =>
           \/ answered'[n] = answered[n] /\ Current(n)
           \/ (Takes(c, "status"))' => Status(n, answered'[n]) \in (Sent(c))'
  PROVE  UpToDate(c)'
<1> SUFFICES ASSUME (Takes(c, "status"))', NEW n \in Networks, (Current(n))'
             PROVE  LET text == Status(n, answered'[n]) IN
                    /\ handler'[c].pc = "read" => text \in (Sent(c))'
                    /\ handler'[c].pc = "cached" => text \in (Sent(c))' \/ text \in ToSet(handler'[c].todo)
  BY DEF UpToDate
<1>1. CASE Status(n, answered'[n]) \in (Sent(c))'
  BY <1>1
<1>2. CASE answered'[n] = answered[n] /\ Current(n)
  <2>1. Status(n, answered[n]) \in StatusTexts
    BY DEF StatusTexts
  <2>2. /\ handler[c].pc = "read" => Status(n, answered[n]) \in Sent(c)
        /\ handler[c].pc = "cached" =>
             Status(n, answered[n]) \in Sent(c) \/ Status(n, answered[n]) \in ToSet(handler[c].todo)
    BY <1>2 DEF UpToDate
  <2> QED
    BY <1>2, <2>1, <2>2
<1> QED
  BY <1>1, <1>2

\* A client a step does not concern.
LEMMA Kept ==
  ASSUME WsType, NEW c \in Clients, InStream(c), UpToDate(c),
         queue'[c] = queue[c], got'[c] = got[c], rx'[c] = rx[c], asked'[c] = asked[c],
         handler'[c] = handler[c],
         subs'[c] = {} \/ (subs'[c] = subs[c] /\ (c \in clients' => c \in clients)),
         LastOf' = LastOf \/ ~Takes(c, "event"),
         answered' = answered, \A n \in Networks : (Current(n))' => Current(n)
  PROVE  InStream(c)' /\ UpToDate(c)'
<1>1. InStream(c)'
  BY StreamKept
<1>2. (Takes(c, "status"))' => Takes(c, "status")
  BY DEF Takes
<1>3. (Sent(c))' = Sent(c)
  BY DEF Sent
<1>4. UpToDate(c)'
  BY <1>2, <1>3, StatusKept DEF WsType
<1> QED
  BY <1>1, <1>4

\* What a broadcast does to a client: its message at the end of the queue, its place lost,
\* or nothing, if it does not take the kind (broadcast).
LEMMA Broadcasts ==
  ASSUME WsType, NEW kind, NEW text \in Texts, broadcast(kind, text)
  PROVE  /\ clients' \subseteq clients /\ subs' \in [Clients -> SUBSET {"event", "status"}]
         /\ queue' \in [Clients -> Seq(Texts)]
         /\ \A c \in Clients :
              \/ /\ Takes(c, kind) /\ subs'[c] = subs[c]
                 /\ queue'[c] = Append(queue[c], text)
              \/ /\ queue'[c] = queue[c]
                 /\ \/ subs'[c] = {} /\ c \notin clients'
                    \/ subs'[c] = subs[c] /\ ~Takes(c, kind)
<1> DEFINE to == Wanting(kind)
<1>1. /\ queue' = [c \in Clients |-> IF c \in to \ Slow(to) THEN Append(queue[c], text) ELSE queue[c]]
      /\ clients' = clients \ Slow(to)
      /\ subs' = [c \in Clients |-> IF c \in Slow(to) THEN {} ELSE subs[c]]
  BY DEF broadcast
<1>2. \A c \in to \ Slow(to) : Takes(c, kind)
  BY DEF Wanting, Slow, Takes
<1>3. \A c \in Clients : c \notin to => ~Takes(c, kind)
  BY DEF Wanting, Takes
<1>4. Slow(to) \subseteq to
  BY DEF Slow
<1> HIDE DEF to
<1>5. \A c \in Clients : Append(queue[c], text) \in Seq(Texts) /\ queue[c] \in Seq(Texts)
  BY DEF WsType
<1>6. queue' \in [Clients -> Seq(Texts)]
  BY <1>1, <1>5
<1>7. subs' \in [Clients -> SUBSET {"event", "status"}]
  BY <1>1 DEF WsType
<1>8. ASSUME NEW c \in Clients
      PROVE  \/ /\ Takes(c, kind) /\ subs'[c] = subs[c]
                /\ queue'[c] = Append(queue[c], text)
             \/ /\ queue'[c] = queue[c]
                /\ \/ subs'[c] = {} /\ c \notin clients'
                   \/ subs'[c] = subs[c] /\ ~Takes(c, kind)
  <2>1. CASE c \in to \ Slow(to)
    BY <1>1, <1>2, <2>1
  <2>2. CASE c \in Slow(to)
    BY <1>1, <2>2
  <2>3. CASE c \notin to
    BY <1>1, <1>3, <1>4, <2>3
  <2> QED
    BY <2>1, <2>2, <2>3
<1> QED
  BY <1>1, <1>6, <1>7, <1>8

----------------------------------------------------------------------------
(* The NATS task and the status task *)

\* handle_event: who takes events when one arrives is still owed it, so none is skipped.
LEMMA EventArrives ==
  ASSUME WsInv, handle_event
  PROVE  WsInv'
<1>1. /\ ~sending /\ at' = at + 1 /\ sending' = (Wanting("event") # {})
      /\ UNCHANGED <<latest_status, status, answered, clients, subs, queue, rx, handler, asked, got>>
  BY DEF handle_event, cvars
<1>2. WsType'
  BY <1>1 DEF WsInv, WsType
<1>3. ASSUME NEW c \in Clients PROVE InStream(c)' /\ UpToDate(c)'
  <2>1. Takes(c, "event") => sending'
    BY <1>1 DEF Takes, Wanting
  <2>2. LastOf' = LastOf \/ ~Takes(c, "event")
    <3>1. Takes(c, "event") => LastOf' = LastOf
      BY <1>1, <2>1 DEF LastOf, WsInv, WsType
    <3> QED
      BY <3>1
  <2>3. \A n \in Networks : (Current(n))' => Current(n)
    BY <1>1 DEF Current
  <2> QED
    BY <1>1, <2>2, <2>3, Kept DEF WsInv
<1> QED
  BY <1>2, <1>3 DEF WsInv

\* broadcast_event: the event goes behind what the client was sent, or it loses its place.
LEMMA EventGoesOut ==
  ASSUME WsInv, broadcast_event
  PROVE  WsInv'
<1>0. WsType /\ \A c \in Clients : InStream(c) /\ UpToDate(c)
  BY DEF WsInv
<1>1. /\ sending /\ sending' = FALSE /\ at' = at /\ broadcast("event", Event(at))
      /\ UNCHANGED <<latest_status, status, answered, rx, handler, asked, got>>
  BY DEF broadcast_event, svars
<1>2. at \in Nat /\ at - 1 \in Nat /\ Event(at) \in Texts /\ LastOf = at - 1 /\ LastOf' = at
  BY <1>0, <1>1 DEF WsType, Texts, LastOf
<1>3. Event(at)[1] = "event" /\ Event(at) = Event((at - 1) + 1)
  BY <1>2 DEF Event
<1>4. /\ clients' \subseteq clients /\ subs' \in [Clients -> SUBSET {"event", "status"}]
      /\ queue' \in [Clients -> Seq(Texts)]
      /\ \A c \in Clients :
           \/ /\ Takes(c, "event") /\ subs'[c] = subs[c]
              /\ queue'[c] = Append(queue[c], Event(at))
           \/ /\ queue'[c] = queue[c]
              /\ \/ subs'[c] = {} /\ c \notin clients'
                 \/ subs'[c] = subs[c] /\ ~Takes(c, "event")
  BY <1>0, <1>1, <1>2, Broadcasts
<1>5. WsType'
  BY <1>0, <1>1, <1>4 DEF WsType
<1>6. \A n \in Networks : (Current(n))' => Current(n) /\ answered'[n] = answered[n]
  BY <1>1 DEF Current
<1>7. ASSUME NEW c \in Clients PROVE InStream(c)' /\ UpToDate(c)'
  <2>1. CASE /\ Takes(c, "event") /\ subs'[c] = subs[c]
             /\ queue'[c] = Append(queue[c], Event(at))
    <3>1. /\ queue[c] \in Seq(Texts) /\ got[c] \in Gots /\ asked[c] \in Nat
      BY <1>0 DEF WsType
    <3> DEFINE a == Append(queue[c], Event(at))
    <3>2. /\ a # <<>> /\ ToSet(a) = ToSet(queue[c]) \cup {Event(at)}
          /\ (got[c].hello \/ queue[c] # <<>>) /\ HelloLeads(queue[c], got[c]) => HelloLeads(a, got[c])
          /\ NoGap(queue[c], got[c]) /\ UpTo(queue[c], got[c], at - 1) =>
               NoGap(a, got[c]) /\ UpTo(a, got[c], at)
      <4>1. Event(at)[1] # "hello" /\ (at - 1) + 1 = at
        BY <1>2, <1>3
      <4> HIDE DEF a
      <4>2. a = Append(queue[c], Event(at))
        BY DEF a
      <4> DEFINE before == at - 1
                 event  == Event(at)
      <4>3. before \in Nat /\ event = Event(before + 1) /\ event \in Texts /\ a = Append(queue[c], event)
        BY <1>2, <1>3, <4>2
      <4>4. /\ a # <<>> /\ ToSet(a) = ToSet(queue[c]) \cup {Event(at)}
            /\ (got[c].hello \/ queue[c] # <<>>) /\ HelloLeads(queue[c], got[c]) => HelloLeads(a, got[c])
        BY <1>2, <3>1, <4>1, <4>2, Appended, ZenonT(40)
      <4> HIDE DEF before, event
      <4>5. NoGap(queue[c], got[c]) /\ UpTo(queue[c], got[c], before) =>
              NoGap(a, got[c]) /\ UpTo(a, got[c], before + 1)
        BY <3>1, <4>3, Appended
      <4> QED
        BY <4>1, <4>4, <4>5 DEF before
    <3> HIDE DEF a
    <3>3. queue'[c] = a
      BY <2>1 DEF a
    <3>4. "event" \in subs[c] /\ rx[c]
      BY <2>1 DEF Takes
    <3>5. /\ handler[c].pc \notin {"none", "hello"} /\ asked[c] # 0
          /\ got[c].hello \/ queue[c] # <<>>
          /\ HelloLeads(queue[c], got[c])
          /\ asked[c] = 1 => NoGap(queue[c], got[c]) /\ UpTo(queue[c], got[c], at - 1)
      BY <1>0, <1>2, <2>1, <3>4 DEF InStream
    <3>6. InStream(c)'
      <4>1. handler' = handler /\ got' = got /\ asked' = asked /\ rx' = rx
        BY <1>1
      <4>2. HelloLeads(a, got[c]) /\ (asked[c] = 1 => NoGap(a, got[c]) /\ UpTo(a, got[c], LastOf'))
        BY <1>2, <3>2, <3>5
      <4> QED
        BY <3>2, <3>3, <3>4, <3>5, <4>1, <4>2 DEF InStream
    <3>7. UpToDate(c)'
      <4>1. (Takes(c, "status"))' => Takes(c, "status")
        BY <1>1, <1>4, <2>1 DEF Takes
      <4>2. Sent(c) \cap StatusTexts \subseteq (Sent(c))'
        BY <1>1, <3>2, <3>3 DEF Sent
      <4> QED
        BY <1>0, <1>1, <1>6, <4>1, <4>2, StatusKept DEF WsType
    <3> QED
      BY <3>6, <3>7
  <2>2. CASE /\ queue'[c] = queue[c]
             /\ \/ subs'[c] = {} /\ c \notin clients'
                \/ subs'[c] = subs[c] /\ ~Takes(c, "event")
    <3>1. subs'[c] = {} \/ (subs'[c] = subs[c] /\ (c \in clients' => c \in clients))
      BY <1>4, <2>2
    <3>2. InStream(c)'
      <4>1. CASE subs'[c] = {} /\ c \notin clients'
        <5>1. ~(Takes(c, "event"))'
          BY <4>1 DEF Takes
        <5>2. handler' = handler /\ got' = got /\ asked' = asked /\ rx' = rx
          BY <1>1
        <5> HIDE DEF Takes
        <5> QED
          BY <1>0, <2>2, <4>1, <5>1, <5>2 DEF InStream
      <4>2. CASE subs'[c] = subs[c] /\ ~Takes(c, "event")
        BY <1>0, <1>1, <2>2, <3>1, <4>2, StreamKept
      <4> QED
        BY <2>2, <4>1, <4>2
    <3>3. UpToDate(c)'
      <4>1. (Takes(c, "status"))' => Takes(c, "status")
        BY <1>1, <1>4, <2>2 DEF Takes
      <4>2. Sent(c) \cap StatusTexts \subseteq (Sent(c))'
        BY <1>1, <2>2 DEF Sent
      <4> QED
        BY <1>0, <1>1, <1>6, <4>1, <4>2, StatusKept DEF WsType
    <3> QED
      BY <3>2, <3>3
  <2> QED
    BY <1>4, <2>1, <2>2
<1> QED
  BY <1>5, <1>7 DEF WsInv

\* A step of the status task before an answer, and the end of the gap: nothing a client
\* sees (run_status_task).
LEMMA NothingAnswered ==
  ASSUME WsInv,
         \/ Tick \/ OnDemand \/ GapPasses \/ \E n \in Networks : PollFails(n)
  PROVE  WsInv'
<1>0. WsType /\ \A c \in Clients : InStream(c) /\ UpToDate(c)
  BY DEF WsInv
<1>1. /\ UNCHANGED <<at, sending, latest_status, answered, clients, subs, queue, rx, handler, asked, got>>
      /\ status' = status \/ (status.pc # "answered" /\ status'.pc # "answered")
  <2>1. CASE Tick
    BY <2>1 DEF Tick, Ask, evars, cvars
  <2>2. CASE OnDemand
    BY <2>2 DEF OnDemand, Ask, evars, cvars
  <2>3. CASE GapPasses
    BY <2>3 DEF GapPasses, evars, cvars
  <2>4. CASE \E n \in Networks : PollFails(n)
    BY <2>4 DEF PollFails, Ask, evars, cvars
  <2> QED
    BY <2>1, <2>2, <2>3, <2>4
<1>2. WsType'
  BY <1>0, <1>1 DEF WsType
<1>3. LastOf' = LastOf
  BY <1>1 DEF LastOf
<1>4. \A n \in Networks : (Current(n))' => Current(n)
  BY <1>1 DEF Current
<1>5. ASSUME NEW c \in Clients PROVE InStream(c)' /\ UpToDate(c)'
  BY <1>0, <1>1, <1>3, <1>4, Kept
<1> QED
  BY <1>2, <1>5 DEF WsInv

\* An answer is cached: it is due to nobody before its broadcast (poll_status).
LEMMA Answers ==
  ASSUME WsInv, NEW m \in Networks, poll_status(m)
  PROVE  WsInv'
<1>0. WsType /\ \A c \in Clients : InStream(c) /\ UpToDate(c)
  BY DEF WsInv
<1>1. /\ status.pc = "poll" /\ status'.pc = "answered" /\ status'.network = m
      /\ answered' = [answered EXCEPT ![m] = NextVersion(m)]
      /\ latest_status' = [latest_status EXCEPT ![m] = NextVersion(m)]
      /\ UNCHANGED <<at, sending, clients, subs, queue, rx, handler, asked, got>>
  BY DEF poll_status, evars, cvars
<1>2. NextVersion(m) \in Nat
  <2> DEFINE S == {answered[m] + 1, MaxVersion}
  <2>1. answered[m] + 1 \in Nat /\ MaxVersion \in Nat
    BY <1>0, WebsocketAssumption DEF WsType
  <2>2. \E x \in S : \A y \in S : x <= y
    <3>1. CASE answered[m] + 1 <= MaxVersion
      BY <2>1, <3>1
    <3>2. CASE MaxVersion <= answered[m] + 1
      BY <2>1, <3>2
    <3> QED
      BY <2>1, <3>1, <3>2
  <2>3. NextVersion(m) = CHOOSE x \in S : \A y \in S : x <= y
    BY DEF NextVersion, Min
  <2>4. NextVersion(m) \in S
    BY <2>2, <2>3
  <2> QED
    BY <2>1, <2>4
<1>3. WsType'
  <2>1. answered' \in [Networks -> Nat] /\ latest_status' = answered'
    BY <1>0, <1>1, <1>2 DEF WsType
  <2> QED
    BY <1>0, <1>1, <2>1 DEF WsType
<1>4. LastOf' = LastOf
  BY <1>1 DEF LastOf
<1>5. \A n \in Networks : (Current(n))' => Current(n) /\ answered'[n] = answered[n]
  <2> SUFFICES ASSUME NEW n \in Networks, (Current(n))'
               PROVE  Current(n) /\ answered'[n] = answered[n]
    OBVIOUS
  <2>1. n # m
    BY <1>1 DEF Current
  <2>2. answered'[n] = answered[n]
    BY <1>0, <1>1, <2>1 DEF WsType
  <2> QED
    BY <1>1, <2>2 DEF Current
<1>6. ASSUME NEW c \in Clients PROVE InStream(c)' /\ UpToDate(c)'
  <2>1. InStream(c)'
    BY <1>0, <1>1, <1>4, StreamKept
  <2>2. (Takes(c, "status"))' = Takes(c, "status") /\ (Sent(c))' = Sent(c)
    BY <1>1 DEF Takes, Sent
  <2>3. UpToDate(c)'
    BY <1>0, <1>1, <1>5, <2>2, StatusKept DEF WsType
  <2> QED
    BY <2>1, <2>3
<1> QED
  BY <1>3, <1>6 DEF WsInv

\* The answer goes out to whoever takes the status now (poll_status, broadcast).
LEMMA StatusGoesOut ==
  ASSUME WsInv, broadcast_status
  PROVE  WsInv'
<1>0. WsType /\ \A c \in Clients : InStream(c) /\ UpToDate(c)
  BY DEF WsInv
<1> DEFINE m == status.network
           text == Status(m, answered[m])
<1>1. /\ status.pc = "answered" /\ status'.pc # "answered" /\ broadcast("status", text)
      /\ UNCHANGED <<at, sending, latest_status, answered, rx, handler, asked, got>>
  BY <1>0 DEF broadcast_status, Ask, evars, WsType
<1>2. m \in Networks /\ text \in StatusTexts /\ text \in Texts
  BY <1>0, <1>1 DEF WsType, StatusTexts, Texts
<1>3. text[1] = "status" /\ LastOf' = LastOf
  BY <1>1 DEF Status, LastOf
<1> HIDE DEF text
<1>4. /\ clients' \subseteq clients /\ subs' \in [Clients -> SUBSET {"event", "status"}]
      /\ queue' \in [Clients -> Seq(Texts)]
      /\ \A c \in Clients :
           \/ /\ Takes(c, "status") /\ subs'[c] = subs[c]
              /\ queue'[c] = Append(queue[c], text)
           \/ /\ queue'[c] = queue[c]
              /\ \/ subs'[c] = {} /\ c \notin clients'
                 \/ subs'[c] = subs[c] /\ ~Takes(c, "status")
  BY <1>0, <1>1, <1>2, Broadcasts
<1>5. WsType'
  BY <1>0, <1>1, <1>4 DEF WsType
<1>6. \A n \in Networks : (Current(n))' => n = m \/ (Current(n) /\ answered'[n] = answered[n])
  BY <1>1 DEF Current
<1>7. ASSUME NEW c \in Clients PROVE InStream(c)' /\ UpToDate(c)'
  <2>1. CASE /\ Takes(c, "status") /\ subs'[c] = subs[c]
             /\ queue'[c] = Append(queue[c], text)
    <3>1. /\ queue[c] \in Seq(Texts) /\ got[c] \in Gots /\ asked[c] \in Nat
      BY <1>0 DEF WsType
    <3>2. /\ queue'[c] # <<>> /\ ToSet(queue'[c]) = ToSet(queue[c]) \cup {text}
          /\ (got[c].hello \/ queue[c] # <<>>) /\ HelloLeads(queue[c], got[c]) => HelloLeads(queue'[c], got[c])
          /\ EventsAt(queue'[c]) = EventsAt(queue[c])
          /\ NoGap(queue[c], got[c]) => NoGap(queue'[c], got[c])
          /\ \A last : UpTo(queue[c], got[c], last) => UpTo(queue'[c], got[c], last)
      <4>1. text[1] # "hello" /\ text[1] # "event"
        BY <1>3
      <4> QED
        BY <1>2, <2>1, <3>1, <4>1, Appended
    <3>4. "status" \in subs[c] /\ rx[c]
      BY <2>1 DEF Takes
    <3>5. /\ handler[c].pc \notin {"none", "hello"} /\ asked[c] # 0
          /\ got[c].hello \/ queue[c] # <<>>
          /\ HelloLeads(queue[c], got[c])
          /\ asked[c] = 1 => NoGap(queue[c], got[c])
          /\ asked[c] = 1 /\ Takes(c, "event") => UpTo(queue[c], got[c], LastOf)
      BY <1>0, <2>1, <3>4 DEF InStream
    <3>6. InStream(c)'
      <4>1. handler' = handler /\ got' = got /\ asked' = asked /\ rx' = rx
        BY <1>1
      <4>2. (Takes(c, "event"))' => Takes(c, "event")
        BY <1>4, <2>1, <4>1 DEF Takes
      <4>3. HelloLeads(queue'[c], got[c])
        BY <3>2, <3>5
      <4>4. asked[c] = 1 => NoGap(queue'[c], got[c])
        BY <3>2, <3>5
      <4>5. asked[c] = 1 /\ (Takes(c, "event"))' => UpTo(queue'[c], got[c], LastOf')
        BY <1>3, <3>2, <3>5, <4>2
      <4> HIDE DEF Takes, LastOf
      <4> QED
        BY <3>2, <3>4, <3>5, <4>1, <4>3, <4>4, <4>5 DEF InStream
    <3>7. UpToDate(c)'
      <4>1. Sent(c) \cap StatusTexts \subseteq (Sent(c))' /\ text \in (Sent(c))'
        BY <1>1, <3>2 DEF Sent
      <4>2. Status(m, answered'[m]) = text
        BY <1>1 DEF text
      <4>3. \A n \in Networks : (Current(n))' =>
              \/ answered'[n] = answered[n] /\ Current(n)
              \/ (Takes(c, "status"))' => Status(n, answered'[n]) \in (Sent(c))'
        BY <1>6, <4>1, <4>2
      <4> QED
        BY <1>0, <1>1, <2>1, <4>1, <4>3, StatusKept DEF WsType
    <3> QED
      BY <3>6, <3>7
  <2>2. CASE /\ queue'[c] = queue[c]
             /\ \/ subs'[c] = {} /\ c \notin clients'
                \/ subs'[c] = subs[c] /\ ~Takes(c, "status")
    <3>1. subs'[c] = {} \/ (subs'[c] = subs[c] /\ (c \in clients' => c \in clients))
      BY <1>4, <2>2
    <3>2. InStream(c)'
      BY <1>0, <1>1, <1>3, <2>2, <3>1, StreamKept
    <3>3. ~(Takes(c, "status"))'
      BY <1>1, <1>4, <2>2 DEF Takes
    <3>4. UpToDate(c)'
      BY <3>3 DEF UpToDate
    <3> QED
      BY <3>2, <3>4
  <2> QED
    BY <1>4, <2>1, <2>2
<1> QED
  BY <1>5, <1>7 DEF WsInv

----------------------------------------------------------------------------
(* The handler and the writer of a client *)

\* A list of a finite set has all of it (the cached statuses, in the order of their names).
LEMMA Listed ==
  ASSUME NEW S, IsFiniteSet(S), NEW o \in SetToSeqs(S)
  PROVE  /\ \E n \in Nat : o \in [1..n -> S]
         /\ \A x \in S : \E i \in DOMAIN o : o[i] = x
<1> DEFINE n == Cardinality(S)
<1>1. n \in Nat
  BY FS_CardinalityType
<1>2. o \in [1..n -> S] /\ \A i, j \in 1..n : i # j => o[i] # o[j]
  BY DEF SetToSeqs
<1>3. Cardinality(1..n) = n
  <2>1. 1 \in Int /\ n \in Int /\ (IF 1 > n THEN 0 ELSE n - 1 + 1) = n
    BY <1>1
  <2> HIDE DEF n
  <2> QED
    BY <2>1, FS_Interval
<1> HIDE DEF n
<1>4. o \in Injection(1..n, S)
  BY <1>2 DEF Injection, IsInjective
<1>5. o \in Surjection(1..n, S)
  BY <1>3, <1>4, FS_Injection DEF n
<1> QED
  BY <1>1, <1>2, <1>5 DEF Surjection

\* An empty queue.
LEMMA Empty ==
  ASSUME NEW g \in Gots
  PROVE  /\ EventsAt(<<>>) = {} /\ NoGap(<<>>, g)
         /\ g.hello \/ (g.last = 0 /\ g.statuses = {}) => HelloLeads(<<>>, g)
<1>1. DOMAIN <<>> = {}
  OBVIOUS
<1>2. EventsAt(<<>>) = {}
  BY <1>1 DEF EventsAt
<1> QED
  BY <1>1, <1>2 DEF NoGap, HelloLeads

\* What every handler step leaves alone: the shared state and the other clients.
LEMMA Elsewhere ==
  ASSUME WsInv, NEW c \in Clients, NEW d \in Clients, d # c,
         queue'[d] = queue[d], got'[d] = got[d], rx'[d] = rx[d], asked'[d] = asked[d],
         handler'[d] = handler[d], subs'[d] = subs[d], d \in clients' => d \in clients,
         UNCHANGED <<at, sending, answered, status>>
  PROVE  InStream(d)' /\ UpToDate(d)'
<1>1. LastOf' = LastOf /\ \A n \in Networks : (Current(n))' => Current(n)
  BY DEF LastOf, Current
<1> QED
  BY <1>1, Kept DEF WsInv

\* A client connects (handle_client).
LEMMA Connects ==
  ASSUME WsInv, NEW c \in Clients, accept(c)
  PROVE  WsInv'
<1>0. WsType /\ InStream(c)
  BY DEF WsInv
<1>1. /\ handler[c].pc = "none" /\ handler' = [handler EXCEPT ![c] = [pc |-> "hello", todo |-> <<>>]]
      /\ clients' = clients \cup {c} /\ subs' = [subs EXCEPT ![c] = {}]
      /\ UNCHANGED <<at, sending, latest_status, answered, status, queue, rx, asked, got>>
  BY DEF accept, Goto, svars, evars
<1>2. [pc |-> "hello", todo |-> <<>>] \in [pc : Pcs, todo : Seq(StatusTexts)]
  BY EmptySeq DEF Pcs
<1>3. WsType'
  BY <1>0, <1>1, <1>2 DEF WsType
<1>4. handler'[c].pc = "hello" /\ subs'[c] = {}
  BY <1>0, <1>1 DEF WsType
<1>5. InStream(c)'
  BY <1>0, <1>1, <1>4 DEF InStream, Takes
<1>6. UpToDate(c)'
  BY <1>4 DEF UpToDate, Takes
<1>7. ASSUME NEW d \in Clients, d # c PROVE InStream(d)' /\ UpToDate(d)'
  <2>1. handler'[d] = handler[d] /\ subs'[d] = subs[d] /\ (d \in clients' => d \in clients)
    BY <1>0, <1>1, <1>7 DEF WsType
  <2> QED
    BY <1>1, <1>7, <2>1, Elsewhere
<1> QED
  BY <1>3, <1>5, <1>6, <1>7 DEF WsInv

\* Its hello is the first it is sent, although the client is in the map already
\* (handle_client).
LEMMA SaysHello ==
  ASSUME WsInv, NEW c \in Clients, send_hello(c)
  PROVE  WsInv'
<1>0. WsType /\ InStream(c)
  BY DEF WsInv
<1>1. /\ handler[c].pc = "hello" /\ handler' = [handler EXCEPT ![c] = [pc |-> "read", todo |-> <<>>]]
      /\ Send(c, Hello) \/ (~rx[c] /\ UNCHANGED queue)
      /\ UNCHANGED <<at, sending, latest_status, answered, status, clients, subs, rx, asked, got>>
  BY DEF send_hello, Goto, svars, evars
<1>2. queue[c] = <<>> /\ got[c] = Unsent /\ rx[c] /\ subs[c] = {} /\ asked[c] = 0
  BY <1>0, <1>1 DEF InStream
<1>3. queue' = [queue EXCEPT ![c] = Append(@, Hello)]
  BY <1>1, <1>2 DEF Send
<1>4. queue'[c] = <<Hello>> /\ <<Hello>> \in Seq(Texts) /\ Hello \in Texts
  BY <1>0, <1>2, <1>3 DEF WsType, Texts
<1>5. [pc |-> "read", todo |-> <<>>] \in [pc : Pcs, todo : Seq(StatusTexts)]
  BY EmptySeq DEF Pcs
<1>6. queue' \in [Clients -> Seq(Texts)]
  BY <1>0, <1>3, <1>4 DEF WsType
<1>7. WsType'
  BY <1>0, <1>1, <1>5, <1>6 DEF WsType
<1>8. handler'[c].pc = "read"
  BY <1>0, <1>1 DEF WsType
<1>9. InStream(c)'
  <2> DEFINE q == <<Hello>>
  <2>1. DOMAIN q = {1} /\ q[1][1] = "hello" /\ q # <<>>
    BY DEF Hello
  <2>2. queue'[c] = q /\ got'[c] = Unsent /\ rx'[c] /\ subs'[c] = {} /\ asked'[c] = 0
    BY <1>1, <1>2, <1>4
  <2> HIDE DEF q
  <2>3. EventsAt(q) = {} /\ HelloLeads(q, Unsent)
    BY <2>1 DEF EventsAt, HelloLeads, Unsent
  <2>4. Unsent.last = 0
    BY DEF Unsent
  <2> QED
    BY <1>8, <2>1, <2>2, <2>3, <2>4 DEF InStream
<1>10. UpToDate(c)'
  BY <1>1, <1>2 DEF UpToDate, Takes
<1>11. ASSUME NEW d \in Clients, d # c PROVE InStream(d)' /\ UpToDate(d)'
  <2>1. handler'[d] = handler[d] /\ queue'[d] = queue[d]
    BY <1>0, <1>1, <1>3, <1>11 DEF WsType
  <2> QED
    BY <1>1, <1>11, <2>1, Elsewhere
<1> QED
  BY <1>7, <1>9, <1>10, <1>11 DEF WsInv

\* A first subscription finds no event in the queue, and one to the status has the cache
\* still to read (handle_client, set_subscriptions).
LEMMA Subscribes ==
  ASSUME WsInv, NEW c \in Clients, set_subscriptions(c)
  PROVE  WsInv'
<1>0. WsType /\ InStream(c)
  BY DEF WsInv
<1>1. /\ handler[c].pc = "read" /\ asked' = [asked EXCEPT ![c] = @ + 1]
      /\ UNCHANGED <<at, sending, latest_status, answered, status, clients, queue, rx, got>>
  BY DEF set_subscriptions, svars, evars
<1>2. PICK s \in ClientChoices :
        \/ /\ c \in clients /\ subs' = [subs EXCEPT ![c] = s]
           /\ handler' = [handler EXCEPT ![c] =
                            [pc |-> IF "status" \in s THEN "cache" ELSE "read", todo |-> <<>>]]
        \/ /\ c \notin clients /\ subs' = subs
           /\ handler' = [handler EXCEPT ![c] = [pc |-> "end", todo |-> <<>>]]
  BY DEF set_subscriptions, Goto
<1>3. s \in SUBSET {"event", "status"}
  BY WebsocketAssumption
<1>4. \A pc \in Pcs : [pc |-> pc, todo |-> <<>>] \in [pc : Pcs, todo : Seq(StatusTexts)]
  BY EmptySeq
<1>5. subs' \in [Clients -> SUBSET {"event", "status"}] /\ asked' \in [Clients -> Nat]
  <2>1. subs' = subs \/ subs' = [subs EXCEPT ![c] = s]
    BY <1>2
  <2>2. subs \in [Clients -> SUBSET {"event", "status"}]
    BY <1>0 DEF WsType
  <2>3. subs' \in [Clients -> SUBSET {"event", "status"}]
    BY <1>3, <2>1, <2>2
  <2>4. asked' \in [Clients -> Nat]
    BY <1>0, <1>1 DEF WsType
  <2> QED
    BY <2>3, <2>4
<1>6. handler' \in [Clients -> [pc : Pcs, todo : Seq(StatusTexts)]]
  <2>1. {"cache", "read", "end"} \subseteq Pcs
    BY DEF Pcs
  <2>2. \E pc \in Pcs : handler' = [handler EXCEPT ![c] = [pc |-> pc, todo |-> <<>>]]
    BY <1>2, <2>1
  <2> QED
    BY <1>0, <1>4, <2>2 DEF WsType
<1>7. WsType'
  BY <1>0, <1>1, <1>5, <1>6 DEF WsType
<1>8. /\ handler'[c].pc \in {"cache", "read", "end"}
      /\ c \in clients => subs'[c] = s /\ (handler'[c].pc = "read" => "status" \notin s) /\ handler'[c].pc # "end"
      /\ handler'[c].pc # "cached"
  BY <1>0, <1>2 DEF WsType
<1>9. asked[c] \in Nat /\ asked'[c] = asked[c] + 1
  BY <1>0, <1>1 DEF WsType
<1>10. InStream(c)'
  <2>1. asked'[c] # 0 /\ (asked'[c] = 1 => asked[c] = 0)
    BY <1>9
  <2>2. asked[c] = 0 => EventsAt(queue[c]) = {} /\ got[c].last = 0
    BY <1>0 DEF InStream
  <2>3. asked'[c] = 1 => NoGap(queue[c], got[c]) /\ UpTo(queue[c], got[c], LastOf')
    BY <2>1, <2>2 DEF NoGap, UpTo
  <2>4. handler'[c].pc \notin {"none", "hello"} /\ handler[c].pc \notin {"none", "hello"}
    BY <1>1, <1>8
  <2>5. queue' = queue /\ got' = got /\ rx' = rx
    BY <1>1
  <2> HIDE DEF LastOf
  <2> QED
    BY <1>0, <2>1, <2>3, <2>4, <2>5 DEF InStream
<1>11. UpToDate(c)'
  BY <1>1, <1>8 DEF UpToDate, Takes
<1>12. ASSUME NEW d \in Clients, d # c PROVE InStream(d)' /\ UpToDate(d)'
  <2>1. handler'[d] = handler[d] /\ subs'[d] = subs[d] /\ asked'[d] = asked[d]
    BY <1>0, <1>1, <1>2, <1>12 DEF WsType
  <2> QED
    BY <1>1, <1>12, <2>1, Elsewhere
<1> QED
  BY <1>7, <1>10, <1>11, <1>12 DEF WsInv

\* The cache is read after the client has subscribed: what it holds is what was last
\* answered, and an answer that comes later is broadcast to this client too (handle_client).
LEMMA ReadsCache ==
  ASSUME WsInv, NEW c \in Clients, read_cached(c)
  PROVE  WsInv'
<1>0. WsType /\ InStream(c)
  BY DEF WsInv
<1> DEFINE have == {n \in Networks : latest_status[n] > 0}
<1>1. /\ handler[c].pc = "cache"
      /\ UNCHANGED <<at, sending, latest_status, answered, status, clients, subs, queue, rx, asked, got>>
  BY DEF read_cached, evars
<1>2. PICK o \in SetToSeqs(have) :
        handler' = [handler EXCEPT ![c] =
                      [pc |-> "cached", todo |-> [i \in DOMAIN o |-> Status(o[i], latest_status[o[i]])]]]
  BY DEF read_cached, Goto
<1> DEFINE todo == [i \in DOMAIN o |-> Status(o[i], latest_status[o[i]])]
<1>3. IsFiniteSet(have)
  <2>1. have \in SUBSET Networks
    OBVIOUS
  <2> HIDE DEF have
  <2> QED
    BY <2>1, WebsocketAssumption, FS_Subset
<1>4. PICK n \in Nat : o \in [1..n -> have]
  BY <1>3, Listed
<1>5. \A x \in have : \E i \in DOMAIN o : o[i] = x
  <2>1. o \in SetToSeqs(have)
    BY <1>2
  <2> HIDE DEF have
  <2> QED
    BY <1>3, <2>1, Listed
<1>6. todo \in Seq(StatusTexts)
  <2>1. todo \in [1..n -> StatusTexts]
    <3>1. DOMAIN o = 1..n /\ \A i \in 1..n : o[i] \in Networks
      BY <1>4
    <3>2. \A m \in Networks : latest_status[m] \in Nat
      BY <1>0 DEF WsType
    <3>3. \A i \in 1..n : Status(o[i], latest_status[o[i]]) \in StatusTexts
      BY <3>1, <3>2 DEF StatusTexts
    <3> QED
      BY <3>1, <3>3
  <2> HIDE DEF todo
  <2> QED
    BY <2>1, SeqDef
<1>7. \A m \in Networks : answered[m] > 0 => Status(m, answered[m]) \in ToSet(todo)
  <2> SUFFICES ASSUME NEW m \in Networks, answered[m] > 0
               PROVE  \E i \in DOMAIN todo : todo[i] = Status(m, answered[m])
    BY DEF ToSet
  <2>1. latest_status = answered
    BY <1>0 DEF WsType
  <2>2. m \in have
    BY <2>1
  <2>3. PICK i \in DOMAIN o : o[i] = m
    BY <1>5, <2>2
  <2>4. i \in DOMAIN todo /\ todo[i] = Status(m, answered[m])
    BY <2>1, <2>3
  <2> QED
    BY <2>4
<1>8. handler' = [handler EXCEPT ![c] = [pc |-> "cached", todo |-> todo]]
  BY <1>2
<1> HIDE DEF todo, have
<1>9. [pc |-> "cached", todo |-> todo] \in [pc : Pcs, todo : Seq(StatusTexts)]
  BY <1>6 DEF Pcs
<1>10. WsType'
  BY <1>0, <1>1, <1>8, <1>9 DEF WsType
<1>11. handler'[c] = [pc |-> "cached", todo |-> todo]
  BY <1>0, <1>8 DEF WsType
<1>12. InStream(c)'
  <2>1. LastOf' = LastOf
    BY <1>1 DEF LastOf
  <2>2. handler'[c].pc = "cached"
    BY <1>11
  <2> QED
    BY <1>0, <1>1, <2>1, <2>2, StreamKept
<1>13. UpToDate(c)'
  <2>1. answered' = answered /\ handler'[c].pc = "cached" /\ handler'[c].todo = todo
    BY <1>1, <1>11
  <2>2. \A m \in Networks : (Current(m))' => Status(m, answered'[m]) \in ToSet(handler'[c].todo)
    BY <1>7, <2>1 DEF Current
  <2> QED
    BY <2>1, <2>2 DEF UpToDate
<1>14. ASSUME NEW d \in Clients, d # c PROVE InStream(d)' /\ UpToDate(d)'
  <2>1. handler'[d] = handler[d]
    BY <1>0, <1>8, <1>14 DEF WsType
  <2> QED
    BY <1>1, <1>14, <2>1, Elsewhere
<1> QED
  BY <1>10, <1>12, <1>13, <1>14 DEF WsInv

\* The next cached text goes into the queue behind whatever was broadcast meanwhile
\* (handle_client).
LEMMA SendsCached ==
  ASSUME WsInv, NEW c \in Clients, send_cached(c)
  PROVE  WsInv'
<1>0. WsType /\ InStream(c) /\ UpToDate(c)
  BY DEF WsInv
<1> DEFINE todo == handler[c].todo
           t == Head(todo)
<1>1. /\ handler[c].pc = "cached"
      /\ UNCHANGED <<at, sending, latest_status, answered, status, clients, subs, rx, asked, got>>
  BY DEF send_cached, svars, evars
<1>2. todo \in Seq(StatusTexts) /\ queue[c] \in Seq(Texts) /\ got[c] \in Gots
  BY <1>0 DEF WsType
<1>3. LastOf' = LastOf /\ (Takes(c, "status"))' = Takes(c, "status")
      /\ \A n \in Networks : (Current(n))' = Current(n)
  BY <1>1 DEF LastOf, Takes, Current
<1>4. \A d \in Clients : d # c /\ queue'[d] = queue[d] /\ handler'[d] = handler[d] => InStream(d)' /\ UpToDate(d)'
  BY <1>1, Elsewhere
<1>5. CASE (todo = <<>> \/ ~rx[c]) /\ Goto(c, "read", <<>>) /\ UNCHANGED queue
  <2>1. handler' = [handler EXCEPT ![c] = [pc |-> "read", todo |-> <<>>]] /\ queue' = queue
    BY <1>5 DEF Goto
  <2>2. [pc |-> "read", todo |-> <<>>] \in [pc : Pcs, todo : Seq(StatusTexts)]
    BY EmptySeq DEF Pcs
  <2>3. WsType'
    BY <1>0, <1>1, <2>1, <2>2 DEF WsType
  <2>4. handler'[c].pc = "read"
    BY <1>0, <2>1 DEF WsType
  <2>5. InStream(c)'
    BY <1>0, <1>1, <1>3, <2>1, <2>4, StreamKept
  <2>6. UpToDate(c)'
    <3>1. CASE ~rx[c]
      BY <1>1, <3>1 DEF UpToDate, Takes
    <3>2. CASE todo = <<>>
      <4>1. ToSet(todo) = {}
        BY <3>2 DEF ToSet
      <4>2. (Sent(c))' = Sent(c) /\ answered' = answered
        BY <1>1, <2>1 DEF Sent
      <4>3. Takes(c, "status") => \A n \in Networks : Current(n) => Status(n, answered[n]) \in Sent(c)
        BY <1>0, <1>1, <4>1 DEF UpToDate
      <4> QED
        BY <1>3, <2>4, <4>2, <4>3 DEF UpToDate
    <3> QED
      BY <1>5, <3>1, <3>2
  <2>7. \A d \in Clients : d # c => InStream(d)' /\ UpToDate(d)'
    <3>1. \A d \in Clients : d # c => handler'[d] = handler[d]
      BY <1>0, <2>1 DEF WsType
    <3> QED
      BY <1>4, <2>1, <3>1
  <2> QED
    BY <2>3, <2>5, <2>6, <2>7 DEF WsInv
<1>6. CASE todo # <<>> /\ Send(c, t) /\ Goto(c, "cached", Tail(todo))
  <2>1. /\ rx[c] /\ queue' = [queue EXCEPT ![c] = Append(@, t)]
        /\ handler' = [handler EXCEPT ![c] = [pc |-> "cached", todo |-> Tail(todo)]]
    BY <1>6 DEF Send, Goto
  <2>2. /\ t \in StatusTexts /\ Tail(todo) \in Seq(StatusTexts)
        /\ ToSet(todo) \subseteq ToSet(Tail(todo)) \cup {t}
    <3>1. /\ t \in StatusTexts /\ Tail(todo) \in Seq(StatusTexts) /\ Len(Tail(todo)) = Len(todo) - 1
          /\ \A i \in 1..Len(Tail(todo)) : Tail(todo)[i] = todo[i + 1]
      BY <1>2, <1>6, HeadTailProperties
    <3>2. DOMAIN todo = 1..Len(todo) /\ DOMAIN Tail(todo) = 1..(Len(todo) - 1) /\ Len(todo) \in Nat
      BY <1>2, <3>1, LenProperties
    <3> DEFINE rest == Tail(todo)
               n == Len(todo)
    <3>3. \A i \in 1..n : i = 1 \/ (i - 1 \in 1..(n - 1) /\ (i - 1) + 1 = i)
      BY <3>2
    <3>4. todo[1] = t
      BY <1>6
    <3>5. ToSet(todo) = {todo[i] : i \in 1..n} /\ ToSet(rest) = {rest[i] : i \in 1..(n - 1)}
      BY <3>2 DEF ToSet
    <3>6. \A i \in 1..(n - 1) : rest[i] = todo[i + 1]
      BY <3>1
    <3> HIDE DEF rest, n, todo, t
    <3>7. ToSet(todo) \subseteq ToSet(rest) \cup {t}
      BY <3>3, <3>4, <3>5, <3>6
    <3> QED
      BY <3>1, <3>7 DEF rest
  <2> DEFINE rest == Tail(todo)
             a == Append(queue[c], t)
  <2>3. t \in Texts /\ t[1] # "hello" /\ t[1] # "event"
    <3>1. t \in Texts
      BY <2>2 DEF Texts
    <3>2. t[1] = "status"
      BY <2>2, <3>1, Kinds
    <3> QED
      BY <3>1, <3>2
  <2> HIDE DEF t, todo
  <2>4. /\ a \in Seq(Texts) /\ a # <<>> /\ ToSet(a) = ToSet(queue[c]) \cup {t}
        /\ (got[c].hello \/ queue[c] # <<>>) /\ HelloLeads(queue[c], got[c]) => HelloLeads(a, got[c])
        /\ EventsAt(a) = EventsAt(queue[c])
        /\ NoGap(queue[c], got[c]) => NoGap(a, got[c])
        /\ \A last : UpTo(queue[c], got[c], last) => UpTo(a, got[c], last)
    <3>1. a = Append(queue[c], t)
      OBVIOUS
    <3> HIDE DEF a
    <3> QED
      BY <1>2, <2>3, <3>1, Appended, ZenonT(40)
  <2>5. queue' = [queue EXCEPT ![c] = a]
    BY <2>1
  <2>6. handler' = [handler EXCEPT ![c] = [pc |-> "cached", todo |-> rest]] /\ rest \in Seq(StatusTexts)
    BY <2>1, <2>2
  <2> HIDE DEF a, rest
  <2>7. [pc |-> "cached", todo |-> rest] \in [pc : Pcs, todo : Seq(StatusTexts)]
    BY <2>6 DEF Pcs
  <2>8. WsType'
    BY <1>0, <1>1, <2>4, <2>5, <2>6, <2>7 DEF WsType
  <2>9. handler'[c] = [pc |-> "cached", todo |-> rest] /\ queue'[c] = a
    BY <1>0, <2>5, <2>6 DEF WsType
  <2>10. handler'[c].pc = "cached" /\ handler'[c].todo = rest
    BY <2>9
  <2>11. InStream(c)'
    <3>1. /\ asked[c] = 0 => subs[c] = {} /\ EventsAt(queue[c]) = {} /\ got[c].last = 0
          /\ got[c].hello \/ queue[c] # <<>>
          /\ HelloLeads(queue[c], got[c])
          /\ asked[c] = 1 => NoGap(queue[c], got[c])
          /\ asked[c] = 1 /\ Takes(c, "event") => UpTo(queue[c], got[c], LastOf)
      BY <1>0, <1>1, <2>1 DEF InStream
    <3>2. (Takes(c, "event"))' = Takes(c, "event") /\ rx' = rx /\ got' = got /\ asked' = asked /\ subs' = subs
      BY <1>1 DEF Takes
    <3>3. /\ HelloLeads(a, got[c])
          /\ asked[c] = 1 => NoGap(a, got[c])
      BY <2>4, <3>1
    <3>4. asked[c] = 1 /\ Takes(c, "event") => UpTo(a, got[c], LastOf')
      BY <1>3, <2>4, <3>1
    <3> HIDE DEF Takes, LastOf
    <3> QED
      BY <2>1, <2>4, <2>9, <2>10, <3>1, <3>2, <3>3, <3>4 DEF InStream
  <2>12. UpToDate(c)'
    <3>1. (Sent(c))' = Sent(c) \cup {t} /\ answered' = answered
      BY <1>1, <2>4, <2>9 DEF Sent
    <3>2. Takes(c, "status") => \A n \in Networks : Current(n) =>
            Status(n, answered[n]) \in Sent(c) \/ Status(n, answered[n]) \in ToSet(rest) \cup {t}
      BY <1>0, <1>1, <2>2 DEF UpToDate, todo, rest
    <3> QED
      BY <1>3, <2>10, <3>1, <3>2 DEF UpToDate
  <2>13. \A d \in Clients : d # c => InStream(d)' /\ UpToDate(d)'
    <3>1. \A d \in Clients : d # c => handler'[d] = handler[d] /\ queue'[d] = queue[d]
      BY <1>0, <2>5, <2>6 DEF WsType
    <3> QED
      BY <1>4, <3>1
  <2> QED
    BY <2>8, <2>11, <2>12, <2>13 DEF WsInv
<1> QED
  BY <1>5, <1>6 DEF send_cached

\* The client closes, or sends what does not parse (handle_client).
LEMMA Leaves ==
  ASSUME WsInv, NEW c \in Clients, leave(c)
  PROVE  WsInv'
<1>0. WsType /\ InStream(c)
  BY DEF WsInv
<1>1. /\ handler[c].pc = "read" /\ handler' = [handler EXCEPT ![c] = [pc |-> "end", todo |-> <<>>]]
      /\ UNCHANGED <<at, sending, latest_status, answered, status, clients, subs, queue, rx, asked, got>>
  BY DEF leave, Goto, svars, evars
<1>2. [pc |-> "end", todo |-> <<>>] \in [pc : Pcs, todo : Seq(StatusTexts)]
  BY EmptySeq DEF Pcs
<1>3. WsType'
  BY <1>0, <1>1, <1>2 DEF WsType
<1>4. handler'[c].pc = "end" /\ LastOf' = LastOf
  BY <1>0, <1>1 DEF WsType, LastOf
<1>5. InStream(c)'
  BY <1>0, <1>1, <1>4, StreamKept
<1>6. UpToDate(c)'
  BY <1>4 DEF UpToDate
<1>7. ASSUME NEW d \in Clients, d # c PROVE InStream(d)' /\ UpToDate(d)'
  <2>1. handler'[d] = handler[d]
    BY <1>0, <1>1, <1>7 DEF WsType
  <2> QED
    BY <1>1, <1>7, <2>1, Elsewhere
<1> QED
  BY <1>3, <1>5, <1>6, <1>7 DEF WsInv

\* The handler ends, with the client's place and its queue (handle_client).
LEMMA Ends ==
  ASSUME WsInv, NEW c \in Clients, end_client(c)
  PROVE  WsInv'
<1>0. WsType /\ InStream(c)
  BY DEF WsInv
<1>1. /\ handler[c].pc = "end" /\ handler' = [handler EXCEPT ![c] = [pc |-> "gone", todo |-> <<>>]]
      /\ clients' = clients \ {c} /\ subs' = [subs EXCEPT ![c] = {}]
      /\ queue' = [queue EXCEPT ![c] = <<>>] /\ rx' = [rx EXCEPT ![c] = FALSE]
      /\ asked' = [asked EXCEPT ![c] = 0] /\ got' = [got EXCEPT ![c] = Unsent]
      /\ UNCHANGED <<at, sending, latest_status, answered, status>>
  BY DEF end_client, Goto, svars, evars
<1>2. /\ [pc |-> "gone", todo |-> <<>>] \in [pc : Pcs, todo : Seq(StatusTexts)]
      /\ <<>> \in Seq(Texts) /\ Unsent \in Gots /\ Unsent.last = 0 /\ Unsent.statuses = {}
  BY EmptySeq DEF Pcs, Unsent, Gots
<1>3. WsType'
  BY <1>0, <1>1, <1>2 DEF WsType
<1>4. /\ handler'[c].pc = "gone" /\ subs'[c] = {} /\ queue'[c] = <<>> /\ rx'[c] = FALSE
      /\ asked'[c] = 0 /\ got'[c] = Unsent
  BY <1>0, <1>1 DEF WsType
<1>5. InStream(c)'
  BY <1>2, <1>4, Empty DEF InStream
<1>6. UpToDate(c)'
  BY <1>4 DEF UpToDate, Takes
<1>7. ASSUME NEW d \in Clients, d # c PROVE InStream(d)' /\ UpToDate(d)'
  <2>1. /\ handler'[d] = handler[d] /\ subs'[d] = subs[d] /\ queue'[d] = queue[d] /\ rx'[d] = rx[d]
        /\ asked'[d] = asked[d] /\ got'[d] = got[d] /\ (d \in clients' => d \in clients)
    BY <1>0, <1>1, <1>7 DEF WsType
  <2> QED
    BY <1>1, <1>7, <2>1, Elsewhere
<1> QED
  BY <1>3, <1>5, <1>6, <1>7 DEF WsInv

\* The writer sends the first of the queue on, or fails and closes it (handle_client).
LEMMA Writes ==
  ASSUME WsInv, NEW c \in Clients, write(c)
  PROVE  WsInv'
<1>0. WsType /\ InStream(c) /\ UpToDate(c)
  BY DEF WsInv
<1> DEFINE q == queue[c]
           g == got[c]
<1>1. /\ rx[c] /\ q # <<>>
      /\ UNCHANGED <<at, sending, latest_status, answered, status, clients, subs, handler, asked>>
  BY DEF write, svars, evars
<1>2. q \in Seq(Texts) /\ g \in Gots /\ asked[c] \in Nat
  BY <1>0 DEF WsType
<1>3. /\ LastOf' = LastOf /\ \A n \in Networks : (Current(n))' = Current(n)
  BY <1>1 DEF LastOf, Current
<1>4. /\ asked[c] = 0 => subs[c] = {} /\ EventsAt(q) = {} /\ g.last = 0
      /\ HelloLeads(q, g) /\ (asked[c] = 1 => NoGap(q, g))
      /\ asked[c] = 1 /\ Takes(c, "event") => UpTo(q, g, LastOf)
      /\ handler[c].pc \notin {"none", "hello"}
  BY <1>0, <1>1 DEF InStream
<1>5. CASE /\ got' = [got EXCEPT ![c] = Delivered(@, Head(q))]
           /\ queue' = [queue EXCEPT ![c] = Tail(@)] /\ UNCHANGED rx
  <2> DEFINE rest == Tail(q)
             h == Delivered(g, Head(q))
  <2>1. /\ rest \in Seq(Texts) /\ h \in Gots /\ h.hello
        /\ HelloLeads(rest, h)
        /\ g.statuses \cup ToSet(q) \subseteq h.statuses \cup ToSet(rest) \cup (Texts \ StatusTexts)
        /\ EventsAt(q) = {} => EventsAt(rest) = {} /\ h.last = g.last
        /\ NoGap(q, g) => NoGap(rest, h)
        /\ NoGap(q, g) => \A last : UpTo(q, g, last) => UpTo(rest, h, last)
    <3>1. rest = Tail(q) /\ h = Delivered(g, Head(q))
      OBVIOUS
    <3> HIDE DEF rest, h, q, g
    <3> QED
      BY <1>1, <1>2, <1>4, <3>1, Taken
  <2>2. got' = [got EXCEPT ![c] = h] /\ queue' = [queue EXCEPT ![c] = rest]
    BY <1>5
  <2> HIDE DEF rest, h
  <2>3. WsType'
    BY <1>0, <1>1, <1>5, <2>1, <2>2 DEF WsType
  <2>4. got'[c] = h /\ queue'[c] = rest /\ rx' = rx
    BY <1>0, <1>5, <2>2 DEF WsType
  <2>5. InStream(c)'
    <3>1. (Takes(c, "event"))' = Takes(c, "event")
      BY <1>1, <2>4 DEF Takes
    <3>2. asked[c] = 1 => NoGap(rest, h)
      BY <1>4, <2>1
    <3>3. asked[c] = 1 /\ Takes(c, "event") => UpTo(rest, h, LastOf')
      BY <1>3, <1>4, <2>1
    <3>4. asked[c] = 0 => subs[c] = {} /\ EventsAt(rest) = {} /\ h.last = 0
      BY <1>4, <2>1
    <3>5. asked' = asked /\ subs' = subs /\ handler' = handler
      BY <1>1
    <3> HIDE DEF Takes, LastOf
    <3> QED
      BY <1>1, <1>4, <2>1, <2>4, <3>1, <3>2, <3>3, <3>4, <3>5 DEF InStream
  <2>6. UpToDate(c)'
    <3>1. (Takes(c, "status"))' => Takes(c, "status")
      BY <1>1, <2>4 DEF Takes
    <3>2. Sent(c) \cap StatusTexts \subseteq (Sent(c))'
      BY <2>1, <2>4 DEF Sent
    <3> QED
      BY <1>0, <1>1, <1>3, <3>1, <3>2, StatusKept DEF WsType
  <2>7. ASSUME NEW d \in Clients, d # c PROVE InStream(d)' /\ UpToDate(d)'
    <3>1. queue'[d] = queue[d] /\ got'[d] = got[d] /\ rx'[d] = rx[d]
      BY <1>0, <1>5, <2>2, <2>7 DEF WsType
    <3> QED
      BY <1>1, <2>7, <3>1, Elsewhere
  <2> QED
    BY <2>3, <2>5, <2>6, <2>7 DEF WsInv
<1>6. CASE /\ rx' = [rx EXCEPT ![c] = FALSE] /\ queue' = [queue EXCEPT ![c] = <<>>]
           /\ UNCHANGED got
  <2>1. <<>> \in Seq(Texts)
    BY EmptySeq
  <2>2. WsType'
    BY <1>0, <1>1, <1>6, <2>1 DEF WsType
  <2>3. got'[c] = g /\ queue'[c] = <<>> /\ rx'[c] = FALSE
    BY <1>0, <1>6 DEF WsType
  <2>4. ~(Takes(c, "event"))' /\ ~(Takes(c, "status"))'
    BY <2>3 DEF Takes
  <2>5. InStream(c)'
    <3>1. EventsAt(<<>>) = {} /\ NoGap(<<>>, g) /\ HelloLeads(<<>>, g)
      <4>1. g.hello \/ (g.last = 0 /\ g.statuses = {})
        <5>1. HelloLeads(q, g)
          BY <1>4
        <5>2. g.hello \in BOOLEAN
          BY <1>2 DEF Gots
        <5> HIDE DEF q, g
        <5>3. CASE ~g.hello
          BY <5>1, <5>3 DEF HelloLeads
        <5> QED
          BY <5>2, <5>3
      <4> QED
        BY <1>2, <4>1, Empty
    <3>2. asked' = asked /\ subs' = subs /\ handler' = handler
      BY <1>1
    <3> HIDE DEF Takes, LastOf
    <3> QED
      BY <1>4, <2>3, <2>4, <3>1, <3>2 DEF InStream
  <2>6. UpToDate(c)'
    BY <2>4 DEF UpToDate
  <2>7. ASSUME NEW d \in Clients, d # c PROVE InStream(d)' /\ UpToDate(d)'
    <3>1. queue'[d] = queue[d] /\ got'[d] = got[d] /\ rx'[d] = rx[d]
      BY <1>0, <1>6, <2>7 DEF WsType
    <3> QED
      BY <1>1, <2>7, <3>1, Elsewhere
  <2> QED
    BY <2>2, <2>5, <2>6, <2>7 DEF WsInv
<1> QED
  BY <1>5, <1>6 DEF write

----------------------------------------------------------------------------
(* The theorems *)

\* The start of the tool, and what is left when it stops (run).
LEMMA Fresh ==
  ASSUME at = 0, sending = FALSE, clients = {}, subs = Each({}), queue = Each(<<>>), rx = Each(TRUE),
         handler = Each([pc |-> "none", todo |-> <<>>]), asked = Each(0), got = Each(Unsent),
         answered = Nothing, latest_status = Nothing, status = Idle
  PROVE  WsInv
<1>1. /\ [pc |-> "none", todo |-> <<>>] \in [pc : Pcs, todo : Seq(StatusTexts)]
      /\ <<>> \in Seq(Texts) /\ Unsent \in Gots /\ Unsent.last = 0 /\ Unsent.statuses = {}
  BY EmptySeq DEF Pcs, Unsent, Gots
<1>2. WsType
  <2>1. status.pc = "select"
    BY DEF Idle
  <2>2. handler \in [Clients -> [pc : Pcs, todo : Seq(StatusTexts)]] /\ queue \in [Clients -> Seq(Texts)]
    BY <1>1 DEF Each
  <2>3. got \in [Clients -> Gots] /\ asked \in [Clients -> Nat] /\ answered \in [Networks -> Nat]
    BY <1>1 DEF Each, Nothing
  <2>4. subs \in [Clients -> SUBSET {"event", "status"}] /\ rx \in [Clients -> BOOLEAN]
    BY DEF Each
  <2> QED
    BY <2>1, <2>2, <2>3, <2>4 DEF WsType
<1>3. ASSUME NEW c \in Clients PROVE InStream(c) /\ UpToDate(c)
  <2>1. /\ handler[c].pc = "none" /\ subs[c] = {} /\ queue[c] = <<>> /\ rx[c] = TRUE
        /\ asked[c] = 0 /\ got[c] = Unsent
    BY DEF Each
  <2>2. ~Takes(c, "event") /\ ~Takes(c, "status")
    BY DEF Takes
  <2>3. EventsAt(<<>>) = {} /\ HelloLeads(<<>>, Unsent)
    BY <1>1, Empty
  <2>4. InStream(c)
    <3>1. /\ handler[c].pc \in {"none", "hello"} /\ asked[c] # 1
          /\ got[c].last = 0
      BY <1>1, <2>1
    <3>3. rx[c]
      BY <2>1
    <3>2. EventsAt(queue[c]) = {} /\ HelloLeads(queue[c], got[c])
      <4>1. queue[c] = <<>> /\ got[c] = Unsent
        BY <2>1
      <4> QED
        BY <2>3, <4>1, Zenon
    <3> QED
      BY <2>1, <3>1, <3>2, <3>3 DEF InStream
  <2> QED
    BY <2>2, <2>4 DEF UpToDate
<1> QED
  BY <1>2, <1>3 DEF WsInv

\* The inductive invariant of the websocket tool.
LEMMA WsInvariant == WsSpec => []WsInv
<1>1. WsInit => WsInv
  BY Fresh DEF WsInit
<1>2. WsInv /\ [WsNext]_vars => WsInv'
  <2> SUFFICES ASSUME WsInv, [WsNext]_vars PROVE WsInv'
    OBVIOUS
  <2>1. CASE nats_task
    BY <2>1, EventArrives, EventGoesOut DEF nats_task
  <2>2. CASE status_task
    <3>1. \/ Tick \/ OnDemand \/ broadcast_status
          \/ \E n \in Networks : poll_status(n)
          \/ \E n \in Networks : PollFails(n)
      BY <2>2 DEF status_task, Polling
    <3> QED
      BY <3>1, NothingAnswered, StatusGoesOut, Answers
  <2>3. CASE running /\ GapPasses
    BY <2>3, NothingAnswered
  <2>4. CASE shutdown
    <3>1. /\ (at = 0)' /\ (sending = FALSE)' /\ (clients = {})' /\ (subs = Each({}))' /\ (queue = Each(<<>>))'
          /\ (rx = Each(TRUE))' /\ (handler = Each([pc |-> "none", todo |-> <<>>]))' /\ (asked = Each(0))'
          /\ (got = Each(Unsent))' /\ (answered = Nothing)' /\ (latest_status = Nothing)' /\ (status = Idle)'
      BY <2>4 DEF shutdown, Each, Nothing
    <3> QED
      BY <3>1, Fresh, PTL
  <2>5. ASSUME NEW c \in Clients, handle_client(c) PROVE WsInv'
    BY <2>5, SaysHello, ReadsCache, SendsCached, Ends DEF handle_client
  <2>6. ASSUME NEW c \in Clients, Browser(c) PROVE WsInv'
    BY <2>6, Connects, Subscribes, Leaves, Writes DEF Browser
  <2>7. CASE UNCHANGED vars
    <3>1. UNCHANGED <<at, sending, latest_status, answered, status, clients, subs, queue, rx, handler, asked, got>>
      BY <2>7 DEF vars, svars, evars, cvars
    <3>2. WsType'
      BY <3>1 DEF WsInv, WsType
    <3>3. LastOf' = LastOf /\ \A n \in Networks : (Current(n))' => Current(n)
      BY <3>1 DEF LastOf, Current
    <3>4. \A c \in Clients : InStream(c)' /\ UpToDate(c)'
      BY <3>1, <3>3, Kept DEF WsInv
    <3> QED
      BY <3>2, <3>4 DEF WsInv
  <2> QED
    BY <2>1, <2>2, <2>3, <2>4, <2>5, <2>6, <2>7 DEF WsNext
<1> QED
  BY <1>1, <1>2, PTL DEF WsSpec

\* Whatever the tasks do in whatever order, with a queue of any length: each client is
\* sent its hello first and, having asked once for the events, no event after missing
\* the one before (broadcast, handle_client).
THEOREM StreamsAreWhole == WsSpec => []ClientSeesOneStream
<1>1. WsInv => ClientSeesOneStream
  BY DEF WsInv, InStream, ClientSeesOneStream
<1> QED
  BY <1>1, WsInvariant, PTL

\* However a poll, its broadcast, a subscription and the reading of the cache interleave, a
\* subscribed client has the last answer of every network sent or queued
\* (poll_status, handle_client).
THEOREM StatusesArrive == WsSpec => []NoStatusMissed
<1>1. WsInv => NoStatusMissed
  <2> SUFFICES ASSUME WsInv, NEW c \in clients, NEW n \in Networks,
                      "status" \in subs[c], handler[c].pc = "read", rx[c], answered[n] > 0,
                      ~(status.pc = "answered" /\ status.network = n)
               PROVE  Status(n, answered[n]) \in got[c].statuses \cup ToSet(queue[c])
    BY DEF NoStatusMissed
  <2>1. c \in Clients /\ UpToDate(c)
    BY DEF WsInv, WsType
  <2>2. Takes(c, "status") /\ Current(n)
    BY DEF Takes, Current
  <2> QED
    BY <2>1, <2>2 DEF UpToDate, Sent
<1> QED
  BY <1>1, WsInvariant, PTL
=============================================================================
