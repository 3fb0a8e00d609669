------------------------------- MODULE Session -------------------------------
(***************************************************************************)
(* The message loop of one live connection (Connection in protocol.rs): its  *)
(* ping timer, the two token buckets, what it counts, and the entry of the *)
(* session in the registry of connections.rs.  The handlers of blocks and  *)
(* headers are in Announcements and HeaderSync; here they are messages that *)
(* are counted, or that end the session.                                   *)
(*                                                                         *)
(* The clock moves in units of which a ping interval is a few.  The        *)
(* runtime runs the task before the next unit whenever the task can run:   *)
(* time passes only while it waits for its timer and an empty socket, or   *)
(* for a write the peer does not take.  A nonce is the time of its ping.   *)
(***************************************************************************)
EXTENDS Integers, Sequences, SequencesExt, FiniteSetsExt

CONSTANTS
  PING_INTERVAL, PING_TIMEOUT, OUTSTANDING_PINGS,
  ADDR_BURST, GETHEADERS_BURST,
  REFILL,        \* units of time for one token of either bucket
  MESSAGES_BY_COMMAND_CAP,
  Gossips,       \* the addr and addrv2 messages a peer may send
  Says,          \* the other messages it may send
  MaxTime,       \* bound: the clock
  MaxSays,       \* bound: what the peer does besides answering pings: messages, stalls
  MaxInbox,      \* bound: messages in the socket
  MaxKnown,      \* bound: the pings a peer may still answer, the latest it has read
  MaxStalls      \* bound: times the peer stops taking what we write

ASSUME SessionAssumption ==
  /\ {PING_INTERVAL, PING_TIMEOUT, OUTSTANDING_PINGS, ADDR_BURST, GETHEADERS_BURST, REFILL} \subseteq Nat \ {0}
  /\ {MESSAGES_BY_COMMAND_CAP, MaxTime, MaxSays, MaxInbox, MaxKnown, MaxStalls} \subseteq Nat

\* Of the messages a peer makes up, no pong carries the nonce of a ping of ours, which
\* is a random number; the answers to our pings are Answer's.  An address message is a
\* sequence of entries; one that rust-bitcoin could not read has what it declared too.
ASSUME MessagesAssumption ==
  /\ \A m \in Says : m.command \notin {"addr", "addrv2"} /\ (m.command = "pong" => m.nonce \notin Nat)
  /\ \A m \in Gossips :
       /\ m.command \in {"addr", "addrv2"} /\ m.unread \in BOOLEAN
       /\ m.entries \in Seq({"self", "ok", "foreign", "refused", "unframed"})
       /\ m.unread => m.declared \in Nat /\ m.room \in Nat

VARIABLES
  now,
  conn,       \* the Connection, NoConnection outside run()
  registry,   \* the live sessions' counters, by connection id
  inbox,      \* messages in the socket
  taking,     \* whether the peer takes what we write
  known,      \* nonces the peer has been sent and has not answered
  ended,      \* "none", or the error run() returned
  said, stalls,
  learned,    \* history: [at, before, upto]: when addresses were handed to the address
              \* manager and charged, and how many were before them and with them
  free,       \* history: messages whose addresses were not charged
  answered,   \* history: times at which a getheaders was answered
  due,        \* history: nonces of pings not answered within the deadline's Patience
  heard,      \* history: when the peer last answered one of our pings, or the handshake
  overdue     \* history: a ping was unanswered for Patience, or a write for any time

svars == <<now, conn, registry, inbox, taking, known, ended, said, stalls,
           learned, free, answered, due, heard, overdue>>

ID == 1
NoConnection == [running |-> FALSE]

----------------------------------------------------------------------------
(* ConnectionStats and the buckets *)

\* A bucket is full at first; tokens are kept in units of a REFILLth.
Bucket(burst) == [tokens |-> burst * REFILL, updated |-> now]

\* Connection as run_session builds it with its ConnectionStats, the deadline and its
\* timer started.  Round trips are not kept.
NewConnection ==
  [outstanding_pings |-> <<>>,
   last_pong |-> now,
   unsolicited_pongs |-> 0,
   getheaders_ignored |-> 0,
   by_command |-> <<>>,               \* messages_by_command, commands in order of arrival
   messages |-> 0,
   messages_other |-> 0,
   running |-> TRUE,
   writing |-> "opening",             \* what the task is inside writer.send with; see run
   tick    |-> now + PING_INTERVAL,   \* interval(): the immediate tick is skipped
   addr |-> Bucket(ADDR_BURST),
   getheaders |-> Bucket(GETHEADERS_BURST),
   getaddr_outstanding |-> TRUE]

record_ping(c, nonce) ==
  [c EXCEPT !.outstanding_pings =
     LET all == Append(@, nonce) IN IF Len(all) > OUTSTANDING_PINGS THEN Tail(all) ELSE all]

\* mutant: an answer does not move the deadline.
ClaimKeepsDeadline(c, nonce) ==
  LET at == SelectInSeq(c.outstanding_pings, LAMBDA n : n = nonce)
  IN  IF at # 0
        THEN [c EXCEPT !.outstanding_pings = RemoveAt(@, at)]
        ELSE [c EXCEPT !.unsolicited_pongs = @ + 1]

\* mutant: any pong moves it.
AnyPongCounts(c, nonce) ==
  LET at == SelectInSeq(c.outstanding_pings, LAMBDA n : n = nonce)
  IN  IF at # 0
        THEN [c EXCEPT !.outstanding_pings = RemoveAt(@, at), !.last_pong = now]
        ELSE [c EXCEPT !.unsolicited_pongs = @ + 1, !.last_pong = now]

claim_pong(c, nonce) ==
  LET at == SelectInSeq(c.outstanding_pings, LAMBDA n : n = nonce)
  IN  IF at # 0
        THEN [c EXCEPT !.outstanding_pings = RemoveAt(@, at), !.last_pong = now]
        ELSE [c EXCEPT !.unsolicited_pongs = @ + 1]

ping_timed_out(c) ==
  c.outstanding_pings # <<>> /\ now - c.last_pong >= PING_TIMEOUT

record_message(c, command) ==
  IF Contains(c.by_command, command) THEN [c EXCEPT !.messages = @ + 1]
  ELSE IF Len(c.by_command) < MESSAGES_BY_COMMAND_CAP
    THEN [c EXCEPT !.by_command = Append(@, command), !.messages = @ + 1]
    ELSE [c EXCEPT !.messages_other = @ + 1]

counters(c) == c.messages + c.messages_other

silent(c) == c.by_command = <<>> /\ c.messages_other = 0

\* mutant: the refill is not capped.
RefillUncapped(bucket, burst) ==
  [tokens |-> bucket.tokens + (now - bucket.updated), updated |-> now]

\* A bucket refilled on read.
Refilled(bucket, burst) ==
  [tokens |-> Min({bucket.tokens + (now - bucket.updated), burst * REFILL}), updated |-> now]

----------------------------------------------------------------------------
(* The registry *)

\* The entry of a session that has just shaken hands, its counters at zero.
Live == [messages |-> 0, updated |-> 0, connected |-> now]

register(r) == [i \in DOMAIN r \cup {ID} |-> IF i = ID THEN Live ELSE r[i]]

refresh(r, n) ==
  IF ID \in DOMAIN r THEN [r EXCEPT ![ID].messages = n, ![ID].updated = now] ELSE r

unregister(r) == [i \in DOMAIN r \ {ID} |-> r[i]]

snapshot == {<<id, registry[id]>> : id \in DOMAIN registry}

\* What the RPC answers: every live session, with when its counters were taken.
connections_list ==
  {[connection_id |-> e[1], uptime |-> now - e[2].connected,
    messages |-> e[2].messages, updated |-> e[2].updated] : e \in snapshot}

----------------------------------------------------------------------------
(* Addresses *)

\* Entries of an addrv2 payload the decoder refused: stepped over one by one up to
\* the first whose framing cannot be followed.  Returns the count and which entries
\* were read.
parse_addrv2_leniently(p) ==
  LET count == Min({p.declared, p.room})
  IN  [received |-> count,
       read |-> {i \in DOMAIN p.entries : i <= count /\ \A j \in 1..i : p.entries[j] # "unframed"}]

\* How many entries a message declared, and which of them it brings.
Received(m) ==
  IF m.command = "addrv2" /\ m.unread THEN parse_addrv2_leniently(m)
  ELSE [received |-> Len(m.entries), read |-> DOMAIN m.entries]

\* offer_gossip: what is handed on, what it costs, and whether it was asked for.
offer_gossip(c, m) ==
  LET got       == Received(m)
      parsed    == Cardinality({i \in got.read : m.entries[i] \notin {"refused", "foreign"}})
      own       == got.received = 1 /\ parsed = 1 /\ m.entries[1] = "self"
      solicited == ~own /\ c.getaddr_outstanding
      bucket    == Refilled(c.addr, ADDR_BURST)
      allowed   == bucket.tokens \div REFILL
      kept      == IF solicited THEN parsed ELSE Min({parsed, allowed})
      spent     == IF solicited THEN 0 ELSE kept
  IN  [conn      |-> [c EXCEPT !.addr = [bucket EXCEPT !.tokens = @ - spent * REFILL],
                               !.getaddr_outstanding = @ /\ own],
       unparsed  |-> got.received - parsed,
       spent     |-> spent,
       free      |-> IF solicited THEN 1 ELSE 0]

\* The addresses charged so far.
Charged == IF learned = <<>> THEN 0 ELSE Last(learned).upto

may_answer_getheaders(c) ==
  LET bucket == Refilled(c.getheaders, GETHEADERS_BURST)
  IN  IF bucket.tokens < REFILL
        THEN [c EXCEPT !.getheaders = bucket, !.getheaders_ignored = @ + 1]
        ELSE [c EXCEPT !.getheaders = [bucket EXCEPT !.tokens = @ - REFILL]]

----------------------------------------------------------------------------
(* run(): the timer against the socket *)

Runnable == conn.running /\ conn.writing = "none"

\* An error out of the loop: the connection and its registration are dropped by
\* run_session, which is the next step of the attempt.
EndWith(error) ==
  ended' = error /\ conn' = [conn EXCEPT !.running = FALSE]

\* writer.send: done at once while the peer takes it, else the task waits in it.
Write(c, what) ==
  conn' = IF taking THEN c ELSE [c EXCEPT !.writing = what]

\* The nonces the peer may answer once it has read another ping.
Knows(nonce) ==
  LET all == known \cup {nonce}
  IN  IF Cardinality(all) > MaxKnown THEN all \ {Min(all)} ELSE all

\* Answers still awaited, until one is overdue.
Awaiting(nonce) == IF overdue THEN {} ELSE due \cup {nonce}

send_ping(c) ==
  /\ Write([record_ping(c, now) EXCEPT !.tick = @ + PING_INTERVAL], "ping")
  /\ registry' = refresh(registry, counters(c))
  /\ known' = IF taking THEN Knows(now) ELSE known
  /\ due' = Awaiting(now)
  /\ UNCHANGED ended

\* A missed tick is not skipped: the timer is then behind the clock and fires again.
ping_tick ==
  /\ Runnable /\ now >= conn.tick
  /\ IF ping_timed_out(conn)
       THEN EndWith("PingTimeout") /\ UNCHANGED <<registry, known, due>>
       ELSE send_ping(conn)
  /\ UNCHANGED <<now, inbox, taking, said, stalls, learned, free, answered, heard, overdue>>

handle_message ==
  /\ Runnable /\ inbox # <<>>
  /\ inbox' = Tail(inbox)
  /\ LET m == Head(inbox)
         c == record_message(conn, m.command)
     IN
     CASE m.command = "pong" ->
            conn' = claim_pong(c, m.nonce) /\ UNCHANGED <<ended, learned, free, answered>>
       [] m.command = "ping" ->
            Write(c, "pong") /\ UNCHANGED <<ended, learned, free, answered>>
       [] m.command = "getheaders" ->
            LET asked == may_answer_getheaders(c) IN
            IF asked.getheaders_ignored > c.getheaders_ignored
              THEN conn' = asked /\ UNCHANGED <<ended, learned, free, answered>>
              ELSE /\ Write(asked, "headers")
                   /\ answered' = Append(answered, now)
                   /\ UNCHANGED <<ended, learned, free>>
       [] m.command \in {"addr", "addrv2"} ->
            LET o == offer_gossip(c, m) IN
            /\ conn' = o.conn
            /\ learned' = IF o.spent = 0 THEN learned
                           ELSE Append(learned, [at |-> now, before |-> Charged,
                                                 upto |-> Charged + o.spent])
            /\ free' = free + o.free
            /\ UNCHANGED <<ended, answered>>
       [] m.command = "inv" ->   \* more than MAX_INV_SIZE items
            EndWith("ProtocolViolation") /\ UNCHANGED <<learned, free, answered>>
       [] OTHER -> conn' = c /\ UNCHANGED <<ended, learned, free, answered>>
  /\ UNCHANGED <<now, registry, taking, known, said, stalls, due, heard, overdue>>

\* A write ends because the peer takes it, or fails.  What run() sends before its loop
\* (sendcmpct, getaddr, sendheaders, the locator) is one such write: nothing of the
\* session moves from its first byte to its last, and any of them may fail.
FinishWrite ==
  /\ conn.running /\ conn.writing # "none"
  /\ \/ /\ taking
        /\ conn' = [conn EXCEPT !.writing = "none"]
        /\ known' = IF conn.writing = "ping" THEN Knows(Last(conn.outstanding_pings)) ELSE known
        /\ UNCHANGED ended
     \/ EndWith("Write") /\ UNCHANGED known
  /\ UNCHANGED <<now, registry, inbox, taking, said, stalls, learned, free, answered, due, heard, overdue>>

----------------------------------------------------------------------------
(* The peer and the clock *)

Say(m) ==
  /\ conn.running /\ said < MaxSays /\ Len(inbox) < MaxInbox
  /\ inbox' = Append(inbox, m) /\ said' = said + 1
  /\ UNCHANGED <<now, conn, registry, taking, known, ended, stalls, learned, free, answered, due, heard, overdue>>

\* The peer answers a ping it has read; the answer counts from here on.
Answer(nonce) ==
  /\ conn.running /\ nonce \in known /\ Len(inbox) < MaxInbox
  /\ inbox' = Append(inbox, [command |-> "pong", nonce |-> nonce])
  /\ known' = known \ {nonce} /\ due' = due \ {nonce} /\ heard' = now
  /\ UNCHANGED <<now, conn, registry, taking, ended, said, stalls, learned, free, answered, overdue>>

StopTaking ==
  /\ conn.running /\ taking /\ stalls < MaxStalls /\ said < MaxSays
  /\ taking' = FALSE /\ stalls' = stalls + 1 /\ said' = said + 1
  /\ UNCHANGED <<now, conn, registry, inbox, known, ended, learned, free, answered, due, heard, overdue>>

TakeAgain ==
  /\ conn.running /\ ~taking /\ taking' = TRUE
  /\ UNCHANGED <<now, conn, registry, inbox, known, ended, said, stalls, learned, free, answered, due, heard, overdue>>

\* A read fails or finds the end of the stream; see Transport.
PeerGone(fault) ==
  /\ Runnable /\ inbox = <<>>
  /\ EndWith(fault)
  /\ UNCHANGED <<now, registry, inbox, taking, known, said, stalls, learned, free, answered, due, heard, overdue>>

\* How long a ping may be unanswered without the session being lost over it: until
\* it is forgotten, or until the first tick past the deadline that last_pong started
\* up to a PING_INTERVAL before the ping.
Patience == Min({PING_TIMEOUT - PING_INTERVAL, OUTSTANDING_PINGS * PING_INTERVAL})

Tick ==
  /\ conn.running /\ now < MaxTime
  /\ conn.writing # "none" \/ (inbox = <<>> /\ now < conn.tick)
  /\ ~(conn.writing # "none" /\ taking)
  /\ now' = now + 1
  /\ overdue' = (overdue \/ conn.writing # "none" \/ \E n \in due : now' - n >= Patience)
  /\ due' = IF overdue' THEN {} ELSE due
  /\ UNCHANGED <<conn, registry, inbox, taking, known, ended, said, stalls, learned, free, answered, heard>>

LoopStep == ping_tick \/ handle_message \/ FinishWrite

PeerStep ==
  \/ \E m \in Says \cup Gossips : Say(m)
  \/ \E nonce \in known : Answer(nonce)
  \/ StopTaking \/ TakeAgain

----------------------------------------------------------------------------
(* Properties *)

\* PingTimeout, ping_tick and OUTSTANDING_PINGS: a peer whose answers are in our
\* socket within Patience of each ping, and which takes what we write, is never
\* dropped as silent, whatever else it sends, in whatever order it answers, and
\* although only the last few nonces are remembered.
AnsweringPeerKept == ended = "PingTimeout" => overdue

\* PING_TIMEOUT: "nothing else ends a session with a peer that acknowledges our
\* packets and answers none of them".  No session outlives its peer's last answer by
\* more than the deadline and an interval, however much else the peer sends, pongs
\* nobody asked for included, unless the task sits in a write.
NotHeldOpen ==
  conn.running /\ stalls = 0 =>
    now - heard <= Max({PING_TIMEOUT, PING_INTERVAL}) + PING_INTERVAL

\* offer_gossip: in any stretch of a session the book learns at most the burst and
\* what the bucket earned in it, and only one message is exempt.
LearnsNoFasterThanBucket ==
  /\ free <= 1
  /\ \A i \in DOMAIN learned :
       REFILL * (Charged - learned[i].before) <= REFILL * ADDR_BURST + (now - learned[i].at)

\* may_answer_getheaders: "holds what one peer can draw out of us" to the burst and
\* one answer per REFILL, in any stretch of a session.
AnswersNoFasterThanBucket ==
  \A i \in DOMAIN answered :
    REFILL * (Len(answered) - i + 1) <= REFILL * GETHEADERS_BURST + (now - answered[i])

\* Both buckets hold over every stretch of a session, whatever silence comes before it.
RatesHold == LearnsNoFasterThanBucket /\ AnswersNoFasterThanBucket
=============================================================================
