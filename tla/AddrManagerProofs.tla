-------------------------- MODULE AddrManagerProofs --------------------------
(***************************************************************************)
(* Proofs about the address manager, for every set of addresses, every     *)
(* policy and every bound; and about the ban list it keeps, for any        *)
(* networks and hosts banned in any order: it refuses what was banned, and *)
(* nothing else.                                                           *)
(***************************************************************************)
EXTENDS Addresses, Integers, SequenceTheorems, FiniteSetTheorems, WellFoundedInduction, TLAPS

----------------------------------------------------------------------------
(* The entries that the events of an address leave are entries. *)

\* A jittered delay is a positive number of seconds, whatever it is applied to.
LEMMA JitterPositive ==
  ASSUME NEW delay, NEW d \in jitter(delay)
  PROVE  d \in Nat \ {0}
BY DEF jitter

\* The saturating counters stay in their width.
LEMMA ZeroCount == 0 \in 0..U8Max
BY PolicyAssumption

\* A saturating increment of a u8 counter stays a u8 counter.
LEMMA IncrType ==
  ASSUME NEW n \in 0..U8Max
  PROVE  Incr(n) \in 0..U8Max
BY PolicyAssumption DEF Incr, PMin

\* Entry::new makes an entry.
LEMMA EntryNewType ==
  ASSUME NEW now \in Nat, NEW s \in Services, NEW origin \in Origin
  PROVE  EntryNew(now, s, origin) \in Entry
BY PolicyAssumption DEF EntryNew, Entry, TransportHint

\* Gossip about a known address (ingest) leaves its entry an entry.
LEMMA ReannouncedType ==
  ASSUME NEW e \in Entry, NEW now \in Nat, NEW s \in Services
  PROVE  Reannounced(e, now, s) \in Entry
BY DEF Reannounced, Entry, TransportHint

\* A completed handshake (record_connected) leaves an entry.
LEMMA AfterConnectedType ==
  ASSUME NEW e \in Entry, NEW now \in Nat, NEW s \in Services, NEW v \in {1, 2}
  PROVE  AfterConnected(e, now, s, v) \in Entry
<1>1. HintAfter(e, s, v) \in TransportHint
  BY DEF HintAfter, Entry, TransportHint
<1> QED
  BY <1>1, ZeroCount DEF AfterConnected, Entry

\* A refused v2 handshake (record_v1_only) leaves an entry.
LEMMA AfterV1OnlyType ==
  ASSUME NEW e \in Entry
  PROVE  AfterV1Only(e) \in Entry
BY DEF AfterV1Only, Entry, TransportHint

\* Whatever the outcome, record_ended's counters stay within u8.
LEMMA CountOutcomeType ==
  ASSUME NEW e \in Entry, NEW o \in Outcome
  PROVE  CountOutcome(e, o) \in Entry
<1>1. Incr(e.failures) \in 0..U8Max /\ Incr(e.short_sessions) \in 0..U8Max
  BY IncrType DEF Entry
<1>2. CASE o \in OurFault
  BY <1>2 DEF CountOutcome, OurFault
<1>3. CASE o = "Failed"
  BY <1>1, <1>3 DEF CountOutcome, Entry, OurFault
<1>4. CASE o \in {"OtherChain", "Violated"}
  BY <1>1, <1>4, ZeroCount DEF CountOutcome, Entry, OurFault
<1>5. CASE o \in {"Short", "Stable"}
  BY <1>1, <1>5, ZeroCount DEF CountOutcome, Entry, OurFault
<1> QED
  BY <1>2, <1>3, <1>4, <1>5 DEF Outcome, SessionEnd

\* Whatever delay the jitter gives, record_ended's new schedule leaves an entry.
LEMMA AfterEndedType ==
  ASSUME NEW e \in Entry, NEW now \in Nat, NEW o \in Outcome, NEW x \in AfterEnded(e, now, o)
  PROVE  x \in Entry
<1> DEFINE counted == CountOutcome(e, o)
<1>1. counted \in Entry
  BY CountOutcomeType
<1>2. PICK d \in jitter(BaseDelay(counted, o)) : x = [counted EXCEPT !.next_attempt = now + d]
  BY DEF AfterEnded
<1>3. now + d \in Nat
  BY <1>2, JitterPositive
<1> HIDE DEF counted
<1> QED
  BY <1>1, <1>2, <1>3 DEF Entry

----------------------------------------------------------------------------
(* The operations on the book leave a book. *)

\* Book::new makes a book.
LEMMA EmptyBook == IsBook(Empty)
BY DEF IsBook, Empty

\* Adding an address to a book gives a book.
LEMMA PutBook ==
  ASSUME NEW b, IsBook(b), NEW a \in Addrs, NEW e \in Entry
  PROVE  IsBook(Put(b, a, e))
BY DEF IsBook, Put

\* Eviction, forgetting and purging leave a book.
LEMMA WithoutBook ==
  ASSUME NEW b, IsBook(b), NEW keys
  PROVE  IsBook(Without(b, keys))
BY DEF IsBook, Without

\* Changing the entry of a known address leaves a book.
LEMMA UpdateBook ==
  ASSUME NEW b, IsBook(b), NEW a \in DOMAIN b, NEW e \in Entry
  PROVE  IsBook([b EXCEPT ![a] = e])
BY DEF IsBook

\* insert_manual leaves a book.
LEMMA InsertManualBook ==
  ASSUME NEW b, IsBook(b), NEW now \in Nat, NEW S \in SUBSET Addrs
  PROVE  IsBook(insert_manual(b, now, S))
<1>1. EntryNew(now, 0, "Manual") \in Entry
  BY EntryNewType, ServicesAssumption DEF Origin
<1>2. \A e \in Entry : [e EXCEPT !.origin = "Manual"] \in Entry
  BY DEF Entry, Origin
<1> QED
  BY <1>1, <1>2 DEF IsBook, insert_manual

\* What Manager::apply makes of the message at the head of the channel.
LEMMA ApplyType ==
  ASSUME TypeOK, NEW now \in Nat, life # <<>>, apply(now)
  PROVE  /\ IsBook(entries')
         /\ DOMAIN active' \subseteq Addrs /\ \A a \in DOMAIN active' : active'[a] \in Phase
         /\ life' \in Seq(Lifecycle)
<1> DEFINE m == Head(life)
<1>1. m \in Lifecycle /\ life' \in Seq(Lifecycle)
  BY HeadTailProperties DEF TypeOK, apply
<1>2. CASE m.type = "Connected" /\ record_connected(m, now)
  <2>1. m.addr \in Addrs /\ m.services \in Services /\ m.version \in {1, 2}
    BY <1>1, <1>2 DEF Lifecycle
  <2>2. IsBook(entries')
    BY <1>2, <2>1, AfterConnectedType, UpdateBook DEF record_connected, TypeOK, IsBook
  <2> QED
    BY <1>1, <1>2, <2>1, <2>2 DEF record_connected, TypeOK, Put, Phase
<1>3. CASE m.type = "V1Only" /\ record_v1_only(m)
  <2>1. IsBook(entries')
    BY <1>3, AfterV1OnlyType, UpdateBook DEF record_v1_only, TypeOK, IsBook
  <2> QED
    BY <1>1, <1>3, <2>1 DEF record_v1_only, TypeOK
<1>4. CASE m.type = "Ended" /\ record_ended(m, now)
  <2>1. m.addr \in Addrs /\ m.outcome \in Outcome
    BY <1>1, <1>4 DEF Lifecycle
  <2>2. ASSUME m.addr \in DOMAIN entries, NEW b \in Rescheduled(m, now)
        PROVE  IsBook(b)
    <3>1. PICK e \in AfterEnded(entries[m.addr], now, m.outcome) :
            b = IF forgettable(e, now) THEN Without(entries, {m.addr})
                                       ELSE [entries EXCEPT ![m.addr] = e]
      BY <2>2 DEF Rescheduled
    <3>2. e \in Entry
      BY <2>1, <2>2, <3>1, AfterEndedType DEF TypeOK, IsBook
    <3> HIDE DEF m
    <3> QED
      BY <2>2, <3>1, <3>2, WithoutBook, UpdateBook DEF TypeOK
  <2>3. IsBook(entries')
    BY <1>4, <2>2 DEF record_ended, TypeOK
  <2> QED
    BY <1>1, <1>4, <2>3 DEF record_ended, TypeOK, Without
<1> QED
  BY <1>2, <1>3, <1>4 DEF apply

\* What one gossiped address makes of the book, evictions included.
LEMMA IngestType ==
  ASSUME IsBook(entries), NEW g \in Gossiped, NEW now \in Nat, NEW b \in IngestOne(g, now)
  PROVE  IsBook(b)
<1>1. g.addr \in Addrs /\ EntryNew(now, g.services, "Gossip") \in Entry
  BY EntryNewType DEF Gossiped, Origin
<1>2. CASE ~Acceptable(g.addr)
  BY <1>2 DEF IngestOne
<1>3. CASE Acceptable(g.addr) /\ g.addr \in DOMAIN entries
  <2>1. Reannounced(entries[g.addr], now, g.services) \in Entry
    BY <1>3, ReannouncedType DEF Gossiped, IsBook
  <2> QED
    BY <1>3, <2>1, UpdateBook DEF IngestOne
<1>4. CASE Acceptable(g.addr) /\ g.addr \notin DOMAIN entries
  <2>1. CASE Cardinality(DOMAIN entries) < Capacity
    BY <1>1, <1>4, <2>1, PutBook DEF IngestOne
  <2>2. CASE ~(Cardinality(DOMAIN entries) < Capacity)
    <3>1. PICK victims \in evict_batch(now) : b = Exchange(victims, g, now)
      BY <1>4, <2>2 DEF IngestOne
    <3> QED
      BY <1>1, <3>1, WithoutBook, PutBook DEF Exchange
  <2> QED
    BY <2>1, <2>2
<1> QED
  BY <1>2, <1>3, <1>4

\* Whatever Manager::new reads from the files, the process starts well-typed.
LEMMA StartType ==
  ASSUME TypeOK, NEW book, IsBook(book), Start(book), IsBook(snapshot')
  PROVE  TypeOK'
<1>1. IsBook(entries')
  BY WithoutBook, InsertManualBook, ManagerAssumption DEF Start, TypeOK, purge_banned
<1>2. life' \in Seq(Lifecycle) /\ running' \in [Addrs -> Seq(Task)]
  BY DEF Start
<1>3. mgr' \in [arm : {"select", "drain", "ingest"}, now : Nat, batch : Seq(Gossiped)]
      /\ mgr'.arm # "ingest"
  BY DEF Start, Idle
<1> QED
  BY <1>1, <1>2, <1>3 DEF Start, TypeOK, Empty, Phase

\* The steps of a connection task change its stage or remove it, and send.
LEMMA TaskType ==
  ASSUME TypeOK, NEW a \in Addrs, NEW i \in DOMAIN running[a], TaskStep(a, i)
  PROVE  TypeOK'
<1>1. running[a] \in Seq(Task) /\ i \in 1..Len(running[a]) /\ running[a][i] \in Task
  BY LenProperties, ElementOfSeq DEF TypeOK
<1>2. ASSUME NEW step \in {"v1", "session"}, GoTo(a, i, step)
      PROVE  running' \in [Addrs -> Seq(Task)]
  <2>1. [running[a][i] EXCEPT !.step = step] \in Task
    BY <1>1 DEF Task
  <2>2. [running[a] EXCEPT ![i] = [@ EXCEPT !.step = step]] \in Seq(Task)
    BY <1>1, <2>1, ExceptSeq
  <2> QED
    BY <1>2, <2>2 DEF GoTo, TypeOK
<1>3. ASSUME NEW m \in Lifecycle, Send(m)
      PROVE  life' \in Seq(Lifecycle)
  BY <1>3, AppendProperties DEF Send, TypeOK
<1>4. ASSUME NEW o \in Outcome, Finish(a, i, o)
      PROVE  life' \in Seq(Lifecycle) /\ running' \in [Addrs -> Seq(Task)]
  <2>1. Ended(a, o) \in Lifecycle
    BY <1>4 DEF Ended, Lifecycle
  <2>2. SubSeq(running[a], 1, i - 1) \o SubSeq(running[a], i + 1, Len(running[a])) \in Seq(Task)
    BY <1>1, SubSeqProperties, ConcatProperties, LenProperties
  <2> QED
    BY <1>3, <1>4, <2>1, <2>2 DEF Finish, TypeOK
<1>5. ASSUME life' \in Seq(Lifecycle), running' \in [Addrs -> Seq(Task)], TaskVarsOnly
      PROVE  TypeOK'
  BY <1>5 DEF TypeOK, TaskVarsOnly, IsBook
<1>6. CASE FallBack(a, i)
  <2>1. V1Only(a) \in Lifecycle
    BY DEF V1Only, Lifecycle
  <2> QED
    BY <1>2, <1>3, <1>5, <1>6, <2>1 DEF FallBack
<1>7. ASSUME NEW s \in Services, Handshake(a, i, s)
      PROVE  TypeOK'
  <2> DEFINE v == IF running[a][i].step = "v2" THEN 2 ELSE 1
  <2>1. Connected(a, s, v) \in Lifecycle
    BY <1>1 DEF Connected, Lifecycle, Task
  <2> QED
    BY <1>2, <1>3, <1>5, <1>7, <2>1 DEF Handshake
<1>8. ASSUME NEW o \in Outcome, AttemptFails(a, i, o) \/ SessionEnds(a, i, o)
      PROVE  TypeOK'
  BY <1>4, <1>5, <1>8 DEF AttemptFails, SessionEnds
<1>9. CASE TaskDies(a, i)
  BY <1>4, <1>5, <1>9 DEF TaskDies, Outcome
<1> QED
  BY <1>6, <1>7, <1>8, <1>9 DEF TaskStep

\* pick returns due addresses only, from whichever group they come.
LEMMA PickIsDue ==
  ASSUME NEW now, NEW budget, NEW picks \in pick(now, budget)
  PROVE  picks \subseteq Due(now)
<1> DEFINE manual    == {a \in Due(now) : entries[a].origin = "Manual"}
           reconnect == {a \in Due(now) \ manual : class(entries[a]) = "Good"}
           rest      == Due(now) \ (manual \cup reconnect)
<1>1. PICK M \in Reservoir(manual, budget),
           R \in Reservoir(reconnect, MAX_RECONNECTS_PER_TICK),
           C \in Reservoir(rest, budget) : picks = M \cup R \cup C
  BY DEF pick
<1>2. M \subseteq manual /\ R \subseteq reconnect /\ C \subseteq rest
  BY DEF Reservoir
<1> QED
  BY <1>1, <1>2

\* The manager starts in a type-correct state.
LEMMA InitType == Init => TypeOK
<1> SUFFICES ASSUME Init PROVE TypeOK
  OBVIOUS
<1>1. IsBook(entries) /\ IsBook(snapshot)
  BY EmptyBook, InsertManualBook, ManagerAssumption DEF Init
<1>2. mgr \in [arm : {"select", "drain", "ingest"}, now : Nat, batch : Seq(Gossiped)]
      /\ mgr.arm # "ingest"
  BY DEF Init, Idle
<1> QED
  BY <1>1, <1>2 DEF Init, TypeOK, Empty

\* Every arm of the select loop, every task step and every restart keeps the types.
LEMMA NextType == TypeOK /\ [Next]_vars => TypeOK'
<1> SUFFICES ASSUME TypeOK, [Next]_vars PROVE TypeOK'
  OBVIOUS
<1> USE DEF TypeOK
<1>1. CASE Tick
  <2>1. PICK picks \in pick(clock, Budget) :
          /\ active' = [a \in DOMAIN active \cup picks |->
                          IF a \in picks THEN "Dialing" ELSE active[a]]
          /\ running' = [a \in Addrs |->
                           IF a \in picks THEN Append(running[a], NewTask(entries[a].transport))
                           ELSE running[a]]
    BY <1>1 DEF Tick
  <2>2. picks \subseteq DOMAIN entries
    BY PickIsDue DEF Due
  <2>3. \A a \in picks : NewTask(entries[a].transport) \in Task
    BY <2>2 DEF NewTask, Task, IsBook, Entry
  <2>4. running' \in [Addrs -> Seq(Task)]
    BY <2>1, <2>3, AppendProperties
  <2>5. DOMAIN active' \subseteq Addrs /\ \A a \in DOMAIN active' : active'[a] \in Phase
    BY <2>1, <2>2 DEF IsBook, Phase
  <2> QED
    BY <1>1, <2>4, <2>5 DEF Tick, IsBook
<1>2. CASE RecvLife
  BY <1>2, ApplyType DEF RecvLife, IsBook
<1>3. CASE Drain
  BY <1>3, ApplyType DEF Drain, IsBook
<1>4. CASE DrainDone
  BY <1>4 DEF DrainDone, Idle, IsBook
<1>5. ASSUME NEW batch \in Batches, RecvGossip(batch)
      PROVE  TypeOK'
  <2>1. batch \in Seq(Gossiped) /\ batch # <<>>
    <3>1. PICK n \in 1..MaxBatch : batch \in [1..n -> Gossiped]
      BY Zenon DEF Batches
    <3>2. batch \in Seq(Gossiped) /\ Len(batch) = n /\ n # 0
      BY <3>1
    <3> QED
      BY <3>2
  <2> QED
    BY <1>5, <2>1 DEF RecvGossip, IsBook
<1>6. CASE Ingest
  <2>1. Head(mgr.batch) \in Gossiped /\ Tail(mgr.batch) \in Seq(Gossiped)
    BY <1>6, HeadTailProperties DEF Ingest
  <2>2. IsBook(entries')
    BY <1>6, <2>1, IngestType DEF Ingest
  <2>3. /\ mgr' \in [arm : {"select", "drain", "ingest"}, now : Nat, batch : Seq(Gossiped)]
        /\ mgr'.arm = "ingest" => mgr'.batch # <<>>
    <3> DEFINE batch == mgr.batch
    <3>1. batch \in Seq(Gossiped) /\ batch # <<>>
      BY <1>6 DEF Ingest
    <3>2. Len(batch) # 1 => Tail(batch) # <<>>
      <4>1. Len(batch) \in Nat \ {0}
        BY <3>1, EmptySeq
      <4>2. Len(Tail(batch)) = Len(batch) - 1
        BY <3>1, HeadTailProperties
      <4>3. Tail(batch) = <<>> => Len(Tail(batch)) = 0
        BY EmptySeq
      <4> QED
        BY <4>1, <4>2, <4>3
    <3>3. CASE Len(batch) = 1
      BY <1>6, <3>3 DEF Ingest, AfterIngest, Idle
    <3>4. CASE Len(batch) # 1
      BY <1>6, <2>1, <3>2, <3>4 DEF Ingest, AfterIngest
    <3> QED
      BY <3>3, <3>4
  <2> QED
    BY <1>6, <2>2, <2>3 DEF Ingest, IsBook
<1>7. ASSUME NEW S \in SUBSET OperatorAddrs, AddManual(S)
      PROVE  TypeOK'
  <2>1. IsBook(entries')
    BY <1>7, InsertManualBook, ManagerAssumption DEF AddManual
  <2> QED
    BY <1>7, <2>1 DEF AddManual, IsBook
<1>8. ASSUME NEW net \in BanNets, NEW saved \in BOOLEAN, Ban(net, saved)
      PROVE  TypeOK'
  <2>1. IsBook(entries')
    BY <1>8, WithoutBook DEF Ban, purge_banned
  <2> QED
    BY <1>8, <2>1, ManagerAssumption DEF Ban, IsBook
<1>9. CASE Save
  BY <1>9 DEF Save, IsBook
<1>10. CASE Shutdown
  BY <1>10, StartType DEF Shutdown
<1>11. CASE Crash
  BY <1>11, StartType, EmptyBook DEF Crash
<1>12. ASSUME NEW a \in Addrs, NEW i \in DOMAIN running[a], TaskStep(a, i)
       PROVE  TypeOK'
  BY <1>12, TaskType
<1>13. CASE Advance
  BY <1>13 DEF Advance, IsBook
<1>14. CASE UNCHANGED vars
  BY <1>14 DEF vars, IsBook
<1> QED
  BY <1>1, <1>2, <1>3, <1>4, <1>5, <1>6, <1>7, <1>8, <1>9, <1>10, <1>11, <1>12, <1>13, <1>14
     DEF Next

\* Every variable keeps its type: in particular the counters stay in their width,
\* every schedule is a time, and an ingest loop always has an address to take.
THEOREM TypeCorrect == Spec => []TypeOK
BY InitType, NextType, PTL DEF Spec

----------------------------------------------------------------------------
(* The active set is exact.  OneTaskPerAddress is not inductive: a tick      *)
(* looks at the active set and not at the tasks, so the proof needs to know  *)
(* what a slot stands for.  SlotsMatchTasks says it, for one address:        *)

SlotMatches(a) ==
  /\ Len(running[a]) <= 1
  /\ (a \in DOMAIN active) <=>
       (running[a] # <<>> \/ \E i \in About(a) : life[i].type = "Ended")
  /\ \A i \in About(a) :
       /\ a \in DOMAIN active
       /\ life[i].type = "Ended" => running[a] = <<>> /\ \A j \in About(a) : j <= i

\* SlotsMatchTasks speaks of each address on its own.
LEMMA SlotsByAddress == SlotsMatchTasks <=> \A a \in Addrs : SlotMatches(a)
BY DEF SlotsMatchTasks, SlotMatches

\* Sending puts the message last and moves no other.
LEMMA ChannelSend ==
  ASSUME TypeOK, NEW m \in Lifecycle, Send(m)
  PROVE  /\ DOMAIN life = 1..Len(life) /\ Len(life) \in Nat
         /\ DOMAIN life' = 1..(Len(life) + 1)
         /\ \A i \in 1..Len(life) : life'[i] = life[i]
         /\ life'[Len(life) + 1] = m
BY LenProperties, AppendProperties DEF TypeOK, Send

\* Receiving takes the oldest message and moves the others up by one.
LEMMA ChannelReceive ==
  ASSUME TypeOK, life # <<>>, life' = Tail(life)
  PROVE  /\ DOMAIN life = 1..Len(life) /\ Len(life) \in Nat \ {0}
         /\ Head(life) = life[1]
         /\ DOMAIN life' = 1..(Len(life) - 1)
         /\ \A i \in DOMAIN life' : life'[i] = life[i + 1]
<1>1. Len(life) \in Nat \ {0} /\ DOMAIN life = 1..Len(life)
  BY EmptySeq, LenProperties DEF TypeOK
<1>2. Tail(life) \in Seq(Lifecycle) /\ Len(Tail(life)) = Len(life) - 1
      /\ \A i \in 1..Len(Tail(life)) : Tail(life)[i] = life[i + 1]
  BY HeadTailProperties DEF TypeOK
<1>3. DOMAIN life' = 1..(Len(life) - 1)
  BY <1>2, LenProperties
<1> QED
  BY <1>1, <1>2, <1>3 DEF TypeOK

\* Applying a message about one address does not disturb the slot of another,
\* and leaves its own slot right.
LEMMA ApplySlots ==
  ASSUME TypeOK, SlotsMatchTasks, NEW now, life # <<>>, apply(now), UNCHANGED running
  PROVE  SlotsMatchTasks'
<1> SUFFICES ASSUME NEW a \in Addrs PROVE SlotMatches(a)'
  BY DEF SlotsMatchTasks, SlotMatches
<1> DEFINE m == Head(life)
<1>1. /\ DOMAIN life = 1..Len(life) /\ Len(life) \in Nat \ {0}
      /\ m = life[1]
      /\ DOMAIN life' = 1..(Len(life) - 1)
      /\ \A i \in DOMAIN life' : life'[i] = life[i + 1]
  BY ChannelReceive DEF apply
<1>2. m \in Lifecycle /\ m.addr \in Addrs
  BY HeadTailProperties DEF TypeOK, Lifecycle
<1>3. SlotMatches(a) /\ SlotMatches(m.addr)
  BY <1>2, SlotsByAddress
<1>4. 1 \in About(m.addr) /\ m.addr \in DOMAIN active
  BY <1>1, <1>3 DEF About, SlotMatches
<1>5. \A i \in About(a)' : i + 1 \in About(a) /\ life'[i] = life[i + 1]
  BY <1>1 DEF About
<1>6. \A i \in About(a) : i # 1 => i - 1 \in About(a)' /\ life'[i - 1] = life[i]
  BY <1>1 DEF About
<1>7. \A i \in About(a) \cup About(a)' : i \in Nat
  BY <1>1 DEF About
<1>8. CASE m.type # "Ended"
  <2>1. DOMAIN active' = DOMAIN active
    BY <1>4, <1>8 DEF apply, record_connected, record_v1_only, Put
  <2>2. (\E i \in About(a)' : life'[i].type = "Ended") <=>
        (\E i \in About(a) : life[i].type = "Ended")
    BY <1>1, <1>5, <1>6, <1>8
  <2> QED
    BY <1>3, <1>5, <1>7, <2>1, <2>2 DEF SlotMatches
<1>9. CASE m.type = "Ended" /\ a = m.addr
  <2>1. a \notin DOMAIN active'
    BY <1>9 DEF apply, record_ended, Without
  <2>2. running[a] = <<>> /\ \A j \in About(a) : j <= 1
    BY <1>1, <1>3, <1>4, <1>9 DEF SlotMatches
  <2>3. About(a)' = {}
    BY <1>1, <1>5, <2>2 DEF About
  <2> QED
    BY <1>3, <2>1, <2>2, <2>3 DEF SlotMatches
<1>10. CASE m.type = "Ended" /\ a # m.addr
  <2>1. a \in DOMAIN active' <=> a \in DOMAIN active
    BY <1>10 DEF apply, record_ended, Without
  <2>2. 1 \notin About(a)
    BY <1>1, <1>10 DEF About
  <2>3. (\E i \in About(a)' : life'[i].type = "Ended") <=>
        (\E i \in About(a) : life[i].type = "Ended")
    BY <1>5, <1>6, <2>2
  <2> QED
    BY <1>3, <1>5, <1>7, <2>1, <2>3 DEF SlotMatches
<1> QED
  BY <1>8, <1>9, <1>10

\* A task reports progress while it holds its slot, and its end as it gives the
\* slot back: there is nothing it can send that the active set does not expect.
LEMMA TaskSlots ==
  ASSUME TypeOK, SlotsMatchTasks,
         NEW b \in Addrs, NEW k \in DOMAIN running[b], TaskStep(b, k)
  PROVE  SlotsMatchTasks'
<1> SUFFICES ASSUME NEW a \in Addrs PROVE SlotMatches(a)'
  BY DEF SlotsMatchTasks, SlotMatches
<1>1. SlotMatches(a) /\ SlotMatches(b)
  BY SlotsByAddress
<1>2. running[b] \in Seq(Task) /\ Len(running[b]) = 1 /\ k = 1 /\ running[b] # <<>>
  <2>1. running[b] \in Seq(Task)
    BY DEF TypeOK
  <2>2. Len(running[b]) = 1 /\ k = 1
    <3>1. DOMAIN running[b] = 1..Len(running[b]) /\ Len(running[b]) \in Nat
      BY <2>1, LenProperties
    <3>2. Len(running[b]) <= 1 /\ k \in 1..Len(running[b])
      BY <1>1, <3>1 DEF SlotMatches
    <3>3. \A n \in Nat : \A j \in 1..n : n <= 1 => n = 1 /\ j = 1
      OBVIOUS
    <3> QED
      BY <3>1, <3>2, <3>3
  <2>3. running[b] = <<>> => Len(running[b]) = 0
    BY EmptySeq
  <2> QED
    BY <2>1, <2>2, <2>3
<1>3. b \in DOMAIN active /\ \A i \in About(b) : life[i].type # "Ended"
  BY <1>1, <1>2 DEF SlotMatches
<1>4. ASSUME NEW m \in Lifecycle, m.addr = b, Send(m)
      PROVE  /\ Len(life) \in Nat
             /\ \A i \in About(a) : i \in 1..Len(life) /\ i \in About(a)' /\ life'[i] = life[i]
             /\ life'[Len(life) + 1] = m
             /\ About(a)' = IF a = b THEN About(a) \cup {Len(life) + 1} ELSE About(a)
  BY <1>4, ChannelSend DEF About
<1>5. ASSUME NEW m \in Lifecycle, m.addr = b, m.type # "Ended", Send(m),
             NEW step, GoTo(b, k, step), UNCHANGED active
      PROVE  SlotMatches(a)'
  <2>1. running'[a] = <<>> <=> running[a] = <<>>
    <3>1. CASE a # b
      BY <1>5, <3>1 DEF GoTo, TypeOK
    <3>2. CASE a = b
      <4>1. DOMAIN running'[b] = DOMAIN running[b]
        BY <1>5 DEF GoTo, TypeOK
      <4>2. 1 \in DOMAIN running'[b]
        BY <1>2, <4>1
      <4> QED
        BY <1>2, <3>2, <4>2
    <3> QED
      BY <3>1, <3>2
  <2>2. Len(running'[a]) <= 1
    <3>1. CASE a # b
      BY <1>1, <1>5, <3>1 DEF GoTo, TypeOK, SlotMatches
    <3>2. CASE a = b
      <4>1. running'[b] = [running[b] EXCEPT ![k] = [@ EXCEPT !.step = step]]
        BY <1>5 DEF GoTo, TypeOK
      <4>2. Len(running'[b]) = 1
        BY <1>2, <4>1, LenProperties
      <4> QED
        BY <3>2, <4>2
    <3> QED
      BY <3>1, <3>2
  <2>3. (\E i \in About(a)' : life'[i].type = "Ended") <=>
        (\E i \in About(a) : life[i].type = "Ended")
    BY <1>3, <1>4, <1>5
  <2>4. CASE a # b
    BY <1>1, <1>4, <1>5, <2>1, <2>2, <2>3, <2>4 DEF SlotMatches
  <2>5. CASE a = b
    BY <1>1, <1>3, <1>4, <1>5, <2>1, <2>2, <2>3, <2>5 DEF SlotMatches
  <2> QED
    BY <2>4, <2>5
<1>6. ASSUME NEW o \in Outcome, Finish(b, k, o), UNCHANGED active
      PROVE  SlotMatches(a)'
  <2> DEFINE m == Ended(b, o)
  <2>1. m \in Lifecycle /\ m.addr = b /\ m.type = "Ended" /\ Send(m)
    BY <1>6 DEF Ended, Lifecycle, Finish
  <2>2. running' = [running EXCEPT ![b] = <<>>]
    <3>1. SubSeq(running[b], 1, k - 1) = <<>> /\ SubSeq(running[b], k + 1, Len(running[b])) = <<>>
      BY <1>2, SubSeqEmpty
    <3>2. <<>> \o <<>> = <<>>
      BY ConcatEmptySeq, EmptySeq
    <3> QED
      BY <1>6, <3>1, <3>2 DEF Finish
  <2> HIDE DEF m
  <2>3. CASE a # b
    <3>1. running'[a] = running[a]
      BY <2>2, <2>3 DEF TypeOK
    <3> QED
      BY <1>1, <1>4, <1>6, <2>1, <2>3, <3>1 DEF SlotMatches
  <2>4. CASE a = b
    <3>1. running'[a] = <<>> /\ Len(running'[a]) = 0
      BY <2>2, <2>4, EmptySeq DEF TypeOK
    <3>2. \A i \in About(a)' : life'[i].type = "Ended" <=> i = Len(life) + 1
      BY <1>3, <1>4, <2>1, <2>4
    <3> QED
      BY <1>1, <1>3, <1>4, <1>6, <2>1, <2>4, <3>1, <3>2 DEF SlotMatches
  <2> QED
    BY <2>3, <2>4
<1>7. CASE FallBack(b, k)
  <2>1. V1Only(b) \in Lifecycle /\ V1Only(b).addr = b /\ V1Only(b).type # "Ended"
    BY DEF V1Only, Lifecycle
  <2> QED
    BY <1>5, <1>7, <2>1 DEF FallBack, TaskVarsOnly
<1>8. ASSUME NEW s \in Services, Handshake(b, k, s)
      PROVE  SlotMatches(a)'
  <2> DEFINE v == IF running[b][k].step = "v2" THEN 2 ELSE 1
             m == Connected(b, s, v)
  <2>1. m \in Lifecycle /\ m.addr = b /\ m.type # "Ended"
    <3>1. running[b][k] \in Task
      BY <1>2, LenProperties, ElementOfSeq
    <3> QED
      BY <3>1 DEF Connected, Lifecycle, Task
  <2> QED
    BY <1>5, <1>8, <2>1 DEF Handshake, TaskVarsOnly
<1>9. ASSUME NEW o \in Outcome, AttemptFails(b, k, o) \/ SessionEnds(b, k, o)
      PROVE  SlotMatches(a)'
  BY <1>6, <1>9 DEF AttemptFails, SessionEnds, TaskVarsOnly
<1>10. CASE TaskDies(b, k)
  BY <1>6, <1>10 DEF TaskDies, Outcome, TaskVarsOnly
<1> QED
  BY <1>7, <1>8, <1>9, <1>10 DEF TaskStep

\* A tick dials only addresses without a slot, and these have no task.
LEMMA TickSlots ==
  ASSUME TypeOK, SlotsMatchTasks, Tick
  PROVE  SlotsMatchTasks'
<1>1. PICK picks \in pick(clock, Budget) :
        /\ active' = [a \in DOMAIN active \cup picks |->
                        IF a \in picks THEN "Dialing" ELSE active[a]]
        /\ running' = [a \in Addrs |->
                         IF a \in picks THEN Append(running[a], NewTask(entries[a].transport))
                         ELSE running[a]]
  BY DEF Tick
<1>2. picks \cap DOMAIN active = {}
  BY PickIsDue DEF Due
<1>3. life' = life
  BY DEF Tick
<1> SUFFICES ASSUME NEW a \in Addrs PROVE SlotMatches(a)'
  BY DEF SlotsMatchTasks, SlotMatches
<1>4. SlotMatches(a)
  BY SlotsByAddress
<1>5. About(a)' = About(a)
  BY <1>3 DEF About
<1>6. CASE a \in picks
  <2> DEFINE t == NewTask(entries[a].transport)
  <2>1. running[a] = <<>> /\ About(a) = {}
    BY <1>2, <1>4, <1>6 DEF SlotMatches
  <2>2. running'[a] = Append(<<>>, t)
    BY <1>1, <1>6, <2>1
  <2>3. Len(Append(<<>>, t)) = 1 /\ Append(<<>>, t) # <<>>
    OBVIOUS
  <2>4. a \in DOMAIN active'
    BY <1>1, <1>6
  <2> QED
    BY <1>5, <2>1, <2>2, <2>3, <2>4 DEF SlotMatches
<1>7. CASE a \notin picks
  <2>1. running'[a] = running[a] /\ (a \in DOMAIN active' <=> a \in DOMAIN active)
    BY <1>1, <1>7
  <2> QED
    BY <1>3, <1>4, <1>5, <2>1 DEF SlotMatches
<1> QED
  BY <1>6, <1>7

\* A fresh process: no task, no slot, an empty channel.
LEMMA FreshSlots ==
  /\ Init => SlotsMatchTasks
  /\ \A book : Start(book) => SlotsMatchTasks'
BY EmptySeq DEF Init, Start, SlotsMatchTasks, About, Empty

\* Every step of the manager, of a task or of the process keeps SlotsMatchTasks.
LEMMA NextSlots == TypeOK /\ SlotsMatchTasks /\ [Next]_vars => SlotsMatchTasks'
<1> SUFFICES ASSUME TypeOK, SlotsMatchTasks, [Next]_vars PROVE SlotsMatchTasks'
  OBVIOUS
<1>1. CASE Tick
  BY <1>1, TickSlots
<1>2. CASE RecvLife \/ Drain
  BY <1>2, ApplySlots DEF RecvLife, Drain
<1>3. CASE Shutdown \/ Crash
  BY <1>3, FreshSlots DEF Shutdown, Crash
<1>4. ASSUME NEW a \in Addrs, NEW i \in DOMAIN running[a], TaskStep(a, i)
      PROVE  SlotsMatchTasks'
  BY <1>4, TaskSlots
<1>5. ASSUME UNCHANGED <<active, life, running>>
      PROVE  SlotsMatchTasks'
  BY <1>5 DEF SlotsMatchTasks, About
<1>6. CASE DrainDone \/ Ingest \/ Save \/ Advance \/ UNCHANGED vars
  BY <1>5, <1>6 DEF DrainDone, Ingest, Save, Advance, vars
<1>7. CASE \/ \E batch \in Batches : RecvGossip(batch)
           \/ \E S \in SUBSET OperatorAddrs \ {{}} : AddManual(S)
           \/ \E net \in BanNets, saved \in BOOLEAN : Ban(net, saved)
  BY <1>5, <1>7 DEF RecvGossip, AddManual, Ban
<1> QED
  BY <1>1, <1>2, <1>3, <1>4, <1>6, <1>7 DEF Next

\* The active set is exact in every reachable state, for any number of addresses,
\* tasks and messages in flight: no slot leaks and none is released early.
THEOREM SlotsAreExact == Spec => []SlotsMatchTasks
BY FreshSlots, InitType, NextType, NextSlots, PTL DEF Spec

\* "Never dial an address we already have a task for" (pick, book.rs).
THEOREM NeverDialledTwice == Spec => []OneTaskPerAddress
<1>1. SlotsMatchTasks => OneTaskPerAddress
  BY DEF SlotsMatchTasks, OneTaskPerAddress
<1> QED
  BY <1>1, SlotsAreExact, PTL

----------------------------------------------------------------------------
(* What a step may do to an entry.  The action properties compare an entry  *)
(* before and after a step, so they need every way the book changes one.    *)

\* The time a message taken from the lifecycle channel is applied with.
ApplyTime == IF mgr.arm = "select" THEN clock ELSE mgr.now

\* The message at the head of the channel is the end of a's task.
EndsNext(a) == life # <<>> /\ Head(life).type = "Ended" /\ Head(life).addr = a

\* The book's view of a stays what it was, or follows one event about a.
EntryStep(a) ==
  \/ entries'[a] = entries[a]
  \/ entries'[a] = [entries[a] EXCEPT !.origin = "Manual"]
  \/ \E s \in Services : entries'[a] = Reannounced(entries[a], mgr.now, s)
  \/ \E s \in Services, v \in {1, 2} :
       entries'[a] = AfterConnected(entries[a], ApplyTime, s, v)
  \/ entries'[a] = AfterV1Only(entries[a])
  \/ EndsNext(a) /\ \E o \in Outcome : entries'[a] \in AfterEnded(entries[a], ApplyTime, o)

\* Purging and evicting (retain, remove) leave the other entries as they are.
LEMMA WithoutKeeps ==
  ASSUME NEW b, NEW keys, NEW a \in DOMAIN Without(b, keys)
  PROVE  a \in DOMAIN b /\ Without(b, keys)[a] = b[a]
BY DEF Without

\* Manager::apply changes the entry of the address the message is about, if any.
LEMMA ApplyEntryStep ==
  ASSUME TypeOK, life # <<>>, apply(ApplyTime), NEW a \in DOMAIN entries, a \in DOMAIN entries'
  PROVE  EntryStep(a)
<1> DEFINE m == Head(life)
<1>1. m \in Lifecycle
  BY HeadTailProperties DEF TypeOK
<1>2. CASE m.type = "Connected" /\ record_connected(m, ApplyTime)
  <2>1. m.services \in Services /\ m.version \in {1, 2}
    BY <1>1, <1>2 DEF Lifecycle
  <2> QED
    BY <1>2, <2>1 DEF record_connected, EntryStep
<1>3. CASE m.type = "V1Only" /\ record_v1_only(m)
  BY <1>3 DEF record_v1_only, EntryStep
<1>4. CASE m.type = "Ended" /\ record_ended(m, ApplyTime)
  <2>1. CASE m.addr \in DOMAIN entries
    <3>1. m.outcome \in Outcome
      BY <1>1, <1>4 DEF Lifecycle
    <3>2. PICK e \in AfterEnded(entries[m.addr], ApplyTime, m.outcome) :
            entries' = IF forgettable(e, ApplyTime) THEN Without(entries, {m.addr})
                                                    ELSE [entries EXCEPT ![m.addr] = e]
      BY <1>4, <2>1 DEF record_ended, Rescheduled
    <3>3. CASE a = m.addr
      <4>1. entries'[a] = e
        BY <3>2, <3>3 DEF Without
      <4> QED
        BY <1>4, <3>1, <3>3, <4>1 DEF EntryStep, EndsNext
    <3>4. CASE a # m.addr
      BY <3>2, <3>4 DEF Without, EntryStep
    <3> QED
      BY <3>3, <3>4
  <2>2. CASE m.addr \notin DOMAIN entries
    BY <1>4, <2>2 DEF record_ended, EntryStep
  <2> QED
    BY <2>1, <2>2
<1> QED
  BY <1>2, <1>3, <1>4 DEF apply

\* evict_batch removes entries that no task uses and the operator did not add, and
\* of these only ones past their forget rule or never reached.
LEMMA EvictedAreEvictable ==
  ASSUME NEW now, NEW victims \in evict_batch(now)
  PROVE  /\ victims \subseteq Evictable
         /\ \A a \in victims : forgettable(entries[a], now) \/ class(entries[a]) = "Unknown"
<1> DEFINE old     == {a \in Evictable : forgettable(entries[a], now)}
           unknown == {a \in Evictable \ old : class(entries[a]) = "Unknown"}
<1>1. CASE Cardinality(old) >= EvictionSize
  <2>1. victims \in Reservoir(old, EvictionSize)
    BY <1>1 DEF evict_batch
  <2> QED
    BY <2>1 DEF Reservoir
<1>2. CASE ~(Cardinality(old) >= EvictionSize)
  <2>1. PICK S \in Reservoir(unknown, EvictionSize - Cardinality(old)) : victims = old \cup S
    BY <1>2 DEF evict_batch
  <2> QED
    BY <2>1 DEF Reservoir
<1> QED
  BY <1>1, <1>2

\* Taking in a gossiped address (ingest_batch) makes a new entry, which is due at
\* once, or announces a known one again; the others stay as they are.
LEMMA IngestEntry ==
  ASSUME TypeOK, Ingest, NEW a \in DOMAIN entries'
  PROVE  IF a \in DOMAIN entries
         THEN \/ entries'[a] = entries[a]
              \/ \E s \in Services : entries'[a] = Reannounced(entries[a], mgr.now, s)
         ELSE entries'[a].next_attempt = 0
<1> DEFINE g == Head(mgr.batch)
<1>1. g.addr \in Addrs /\ g.services \in Services /\ entries' \in IngestOne(g, mgr.now)
  <2>1. mgr.batch \in Seq(Gossiped) /\ mgr.batch # <<>>
    BY DEF Ingest, TypeOK
  <2>2. g \in Gossiped
    BY <2>1, HeadTailProperties
  <2> QED
    BY <2>2 DEF Ingest, Gossiped
<1> HIDE DEF g
<1>2. CASE ~Acceptable(g.addr)
  BY <1>1, <1>2 DEF IngestOne
<1>3. CASE Acceptable(g.addr) /\ g.addr \in DOMAIN entries
  <2>1. entries' = [entries EXCEPT ![g.addr] = Reannounced(@, mgr.now, g.services)]
    BY <1>1, <1>3 DEF IngestOne
  <2>2. CASE a = g.addr
    <3>1. entries'[a] = Reannounced(entries[a], mgr.now, g.services)
      BY <1>3, <2>1, <2>2
    <3> QED
      BY <1>1, <1>3, <2>2, <3>1
  <2>3. CASE a # g.addr
    BY <2>1, <2>3
  <2> QED
    BY <2>2, <2>3
<1>4. CASE Acceptable(g.addr) /\ g.addr \notin DOMAIN entries
  <2> DEFINE new == EntryNew(mgr.now, g.services, "Gossip")
  <2>1. \E victims \in SUBSET DOMAIN entries :
          entries' = entries \/ entries' = Put(Without(entries, victims), g.addr, new)
    <3>1. CASE Cardinality(DOMAIN entries) < Capacity
      <4>1. entries' = Put(entries, g.addr, new)
        BY <1>1, <1>4, <3>1 DEF IngestOne
      <4>2. Put(entries, g.addr, new) = Put(Without(entries, {}), g.addr, new)
        BY DEF Put, Without
      <4> QED
        BY <4>1, <4>2
    <3>2. CASE ~(Cardinality(DOMAIN entries) < Capacity)
      <4>1. PICK victims \in evict_batch(mgr.now) : entries' = Exchange(victims, g, mgr.now)
        BY <1>1, <1>4, <3>2 DEF IngestOne
      <4>2. victims \subseteq DOMAIN entries
        BY EvictedAreEvictable DEF Evictable
      <4> QED
        BY <4>1, <4>2 DEF Exchange
    <3> QED
      BY <3>1, <3>2
  <2>2. new.next_attempt = 0
    BY DEF EntryNew
  <2> HIDE DEF new
  <2>3. PICK victims \in SUBSET DOMAIN entries :
          entries' = entries \/ entries' = Put(Without(entries, victims), g.addr, new)
    BY <2>1
  <2>4. CASE entries' = entries
    BY <2>4
  <2>5. CASE entries' = Put(Without(entries, victims), g.addr, new)
    <3>1. CASE a = g.addr
      BY <1>4, <2>2, <2>5, <3>1 DEF Put
    <3>2. CASE a # g.addr
      BY <2>5, <3>2 DEF Put, Without
    <3> QED
      BY <3>1, <3>2
  <2> QED
    BY <2>3, <2>4, <2>5
<1> QED
  BY <1>2, <1>3, <1>4

\* While the process lives, an entry that stays in the book follows EntryStep.
LEMMA NextEntryStep ==
  ASSUME TypeOK, [Next]_vars, restarts' = restarts,
         NEW a \in DOMAIN entries, a \in DOMAIN entries'
  PROVE  EntryStep(a)
<1>1. CASE RecvLife
  BY <1>1, ApplyEntryStep DEF RecvLife, ApplyTime
<1>2. CASE Drain
  BY <1>2, ApplyEntryStep DEF Drain, ApplyTime
<1>3. CASE Ingest
  BY <1>3, IngestEntry DEF EntryStep
<1>4. ASSUME NEW S \in SUBSET OperatorAddrs, AddManual(S)
      PROVE  EntryStep(a)
  BY <1>4 DEF AddManual, insert_manual, EntryStep
<1>5. ASSUME NEW net \in BanNets, NEW saved \in BOOLEAN, Ban(net, saved)
      PROVE  EntryStep(a)
  <2>1. entries'[a] = entries[a]
    BY <1>5, WithoutKeeps DEF Ban, purge_banned
  <2> QED
    BY <2>1 DEF EntryStep
<1>6. CASE Shutdown \/ Crash
  BY <1>6 DEF Shutdown, Crash, Start, TypeOK
<1>7. ASSUME UNCHANGED entries
      PROVE  EntryStep(a)
  BY <1>7 DEF EntryStep
<1>8. CASE Tick \/ DrainDone \/ Save \/ Advance \/ UNCHANGED vars
  BY <1>7, <1>8 DEF Tick, DrainDone, Save, Advance, vars
<1>9. CASE \E batch \in Batches : RecvGossip(batch)
  BY <1>7, <1>9 DEF RecvGossip
<1>10. ASSUME NEW b \in Addrs, NEW i \in DOMAIN running[b], TaskStep(b, i)
       PROVE  EntryStep(a)
  BY <1>7, <1>10
     DEF TaskStep, FallBack, Handshake, AttemptFails, SessionEnds, TaskDies, TaskVarsOnly
<1> QED
  BY <1>1, <1>2, <1>3, <1>4, <1>5, <1>6, <1>8, <1>9, <1>10 DEF Next

----------------------------------------------------------------------------
\* "Never downgraded by a failure" (TransportHint::V2, book.rs): no event about an
\* address that has spoken v2 changes that verdict, not even a v1 session, gossip
\* with other services or a V1Only report that arrives late.
THEOREM V2VerdictIsKept == Spec => V2NeverDowngraded
<1> DEFINE Kept == restarts' = restarts =>
                     \A a \in DOMAIN entries \cap DOMAIN entries' :
                       entries[a].transport = "V2" => entries'[a].transport = "V2"
<1>1. ASSUME NEW a \in Addrs, entries[a] \in Entry, EntryStep(a), entries[a].transport = "V2"
      PROVE  entries'[a].transport = "V2"
  <2> DEFINE e == entries[a]
  <2>1. \A s \in Services, v \in {1, 2} : HintAfter(e, s, v) = "V2"
    BY <1>1 DEF HintAfter
  <2>2. CASE entries'[a] = e \/ entries'[a] = [e EXCEPT !.origin = "Manual"]
    BY <1>1, <2>2 DEF Entry
  <2>3. ASSUME NEW s \in Services, entries'[a] = Reannounced(e, mgr.now, s)
        PROVE  entries'[a].transport = "V2"
    BY <1>1, <2>3 DEF Reannounced, Entry
  <2>4. ASSUME NEW s \in Services, NEW v \in {1, 2}, entries'[a] = AfterConnected(e, ApplyTime, s, v)
        PROVE  entries'[a].transport = "V2"
    BY <1>1, <2>1, <2>4 DEF AfterConnected, Entry
  <2>5. CASE entries'[a] = AfterV1Only(e)
    BY <1>1, <2>5 DEF AfterV1Only
  <2>6. ASSUME NEW o \in Outcome, entries'[a] \in AfterEnded(e, ApplyTime, o)
        PROVE  entries'[a].transport = "V2"
    <3>1. CountOutcome(e, o).transport = "V2" /\ CountOutcome(e, o) \in Entry
      BY <1>1, CountOutcomeType DEF CountOutcome, Entry, Outcome, SessionEnd, OurFault
    <3> QED
      BY <2>6, <3>1 DEF AfterEnded, Entry
  <2> HIDE DEF e
  <2> QED
    BY <1>1, <2>2, <2>3, <2>4, <2>5, <2>6 DEF EntryStep, e
<1>2. TypeOK /\ [Next]_vars => [Kept]_vars
  BY <1>1, NextEntryStep DEF TypeOK, IsBook
<1> QED
  BY <1>2, TypeCorrect, PTL DEF Spec, V2NeverDowngraded
----------------------------------------------------------------------------
(* Waits.  record_ended computes the next attempt from the time its message  *)
(* is applied with, which may be older than the wall clock.  It can still    *)
(* only move a schedule back, because an address with a task was due when it *)
(* was dialled, and nothing reschedules it while it has one:                 *)

WaitsOfActiveAreOver ==
  /\ mgr.arm # "select" => mgr.now <= clock
  /\ \A a \in DOMAIN active \cap DOMAIN entries : entries[a].next_attempt <= ApplyTime

\* An event about an address other than the end of its task leaves its schedule.
LEMMA ScheduleOfStep ==
  ASSUME NEW a \in Addrs, entries[a] \in Entry, EntryStep(a), ApplyTime \in Nat
  PROVE  \/ entries'[a].next_attempt = entries[a].next_attempt
         \/ EndsNext(a) /\ entries'[a].next_attempt >= ApplyTime
<1> DEFINE e == entries[a]
<1>1. CASE entries'[a] = e \/ entries'[a] = [e EXCEPT !.origin = "Manual"]
  BY <1>1 DEF Entry
<1>2. CASE \E s \in Services : entries'[a] = Reannounced(e, mgr.now, s)
  BY <1>2 DEF Reannounced, Entry
<1>3. CASE \E s \in Services, v \in {1, 2} : entries'[a] = AfterConnected(e, ApplyTime, s, v)
  BY <1>3 DEF AfterConnected, Entry
<1>4. CASE entries'[a] = AfterV1Only(e)
  BY <1>4 DEF AfterV1Only, Entry
<1>5. ASSUME EndsNext(a), NEW o \in Outcome, entries'[a] \in AfterEnded(e, ApplyTime, o)
      PROVE  EndsNext(a) /\ entries'[a].next_attempt >= ApplyTime
  <2>1. CountOutcome(e, o) \in Entry
    BY CountOutcomeType
  <2>2. PICK d \in jitter(BaseDelay(CountOutcome(e, o), o)) :
          entries'[a] = [CountOutcome(e, o) EXCEPT !.next_attempt = ApplyTime + d]
    BY <1>5 DEF AfterEnded
  <2>3. entries'[a].next_attempt = ApplyTime + d /\ d \in Nat
    BY <2>1, <2>2, JitterPositive DEF Entry
  <2> QED
    BY <1>5, <2>3
<1> HIDE DEF e
<1> QED
  BY <1>1, <1>2, <1>3, <1>4, <1>5 DEF EntryStep, e

\* A step keeps the waits of active addresses over.
LEMMA NextWaits ==
  ASSUME TypeOK, SlotsMatchTasks, WaitsOfActiveAreOver, [Next]_vars
  PROVE  WaitsOfActiveAreOver'
<1> USE DEF WaitsOfActiveAreOver
<1>1. CASE Tick
  <2>1. PICK picks \in pick(clock, Budget) :
          active' = [a \in DOMAIN active \cup picks |->
                       IF a \in picks THEN "Dialing" ELSE active[a]]
    BY <1>1 DEF Tick
  <2>2. \A a \in picks : entries[a].next_attempt <= clock
    BY PickIsDue DEF Due
  <2> QED
    BY <1>1, <2>1, <2>2 DEF Tick, ApplyTime
<1>2. CASE RecvLife \/ Drain
  <2>1. apply(ApplyTime) /\ life # <<>> /\ mgr'.arm = "drain" /\ mgr'.now = ApplyTime /\ clock' = clock
    BY <1>2 DEF RecvLife, Drain, ApplyTime, TypeOK
  <2>2. ApplyTime <= clock /\ ApplyTime \in Nat /\ ApplyTime' = ApplyTime
    BY <1>2, <2>1 DEF ApplyTime, TypeOK, RecvLife, Drain
  <2>3. ASSUME NEW a \in DOMAIN active' \cap DOMAIN entries'
        PROVE  entries'[a].next_attempt <= ApplyTime
    <3> DEFINE m == Head(life)
    <3>1. a \in DOMAIN active
      <4>1. m = life[1] /\ 1 \in DOMAIN life /\ m.addr \in Addrs
        <5>1. 1 \in DOMAIN life /\ m = life[1] /\ m \in Lifecycle
          BY <2>1, ChannelReceive, HeadTailProperties DEF TypeOK, apply
        <5> QED
          BY <5>1 DEF Lifecycle
      <4>2. m.addr \in DOMAIN active
        BY <4>1 DEF SlotsMatchTasks, About
      <4> QED
        BY <2>1, <4>2
           DEF apply, record_connected, record_v1_only, record_ended, Put, Without
    <3>2. a \in DOMAIN entries /\ a \in Addrs /\ entries[a] \in Entry
      <4>1. DOMAIN entries' \subseteq DOMAIN entries
        BY <2>1 DEF apply, record_connected, record_v1_only, record_ended, Rescheduled, Without
      <4> QED
        BY <4>1 DEF TypeOK, IsBook
    <3>3. ~EndsNext(a)
      BY <2>1 DEF EndsNext, apply, record_connected, record_v1_only, record_ended, Without
    <3>4. entries'[a].next_attempt = entries[a].next_attempt
      BY <2>1, <2>2, <3>2, <3>3, ApplyEntryStep, ScheduleOfStep
    <3> QED
      BY <3>1, <3>2, <3>4
  <2> QED
    BY <2>1, <2>2, <2>3
<1>3. CASE DrainDone
  BY <1>3 DEF DrainDone, ApplyTime, Idle, TypeOK, IsBook, Entry
<1>4. ASSUME NEW batch \in Batches, RecvGossip(batch)
      PROVE  WaitsOfActiveAreOver'
  BY <1>4 DEF RecvGossip, ApplyTime, TypeOK
<1>5. CASE Ingest
  <2>1. /\ active' = active /\ clock' = clock
        /\ ApplyTime \in Nat /\ ApplyTime' \in Nat /\ ApplyTime <= ApplyTime'
        /\ mgr'.arm # "select" => mgr'.now <= clock'
    BY <1>5 DEF Ingest, AfterIngest, ApplyTime, Idle, TypeOK
  <2>2. ASSUME NEW a \in DOMAIN active \cap DOMAIN entries'
        PROVE  entries'[a].next_attempt <= ApplyTime
    <3>1. CASE a \in DOMAIN entries
      <4>1. entries[a] \in Entry
        BY <3>1 DEF TypeOK, IsBook
      <4>2. entries'[a].next_attempt = entries[a].next_attempt
        BY <1>5, <2>2, <3>1, <4>1, IngestEntry DEF Reannounced, Entry
      <4> QED
        BY <2>2, <3>1, <4>2
    <3>2. CASE a \notin DOMAIN entries
      <4>1. entries'[a].next_attempt = 0
        BY <1>5, <2>2, <3>2, IngestEntry
      <4> QED
        BY <2>1, <4>1
    <3> QED
      BY <3>1, <3>2
  <2>3. \A a \in DOMAIN active' \cap DOMAIN entries' : entries'[a].next_attempt \in Nat
    <3>1. TypeOK'
      BY NextType, <1>5 DEF Next
    <3> QED
      BY <3>1 DEF TypeOK, IsBook, Entry
  <2>4. \A a \in DOMAIN active' \cap DOMAIN entries' : entries'[a].next_attempt <= ApplyTime'
    BY <2>1, <2>2, <2>3
  <2> QED
    BY <2>1, <2>4
<1>6. ASSUME NEW S \in SUBSET OperatorAddrs, AddManual(S)
      PROVE  WaitsOfActiveAreOver'
  <2>1. ASSUME NEW a \in DOMAIN entries'
        PROVE  entries'[a].next_attempt = IF a \in DOMAIN entries THEN entries[a].next_attempt ELSE 0
    BY <1>6 DEF AddManual, insert_manual, EntryNew, TypeOK, IsBook, Entry
  <2>2. active' = active /\ ApplyTime' = ApplyTime /\ clock' = clock /\ mgr' = mgr
        /\ ApplyTime \in Nat
    BY <1>6 DEF AddManual, ApplyTime, TypeOK
  <2> QED
    BY <2>1, <2>2
<1>7. ASSUME NEW net \in BanNets, NEW saved \in BOOLEAN, Ban(net, saved)
      PROVE  WaitsOfActiveAreOver'
  BY <1>7, WithoutKeeps DEF Ban, purge_banned, ApplyTime
<1>8. CASE Shutdown \/ Crash
  BY <1>8 DEF Shutdown, Crash, Start, Empty, Idle
<1>9. CASE Advance
  BY <1>9 DEF Advance, ApplyTime, TypeOK, IsBook, Entry
<1>10. ASSUME UNCHANGED <<clock, entries, active, mgr>>
       PROVE  WaitsOfActiveAreOver'
  BY <1>10 DEF ApplyTime
<1>11. CASE Save \/ UNCHANGED vars
  BY <1>10, <1>11 DEF Save, vars
<1>12. ASSUME NEW b \in Addrs, NEW i \in DOMAIN running[b], TaskStep(b, i)
       PROVE  WaitsOfActiveAreOver'
  BY <1>10, <1>12
     DEF TaskStep, FallBack, Handshake, AttemptFails, SessionEnds, TaskDies, TaskVarsOnly
<1> QED
  BY <1>1, <1>2, <1>3, <1>4, <1>5, <1>6, <1>7, <1>8, <1>9, <1>11, <1>12 DEF Next

\* No report or gossip moves an address to an earlier time (Entry::next_attempt): the wait is
\* waited out, although the drain loop of the lifecycle arm and the loop of
\* ingest_batch go on using the time they began with.
THEOREM WaitsAreKept == Spec => ScheduleNeverMovesForward
<1> DEFINE Kept == restarts' = restarts =>
                     \A a \in DOMAIN entries \cap DOMAIN entries' :
                       entries'[a].next_attempt >= entries[a].next_attempt
<1>1. Init => WaitsOfActiveAreOver
  BY DEF Init, Empty, Idle, WaitsOfActiveAreOver
<1>2. TypeOK /\ SlotsMatchTasks /\ WaitsOfActiveAreOver /\ [Next]_vars => [Kept]_vars
  <2> SUFFICES ASSUME TypeOK, SlotsMatchTasks, WaitsOfActiveAreOver, [Next]_vars,
                      restarts' = restarts, NEW a \in DOMAIN entries \cap DOMAIN entries'
               PROVE  entries'[a].next_attempt >= entries[a].next_attempt
    OBVIOUS
  <2>1. entries[a] \in Entry /\ a \in Addrs /\ ApplyTime \in Nat
    BY DEF TypeOK, IsBook, ApplyTime
  <2>2. CASE entries'[a].next_attempt = entries[a].next_attempt
    BY <2>1, <2>2 DEF Entry
  <2>3. CASE EndsNext(a) /\ entries'[a].next_attempt >= ApplyTime
    <3>1. Head(life) = life[1] /\ 1 \in DOMAIN life
      BY <2>3, EmptySeq, LenProperties DEF EndsNext, TypeOK
    <3>2. a \in DOMAIN active
      BY <2>1, <2>3, <3>1 DEF SlotsMatchTasks, About, EndsNext
    <3>3. entries[a].next_attempt <= ApplyTime
      BY <3>2 DEF WaitsOfActiveAreOver
    <3>4. entries'[a] \in Entry
      BY NextType DEF TypeOK, IsBook
    <3> QED
      BY <2>1, <2>3, <3>3, <3>4 DEF Entry
  <2> QED
    BY <2>1, <2>2, <2>3, NextEntryStep, ScheduleOfStep
<1> QED
  BY <1>1, <1>2, TypeCorrect, SlotsAreExact, NextWaits, PTL DEF Spec, ScheduleNeverMovesForward

----------------------------------------------------------------------------
\* Making room in a full book (evict_batch) never costs an address that is in use, one
\* the operator added, or one that was reached and is not past its forget rule.
THEOREM KnownPeersAreSpared == Spec => EvictionSparesKnownPeers
<1> DEFINE Spared == mgr.arm = "ingest" /\ mgr'.arm # "drain" /\ restarts' = restarts =>
                       \A a \in DOMAIN entries \ DOMAIN entries' :
                         /\ a \notin DOMAIN active
                         /\ entries[a].origin = "Gossip"
                         /\ entries[a].last_success > 0 => forgettable(entries[a], mgr.now)
<1>1. TypeOK /\ [Next]_vars => [Spared]_vars
  <2> SUFFICES ASSUME TypeOK, [Next]_vars, mgr.arm = "ingest", restarts' = restarts,
                      NEW a \in DOMAIN entries \ DOMAIN entries'
               PROVE  /\ a \notin DOMAIN active
                      /\ entries[a].origin = "Gossip"
                      /\ entries[a].last_success > 0 => forgettable(entries[a], mgr.now)
    OBVIOUS
  <2>1. Ingest
    BY DEF Next, vars, Tick, RecvLife, Drain, DrainDone, RecvGossip, AddManual, Ban, Save,
           Shutdown, Crash, Start, TypeOK, Advance,
           TaskStep, FallBack, Handshake, AttemptFails, SessionEnds, TaskDies, TaskVarsOnly
  <2>2. PICK victims \in evict_batch(mgr.now) : a \in victims
    <3> DEFINE g == Head(mgr.batch)
    <3>1. entries' \in IngestOne(g, mgr.now)
      BY <2>1 DEF Ingest
    <3> HIDE DEF g
    <3>2. Acceptable(g.addr) /\ g.addr \notin DOMAIN entries
      BY <3>1 DEF IngestOne
    <3>3. ~(Cardinality(DOMAIN entries) < Capacity)
      BY <3>1, <3>2 DEF IngestOne, Put
    <3>4. PICK victims \in evict_batch(mgr.now) : entries' = Exchange(victims, g, mgr.now)
      BY <3>1, <3>2, <3>3 DEF IngestOne
    <3> QED
      BY <3>4 DEF Exchange, Put, Without
  <2>3. entries[a] \in Entry
    BY DEF TypeOK, IsBook
  <2>4. class(entries[a]) = "Unknown" => entries[a].last_success = 0
    BY <2>3 DEF class, classify, Entry
  <2> QED
    BY <2>2, <2>3, <2>4, EvictedAreEvictable DEF Evictable, Entry, Origin
<1> QED
  BY <1>1, TypeCorrect, PTL DEF Spec, EvictionSparesKnownPeers

----------------------------------------------------------------------------
(* Bans.  ConfirmedBanSurvives is about the list in memory, a restart reads *)
(* the file; the invariant ties both to what was confirmed.                 *)

BansOnFile == banFile \subseteq bans /\ acked \subseteq UNION banFile

\* "Atomically, so an RPC ban survives a crash" (Banlist::save): a ban confirmed
\* without a save error is in effect for good.
THEOREM ConfirmedBansAreKept == Spec => []ConfirmedBanSurvives
<1>1. Init => BansOnFile
  BY DEF Init, BansOnFile
<1>2. BansOnFile /\ [Next]_vars => BansOnFile'
  <2> SUFFICES ASSUME BansOnFile, [Next]_vars PROVE BansOnFile'
    OBVIOUS
  <2>1. ASSUME NEW net \in BanNets, NEW saved \in BOOLEAN, Ban(net, saved)
        PROVE  BansOnFile'
    BY <2>1 DEF Ban, BansOnFile
  <2>2. CASE Shutdown \/ Crash
    BY <2>2 DEF Shutdown, Crash, Start, BansOnFile
  <2>3. ASSUME UNCHANGED <<bans, banFile, acked>>
        PROVE  BansOnFile'
    BY <2>3 DEF BansOnFile
  <2> QED
    BY <2>1, <2>2, <2>3
       DEF Next, vars, Tick, RecvLife, Drain, DrainDone, RecvGossip, Ingest, AddManual, Save,
           Advance, TaskStep, FallBack, Handshake, AttemptFails, SessionEnds, TaskDies,
           TaskVarsOnly
<1>3. BansOnFile => ConfirmedBanSurvives
  BY DEF BansOnFile, ConfirmedBanSurvives, Banned, contains
<1> QED
  BY <1>1, <1>2, <1>3, PTL DEF Spec

----------------------------------------------------------------------------
(* The ban list as an operator writes it: one list *)

Nets(list)  == UNION {e.nets : e \in list}
Hosts(list) == UNION {e.hosts : e \in list}

\* Whether any of these networks and names refuses an address.
Refuses(nets, hosts, a) ==
  IF ip(a) # <<>> THEN \E net \in nets : IpNet_contains(net, ip(a)) ELSE Display(a) \in hosts

\* A list refuses what its networks and names refuse (Banlist::contains).
LEMMA ContainsByName ==
  ASSUME NEW list, NEW a
  PROVE  Banlist_contains(list, a) <=> Refuses(Nets(list), Hosts(list), a)
BY DEF Banlist_contains, Refuses, Nets, Hosts

\* Adding an entry adds its networks and names, wherever they were before
\* (Banlist::add).
LEMMA AddCovers ==
  ASSUME NEW list, NEW entry
  PROVE  /\ Nets(Banlist_add(list, entry)) = Nets(list) \cup entry.nets
         /\ Hosts(Banlist_add(list, entry)) = Hosts(list) \cup entry.hosts
<1> DEFINE new == [nets |-> entry.nets \ Nets(list), hosts |-> entry.hosts \ Hosts(list)]
<1>1. Banlist_add(list, entry) = IF new.nets = {} /\ new.hosts = {} THEN list ELSE list \cup {new}
  BY DEF Banlist_add, Nets, Hosts
<1>2. CASE new.nets = {} /\ new.hosts = {}
  BY <1>1, <1>2
<1>3. CASE ~(new.nets = {} /\ new.hosts = {})
  <2>1. Banlist_add(list, entry) = list \cup {new}
    BY <1>1, <1>3
  <2>2. /\ Nets(list \cup {new}) = Nets(list) \cup new.nets
        /\ Hosts(list \cup {new}) = Hosts(list) \cup new.hosts
    <3> HIDE DEF new
    <3> QED
      BY DEF Nets, Hosts
  <2> QED
    BY <2>1, <2>2
<1> QED
  BY <1>2, <1>3

----------------------------------------------------------------------------
(* A list built entry by entry *)

\* The lists after each of the first n entries.
Lists(order, n, f) ==
  f = [i \in 0..n |-> IF i = 0 THEN {} ELSE Banlist_add(f[i - 1], order[i])]

\* There are such lists, whatever the entries: the least number of entries without them
\* would have them from the number before.
LEMMA ListsExist ==
  ASSUME NEW order, NEW n \in Nat
  PROVE  \E f : Lists(order, n, f)
<1> DEFINE Bad == {k \in Nat : ~\E f : Lists(order, k, f)}
<1>1. SUFFICES ASSUME Bad # {} PROVE FALSE
  OBVIOUS
<1>2. PICK k \in Bad : \A m \in Bad : ~(<<m, k>> \in OpToRel(<, Nat))
  BY <1>1, WFMin, NatLessThanWellFounded
<1>3. \A m \in Nat : m < k => \E f : Lists(order, m, f)
  BY <1>2 DEF OpToRel
<1>4. CASE k = 0
  <2> DEFINE g == [i \in 0..0 |-> {}]
  <2>1. Lists(order, 0, g)
    <3>1. g = [i \in 0..0 |-> g[i]] /\ \A i \in 0..0 : i = 0 /\ g[i] = {}
      OBVIOUS
    <3>2. \A i \in 0..0 : g[i] = IF i = 0 THEN {} ELSE Banlist_add(g[i - 1], order[i])
      BY <3>1, Zenon
    <3> HIDE DEF g
    <3> QED
      BY <3>1, <3>2, Zenon DEF Lists
  <2> QED
    BY <1>2, <1>4, <2>1
<1>5. CASE k # 0
  <2>0. k \in Nat /\ k - 1 \in Nat /\ k - 1 < k
    <3>1. k \in Nat
      BY <1>2, Zenon
    <3> HIDE DEF Bad
    <3> QED
      BY <1>5, <3>1
  <2>1. PICK f : Lists(order, k - 1, f)
    BY <1>3, <2>0, Zenon
  <2> DEFINE g == [i \in 0..k |-> IF i = k THEN Banlist_add(f[k - 1], order[k]) ELSE f[i]]
  <2>2. \A i \in 0..k : g[i] = IF i = 0 THEN {} ELSE Banlist_add(g[i - 1], order[i])
    <3> SUFFICES ASSUME NEW i \in 0..k
                 PROVE  g[i] = IF i = 0 THEN {} ELSE Banlist_add(g[i - 1], order[i])
      OBVIOUS
    <3>1. \A j \in 0..(k - 1) : f[j] = IF j = 0 THEN {} ELSE Banlist_add(f[j - 1], order[j])
      BY <2>1, Zenon DEF Lists
    <3>2. k \in Nat /\ i \in Nat
      <4> HIDE DEF g, Bad
      <4> QED
        BY <2>0
    <3>3. CASE i = k
      <4>1. g[k] = Banlist_add(f[k - 1], order[k]) /\ k - 1 \in 0..k /\ k - 1 # k
        BY <1>5, <3>2
      <4>2. g[k - 1] = f[k - 1]
        BY <4>1
      <4> HIDE DEF g
      <4> QED
        BY <1>5, <3>3, <4>1, <4>2, Zenon
    <3>4. CASE i # k /\ i = 0
      BY <3>1, <3>2, <3>4
    <3>5. CASE i # k /\ i # 0
      <4>1. i \in 0..(k - 1) /\ i - 1 \in 0..k /\ i - 1 # k
        BY <3>2, <3>5
      <4> QED
        BY <3>1, <3>5, <4>1
    <3> QED
      BY <3>3, <3>4, <3>5
  <2>3. Lists(order, k, g)
    <3>1. g = [i \in 0..k |-> g[i]]
      OBVIOUS
    <3> HIDE DEF g
    <3> QED
      BY <2>2, <3>1 DEF Lists
  <2> QED
    BY <1>2, <2>3
<1> QED
  BY <1>4, <1>5

\* ListOf is the last of the lists, and has what any of its entries has.
LEMMA ListIsAll ==
  ASSUME NEW order, NEW n \in Nat, Len(order) = n
  PROVE  /\ \A x : x \in Nets(ListOf(order)) <=> \E i \in 1..n : x \in order[i].nets
         /\ \A x : x \in Hosts(ListOf(order)) <=> \E i \in 1..n : x \in order[i].hosts
<1> DEFINE f == CHOOSE list : Lists(order, n, list)
<1>1. Lists(order, n, f)
  BY ListsExist
<1>2. ListOf(order) = f[n]
  BY Zenon DEF ListOf, Lists
<1> HIDE DEF f
<1>3. f[0] = {} /\ \A i \in 1..n : f[i] = Banlist_add(f[i - 1], order[i])
  <2>1. \A i \in 0..n : f[i] = IF i = 0 THEN {} ELSE Banlist_add(f[i - 1], order[i])
    BY <1>1 DEF Lists
  <2>2. 0 \in 0..n /\ \A i \in 1..n : i \in 0..n /\ i # 0
    OBVIOUS
  <2> QED
    BY <2>1, <2>2, Zenon
<1> DEFINE Has(i) == /\ \A x : x \in Nets(f[i]) <=> \E j \in 1..i : x \in order[j].nets
                     /\ \A x : x \in Hosts(f[i]) <=> \E j \in 1..i : x \in order[j].hosts
           Bad == {i \in 0..n : ~Has(i)}
<1>4. Has(0)
  BY <1>3 DEF Nets, Hosts
<1>5. ASSUME NEW i \in 1..n, Has(i - 1)
      PROVE  Has(i)
  <2>1. /\ Nets(f[i]) = Nets(f[i - 1]) \cup order[i].nets
        /\ Hosts(f[i]) = Hosts(f[i - 1]) \cup order[i].hosts
    BY <1>3, AddCovers
  <2>2. \A j : j \in 1..i <=> j \in 1..(i - 1) \/ j = i
    OBVIOUS
  <2>3. /\ \A x : x \in Nets(f[i]) <=> x \in Nets(f[i - 1]) \/ x \in order[i].nets
        /\ \A x : x \in Hosts(f[i]) <=> x \in Hosts(f[i - 1]) \/ x \in order[i].hosts
    BY <2>1
  <2> QED
    BY <1>5, <2>2, <2>3, Zenon
<1>6. Has(n)
  <2> HIDE DEF Has
  <2>1. SUFFICES ASSUME Bad # {} PROVE FALSE
    OBVIOUS
  <2>2. Bad \in SUBSET Nat
    OBVIOUS
  <2>3. PICK k \in Bad : \A m \in Bad : ~(<<m, k>> \in OpToRel(<, Nat))
    BY <2>1, <2>2, WFMin, NatLessThanWellFounded
  <2>4. k \in 0..n /\ ~Has(k) /\ k # 0
    BY <1>4, <2>3
  <2>5. k - 1 \in 0..n /\ k - 1 < k /\ k \in 1..n
    BY <2>4
  <2>6. Has(k - 1)
    <3>1. <<k - 1, k>> \in OpToRel(<, Nat)
      BY <2>4, <2>5 DEF OpToRel
    <3>2. k - 1 \notin Bad
      BY <2>3, <3>1, Zenon
    <3> QED
      BY <2>5, <3>2, Zenon
  <2> QED
    BY <1>5, <2>4, <2>5, <2>6
<1> QED
  BY <1>2, <1>6

----------------------------------------------------------------------------
(* The list and the bans in force *)

\* One entry on its own refuses what its networks and names refuse.
LEMMA OneEntry ==
  ASSUME NEW entry, NEW a
  PROVE  Banlist_contains({entry}, a) <=> Refuses(entry.nets, entry.hosts, a)
BY DEF Banlist_contains, Refuses

\* However the operator's bans overlap and in whatever order they were given, the list
\* refuses an address if and only if a ban in force covers it (Banlist::add "skipping
\* networks and hosts already covered", Banlist::contains).
THEOREM ListIsTheBans == Spec => []ListRefusesWhatWasBanned
<1>1. TypeOK => ListRefusesWhatWasBanned
  <2> DEFINE inForce == {entry \in ban_add(BanTexts) : Covered(entry) \in bans}
             n == Cardinality(inForce)
  <2> SUFFICES ASSUME TypeOK, NEW order \in [1..n -> inForce],
                      \A i, j \in 1..n : order[i] = order[j] => i = j, NEW a \in Addrs
               PROVE  Banlist_contains(ListOf(order), a) <=> a \in UNION bans
    BY Zenon DEF ListRefusesWhatWasBanned
  <2>1. IsFiniteSet(inForce) /\ n \in Nat
    <3>1. IsFiniteSet(ban_add(BanTexts))
      <4> DEFINE T == {t \in BanTexts : BanEntry(t.nets, t.hosts) # <<>>}
                 b == [t \in T |-> BanEntry(t.nets, t.hosts)[1]]
      <4>1. ban_add(BanTexts) = {BanEntry(t.nets, t.hosts)[1] : t \in T}
        BY DEF ban_add, Some
      <4>2. b \in Surjection(T, ban_add(BanTexts))
        BY <4>1 DEF Surjection
      <4>3. IsFiniteSet(T)
        BY AddressesAssumption, FS_Subset
      <4> QED
        BY <4>2, <4>3, FS_Surjection
    <3>2. inForce \subseteq ban_add(BanTexts)
      OBVIOUS
    <3> QED
      BY <3>1, <3>2, FS_Subset, FS_CardinalityType
  <2> HIDE DEF n, inForce
  <2>2. \A entry \in inForce : \E i \in 1..n : order[i] = entry
    <3>1. order \in Injection(1..n, inForce)
      BY DEF Injection, IsInjective
    <3>2. IsFiniteSet(1..n) /\ Cardinality(1..n) = n
      BY <2>1, FS_Interval
    <3>3. order \in Surjection(1..n, inForce)
      BY <2>1, <3>1, <3>2, FS_Injection DEF n
    <3> QED
      BY <3>3 DEF Surjection
  <2>3. Len(order) = n
    BY <2>1
  <2>4. /\ Nets(ListOf(order)) = Nets(inForce)
        /\ Hosts(ListOf(order)) = Hosts(inForce)
    <3>1. /\ \A x : x \in Nets(inForce) <=> \E i \in 1..n : x \in order[i].nets
          /\ \A x : x \in Hosts(inForce) <=> \E i \in 1..n : x \in order[i].hosts
      BY <2>2 DEF Nets, Hosts
    <3>2. /\ \A x : x \in Nets(ListOf(order)) <=> \E i \in 1..n : x \in order[i].nets
          /\ \A x : x \in Hosts(ListOf(order)) <=> \E i \in 1..n : x \in order[i].hosts
      BY <2>1, <2>3, ListIsAll, Zenon
    <3> QED
      BY <3>1, <3>2
  <2>5. Banlist_contains(ListOf(order), a) <=> \E entry \in inForce : Banlist_contains({entry}, a)
    <3>1. Refuses(Nets(inForce), Hosts(inForce), a)
            <=> \E entry \in inForce : Refuses(entry.nets, entry.hosts, a)
      BY DEF Refuses, Nets, Hosts
    <3> QED
      BY <2>4, <3>1, ContainsByName, OneEntry, Zenon
  <2>6. a \in UNION bans <=> \E entry \in inForce : a \in Covered(entry)
    <3>1. bans \subseteq BanNets
      BY DEF TypeOK
    <3> QED
      BY <3>1, AddressesAssumption DEF inForce
  <2> QED
    BY <2>5, <2>6 DEF Covered
<1> QED
  BY <1>1, TypeCorrect, PTL
=============================================================================
