----------------------------- MODULE AddrManager -----------------------------
(***************************************************************************)
(* The address manager task (observer/src/addresses/mod.rs), the book it   *)
(* owns (book.rs), and the connection tasks it starts (connection.rs).     *)
(*                                                                         *)
(* The manager is one task with a select loop; nothing it owns is shared.  *)
(* Connection tasks are single-shot and run concurrently with it.  They    *)
(* talk to it only through the lifecycle channel, an unbounded FIFO, so    *)
(* everything the manager believes about a task may be out of date.        *)
(*                                                                         *)
(* Two of the select arms are loops during which tasks go on running:      *)
(* draining the lifecycle channel and ingesting a batch of gossip.  Both   *)
(* use the time read when the arm was entered.  They are modelled one      *)
(* message or address per step, with the other arms shut out by mgr.arm.   *)
(*                                                                         *)
(* Time is in coarse units; the wall clock never steps backwards here.     *)
(***************************************************************************)
EXTENDS AddrBook, Sequences

CONSTANTS
  Addrs,            \* the peer addresses of the instance
  Routable,         \* the ones PeerAddr::is_routable accepts
  Enabled,          \* the ones on a network the operator enabled
  Bootstrap,        \* the configured bootstrap addresses
  OperatorAddrs,    \* the addresses the operator may add over RPC
  BanNets,          \* the networks and hosts the operator may ban, as sets of addresses
  PossibleOutcomes, \* the outcomes the environment produces
  Capacity,         \* Config.capacity
  EVICTION_BATCH, EVICTION_BATCH_SHARE,
  DialsPerTick,     \* Config.dials_per_tick
  MaxDialing,       \* Config.max_dialing
  MAX_RECONNECTS_PER_TICK,
  MaxNow,           \* bound: the clock stops here
  MaxBatch,         \* bound: the longest gossip batch
  MaxRestarts       \* bound: how often the process stops and starts again

ASSUME ManagerAssumption ==
  /\ IsFiniteSet(Addrs)
  /\ Routable \subseteq Addrs /\ Enabled \subseteq Addrs /\ Bootstrap \subseteq Addrs
  /\ OperatorAddrs \subseteq Addrs
  /\ BanNets \subseteq SUBSET Addrs
  /\ PossibleOutcomes \subseteq Outcome /\ "Failed" \in PossibleOutcomes
  /\ Capacity \in Nat /\ DialsPerTick \in Nat /\ MaxDialing \in Nat
  /\ EVICTION_BATCH \in Nat \ {0} /\ EVICTION_BATCH_SHARE \in Nat \ {0}
  /\ MAX_RECONNECTS_PER_TICK \in Nat
  /\ MaxNow \in Nat \ {0} /\ MaxBatch \in Nat /\ MaxRestarts \in Nat

VARIABLES
  clock,     \* unix_now()
  entries,   \* Book.entries
  active,    \* Book.active: addresses with a task, as far as the manager knows
  bans,      \* Banlist.entries
  life,      \* the lifecycle channel
  running,   \* the connection tasks of each address, oldest first
  mgr,       \* which select arm is executing, its time, the gossip still to take in
  snapshot,  \* addresses.bin
  banFile,   \* banlist.json
  acked,     \* history: addresses whose ban was confirmed as written to disk
  restarts   \* how often the process was restarted

vars == <<clock, entries, active, bans, life, running, mgr, snapshot, banFile,
          acked, restarts>>

----------------------------------------------------------------------------
Gossiped == [addr : Addrs, services : Services]

\* Lifecycle messages.
Connected(a, services, version) ==
  [type |-> "Connected", addr |-> a, services |-> services, version |-> version]
V1Only(a) == [type |-> "V1Only", addr |-> a]
Ended(a, outcome) == [type |-> "Ended", addr |-> a, outcome |-> outcome]

Lifecycle ==
  [type : {"Connected"}, addr : Addrs, services : Services, version : {1, 2}]
    \cup [type : {"V1Only"}, addr : Addrs]
    \cup [type : {"Ended"}, addr : Addrs, outcome : Outcome]

\* A connection task: the hint it was given, and which of its three stages it
\* is in: connecting and handshaking over v2, over v1, or running a session.
Task == [hint : TransportHint, step : {"v2", "v1", "session"}]
NewTask(hint) == [hint |-> hint, step |-> IF hint = "V1Only" THEN "v1" ELSE "v2"]

Empty == [a \in {} |-> {}]
Idle  == [arm |-> "select", now |-> 0, batch |-> <<>>]

IsBook(book) ==
  DOMAIN book \subseteq Addrs /\ \A a \in DOMAIN book : book[a] \in Entry

contains(list, a) == \E net \in list : a \in net
Banned(a) == contains(bans, a)

\* What a Reservoir of size k may hold after being offered every member of S.
Reservoir(S, k) == {T \in SUBSET S : Cardinality(T) = PMin(k, Cardinality(S))}

DialingCount == Cardinality({a \in DOMAIN active : active[a] = "Dialing"})

purge_banned(book, list) == Without(book, {a \in DOMAIN book : contains(list, a)})

insert_manual(book, now, addrs) ==
  [a \in DOMAIN book \cup addrs |->
     IF a \notin addrs THEN book[a]
     ELSE IF a \in DOMAIN book THEN [book[a] EXCEPT !.origin = "Manual"]
     ELSE EntryNew(now, 0, "Manual")]

----------------------------------------------------------------------------
(* Eviction *)

EvictionSize ==
  PMax(PMin(EVICTION_BATCH, Capacity \div EVICTION_BATCH_SHARE), 1)

\* Mutation: an eviction pass that does not look at the active set.
Evictable_IgnoresActive == {a \in DOMAIN entries : entries[a].origin # "Manual"}

Evictable ==
  {a \in DOMAIN entries \ DOMAIN active : entries[a].origin # "Manual"}

\* The sets of entries one pass of evict_batch may remove: entries past their
\* forget rule first, unknown ones at random for what is left of the batch.
evict_batch(now) ==
  LET old     == {a \in Evictable : forgettable(entries[a], now)}
      unknown == {a \in Evictable \ old : class(entries[a]) = "Unknown"}
  IN  IF Cardinality(old) >= EvictionSize
      THEN Reservoir(old, EvictionSize)
      ELSE {old \cup S : S \in Reservoir(unknown, EvictionSize - Cardinality(old))}

----------------------------------------------------------------------------
(* Manager::tick and Book::pick *)

\* Mutations: pick without one of its filters.
Due_IgnoresActive(now) ==
  {a \in DOMAIN entries : entries[a].next_attempt <= now /\ a \in Enabled /\ ~Banned(a)}
Due_IgnoresSchedule(now) ==
  {a \in DOMAIN entries \ DOMAIN active : a \in Enabled /\ ~Banned(a)}

Due(now) ==
  {a \in DOMAIN entries \ DOMAIN active :
     /\ entries[a].next_attempt <= now
     /\ a \in Enabled
     /\ ~Banned(a)}

\* What pick may return: manual addresses up to the budget, reconnects up to
\* their own cap, and as many of the rest as the budget allows.  How allocate
\* divides the budget between the classes is left open here (see DialBudget).
pick(now, budget) ==
  LET manual    == {a \in Due(now) : entries[a].origin = "Manual"}
      reconnect == {a \in Due(now) \ manual : class(entries[a]) = "Good"}
      rest      == Due(now) \ (manual \cup reconnect)
  IN  {M \cup R \cup C : M \in Reservoir(manual, budget),
                         R \in Reservoir(reconnect, MAX_RECONNECTS_PER_TICK),
                         C \in Reservoir(rest, budget)}

Budget == PMin(DialsPerTick, PMax(MaxDialing - DialingCount, 0))

\* The dial timer fires: pick, mark every pick Dialing, spawn a task for each.
Tick ==
  /\ mgr.arm = "select"
  /\ \E picks \in pick(clock, Budget) :
       /\ active' = [a \in DOMAIN active \cup picks |->
                       IF a \in picks THEN "Dialing" ELSE active[a]]
       /\ running' = [a \in Addrs |->
                        IF a \in picks THEN Append(running[a], NewTask(entries[a].transport))
                        ELSE running[a]]
  /\ UNCHANGED <<clock, entries, bans, life, mgr, snapshot, banFile, acked, restarts>>

----------------------------------------------------------------------------
(* The lifecycle arm *)

record_connected(m, now) ==
  /\ active' = Put(active, m.addr, "Connected")
  /\ entries' = IF m.addr \in DOMAIN entries
                THEN [entries EXCEPT ![m.addr] = AfterConnected(@, now, m.services, m.version)]
                ELSE entries

record_v1_only(m) ==
  /\ entries' = IF m.addr \in DOMAIN entries
                THEN [entries EXCEPT ![m.addr] = AfterV1Only(@)]
                ELSE entries
  /\ UNCHANGED active

\* What record_ended may leave of the book, for an address it holds.
Rescheduled(m, now) ==
  {IF forgettable(e, now) THEN Without(entries, {m.addr}) ELSE [entries EXCEPT ![m.addr] = e]
     : e \in AfterEnded(entries[m.addr], now, m.outcome)}

\* Mutation: the early return for an address that has left the book comes before
\* the slot is released.
record_ended_ReturnsEarly(m, now) ==
  IF m.addr \in DOMAIN entries
  THEN active' = Without(active, {m.addr}) /\ entries' \in Rescheduled(m, now)
  ELSE UNCHANGED <<active, entries>>

record_ended(m, now) ==
  /\ active' = Without(active, {m.addr})
  /\ IF m.addr \in DOMAIN entries THEN entries' \in Rescheduled(m, now)
                                  ELSE UNCHANGED entries

\* Manager::apply on the message at the head of the channel.
apply(now) ==
  LET m == Head(life)
  IN  /\ \/ m.type = "Connected" /\ record_connected(m, now)
         \/ m.type = "V1Only"    /\ record_v1_only(m)
         \/ m.type = "Ended"     /\ record_ended(m, now)
      /\ life' = Tail(life)

\* The arm is taken: the first message is applied, then the drain loop runs.
RecvLife ==
  /\ mgr.arm = "select" /\ life # <<>>
  /\ apply(clock)
  /\ mgr' = [mgr EXCEPT !.arm = "drain", !.now = clock]
  /\ UNCHANGED <<clock, bans, running, snapshot, banFile, acked, restarts>>

Drain ==
  /\ mgr.arm = "drain" /\ life # <<>>
  /\ apply(mgr.now)
  /\ UNCHANGED <<clock, bans, running, mgr, snapshot, banFile, acked, restarts>>

\* try_recv found the channel empty: back to the select.
DrainDone ==
  /\ mgr.arm = "drain" /\ life = <<>>
  /\ mgr' = Idle
  /\ UNCHANGED <<clock, entries, active, bans, life, running, snapshot, banFile, acked, restarts>>

----------------------------------------------------------------------------
(* The gossip arm *)

Batches == UNION {[1..n -> Gossiped] : n \in 1..MaxBatch}

RecvGossip(batch) ==
  /\ mgr.arm = "select"
  /\ mgr' = [arm |-> "ingest", now |-> clock, batch |-> batch]
  /\ UNCHANGED <<clock, entries, active, bans, life, running, snapshot, banFile, acked, restarts>>

Acceptable(a) == a \in Routable /\ ~Banned(a)

\* A new address enters a full book only in exchange for at least one entry.
Exchange(victims, g, now) ==
  IF victims = {} THEN entries
  ELSE Put(Without(entries, victims), g.addr, EntryNew(now, g.services, "Gossip"))

\* What taking in one gossiped address may leave of the book.
IngestOne(g, now) ==
  CASE ~Acceptable(g.addr) -> {entries}
    [] Acceptable(g.addr) /\ g.addr \in DOMAIN entries ->
         {[entries EXCEPT ![g.addr] = Reannounced(@, now, g.services)]}
    [] OTHER ->
         IF Cardinality(DOMAIN entries) < Capacity
         THEN {Put(entries, g.addr, EntryNew(now, g.services, "Gossip"))}
         ELSE {Exchange(victims, g, now) : victims \in evict_batch(now)}

\* Mutation: the arm is not left after the last address.
AfterIngest_Stays == [mgr EXCEPT !.batch = Tail(@)]
AfterIngest == IF Len(mgr.batch) = 1 THEN Idle ELSE [mgr EXCEPT !.batch = Tail(@)]

Ingest ==
  /\ mgr.arm = "ingest"
  /\ entries' \in IngestOne(Head(mgr.batch), mgr.now)
  /\ mgr' = AfterIngest
  /\ UNCHANGED <<clock, active, bans, life, running, snapshot, banFile, acked, restarts>>

----------------------------------------------------------------------------
(* The command arm.  Stats, Inspect, DueNext and BanList change nothing. *)

AddManual(addrs) ==
  /\ mgr.arm = "select"
  /\ entries' = insert_manual(entries, clock, addrs)
  /\ UNCHANGED <<clock, active, bans, life, running, mgr, snapshot, banFile, acked, restarts>>

\* Mutation: the list is written before the new entry is added to it.
Ban_SavesFirst(net, saved) ==
  /\ mgr.arm = "select"
  /\ bans' = bans \cup {net}
  /\ entries' = IF net \in bans THEN entries ELSE purge_banned(entries, bans')
  /\ IF saved THEN banFile' = bans /\ acked' = acked \cup net
              ELSE UNCHANGED <<banFile, acked>>
  /\ UNCHANGED <<clock, active, life, running, mgr, snapshot, restarts>>

\* The ban takes effect in memory whether or not the list can be written; the
\* reply says which.  Tasks that are already running are left alone.
Ban(net, saved) ==
  /\ mgr.arm = "select"
  /\ bans' = bans \cup {net}
  /\ entries' = IF net \in bans THEN entries ELSE purge_banned(entries, bans')
  /\ IF saved THEN banFile' = bans' /\ acked' = acked \cup net
              ELSE UNCHANGED <<banFile, acked>>
  /\ UNCHANGED <<clock, active, life, running, mgr, snapshot, restarts>>

\* The save timer.  A write that fails leaves the previous file: no step.  A
\* snapshot that no restart will read is not told apart, hence the bound.
Save ==
  /\ mgr.arm = "select" /\ restarts < MaxRestarts
  /\ snapshot' = entries
  /\ UNCHANGED <<clock, entries, active, bans, life, running, mgr, banFile, acked, restarts>>

----------------------------------------------------------------------------
(* Stopping and starting.  Tasks, channels and the active set are memory. *)

\* Manager::new on what the files hold, then the bootstrap addresses.
Start(book) ==
  /\ entries' = insert_manual(purge_banned(book, banFile), clock, Bootstrap)
  /\ bans' = banFile
  /\ active' = Empty
  /\ life' = <<>>
  /\ running' = [a \in Addrs |-> <<>>]
  /\ mgr' = Idle
  /\ restarts < MaxRestarts
  /\ restarts' = restarts + 1
  /\ UNCHANGED <<clock, banFile, acked>>

\* The shutdown arm saves the book; if that fails the old snapshot is read.
Shutdown ==
  /\ mgr.arm = "select"
  /\ snapshot' = entries
  /\ Start(entries)

\* A crash, or a shutdown whose save failed, restarts from the last snapshot;
\* a snapshot that cannot be read counts as empty.
Crash ==
  /\ \E book \in {snapshot, Empty} : Start(book)
  /\ UNCHANGED snapshot

----------------------------------------------------------------------------
(* Connection tasks *)

Send(m) == life' = Append(life, m)

TaskVarsOnly == UNCHANGED <<clock, entries, active, bans, mgr, snapshot, banFile, acked, restarts>>

GoTo(a, i, step) == running' = [running EXCEPT ![a][i].step = step]

\* Mutation: a bounded channel, whose try_send drops the message when it is full.
Finish_TrySend(a, i, outcome) ==
  /\ running' = [running EXCEPT ![a] = SubSeq(@, 1, i - 1) \o SubSeq(@, i + 1, Len(@))]
  /\ IF Len(life) < 2 THEN Send(Ended(a, outcome)) ELSE UNCHANGED life

\* The end guard is dropped: the task is gone, and the manager is told.
Finish(a, i, outcome) ==
  /\ running' = [running EXCEPT ![a] = SubSeq(@, 1, i - 1) \o SubSeq(@, i + 1, Len(@))]
  /\ Send(Ended(a, outcome))

\* Detecting: TCP worked and v2 did not, which is reported before v1 is tried.
FallBack(a, i) ==
  /\ running[a][i] = NewTask("Unknown")
  /\ GoTo(a, i, "v1")
  /\ Send(V1Only(a))
  /\ TaskVarsOnly

\* The version handshake completed.
Handshake(a, i, services) ==
  /\ running[a][i].step \in {"v2", "v1"}
  /\ GoTo(a, i, "session")
  /\ Send(Connected(a, services, IF running[a][i].step = "v2" THEN 2 ELSE 1))
  /\ TaskVarsOnly

\* The attempt failed before there was a session: at TCP level, in a handshake
\* with nothing to fall back to, or by a timeout.
AttemptFails(a, i, outcome) ==
  /\ running[a][i].step \in {"v2", "v1"}
  /\ outcome \in PossibleOutcomes \cap ({"Failed"} \cup OurFault)
  /\ Finish(a, i, outcome)
  /\ TaskVarsOnly

SessionEnds(a, i, outcome) ==
  /\ running[a][i].step = "session"
  /\ outcome \in PossibleOutcomes \cap SessionEnd
  /\ Finish(a, i, outcome)
  /\ TaskVarsOnly

\* A panic or an abort: the guard is dropped without an outcome.
TaskDies(a, i) ==
  /\ Finish(a, i, "Failed")
  /\ TaskVarsOnly

TaskStep(a, i) ==
  \/ FallBack(a, i)
  \/ \E s \in Services : Handshake(a, i, s)
  \/ \E o \in Outcome : AttemptFails(a, i, o)
  \/ \E o \in Outcome : SessionEnds(a, i, o)
  \/ TaskDies(a, i)

----------------------------------------------------------------------------
Advance ==
  /\ clock < MaxNow
  /\ clock' = clock + 1
  /\ UNCHANGED <<entries, active, bans, life, running, mgr, snapshot, banFile, acked, restarts>>

Init ==
  /\ clock = 1
  /\ entries = insert_manual(Empty, 1, Bootstrap)
  /\ active = Empty
  /\ bans = {}
  /\ life = <<>>
  /\ running = [a \in Addrs |-> <<>>]
  /\ mgr = Idle
  /\ snapshot = Empty
  /\ banFile = {}
  /\ acked = {}
  /\ restarts = 0

Next ==
  \/ Tick
  \/ RecvLife \/ Drain \/ DrainDone
  \/ \E batch \in Batches : RecvGossip(batch)
  \/ Ingest
  \/ \E S \in SUBSET OperatorAddrs \ {{}} : AddManual(S)
  \/ \E net \in BanNets, saved \in BOOLEAN : Ban(net, saved)
  \/ Save
  \/ Shutdown
  \/ Crash
  \/ \E a \in Addrs : \E i \in DOMAIN running[a] : TaskStep(a, i)
  \/ Advance

Spec == Init /\ [][Next]_vars

\* An attempt that has no session yet moves on: every stage of it has a timeout.
Resolve(a) ==
  \E i \in DOMAIN running[a] :
    \/ FallBack(a, i)
    \/ \E s \in Services : Handshake(a, i, s)
    \/ \E o \in Outcome : AttemptFails(a, i, o)

\* The manager task keeps running the arm it is in.  select! polls its ready arms
\* in random order, so the lifecycle arm is not passed over for ever even if the
\* other arms are always ready.  Nothing is assumed of sessions, which may last.
Fairness ==
  /\ SF_vars(RecvLife)
  /\ WF_vars(Drain) /\ WF_vars(DrainDone) /\ WF_vars(Ingest)
  /\ \A a \in Addrs : WF_vars(Resolve(a))

FairSpec == Spec /\ Fairness

----------------------------------------------------------------------------
(* Properties *)

\* Every variable holds values of its type; the gossip being taken in is never
\* empty, and the manager is between arms exactly when it holds no time.
TypeOK ==
  /\ clock \in Nat \ {0}
  /\ IsBook(entries) /\ IsBook(snapshot)
  /\ DOMAIN active \subseteq Addrs /\ \A a \in DOMAIN active : active[a] \in Phase
  /\ bans \subseteq BanNets /\ banFile \subseteq BanNets
  /\ life \in Seq(Lifecycle)
  /\ running \in [Addrs -> Seq(Task)]
  /\ mgr \in [arm : {"select", "drain", "ingest"}, now : Nat, batch : Seq(Gossiped)]
  /\ mgr.arm = "ingest" => mgr.batch # <<>>
  /\ acked \subseteq Addrs
  /\ restarts \in Nat

\* "Never dial an address we already have a task for.  This is the one invariant
\* here that must never be approximate" (pick, book.rs): an address has at most
\* one connection task, although the manager learns of ends only by message.
OneTaskPerAddress == \A a \in Addrs : Len(running[a]) <= 1

\* Positions of the channel that hold a message about a.
About(a) == {i \in DOMAIN life : life[i].addr = a}

\* The active set is exact (EndGuard, mod.rs): a slot is held by one running
\* task or by its Ended message, never by both and never by neither, and an
\* Ended is the last thing the channel holds about its address.  No slot leaks.
SlotsMatchTasks ==
  \A a \in Addrs :
    /\ Len(running[a]) <= 1
    /\ (a \in DOMAIN active) <=>
         (running[a] # <<>> \/ \E i \in About(a) : life[i].type = "Ended")
    /\ \A i \in About(a) :
         /\ a \in DOMAIN active
         /\ life[i].type = "Ended" => running[a] = <<>> /\ \A j \in About(a) : j <= i

\* An address is never rescheduled to an earlier time: whatever order results,
\* gossip, bans and operator commands arrive in, a wait once imposed is waited
\* out (while the process lives and the entry stays in the book).
ScheduleNeverMovesForward ==
  [][restarts' = restarts =>
       \A a \in DOMAIN entries \cap DOMAIN entries' :
         entries'[a].next_attempt >= entries[a].next_attempt]_vars

\* "Never downgraded by a failure" (TransportHint::V2, book.rs): an address that
\* has spoken v2 keeps that verdict for as long as it stays in the book.
V2NeverDowngraded ==
  [][restarts' = restarts =>
       \A a \in DOMAIN entries \cap DOMAIN entries' :
         entries[a].transport = "V2" => entries'[a].transport = "V2"]_vars

\* A ban confirmed without a save error is in effect for good, however often the
\* process crashes afterwards ("atomically, so an RPC ban survives a crash",
\* Banlist::save).
ConfirmedBanSurvives == \A a \in acked : Banned(a)

\* Making room for a gossiped address never costs one that is in use, one the
\* operator added, or one that was reached and is not past its forget rule.
EvictionSparesKnownPeers ==
  [][mgr.arm = "ingest" /\ mgr'.arm # "drain" /\ restarts' = restarts =>
       \A a \in DOMAIN entries \ DOMAIN entries' :
         /\ a \notin DOMAIN active
         /\ entries[a].origin = "Gossip"
         /\ entries[a].last_success > 0 => forgettable(entries[a], mgr.now)]_vars

\* EndGuard: "the address's slot in the active set is always released".  Once an
\* attempt has ended, the address becomes dialable again, even if it left the
\* book in between.
SlotReleased ==
  \A a \in Addrs :
    (\E i \in About(a) : life[i].type = "Ended") ~> (a \notin DOMAIN active)
=============================================================================
