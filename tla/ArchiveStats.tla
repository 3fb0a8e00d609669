----------------------------- MODULE ArchiveStats -----------------------------
(***************************************************************************)
(* The summary of archives (tools/archive/src/stats.rs): what an event     *)
(* adds, and the report made of it.  The code keeps most of it in          *)
(* HashMaps, whose order differs from run to run, so a report is a set:    *)
(* the reports that some order of the maps leads to.                       *)
(***************************************************************************)
EXTENDS Naturals, Sequences, SequencesExt, FiniteSetsExt, Bags

CONSTANTS
  Published,    \* the messages on the subject, in order
  NameOrder,    \* the order of the names of hosts and user agents, an injection into Nat
  AllServices,  \* the service bits there are
  top           \* rows of a table

ASSUME StatsAssumption ==
  /\ \A a, b \in DOMAIN NameOrder : NameOrder[a] = NameOrder[b] => a = b
  /\ top \in Nat

Instances == {Published[m].instance : m \in DOMAIN Published}

\* A peer address is its host and port, a block hash its zeros and the rest.
host_of(addr) == addr[1]
leading_zeros(hash) == hash[1]

----------------------------------------------------------------------------
(* Stats::observe *)

Times(x, n) == IF n = 0 THEN EmptyBag ELSE [y \in {x} |-> n]

\* A field with every bit set is counted apart and not by its bits.
ServiceBits_observe(what, services) ==
  SetToBag({<<what, "fields">>}
    \cup (IF services = AllServices THEN {<<what, "all">>} ELSE {what} \X services))

\* What an event adds to the counts.  One with no known variant adds nothing.
Counts(e, h) ==
  CASE e.kind = "handshake" ->
         SetToBag({<<"handshakes", h>>, <<"agents", h, e.user_agent>>})
           (+) ServiceBits_observe("handshake_services", e.services)
    [] e.kind = "disconnected" ->
         SetToBag({<<"sessions", h>>, <<"session_ends", e.reason>>}
                    \cup (IF e.messages = 0 THEN {<<"silent", h>>} ELSE {})
                    \cup (IF e.reason = "decode_error" THEN {<<"decode_errors", h>>} ELSE {}))
           (+) Times(<<"uptime_secs", h>>, e.secs)
    [] e.kind = "failed"    -> SetToBag({<<"failed_attempts", h>>, <<"failures", e.reason>>})
    [] e.kind = "our_fault" -> SetToBag({<<"our_faults", "">>})
    [] e.kind = "block_announcement" ->
         SetToBag({<<"announcements", "">>} \cup (IF e.placed THEN {} ELSE {<<"unplaced", h>>}))
    [] e.kind = "address_announcement" ->
         FoldLeft(LAMBDA bag, services : bag (+) ServiceBits_observe("gossip_services", services),
                  Times(<<"rate_limited", h>>, e.rate_limited), e.addresses)
    [] OTHER -> EmptyBag

\* Whether the event is about a host, which is then in the table whatever it adds.
Hosted(e) ==
  \/ e.kind \in {"handshake", "disconnected", "failed", "address_announcement"}
  \/ e.kind = "block_announcement" /\ ~e.placed

\* mutant: the last count seen of a run, not the highest.
ObserveLast(s, m) ==
  LET e == Published[m]
  IN  [s EXCEPT !.dropped[e.instance] = e.dropped, !.counts = @ (+) Counts(e, host_of(e.addr))]

\* The span, the losses of each run of the observer, the counts, the longest session
\* of a host and whether a block was ever placed.
observe(s, m) ==
  LET e == Published[m]
      h == host_of(e.addr)
      block == e.kind = "block_announcement"
  IN  [s EXCEPT !.events = @ + 1,
                !.first_ms = Min({@, m}), !.last_ms = Max({@, m}),
                !.instances = @ \cup {e.instance},
                !.dropped[e.instance] = Max({@, e.dropped}),
                !.hosts = IF Hosted(e) THEN @ \cup {h} ELSE @,
                !.counts = @ (+) Counts(e, h),
                !.longest = IF e.kind = "disconnected" THEN [@ EXCEPT ![h] = Max({@, e.secs})] ELSE @,
                !.blocks = IF block THEN @ \cup {e.hash} ELSE @,
                !.placed = IF block /\ e.placed THEN @ \cup {e.hash} ELSE @]

NoStats ==
  [network |-> "", events |-> 0, first_ms |-> Len(Published), last_ms |-> 0,
   instances |-> {}, dropped |-> [i \in Instances |-> 0],
   hosts |-> {}, counts |-> EmptyBag,
   longest |-> [h \in {host_of(Published[m].addr) : m \in DOMAIN Published} |-> 0],
   blocks |-> {}, placed |-> {}]

----------------------------------------------------------------------------
(* Stats::report *)

Copies(x, bag) == IF BagIn(x, bag) THEN bag[x] ELSE 0

Count(s, what, key) == Copies(<<what, key>>, s.counts)
Tally(s, what) ==
  {<<x[2], Copies(x, s.counts)>> : x \in {y \in BagToSet(s.counts) : y[1] = what}}
Total(s, what) == MapThenSumSet(LAMBDA row : row[2], Tally(s, what))

\* The orders in which a sort may leave a map's keys: most first, then by name.
Ranked(S, count) ==
  {order \in [1..Cardinality(S) -> S] :
     \A i, j \in 1..Cardinality(S) : i < j =>
       \/ count[order[i]] > count[order[j]]
       \/ count[order[i]] = count[order[j]] /\ NameOrder[order[i]] < NameOrder[order[j]]}

First(order, n) == SubSeq(order, 1, Min({n, Len(order)}))

\* A host's two most frequent user agents, and whether there are more.
user_agent(s, h) ==
  LET agents == {x[3] : x \in {y \in BagToSet(s.counts) : y[1] = "agents" /\ y[2] = h}}
      count  == [a \in agents |-> Copies(<<"agents", h, a>>, s.counts)]
  IN  {<<First(order, 2), Cardinality(agents) > 2>> : order \in Ranked(agents, count)}

coverage(s) ==
  [network |-> s.network, events |-> s.events, span |-> <<s.first_ms, s.last_ms>>,
   instances |-> Cardinality(s.instances),
   dropped |-> MapThenSumSet(LAMBDA i : s.dropped[i], s.instances),
   hosts |-> Cardinality(s.hosts), handshook |-> Cardinality(Tally(s, "handshakes")),
   sessions |-> Total(s, "sessions"), announcements |-> Total(s, "announcements"),
   blocks |-> Cardinality(s.blocks)]

sessions(s) ==
  [ends |-> Tally(s, "session_ends"), silent |-> Total(s, "silent"),
   failed |-> Tally(s, "failures"), our_faults |-> Total(s, "our_faults")]

HostRow(s, h) ==
  LET n    == Count(s, "sessions", h)
      mean == IF n = 0 THEN 0 ELSE Count(s, "uptime_secs", h) \div n
  IN  <<h, n, mean, s.longest[h], user_agent(s, h)>>
        \o [i \in 1..5 |-> Count(s, <<"silent", "decode_errors", "failed_attempts", "unplaced",
                                      "rate_limited">>[i], h)]

\* The hosts with most sessions, and the ones whose blocks had no height.
Rows(s, S, what) ==
  {[i \in 1..Min({top, Len(order)}) |-> HostRow(s, order[i])] :
     order \in Ranked(S, [h \in S |-> Count(s, what, h)])}

hosts(s) ==
  Rows(s, s.hosts, "sessions")
    \X Rows(s, {h \in s.hosts : Count(s, "unplaced", h) > 0}, "unplaced")

\* User agents by the hosts that had them, with their handshakes.
user_agents(s) ==
  LET uses   == {x \in BagToSet(s.counts) : x[1] = "agents"}
      agents == {x[3] : x \in uses}
      of(a)  == {x \in uses : x[3] = a}
      shaken(a) == MapThenSumSet(LAMBDA x : Copies(x, s.counts), of(a))
      row(a) == <<a, Cardinality(of(a)), shaken(a)>>
  IN  {[i \in 1..Min({top, Len(order)}) |-> row(order[i])] :
         order \in Ranked(agents, [a \in agents |-> Cardinality(of(a))])}

\* Distinct hashes by their zeros, with a height and without.
blocks(s) ==
  {LET like == {b \in s.blocks : leading_zeros(b) = z}
   IN  <<z, Cardinality(like \cap s.placed), Cardinality(like \ s.placed)>> :
     z \in {leading_zeros(b) : b \in s.blocks}}

services(s) == <<Tally(s, "handshake_services"), Tally(s, "gossip_services")>>

report(s) ==
  {<<coverage(s), sessions(s), h, a, blocks(s), services(s)>> :
     h \in hosts(s), a \in user_agents(s)}
=============================================================================
