-------------------------------- MODULE Metrics --------------------------------
(***************************************************************************)
(* The metrics tool (tools/metrics): what it remembers of one network      *)
(* between events, and what an event does to it.                           *)
(*                                                                         *)
(* Kept are the gauges, the memory that later events are measured by, and  *)
(* what peers choose: the labels under which the tool has a series, and    *)
(* the samples that moved a histogram.  How often a counter was increased  *)
(* is not kept, and nothing reads it back.  A metric that has no label but *)
(* the network has one series and is left out.                             *)
(***************************************************************************)
EXTENDS Integers, Sequences, FiniteSets, SequencesExt

CONSTANTS
  MetricKinds,     \* the kinds of DroppedEvents
  RECENT_BLOCKS,   \* blocks whose first sighting is remembered, 64
  USER_AGENT_CAP,  \* user agents with a series of their own, 128
  PROTOCOL_VERSION_CAP,           \* and protocol versions, 32
  KNOWN,           \* the commands with a series of their own
  ServiceName,     \* the label of each service bit, by its name or bit_<n>
  SKEW, HEIGHT_DELTA, FEE_FILTER, ADDRESS_AGE  \* how far a number that a peer chose may move a sum

ASSUME MetricsAssumption ==
  /\ RECENT_BLOCKS \in Nat \ {0}
  /\ {USER_AGENT_CAP, PROTOCOL_VERSION_CAP, SKEW, HEIGHT_DELTA, FEE_FILTER, ADDRESS_AGE} \subseteq Nat

OTHER_LABEL == "other"

NoDrops == [k \in MetricKinds |-> 0]

\* NetworkState, with the gauges and series of the network.  instance 0 is None.
NetworkState ==
  [instance     |-> 0,
   dropped      |-> 0,        \* observer_dropped_events
   by_kind      |-> NoDrops,  \* observer_dropped_events_by_kind
   restarts     |-> 0,        \* observer_restarts_total
   best_height  |-> 0,        \* 0 is none
   first_seen   |-> [h \in {} |-> 0],
   order        |-> <<>>,
   user_agents  |-> {},       \* Bounded: the values seen
   versions     |-> {},       \* protocol_versions, the same
   series       |-> {},       \* <<metric, label>>: the series there are
   samples      |-> {}]       \* <<histogram, value>>: what was observed

----------------------------------------------------------------------------
(* RecentBlocks and Bounded *)

Lesser(a, b) == IF a < b THEN a ELSE b

Restrict1(f, S) == [x \in S |-> f[x]]

\* A hash already known keeps the earlier of the two times.
record(m, hash, at) ==
  IF hash \in DOMAIN m.first_seen
  THEN [m EXCEPT !.first_seen[hash] = Lesser(@, at)]
  ELSE LET all   == Append(m.order, hash)
           order == SubSeq(all, 1 + Len(all) - Lesser(Len(all), RECENT_BLOCKS), Len(all))
           times == [h \in DOMAIN m.first_seen \cup {hash} |->
                       IF h = hash THEN at ELSE m.first_seen[h]]
       IN  [m EXCEPT !.order = order, !.first_seen = Restrict1(times, ToSet(order))]

\* Mutant of label: the cap is not looked at.
LabelUncapped(seen, cap, value) == value

\* Bounded: the first values are themselves, the later ones are one label.
label(seen, cap, value) ==
  IF value \in seen \/ Cardinality(seen) < cap THEN value ELSE OTHER_LABEL

remembered(seen, cap, value) == IF Cardinality(seen) < cap THEN seen \cup {value} ELSE seen

----------------------------------------------------------------------------
(* Labels and samples *)

transport(version) == CASE version = 1 -> "v1" [] version = 2 -> "v2" [] OTHER -> "unknown"

\* A user agent is its client and a comment; only the client is kept.
user_agent(raw) == IF raw.client = "" THEN "unknown" ELSE raw.client

command(raw) == IF raw \in KNOWN THEN raw ELSE OTHER_LABEL

\* Services are the bits that are set.  Every bit at once is a label of its own.
service_bits(services) ==
  CASE services = {}                  -> {"none"}
    [] services = DOMAIN ServiceName  -> {"all"}
    [] OTHER                          -> {ServiceName[bit] : bit \in services}

\* The network of an address by its text.  CJDNS is one only in brackets and without
\* the prefix that the observer puts before it.
address_net(text) ==
  CASE text.suffix = ".onion"   -> "onion"
    [] text.suffix = ".b32.i2p" -> "i2p"
    [] text.prefix # ""         -> OTHER_LABEL
    [] OTHER                    -> text.host

peer_chosen(value, limit) ==
  IF value > limit THEN limit ELSE IF value < -limit THEN -limit ELSE value

Touch(m, metric, labels) == [m EXCEPT !.series = @ \cup ({metric} \X labels)]
Sample(m, histogram, value) == [m EXCEPT !.samples = @ \cup {<<histogram, value>>}]

----------------------------------------------------------------------------
(* observe *)

\* Mutant of observe_pipeline: the kinds of the old run are kept.
KindsKept(m, e) ==
  [m EXCEPT !.dropped  = e.dropped_events,
            !.by_kind  = IF DOMAIN e.dropped_by_kind = {} THEN @ ELSE e.dropped_by_kind,
            !.instance = e.instance_id,
            !.restarts = IF m.instance \in {0, e.instance_id} THEN @ ELSE @ + 1]

\* The total is the one on the latest event, the kinds only if it has them.
\* Another instance than before is a restart.
observe_pipeline(m, e) ==
  LET set == [m EXCEPT !.dropped  = e.dropped_events,
                       !.by_kind  = IF DOMAIN e.dropped_by_kind = {} THEN @ ELSE e.dropped_by_kind,
                       !.instance = e.instance_id]
  IN  IF m.instance \notin {0, e.instance_id}
      THEN [set EXCEPT !.restarts = @ + 1, !.by_kind = NoDrops]
      ELSE set

\* Not set are the unspecified addresses and what was no address.
addr_recv_is_set(addr_recv) == addr_recv \notin {"", "0.0.0.0", "[::]:0"}

\* The labels of what the peer says of itself, then its clock against ours and its
\* height against the best announced one, if there is one.
observe_handshake(m, d) ==
  LET agent    == user_agent(d.user_agent)
      features == (d.features \cap {"relay", "sendaddrv2", "wtxid_relay"})
                    \cup (IF addr_recv_is_set(d.addr_recv) THEN {"addr_recv"} ELSE {})
      m1 == Touch(m, "handshakes", {transport(d.transport)})
      m2 == Touch(m1, "user_agents", {label(m.user_agents, USER_AGENT_CAP, agent)})
      m3 == Touch(m2, "versions", {label(m.versions, PROTOCOL_VERSION_CAP, d.protocol_version)})
      m4 == Touch(Touch(m3, "services", service_bits(d.services)), "features", features)
      m5 == [m4 EXCEPT
               !.user_agents = remembered(@, USER_AGENT_CAP, agent),
               !.versions    = remembered(@, PROTOCOL_VERSION_CAP, d.protocol_version)]
      m6 == Sample(m5, "skew", peer_chosen(d.peer_timestamp - d.at, SKEW))
  IN  IF m.best_height = 0 THEN m6
      ELSE Sample(m6, "height", peer_chosen(d.start_height - m.best_height, HEIGHT_DELTA))

\* The first sighting is the zero that the others are measured from.
observe_block_announcement(m, d) ==
  LET m1   == Touch(m, "block_announcements", {d.type})
      high == [m1 EXCEPT !.best_height = IF d.height > @ THEN d.height ELSE @]
  IN  IF d.new_to_us THEN record(high, d.hash, d.at)
      ELSE IF d.hash \in DOMAIN m.first_seen
      THEN Sample(high, "propagation",
                  IF d.at > m.first_seen[d.hash] THEN d.at - m.first_seen[d.hash] ELSE 0)
      ELSE high

\* A session's messages are counted by command, and it is silent if it had none.
observe_connection_result(m, d) ==
  LET session == IF d.outcome # "disconnected" THEN m
                 ELSE Touch(Touch(m, "session_messages",
                        {command(c) : c \in d.commands} \cup (IF d.others THEN {OTHER_LABEL} ELSE {})),
                        "silent_sessions", IF d.commands = {} /\ ~d.others THEN {"yes"} ELSE {})
  IN  Touch(session, "connection_attempts", {d.outcome})

\* Each number of the kernel's that the event has is a sample of its own histogram.
observe_tcp(m, tcp) ==
  [m EXCEPT !.samples = @ \cup {<<name, tcp[name]>> : name \in DOMAIN tcp}]

observe_ping(m, d) == observe_tcp(Sample(m, "rtt", d.rtt), d.tcp)

observe_send_cmpct(m, d) ==
  Touch(Touch(m, "send_cmpct_mode", {IF d.high_bandwidth THEN "high" ELSE "low"}),
        "send_cmpct_version",
        {CASE d.version = 1 -> "1" [] d.version = 2 -> "2" [] OTHER -> OTHER_LABEL})

\* Labels by the entries' networks and services, and the age of each as it claims.
observe_address_announcement(m, d) ==
  LET m1 == Touch(Touch(m, "address_announcements", {d.message}),
                  "address_entries", {address_net(e.addr) : e \in d.addresses})
      m2 == Touch(m1, "address_entry_services", UNION {service_bits(e.services) : e \in d.addresses})
  IN  [m2 EXCEPT !.samples = @ \cup
         {<<"address_age", peer_chosen(d.at - e.ntime, ADDRESS_AGE)>> : e \in d.addresses}]

observe(m, e) ==
  LET seen == observe_pipeline(m, e)
  IN  CASE e.kind = "handshake"            -> observe_handshake(seen, e.data)
        [] e.kind = "block_announcement"   -> observe_block_announcement(seen, e.data)
        [] e.kind = "connection_result"    -> observe_connection_result(seen, e.data)
        [] e.kind = "ping_rtt"             -> observe_ping(seen, e.data)
        [] e.kind = "send_cmpct"           -> observe_send_cmpct(seen, e.data)
        [] e.kind = "address_announcement" -> observe_address_announcement(seen, e.data)
        [] e.kind = "compact_block_probe"  -> Touch(seen, "compact_block_probes", {e.data.stage})
        [] e.kind = "fee_filter"           ->
             Sample(seen, "fee_filter", peer_chosen(e.data.feerate, FEE_FILTER))
        [] OTHER                           -> seen
=============================================================================
