---------------------------- MODULE Announcements ----------------------------
(***************************************************************************)
(* What connection tasks publish (protocol.rs): block announcements with   *)
(* the probe of a compact block, and the events that need nothing of what  *)
(* the connections share.  Whether a block is new is read from the header  *)
(* tree under one lock, the header is inserted under another and its       *)
(* height looked up under a third, and only then is the event sent; the    *)
(* connections share the tree and take turns.                              *)
(*                                                                         *)
(* The tree is its answers to these questions: the headers it holds and    *)
(* the ones it remembers having refused.  HeaderTree models it, and        *)
(* HeaderSync the requests an announcement leads to.                       *)
(***************************************************************************)
EXTENDS EventQueue

CONSTANTS
  Blocks,                    \* block hashes that peers announce
  Parent,                    \* the parent of each, or Root
  Root,                      \* a block the tree starts with
  Refused,                   \* blocks the tree refuses, and their descendants
  MAX_BLOCK_INVS_ANNOUNCED,  \* announcements one inv may cause, 8
  MAX_HEADERS_ANNOUNCED,     \* a longer HEADERS is no announcement, 8
  probe_compact_blocks,      \* the setting
  Answers,                   \* blocks of which peers send a blocktxn
  Reports,                   \* the other events, as [kind, data]
  Offers,                    \* the sequences of blocks a message may hold
  Cost,                      \* bound: what a message of each type costs,
  MaxCost                    \* and what each run of the observer may spend

ASSUME AnnounceAssumption ==
  /\ Parent \in [Blocks -> Blocks \cup {Root}] /\ Root \notin Blocks
  /\ Refused \subseteq Blocks /\ Answers \subseteq Blocks /\ Offers \subseteq Seq(Blocks) \ {<<>>}
  /\ probe_compact_blocks \in BOOLEAN
  /\ MAX_BLOCK_INVS_ANNOUNCED \in Nat \ {0} /\ MAX_HEADERS_ANNOUNCED \in Nat \ {0}
  /\ \A type \in DOMAIN Cost : Cost[type] \in Nat \ {0}
  /\ {"block_announcement", "compact_block_probe"} \cup {e.kind : e \in Reports} \subseteq Kinds

VARIABLES
  held,      \* headers in the tree
  rejected,  \* refused headers that are remembered
  job,       \* what each task is doing
  messages,  \* the cost of the messages handled in this run
  clock,     \* unix_ms; every announcement is made in a millisecond of its own
  told,      \* history: the announcements of this run
  untold     \* history: the blocks that reached the tree without one

avars == <<held, rejected, job, messages, clock, told, untold>>

----------------------------------------------------------------------------

seen(b) == b \in held \cup rejected

\* items: the blocks of the message still to be announced, each with whether it
\* was known; refused: the tree refused a header of it; msg: which message it is.
NoJob == [type |-> "none", step |-> "recv", items |-> <<>>, refused |-> FALSE, msg |-> 0]

\* insert_batch, header by header: placed, refused, or left as an orphan.
Insert(t, b) ==
  IF b \in t.held \cup t.rejected THEN t
  ELSE IF b \in Refused \/ Parent[b] \in t.rejected THEN [t EXCEPT !.rejected = @ \cup {b}]
  ELSE IF Parent[b] \in t.held THEN [t EXCEPT !.held = @ \cup {b}]
  ELSE t

\* A task without a message in hand takes one more.
Free(c, type) ==
  /\ pc[c] = "idle" /\ job[c].type = "none"
  /\ messages + Cost[type] <= MaxCost[instance]
  /\ messages' = messages + Cost[type]

Take(c, type, blocks, step) ==
  /\ Free(c, type)
  /\ job' = [job EXCEPT ![c] =
       [type    |-> type,
        step    |-> step,
        items   |-> [i \in DOMAIN blocks |-> [hash |-> blocks[i], known |-> seen(blocks[i])]],
        refused |-> FALSE,
        msg     |-> messages]]
  /\ UNCHANGED <<held, rejected, clock, told, untold, qvars>>

\* An inv has no headers, so there is nothing to insert.  No more than a few of
\* its blocks are announced, and whether one is known is read as its turn comes.
handle_inv(c, blocks) ==
  Take(c, "inv", SubSeq(blocks, 1, IF Len(blocks) < MAX_BLOCK_INVS_ANNOUNCED
                                   THEN Len(blocks) ELSE MAX_BLOCK_INVS_ANNOUNCED), "read")

\* What is known is read for the whole message before any of it is inserted.
handle_headers(c, blocks)  == Take(c, "headers", blocks, "insert")
handle_cmpct_block(c, b)   == Take(c, "compact_block", <<b>>, "insert")

\* Mutant of Inserted: what is known is read again after the insertion.
ReadAfterInsert(j, t) ==
  [j EXCEPT !.step = "emit",
            !.items = [i \in DOMAIN @ |-> [@[i] EXCEPT !.known = @ \/ j.items[i].hash \in t.held]]]

\* The job once its headers are in the tree t: what was known before stays so.
Inserted(j, t) ==
  [j EXCEPT !.step = "emit", !.refused = \E i \in DOMAIN j.items : j.items[i].hash \in t.rejected]

\* The first error decides: when it is an orphan, headers are asked for, and a
\* failing write ends the session before its announcements are out.
accept_headers(c) ==
  LET blocks == [i \in DOMAIN job[c].items |-> job[c].items[i].hash]
      t      == FoldLeft(Insert, [held |-> held, rejected |-> rejected], blocks)
      placed == t.held \cup t.rejected
      orphan == \E i \in DOMAIN blocks :
                  blocks[i] \notin placed /\ \A j \in 1..(i - 1) : blocks[j] \notin t.rejected
      long   == job[c].type = "headers" /\ Len(blocks) > MAX_HEADERS_ANNOUNCED
  IN  /\ job[c].type # "none" /\ job[c].step = "insert"
      /\ held' = t.held /\ rejected' = t.rejected
      /\ \E fails \in {FALSE, orphan} :
           /\ job' = [job EXCEPT ![c] = IF long \/ fails THEN NoJob ELSE Inserted(@, t)]
           /\ untold' = IF long \/ fails THEN untold \cup (placed \ (held \cup rejected)) ELSE untold
      /\ UNCHANGED <<messages, clock, told, qvars>>

ReadInvItem(c) ==
  /\ job[c].type = "inv" /\ job[c].step = "read"
  /\ job' = [job EXCEPT ![c].items[1].known = seen(job[c].items[1].hash), ![c].step = "emit"]
  /\ UNCHANGED <<held, rejected, messages, clock, told, untold, qvars>>

Height ==
  LET height[b \in Blocks] == IF Parent[b] = Root THEN 1 ELSE height[Parent[b]] + 1
  IN  height

\* Why a block that is announced has no height.
Unplaced(b, type) ==
  CASE b \in held     -> "placed"
    [] b \in rejected -> "refused"
    [] OTHER          -> IF type = "inv" THEN "no_header" ELSE "orphan"

\* The height is looked up after the insertion, and the event handed to send.  Headers are
\* asked for after each block of an inv that was not known; when that write fails, the
\* session ends and the rest of the inv is not announced.
emit_block_announcement(c) ==
  LET b     == Head(job[c].items).hash
      known == Head(job[c].items).known
      rest  == Tail(job[c].items)
  IN  /\ pc[c] = "idle" /\ job[c].type # "none" /\ job[c].step = "emit"
      /\ send(c, "block_announcement",
              [hash      |-> b,
               type      |-> job[c].type,
               new_to_us |-> ~known,
               height    |-> IF b \in held THEN Height[b] ELSE 0,
               at        |-> clock])
      /\ clock' = clock + 1
      /\ told' = told \cup {[hash |-> b, new_to_us |-> ~known, msg |-> job[c].msg,
                             unplaced |-> Unplaced(b, job[c].type)]}
      /\ \E fails \in {FALSE, job[c].type = "inv" /\ ~known} :
           job' = [job EXCEPT ![c] =
             IF rest = <<>> /\ job[c].type = "compact_block" /\ probe_compact_blocks /\ ~job[c].refused
               THEN [@ EXCEPT !.step = "probe"]
             ELSE IF rest = <<>> \/ fails THEN NoJob
             ELSE [@ EXCEPT !.items = rest, !.step = IF job[c].type = "inv" THEN "read" ELSE "emit"]]
      /\ UNCHANGED <<held, rejected, messages, untold>>

emit_compact_block_probe(c, b, stage) ==
  send(c, "compact_block_probe", [hash |-> b, stage |-> stage])

\* Asked only of a block that was not refused; a failing write ends the session.
request_compact_block_coinbase(c) ==
  /\ pc[c] = "idle" /\ job[c].step = "probe"
  /\ job' = [job EXCEPT ![c] = NoJob]
  /\ emit_compact_block_probe(c, Head(job[c].items).hash, "requested") \/ UNCHANGED qvars
  /\ UNCHANGED <<held, rejected, messages, clock, told, untold>>

handle_blocktxn(c, b) ==
  /\ Free(c, "blocktxn")
  /\ emit_compact_block_probe(c, b, "answered")
  /\ UNCHANGED <<held, rejected, job, clock, told, untold>>

\* The rest of what a connection says, stamped with the time.
emit_event(c, e) ==
  /\ Free(c, e.kind)
  /\ send(c, e.kind, [e.data EXCEPT !.at = clock])
  /\ UNCHANGED <<held, rejected, job, clock, told, untold>>

\* The data of those events, as far as the readers of the stream tell it apart.
emit_handshake(info) ==
  [kind |-> "handshake",
   data |-> [at |-> 0, transport |-> info.transport, user_agent |-> info.user_agent,
             protocol_version |-> info.version, services |-> info.services,
             features |-> info.features, addr_recv |-> info.addr_recv,
             peer_timestamp |-> info.timestamp, start_height |-> info.start_height]]

\* The answer to a ping that was sent, with what the kernel says of the connection if
\* it says anything: see claim_pong in Session.
handle_pong(rtt, tcp) == [kind |-> "ping_rtt", data |-> [at |-> 0, rtt |-> rtt, tcp |-> tcp]]

handle_send_cmpct(high_bandwidth, version) ==
  [kind |-> "send_cmpct",
   data |-> [at |-> 0, high_bandwidth |-> high_bandwidth, version |-> version]]

handle_fee_filter(rate) == [kind |-> "fee_filter", data |-> [at |-> 0, feerate |-> rate]]

\* Announced is what the message held, before the rate limit took effect.
address_announcement(message, announced) ==
  [kind |-> "address_announcement",
   data |-> [at |-> 0, message |-> message, addresses |-> announced]]

connection_result(outcome, commands, others) ==
  [kind |-> "connection_result",
   data |-> [at |-> 0, outcome |-> outcome, commands |-> commands, others |-> others]]

----------------------------------------------------------------------------

AnnounceInit ==
  /\ QueueInit
  /\ held = {Root} /\ rejected = {}
  /\ job = [c \in Senders |-> NoJob]
  /\ messages = 0 /\ clock = 0 /\ told = {} /\ untold = {Root}

Handle(c) ==
  \/ \E blocks \in Offers : handle_inv(c, blocks) \/ handle_headers(c, blocks)
  \/ \E b \in Blocks : handle_cmpct_block(c, b)
  \/ accept_headers(c) \/ ReadInvItem(c)
  \/ emit_block_announcement(c)
  \/ request_compact_block_coinbase(c)
  \/ \E b \in Answers : handle_blocktxn(c, b)
  \/ \E e \in Reports : emit_event(c, e)
  \/ SendStep(c) /\ UNCHANGED avars

\* A new run loads the headers it saved; what was refused is not saved.
AnnounceRestart ==
  /\ QueueRestart
  /\ held' \in {{Root}, held} /\ rejected' = {}
  /\ job' = [c \in Senders |-> NoJob]
  /\ messages' = 0 /\ told' = {} /\ untold' = held'
  /\ UNCHANGED clock

----------------------------------------------------------------------------
(* Properties *)

\* new_to_us is read before the header is inserted, so two connections may both
\* claim a block as new.  But the tree then knows it, placed or refused, and no
\* connection claims it again: of the messages that carried a header the tree
\* could judge, at most one for each connection does.
ClaimsPerBlock ==
  \A b \in Blocks :
    LET claims_of == {d \in told : d.hash = b /\ d.new_to_us /\ d.unplaced \in {"placed", "refused"}}
    IN  Cardinality({d.msg : d \in claims_of}) <= Cardinality(Senders)

\* The propagation timeline of a block has a first: when an announcement calls a
\* block known, then some announcement of the run, out already or about to be,
\* calls it new, or the block had reached the tree without one.
FirstIsNotLost ==
  \A d \in told :
    LET claimed  == \E e \in told : e.hash = d.hash /\ e.new_to_us
        underway == \E c \in Senders : \E k \in DOMAIN job[c].items :
                      job[c].items[k].hash = d.hash /\ ~job[c].items[k].known
    IN  d.new_to_us \/ claimed \/ underway \/ d.hash \in untold

\* What the schema says of the flag: "the first this observer heard of the block"
\* (new_to_us in events.proto), so no two messages have it set for one block.
FirstHeardOnce ==
  \A d, e \in told : d.hash = e.hash /\ d.new_to_us /\ e.new_to_us => d.msg = e.msg

\* With knowledge read under one lock and the header inserted under another, a new block
\* is still claimed as new by some announcement, and by no more than raced for it.
NewBlocksAreClaimed == ClaimsPerBlock /\ FirstIsNotLost
=============================================================================
