# p2p-observer in TLA+

A verification project for the p2p-observer: a program that connects to as many
Bitcoin nodes as it can, keeps the connections open, and publishes what it sees to
NATS. The modules here model the parts that keep state over time and are shared by
concurrent tasks. TLC checks them on small instances, and TLAPS proves most of the
safety properties for every size.

All source paths below are relative to the repository; `addresses/`,
`headertree.rs` and the like are under `observer/src/`.

## 1. The system and its parts

| Part | State | Operations | Interacts with | What makes it correct |
|---|---|---|---|---|
| Address manager (`addresses/mod.rs`) | the book, the ban list, its lifecycle and gossip channels | tick, lifecycle messages, gossip batches, operator commands, periodic and final save | one task; connection tasks talk to it only through `Handle` | one task per address, every slot freed, bans hold over restarts |
| Address book (`addresses/book.rs`) | entries, the active set, the credit of each class | ingest, evict, insert_manual, purge_banned, pick, allocate, record_connected, record_v1_only, record_ended | called by the manager only | verdicts and waits outlive gossip, a full book gives up only what it may, no class starves |
| Policy (`addresses/policy.rs`) | none | classify, retry_delay_secs, exp_backoff, jitter, should_forget | called by the book | no wait is cut short |
| Peer addresses (`addresses/peer_addr.rs`) | none | from gossip, from text, to text, is_routable | manager, session, RPC | what is printed is read back; one host has one form |
| Snapshot and ban list (`addresses/persist.rs`, `addresses/banlist.rs`) | files, entries of networks and hosts | atomic save, load, add, contains | manager | overlapping bans lose nothing |
| Connection attempt (`connection.rs`) | stage, transport | connect, v2 handshake, fall back to v1, version handshake, session, result | manager by `Handle`, registry, emitter | one story per attempt |
| Session (`protocol.rs`) | pings, token buckets, counters | message handlers, ping timer | tree, emitter, manager, registry | answering peers stay, silent ones go, rates hold |
| Registry (`connections.rs`) | map of live connections | register, refresh, remove on drop, snapshot | session, RPC | no ghosts |
| Transport (`transport.rs`) | read buffers, ciphers | resumable framing, faults | session | whole messages, once, in order |
| Header tree (`headertree.rs`) | headers, tip, best chain, refusals, recovery throttle | insert_batch, recovery_due, save, load, locators, chain_tips | every session and RPC, behind one RwLock | connected, pruned, most work, reload gives the same tree |
| Events (`emit.rs`, `publisher.rs`) | bounded queue, drop counters | send, publish | every session | losses are counted |
| Start and stop (`lib.rs`) | task handles | load, bootstrap sync, run, ordered shutdown | all | a complete sync is complete |
| RPC (`rpc.rs`) | none | commands to the manager, reads of tree and registry | operator | |
| Metrics tool (`tools/metrics`) | gauges, recent blocks, label sets | one observer per kind of event | event stream | bounded series, no invented loss |
| Archive tool (`tools/archive`) | files | archive, rotate, drain; read, replay, summarise | event stream | the files are the stream |
| Websocket tool (`tools/websocket`) | clients, queues, cached status | broadcast, poll, subscribe | event stream, RPC, browsers | no gaps, no missed status |

What is hard here:

- *Interleaving.* Hundreds of tasks report to the manager by message. The manager
  dials on the strength of its own record of who is connected, while reports that
  contradict the record are still in the channel.
- *Lifetimes.* A slot of the active set must be freed by every way a task can end,
  a panic included, and only once, even if the address has left the book.
- *Stale values.* The manager takes the time once per drain or batch; a task is
  told a transport verdict when it is dialled and reports about it much later.
- *Crash and restart.* Three files are written at different times. A ban, the
  snapshot and the tree must each make sense whatever the others hold.
- *Limits.* A book at capacity, a budget below one dial per class, a bounded
  memory of refusals.
- *Order.* Headers come in any order from any peer, and a checkpoint prunes the
  tree in the middle of a batch. Events overtake each other between the reading of
  the counters stamped on them and the queue.
- *Cancellation.* The ping timer drops a half-finished `recv()`; a stop drops a
  connection task at any await.
- *Steps that look like one.* A block is asked about, inserted and looked up under
  three locks; `send` reads counters, capacity and queue one after the other.

The full list, with lines, is `hazards` in `PROJECT.json`.

## 2. Modules

| Module | Models |
|---|---|
| `AddrPolicy` | `policy.rs`: classes, outcomes, backoff, jitter, forget rule |
| `AddrBook` | one book entry and what each report does to it |
| `AddrManager` | the manager task, the book as a whole, ban list, snapshot, and the connection tasks as the manager sees them |
| `PeerAddr` | `peer_addr.rs`: addresses from gossip and from text, rendering, routability |
| `Banlist` | `banlist.rs`: networks, hosts, add, contains |
| `Addresses` | composes `AddrManager`, `PeerAddr` and `Banlist`: the manager with real addresses, and the RPC commands that name them |
| `DialBudget`, `DialShares` | `Book::allocate`; `DialShares` adds the history its long-run property speaks of |
| `HeaderTree` | the header tree, its file, the recovery throttle and chain_tips |
| `HeaderSync` | extends `HeaderTree`: sessions on one tree, the bootstrap synchronisation, recovery of missing headers |
| `MessageChannel` | abstract: what a transport reader promises its session |
| `Transport` | `transport.rs`: both readers, the peer and the kernel; implements `MessageChannel` |
| `Session` | the message loop of a connection: pings, buckets, counters, registry entry |
| `Attempt` | extends `Session`: one attempt from dial to result |
| `EventQueue` | `emit.rs` and `publisher.rs` |
| `Announcements` | extends `EventQueue`: what sessions publish about blocks, and the other events |
| `Metrics` | `tools/metrics`: what an event does to the metrics of a network |
| `Pipeline` | composes `Announcements` and `Metrics`: the stream from sessions to metrics over restarts |
| `ArchiveStats` | `stats.rs`: the summary of archives and its report |
| `Archive` | extends `ArchiveStats`: archiver, reader, replayer |
| `Websocket` | the websocket tool |
| `MC*` | instances for TLC |
| `AddrManagerProofs` | theorems about `AddrManager`: slots, waits, verdicts, eviction, bans; and about `Addresses` and `Banlist`: what the list refuses |
| `DialSharesProofs` | theorems about `DialBudget` and `DialShares`: the budget, the credit |
| `HeaderTreeProofs` | theorems about `HeaderTree`: connected, most work, checkpoints, refusals, chain tips, saving and loading; and about `HeaderSync`: a complete sync is complete, peers on our chain are kept |
| `TransportProofs` | `Transport` implements `MessageChannel` |
| `SessionProofs` | theorems about `Attempt` and the `Session` it runs: one story per attempt, pings, buckets |
| `PipelineProofs` | theorems about `EventQueue`, `Announcements`, `Metrics` and `Pipeline`: reserve, losses, series, new blocks |
| `ArchiveProofs` | a theorem about `Archive`: the files are the stream |
| `WebsocketProofs` | theorems about `Websocket`: the stream and the status of a client |

Definitions carry the names of the source where TLA+ allows it. `PROJECT.json`
(`map`) gives the lines of every one. A definition after a comment "Mutation" or
"mutant" is a wrong version of the one that follows; no specification uses it. It is
there so that each property can be seen to fail when the code is changed in that way.

### AddrManager

`entries`, `active` and `bans` are the fields of `Book` and `Manager`. `life` is the
lifecycle channel (unbounded in the code). `running[a]` is the sequence of
connection tasks on address `a`: nothing in the model keeps it from having two
elements except what the code does. `mgr` is the arm of `Manager::run` in progress:
`select`, `drain` (applying lifecycle messages until `try_recv` finds none) or
`ingest` (a gossip batch). `snapshot` and `banFile` are the files; `acked` is the
history of bans confirmed to the operator without a save error.

Steps of the manager: `Tick`, `RecvLife`, `Drain`, `DrainDone`, `RecvGossip`,
`Ingest`, `AddManual`, `Ban`, `Save`, `Shutdown`. Drain and ingest take one step per
message or address, since tasks send while they run; everything that happens in the
manager without an await in between is one step. Steps of a task: `FallBack` (v2
refused, v1 tried, the verdict reported), `Handshake`, `AttemptFails`, `SessionEnds`,
`TaskDies`. `Crash` stops everything and loads the files.

The random number generator (reservoir sampling, eviction victims, jitter) is a
nondeterministic choice over all its outcomes. `pick` uses `allocate` only through
the fact that it hands out the budget or all candidates; `DialBudget` shows that
fact (`BudgetIsUsed`).

### DialBudget

`allocate` is one step per slot. Credit, a float in the code, is an integer in
units of `1/Total` dials, in which the shares are exact.

### HeaderTree

A block is a name with a parent, the work its target stands for, whether its hash
meets that target, and the order of its hash. The difficulty a retarget asks for
is rust-bitcoin's computation and is a constant, `Adjusted`. `insert_batch` and
`load` hold the write lock; they take one step per header with `lock` saying so, and
what readers may rely on is stated for when the lock is free. `save` overwrites
`headers.bin` in place: it may leave any prefix of the records, and may cut a record.

### HeaderSync

`conn[p]` is the session with a peer: `step` is where its handler is between two
awaits or two takings of the tree's lock (`recv` is the select of `Connection::run`,
`insert`, `inserting`, `recover`, `due` and `getheaders` the parts of
`accept_headers`, `recover_headers` and `send_getheaders`, `close` a handler that has
returned `SyncComplete` or `OtherChain`). `boot` is the seed `bootstrap_sync` is at, 0
once it has returned; only then may `Dial` start other sessions. Peers are the
environment: each follows a chain, announces longer ones as headers, as the last
header alone, as an inv or as a compact block, and answers getheaders the way
`get_headers_from_locator` does. An inv names one block; what a session publishes
and every other message are left out, since they do not touch the tree.
`ended` and the field `of` of a message (its sender's tip) are history.

### Addresses

The manager compares addresses and never looks into them, so `AddrManager` has them as
a constant set. `Addresses` supplies that set: the addresses that the instance's gossip
messages and typed texts turn into. IPv4 addresses have two bits and IPv6 five, with a
mapped range and a CJDNS range in it, so a network is a prefix as in the code and every
form of a host exists. A text is its parts (prefix, host, suffix, port). The host of an
onion or I2P name is the sequence of its characters, packed and unpacked five bits at a time
in a register, in either case and with the checks of the code; its key is two real bytes
(`KEY_LEN`; 32 in the code), so that an onion payload of key, checksum and version is 40 bits
and leaves none over, and an I2P hash is 16 bits and leaves one, as 280 and 256 do. The
checksum is a constant function. A ban is what the operator writes; `Covered` is the set of
addresses the list then refuses.

### Transport and MessageChannel

`Transport` counts units of the stream. The v1 reader keeps `state` and `buf` in the
reader and `polling` says whether a `recv()` future exists; `Cancel` drops the future
and, as in the code, nothing else. The peer may send any frame, hang up in the middle
of one or reset. A v2 packet is read by the BIP324 library, which keeps partial packets
itself (external). `MessageChannel` has neither wire nor buffer nor futures: the next
frame is handed up, refused with the fault it deserves, or the stream ran out. The
property `ImplementsChannel` is that specification under the identity on the variables
both have.

### Session and Attempt

`conn` is `Connection` with its `ConnectionStats`; `inbox` is the socket; `known` are
the pings the peer may still answer, in any order. A write may block because the peer
takes nothing (`taking`), and then neither the timer nor the socket is served, as in
the code. The writes that open a session are one write, which may fail or block like any
other. Of the faults a read can end in, the model has `Oversized` (v1 only, judged as a
violation) and `PeerClosed`, which stands for those that are judged as it is. Time passes only
while the task waits. `Attempt` wraps the session in
`attempt`, `connect_and_run` and `run_session`: `version` is the transport being tried,
an error is the `Stage` it is tagged with and an io kind, and every publication,
registration and message to the manager is a step of its own, since readers look in
between. `Abort` is the task being dropped at an await.

### Pipeline

`EventQueue` splits `send` at every atomic read and write. `Announcements` has the
handlers of inv, headers, cmpctblock and blocktxn up to what they publish: known or not
is read under one lock, headers inserted under the next, heights under a third.
`Metrics` folds the published events; it keeps gauges, the recent blocks and the label
sets, and of counters and histograms the series and the samples. `Pipeline` restarts the
observer under a metrics tool that goes on.

### Archive

A file is the units handed to its writer, of which `out` have reached the disk; a
compressed writer holds back what the encoder has not passed on. A failed write leaves
any part of a record, a crash any prefix that has left the buffers. The readers are
operators on what is on disk: `Read` gives the events and how it ended, `replay` and
`StatsOf` what the two tools make of several files. A file that stops between two records
reads as a clean end, an unfinished compressed one included. The stream may end under the
archiver (`SubscriptionEnds`), which stops as at a shutdown. `ArchiveStats` builds the report as
the set of reports that some order of the hash maps leads to.

### Websocket

Three kinds of task share the map of clients and the cached status. A use of the map
under its lock is one step; reading the cache, sending from it, caching an answer and
broadcasting it are steps of their own. A client may stop reading for good.

## 3. Runs

| Run | Question | Bounds |
|---|---|---|
| `addrman_slots` | Is the active set exact, is no address dialled twice, and does every attempt that ends free its address? | two addresses, one of them bannable and one added by the operator, batches of one, clock to 2 |
| `addrman_book` | Do waits and verdicts outlive every history of outcomes, and does a full book give up only what it may? | two addresses, one on a network that is not enabled, capacity one, every kind of outcome, clock from 1 to 4, counters saturating at 2 |
| `addrman_restart` | What survives bans, failed writes, snapshots, shutdown and crash, and can a spelling of an address get around a ban? | one host in IPv4 and mapped form and an onion service, three texts of bans that overlap (one in upper case), 100 keys of two bytes with all bits in use, printed names with a character changed, added or dropped, one restart |
| `budget_shares` | Does `allocate` use the budget, starve no class and keep the shares? | the code's weights 7/2/1 and cap of 4, budgets 1 and 10 (the default), three kinds of supply |
| `budget_above_cap` | Do the weights hold at any budget? (They do not.) | the same with a budget of 12 and candidates in every class |
| `tree_insert` | Do batches, a checkpoint, refusals, cut writes and a reload keep the tree whole? | nine blocks on three branches, batches of two, room for two refusals, one crash |
| `tree_retarget` | Does the tip have the most work when height and work disagree, does chain_tips tell the forks, and does the tree survive save and load? | branches of height two and four, with equal work at heights two and four, recovery for one block, clock to 1, one crash |
| `tree_tie` | Is the active chain active again after a load? (Not always.) | the same blocks without a recovery |
| `header_sync` | Is a complete sync complete, are peers on our chain kept, is a missed block fetched? | two peers, both seeds, a chain of three with a checkpoint, a stale and a bad branch, answers of two headers, three sessions, one failure |
| `header_forks` | Are peers of a refused chain left, though others had it refused and forgotten before? | two peers that may both turn to a chain of three refused blocks, room for two refusals, three sessions, one failure |
| `transport` | Does a reader that is cancelled anywhere implement the channel, and does it answer every frame? | both transports, nine kinds of frame, three frames, one cancellation, one retry after a fault |
| `session` | Does an attempt tell one story, are the right peers kept, do the rates hold? | ip, tor and i2p, every hint and error; a session of up to 6 ping intervals with two other messages, writes that fail or block from the opening on, two nonces remembered, one stall |
| `pipeline` | Are losses counted, is a block claimed as new by the right number of connections, can peers grow the metrics? | two connections, a queue of three with two reserved, a block and a refused child, eight kinds of event, one restart |
| `pipeline_first` | Is the first announcement of a block the only one called new? (It is not.) | the same without the other kinds of event |
| `archive` | Are the files the stream, and do the tools agree about them? | six messages of two runs of the observer, three records to a file, two runs of the archiver, two faults, compressed or not |
| `websocket` | Does a client get the hello first, no gaps and a status? | one client, a queue of two, four events, two subscription messages, one failed poll |

Why the bounds are enough. The properties of the manager speak of one address, of
one address and its messages, or of a full book and one more address, so two
addresses with one slot of capacity reach every case; the time constants are
shrunk but keep their order, and the clock runs long enough for an attempt, its
retry and its forgetting. For the tree, three branches with a tie, a bad block with a
child, and a checkpoint in the middle of one branch make every verdict of
`validate_header` but `TargetTooEasy` come up, and batches of two let a prune fall
between two headers of one lock. For the synchronisation, a chain of three with
answers of two makes every sync take more than one round, two peers are enough for
a request that one peer is asked and the other is not, and the failures stay below
`RECOVERY_PEERS` so that some session that was asked lasts. A refused chain of one block more
than the tree remembers refusals, with both peers on it, has one peer's refusals forgotten
between the other's announcement and its answer. Equal work at different heights, which
decides what a load meets first, is in `tree_retarget`; `tree_insert` has it at one height only.
Budgets are 1, the least, and 10, the default and the largest multiple of the shares at which
no class earns in one call more than it may bank. No time passes in
`HeaderSync`: the clock only makes requests lapse, so the throttle is never more
lenient than in the code.

For the transport, one cancellation already falls on every unit of every frame, and
frames shorter and longer than they declare misalign the stream for the ones after.
For the session, six intervals pass the deadline of four, two remembered nonces are
fewer than the pings that can be open, and one token makes every second message exceed
the bucket; only one hint and network has long sessions, since nothing in the session
depends on them. In the pipeline a queue with one slot open to gossip is filled by one
event, so that two senders always meet at its limit, and every cap of the metrics is one, so
that the second value exceeds it. Three records fill an archive file and the stream
has enough for a rotation and a second file, and the report has more hosts than rows.
A client's queue of two is exceeded by the hello, a status and an event.

What the runs show, by property:

| Run | Property | What holds |
|---|---|---|
| `addrman_slots` | `TypeOK` | entries, counters, channels and the batch in hand stay well formed |
| `addrman_slots` | `OneTaskPerAddress` | no address ever has two tasks |
| `addrman_slots` | `SlotsMatchTasks` | each slot of the active set belongs to one task or to the one end message it left |
| `addrman_slots` | `SlotReleased` | an attempt that ended frees its address, though the address has left the book |
| `addrman_book` | `ScheduleNeverMovesForward` | a wait once imposed is never shortened by a report, gossip or a command |
| `addrman_book` | `V2NeverDowngraded` | once v2 worked the verdict stays |
| `addrman_book` | `EvictionSparesKnownPeers` | gossip never costs an entry that is in use, manual, or reached and not yet to be forgotten |
| `addrman_restart` | `ConfirmedBanSurvives` | a ban confirmed to the operator is in force after any restart |
| `addrman_restart` | `PrintedIsRead` | every address that is printed is read back as itself, in either case, and a mistyped onion or I2P name is refused |
| `addrman_restart` | `ListRefusesWhatWasBanned` | overlapping bans, in any order and over restarts, refuse all that was banned |
| `addrman_restart` | `BannedHostNeverDialled` | no spelling of a banned host leads to a dial |
| `budget_shares` | `BudgetIsUsed` | allocate hands out the budget or every candidate |
| `budget_shares` | `WithinShare` | over any stretch of calls each class stays near its share, at budgets up to the default |
| `budget_shares` | `BadNotStarved` | the smallest class is dialled again and again |
| `budget_above_cap` | `SharesAtAnyBudget` | violated: with twelve a tick the largest class falls ever further behind |
| `tree_insert` | `TreeConnected` | every header has its parent, height and work |
| `tree_insert` | `OneChainUpToCheckpoint` | a reached checkpoint leaves one chain below it |
| `tree_insert` | `CleanTreeIsTheSavedOne` | a tree with nothing to save is what a restart loads: headers, checkpoint and work always, tip and chain unless a lower block has the tip's work |
| `tree_insert` | `RefusalInUseIsKept` | a refusal that was just used is not the one forgotten |
| `tree_retarget` | `TipHasMostWork` | the tip has the most work of all that is held |
| `tree_retarget` | `TipsTellTheForks` | chain_tips gives the leaves with their true branch lengths |
| `tree_retarget` | `CleanTreeIsTheSavedOne` | the same with branches of equal work and different height |
| `tree_tie` | `ActiveChainComesBack` | violated: the lower of two equal branches is active after a load |
| `header_sync` | `SyncCompleteIsTrue` | after a complete sync the tree has what the peer had, or has passed a checkpoint against it |
| `header_sync` | `PeerOnOurChainKept` | no peer on our chain is left as one of another |
| `header_sync` | `MissedBlockIsFetched` | a block within reach that peers announce gets into the tree |
| `header_forks` | `OtherChainIsLeft` | a peer that is asked and has refused headers to answer with is left |
| `pipeline` | `ReserveKept` | gossip leaves the reserve alone but for one slot per racing sender |
| `pipeline` | `NewBlocksAreClaimed` | a new block is claimed as new, and by no more connections than raced |
| `pipeline` | `LossesAreTold` | every loss is counted, and the gauges never claim one that did not happen |
| `pipeline` | `PeersCannotGrowIt` | labels and samples chosen by peers are bounded |
| `pipeline_first` | `FirstHeardOnce` | violated: two announcements of a block are called new |
| `transport` | `ImplementsChannel` | the readers implement `MessageChannel` |
| `transport` | `EveryFrameAnswered` | a frame that has arrived is handed up or refused |
| `session` | `AnsweringPeerKept` | who answers in time is never dropped as silent |
| `session` | `NotHeldOpen` | a peer that answers nothing is dropped, whatever it sends |
| `session` | `RatesHold` | gossip learned and getheaders answered stay within their buckets over any window |
| `session` | `OneStoryPerAttempt` | one result, one end, no ghost in the registry |
| `archive` | `ArchiveIsWhole` | the files are the stream and rotated ones are whole |
| `archive` | `StatsOfEventsAlone` | the report depends neither on the order of files nor on that of maps |
| `archive` | `ShutdownEnds` | a shutdown ends, though NATS is away |
| `websocket` | `ClientSeesOneStream` | the hello first, then events without a gap |
| `websocket` | `NoStatusMissed` | a subscriber has the last status however its subscription and a poll interleave |
| `websocket` | `StatusServed` | a subscriber is sent a status in the end |

`CHECK_DEADLOCK FALSE` is given where the model ends: the bounds on clocks, messages
and runs are used up, or the attempt is over.

Three runs are expected to fail: they state what a comment or the schema says, and TLC
finds what the code does instead.

- `budget_above_cap`: `book.rs:723` says that assigning each slot to the most-owed class
  "makes the weights hold at any budget, down to one". `allocate` cuts what a class has
  earned at `CREDIT_CAP` before it hands out the slots of the call (`book.rs:713`). Up to
  the default budget of ten little is lost and the shares hold; from eleven on the largest
  class loses credit in every call. At twelve the split is 66.7/22.2/11.1, at fifty
  74/16/10. `connections_per_second` has no upper bound.
- `tree_tie`: `headertree.rs:834` says that writing the active chain ahead of its equals
  "is what makes it the active chain again". The file is sorted by height first
  (`headertree.rs:847`), so of two branches with equal work and different height the
  shorter one is active after a load.
- `pipeline_first`: `events.proto:432` says of `new_to_us` "Whether this announcement is
  the first this observer heard of the block". It is read under one lock and the header
  inserted under another (`protocol.rs:869`), and an inv inserts nothing
  (`protocol.rs:820`). `NewBlocksAreClaimed` is what does hold: at least one announcement
  says new, and (`ClaimsPerBlock`) no more connections than raced, invs apart.

Noted while modelling, and not checked by a run:

- `record_connected` files `V1Only` when the entry's verdict is `Unknown` at that
  moment (`addresses/book.rs:534`). Gossip may have reset the verdict (`book.rs:381`)
  while a dial that was told `V1Only`, and never tried v2, was in flight, although
  `book.rs:531` says "we tried v2 first in this same attempt".
- `MissedBlockIsFetched` has a premise, `WithinReach`: one recovery sends one
  getheaders and handles one answer of at most 2000 headers, so a tree that is
  further behind, for instance after a bootstrap sync that was cut short, is not
  caught up with by one announcement (`protocol.rs:897` asks again only during the
  sync). An announcement by inv is left out of it too: refused by the throttle, it
  is not tried again (`headertree.rs:693`).
- `insert_manual` changes only the origin of a known address, so an address the
  operator adds keeps the backoff, of up to a week, that it earned as gossip
  (`addresses/book.rs:410`), although `policy.rs:148` says of manual addresses
  "Retried on a short fixed interval".
- A header refused as `WeakerChain` for want of its parent is accepted once the
  parent is in, and its refusal stays (`headertree.rs:418`), although
  `headertree.rs:606` says "a block the tree refuses is never held".
- `max_dialing` bounds the budget only: `pick` takes up to `budget` manual addresses, up
  to `MAX_RECONNECTS_PER_TICK` reconnects and up to `budget` others
  (`addresses/book.rs:639`), so attempts in flight may exceed what `addresses/mod.rs:262`
  calls "Maximum attempts in flight at once."
- `should_forget` measures from the last handshake, so a peer whose session outlasted
  the threshold is forgotten when the session ends (`policy.rs:357`), although
  `policy.rs:123` speaks of one that "has been unreachable for this long".
- `run_session` returns `Ok` for every session that got past its handshake, and
  `bootstrap_sync` takes `Ok` for a finished sync (`lib.rs:277`): a seed that hangs up
  after the handshake ends the sync with nothing fetched and no other seed tried.
- A seed whose tip we hold without naming it in the locator answers with known headers;
  the sync then neither asks again nor ends (`protocol.rs:897`). The shutdown future is
  not polled meanwhile, nor is the manager running that some RPC methods wait for.
- A peer on another chain is left for the headers it sends. One that only names a refused
  block in an inv (`protocol.rs:820`), or whose orphan comes while `RECOVERY_PEERS` others
  have been asked for it (`headertree.rs:693`), is kept until a getheaders reaches it;
  `OtherChainIsLeft` begins there.
- A SOCKS failure or a connect error that is not one of the four TCP-level kinds (too
  many open files, for one) makes a detecting dial fall back and record `v1_only`
  although no connection was made (`connection.rs:408`); a v2 handshake that times out
  does not fall back, so a v1 peer that keeps quiet is never tried on v1.
- `PingTimeout` counts from the last pong, and only `OUTSTANDING_PINGS` nonces are
  remembered: a peer whose round trip is longer than that many intervals is dropped
  although it answers everything. `AnsweringPeerKept` is about peers that answer sooner.
- A getheaders that cannot be written after an orphan in a HEADERS message ends the
  session before the headers of the message that were inserted are announced.
- In the metrics, the first event of a new run sets the gauges by kind and the handling of
  the restart then zeroes them (`tools/metrics/src/lib.rs:351`); an event stamped before
  the first loss leaves them as they were. `labels.rs` expects a CJDNS address in IPv6
  form, while `peer_addr.rs:318` prints `cjdns:[...]`, which is counted as "other".
- After a write error the archiver stops and returns `Ok`; `finalize` may still flush the
  torn record. `stats` stops at the first torn file, the replayer goes on. An archive that a
  crash cut at a record boundary reads as clean, a compressed one with its frame unfinished
  too: `tools/archive/src/read.rs:120` turns every `UnexpectedEof` before the first byte of a
  prefix into the end of the file. The network of a report is that of the first file named.
- A websocket client that was removed as slow stays connected and receives nothing:
  `tools/websocket/src/lib.rs:424` only takes it out of the map, although
  `tools/websocket/README.md:121` says "A client whose queue fills up is disconnected". A
  request for a status within `STATUS_ON_DEMAND_GAP` is dropped and waits for the
  interval. A cached status may be queued behind a newer one.
- `rpc.rs` sorts chain tips by descending branch length, which puts the active tip
  last, although its comment says "active tip first".
- A banned host is compared with the exact rendering of an address: an onion name
  written in upper case never matches (`addresses/banlist.rs:203`).

## 4. Fairness

`FairSpec` of `AddrManager` assumes:

- strong fairness of `RecvLife`: `tokio::select!` polls its ready arms in random
  order, so a lifecycle message is not passed over for ever even if ticks and
  gossip are always ready;
- weak fairness of `Drain`, `DrainDone` and `Ingest`: a task runs on;
- weak fairness of `Resolve(a)`: an attempt without a session moves on, because TCP
  connect, the v2 handshake and the version handshake each have a timeout.

Nothing is assumed of sessions, which may last for ever, nor of ticks.
`SharesSpec` assumes that the manager keeps ticking and that a call of `allocate`
runs to its end.

`SyncSpec` assumes weak fairness of `Progress`: while a session or the bootstrap loop
has something to do, or a peer a request to answer, something of that is done. Tasks
of the runtime are not starved, and a peer that stops answering is a failed one,
which the ping deadline ends. Dials, announcements and failures may never happen.

`TransportSpec` assumes that the session polls again after every message or tick and
that the runtime polls a future whose socket is ready; the peer owes nothing.
`ArchiveSpec` assumes that a ready branch of the archiver's select runs and that the
drain deadline passes; nothing is assumed of NATS. `WsSpec` assumes that ready tasks of
the websocket tool run and its interval keeps ticking; a browser owes neither messages
nor reads. `Session`, `Attempt` and `Pipeline` have safety properties only.

## 5. Proofs

Every theorem below holds for all values of the constants that satisfy the named
assumptions of its module: any number of addresses, tasks, clients, blocks, frames and
messages, any capacities, rates and deadlines, and any of the bounds that keep TLC's
instances finite. The assumptions say what kind of thing a constant is, with these
exceptions, each of which the code justifies:

- `BudgetAssumption`: the weights are positive, and so is the cap of the credit
  (`policy.rs` and `book.rs` have constants for them);
- `TreeAssumption`: there are finitely many blocks, however many (a hash has 256 bits), and
  two of them never compare as equal; a block's work is positive, a height has one
  checkpoint, and `REJECTED_REMEMBERED` is at least 2. With room for one refusal, remembering a
  header's would push out its parent's (`headertree.rs` has 8192);
- `SyncAssumption`: walking back from parent to parent never turns in a circle, because a
  header commits to the hash of its parent;
- `MessagesAssumption`: the messages of a peer are of the two kinds `Session` knows,
  those with addresses and the others, and a pong that is made up has no nonce of ours;
- `AnnounceAssumption`: every event is of a kind that has a counter (`Kind::from` in
  `emit.rs` is a match over all of them);
- `PipelineAssumption`: a report carries the fields that its kind has in `events.proto`,
  and its numbers are numbers;
- `WebsocketAssumption`: there are finitely many networks;
- `AddressesAssumption`: the operator writes finitely many bans, and what `AddrManager`
  has as the bans are the sets of addresses they cover.

### Address manager (`AddrManagerProofs`)

`TypeCorrect`, `SlotsAreExact` (`SlotsMatchTasks`), `NeverDialledTwice`
(`OneTaskPerAddress`, the invariant `pick` calls the one "that must never be
approximate"), `V2VerdictIsKept` (`V2NeverDowngraded`), `WaitsAreKept`
(`ScheduleNeverMovesForward`), `KnownPeersAreSpared` (`EvictionSparesKnownPeers`) and
`ConfirmedBansAreKept` (`ConfirmedBanSurvives`).

`OneTaskPerAddress` is not inductive: `pick` refuses an address that is in `active`,
so one has to know that whoever has a task is in `active`, and that no stale `Ended`
is on its way that would take it out. `SlotsMatchTasks` says just that (a slot is held
by one task or by one `Ended`, which is the last message about its address), and it
is inductive together with `TypeOK`. The proof goes address by address: an action
changes the slot of one address and leaves the others alone, with one lemma per
group of actions (tick, a message applied, a task's step, a start).

The waits need the same invariant once more. `record_ended` computes the next attempt
from the time its drain began, which may lie before the one on file; that it never
shortens a wait is due to the address being active, and an address is only dialled, and
so active, once its time has come. Bans rest on `BansOnFile`: what is on file is in
force, and what was confirmed is on file.

### Ban list (`AddrManagerProofs`)

`ListIsTheBans` (`ListRefusesWhatWasBanned`): whatever the bans in force and the order they
came in, the list refuses an address if and only if one of them covers it. An entry is
cut down to what is not listed yet, so it is the union over the list of what is listed
that grows by each entry, whole (`AddCovers`), and holds all entries in the end
(`ListIsAll`, by the shortest list for which it would not).

### Dial budget (`DialSharesProofs`)

`BudgetIsSpent` (`BudgetIsUsed`) and `CreditStaysCapped`: for any weights, budgets and
candidates, the slots handed out and those to come are the budget, no class gets more
than its candidates, and credit stays within the cap both ways.

### Header tree (`HeaderTreeProofs`)

`TreeIsConnected` (`TreeConnected`), `MostWorkIsFollowed` (`TipHasMostWork`),
`CheckpointsAreFinal` (`OneChainUpToCheckpoint`) and `RefusalsInUseAreKept`
(`RefusalInUseIsKept`). `TreeInv` joins what none of them says alone. A prune leaves
the ancestry of the checkpoint and its descendants; that this is a tree needs the
ancestry to reach the root, which needs the parents and the heights that decrease. A
header below the last checkpoint is refused by height alone, which keeps it off other
branches only because the checkpoint's chain is all there is below it. The walks back
(`ancestor`, `prune_below_checkpoint`) are least closed sets in the model, and the lemmas
about them use the well-foundedness of the heights: the least counterexample stands
in for induction, which the provers cannot instantiate.

`TipsTellForks` (`TipsTellTheForks`) is about a cache. `best_chain` is rebuilt when a batch
ends with another tip than it began with, and in between when a prune moves the tip, so
`BestInv` says when it can be trusted: it is the chain to the tip while nobody holds the
lock, and during a batch for as long as the tip is the one the batch began with. For that the
tip must not leave and come back: the old tip is held or ruled out by a checkpoint
(`Known`), so no header that enters is it. Given a true `best_chain`, the walk of
`branch_len` stops at the last common block, and it has taken as many steps as the tip's
ancestry has blocks off the active chain, by a bijection between the two (`BranchLenIs`).
That the tips cover the tree is that above every block there is a leaf (`LeafAbove`), by the
greatest height. The chains of `BestInv` are functions of the blocks alone, so this theorem
has `SyncAssumption`'s premise that parents go round in no circle.

`CleanTreeIsLoaded` (`CleanTreeIsTheSavedOne`) and `SavedComesBack` are about save and load. The model picks what a sort gives with CHOOSE over ranks; that there is
a block of every rank is that the ranks are an injection into as many numbers
(`Ranks`), and `Listing` is what of the order matters: every header once, no header before
a lower one, the tip before the others at its height. Loading is then one step for each
header, and `ReadBack` that each is accepted: its parent is lower, so it has been read; what
else `validate_header` asks it was asked when it first came (`Sound`), for the answers
depend on the block and on which blocks are held and not on their order; no checkpoint
reached is as high; and if it is one itself, whatever has been read is its ancestry, so that
nothing is pruned and the loaded tree is clean. `Loading` counts the
records on the way, and `EntryInv` has the height and work of a header be those of its
block, so trees with the same blocks are the same.
The headers, the checkpoint and the work of the tip come back whatever was saved (the lemma
`NothingIsLost`). Which of several blocks with that work becomes the tip is decided by the
order of the file, so for the tip and the active chain the property asks that no block
with the tip's work be lower than it (`TipIsLowest`); `tree_tie` shows that the code does not
give more.

### Sessions on one tree (`HeaderTreeProofs`)

`SyncCompletes` (`SyncCompleteIsTrue`), `OurPeersAreKept` (`PeerOnOurChainKept`) and
`TreeUnderSessions`: the invariants of the tree, now for `SyncSpec`, where several sessions
insert and any chain may have been loaded.

An empty answer means that the tree has all the peer has, and not by the invariant of the
tree alone. `SyncInv` says it of every message on its way and every one in hand: an empty
list of headers tells of a tip that the tree holds or that a checkpoint reached rules
out (`Known`). It becomes true when the peer answers, since an answer is empty only if the
locator names the peer's tip (`AnswerIs`); it stays true because
blocks leave the tree only where a checkpoint prunes, which rules out what it
removes (`AcceptKnows`); and an announcement is never empty (`FreshIs`). Of a locator on
its way nothing has to be known but that its blocks were held when it was built.

That a peer on our chain is kept rests on what is *not* in the tree's memory. `OurInv`: no
block of a chain such a peer may follow is remembered as refused, whoever sent it, and the
first error of a batch of theirs, if there is one, is that of an orphan. `Verdict` reads the
tree, the checkpoints and the block, and each of its branches is excluded in turn
(`OursIsWelcome`): a block that breaks no rule, on a chain that has every checkpoint behind it
or ahead of it, is inserted, known or an orphan. The one branch that depends on what else
the tree follows is `WeakerChain`, for an orphan with less than a quarter of the work of our
tip; `OurPeers` leaves out the chains with so easy a block (`EasyTips`), since the code does
end the sessions with their peers.

The chain to a block, its height and its work are walks back from it, which the model
has as recursive functions. That they exist and go down to genesis is induction along
the parents. It is done without the library's induction theorems, over sets: a set that
has genesis and, with every parent, its children, has every block (`BlockInduction`).

### Transport (`TransportProofs`)

`TransportIsChannel` is the refinement `TransportSpec => ImplementsChannel`: initial
states are initial states of `MessageChannel`, and each step is one of its steps or a
stutter. It rests on `ReaderStaysInStep`: what has been read of the frame in hand followed
by what is on the wire is one stream, which starts with the first unit of the frame
that is next, goes on unit by unit, and ends in the last frame sent. A short read and a
dropped future leave that stream as it is, which is all of "cancel safe". The fault that
`MessageChannel` asks for is the one the reader finds because the header it parses is
at the start of the stream.

### Attempt and session (`SessionProofs`)

`ListenersAgree` (`OneStoryPerAttempt`) rests on `StoryInv`, which says for every stage
what each of the three listeners has been told. The others are `SessionIsSound` (the
inductive `SessionInv`), `AnsweringPeersAreKept` (`AnsweringPeerKept`),
`SilentPeersAreDropped` (`NotHeldOpen`) and `BucketsAreNeverOverdrawn` (`RatesHold`).

A bucket bounds every window of a session only with its level taken in: for every
message learned from, what was charged since and what is in the bucket now is no more
than the burst and what was earned since (`Buckets`). A peer that answers in time is
kept because every nonce remembered is of a ping still owed an answer, the pings being
an interval apart and none of them older than the nonces have room for, so that the
first ping after the last answer has not been forgotten (`OnTime`). A silent one is dropped
because the deadline is never more than one tick away from being looked at, and
`last_pong` moves only when a ping of ours is claimed (`Prompt`).

### Event queue and metrics (`PipelineProofs`)

`JobTypeCorrect`, `QueueTypeCorrect`, `ReserveIsKept` (`ReserveKept`), `LossesTold`
(`LossesAreTold`), `SeriesStayBounded` (`PeersCannotGrowIt`) and `NewBlocksClaimed`
(`NewBlocksAreClaimed`). The reserve can be eaten into by each task between its look at the
capacity and its `try_send`, so the invariant counts those tasks with the events queued.

`LossesTold` joins three results. `NothingIsLostUncounted`: each call of `send` is
accounted for at every step of it. `KindsAddUpToTheTotal`: a task between its two
increments is what separates the sum over the kinds from the total (`SumAddsOne`: raising
one counter raises the sum by one). `LossIsNeverOverstated`: a gauge is honest because
every stamp on its way is; no stamp claims more than the counters of the run it names had
then, and they only grow.

`NewsInv` is the invariant behind `NewBlocksClaimed`. Of every block in the tree, placed or
refused, it says that it has been announced as new, that a task which inserted it before
the others still owes that announcement (`Owed`), or that it came without one. What a task
holds as known is in the tree, so only a task that took its message before the block was
inserted can still claim it. Of claims it says that those that are out (`Claims`) and those
in hand (`Underway`) are together no more than there are tasks: a task has one message in
hand, and once the tree has the block no message takes it up as new.

The library has no facts about `FoldFunction` and `FoldLeft`. That the sum takes one
kind after another, and that a message's headers are inserted one after another, is shown
for the function the fold picks: it exists for sets of any size (`SumExists`,
`FoldExists`), by induction on the size with the least number theorem (`AllNumbers`).

### Archive (`ArchiveProofs`)

`ArchivesAreTheStream` (`ArchiveIsWhole`). `ArchInv` says of every file that the units
handed to its writer are a header, whole records in order and at most the beginning of one
more (`Records`), of which any number have left the buffers; that a closed file has all of
them on disk and a rotated one ends with a whole record and has reached the limit. It says
of the last file of a run in progress where it stands (nothing before the header, only
whole records while the loop runs), because a record may only follow whole ones: that a
failing write ends the loop is what keeps the torn one last. What the files hold, one after
the other, is what was taken. Reading is then a function of these units (`ReadIs`), and
a cut anywhere gives a beginning of them (`GoodReads`).

That joining sequences appends is not in the library: `FlattenSeq` is defined by recursion.
It is shown for the function that `FlattenSeq` picks, over the sets of lengths for
which it exists and agrees (`FlatExists`, `FlatAgrees`), as for the walks of the header tree.

### Websocket (`WebsocketProofs`)

`StreamsAreWhole` (`ClientSeesOneStream`) and `StatusesArrive` (`NoStatusMissed`). `WsInv`
follows each client from its entry in the map: its queue, what it has been sent, and
whether its next event is due to it. A subscriber has missed no status because, while
it is between its subscription and its reading of the cache, a poll that has
broadcast without it has yet to fill the cache or has filled it.

### Only model-checked

- Liveness under fairness: `SlotReleased`, `BadNotStarved`, `OtherChainIsLeft`,
  `MissedBlockIsFetched`, `EveryFrameAnswered`, `ShutdownEnds`, `StatusServed`. The prover
  has no rule for fairness or ENABLED.
- The report of `StatsOfEventsAlone`, which sorts and cuts folded tables. It needs
  induction over data beyond what is proved about the folds above.
- `WithinShare` depends on the budget: the shares hold up to the default and not for budgets
  above the cap (`budget_above_cap`). It is a statement about the instance, not about every
  value of the constants.
- `PrintedIsRead`, which packs bits and folds over characters, for the keys of the instance,
  and `BannedHostNeverDialled`, which compares a prefix with single bits: the provers know
  nothing of powers of two.

## 6. Not modelled

`PROJECT.json` (`components`) lists every part with its status. Left out for good:
cryptography and byte formats (BIP324, zstd, postcard, the header encoding), whose
outcomes are choices of the models; socket options and the SOCKS dialogue; settings,
logging and system limits; the rendering of events (`common/src/render.rs`) and the
CSV, logger and RPC tools, which are stateless conversions of one message to text; the
registration of metrics and the HTTP server; the lookup of AS numbers; the test
support. `misbehaving.rs` is test tooling; the faults it plays are steps of the peer in
`Transport`. The RPC methods that only copy state into a reply are left out, and so is
the order of start-up in `lib.rs` but for the bootstrap sync.

## 7. Plan

The model is as wide as planned, and its safety properties are proved but for those
listed above, each for the reason given there.
