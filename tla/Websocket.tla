------------------------------ MODULE Websocket ------------------------------
(***************************************************************************)
(* The websocket tool: the task that takes events from NATS, the task that *)
(* asks the observers for their status, and one handler and one writer per *)
(* client (tools/websocket/src/lib.rs).  The map of clients sits behind a  *)
(* lock no task holds over an await, so a use of it is one step; what two  *)
(* uses of it, or of the cached status, have between them is not.          *)
(*                                                                         *)
(* A message in a queue is hello, the number of an event or the status of  *)
(* a network with its version.  A client may stop reading for good.        *)
(***************************************************************************)
EXTENDS Naturals, Sequences, SequencesExt, FiniteSets, FiniteSetsExt

CONSTANTS
  Clients,
  Networks,
  Subject,        \* the network of each published event, in order
  Given,          \* the network of --network, as a set: one or none
  ClientChoices,        \* the subscriptions a client may ask for
  CLIENT_QUEUE,
  MaxMessages,    \* bound: subscription messages a client sends
  MaxVersion,     \* bound: the versions of a status told apart
  MaxFailures     \* bound: status requests that fail

ASSUME WebsocketAssumption ==
  /\ IsFiniteSet(Networks)
  /\ Given \subseteq Networks /\ ClientChoices \subseteq SUBSET {"event", "status"}
  /\ Subject \in Seq(Networks)
  /\ CLIENT_QUEUE \in Nat \ {0} /\ MaxVersion \in Nat \ {0}
  /\ MaxMessages \in Nat /\ MaxFailures \in Nat

VARIABLES
  running,
  at,             \* events taken from NATS
  sending,        \* whether the last of them is serialised and not yet broadcast
  networks, latest_status, poll_now,
  status,         \* the status task: [pc, todo], todo being the networks of its round
  recent,         \* whether STATUS_ON_DEMAND_GAP has not passed since asked_at
  clients,        \* the map: the addresses in it
  subs,           \* their subscriptions
  queue,          \* what the channel of each client holds
  rx,             \* whether its writer still receives
  handler,        \* the handler: [pc, todo], todo being the cached texts to send
  asked,          \* subscription messages so far
  got,            \* history: what each client was sent: [hello, last event, statuses]
  answered,       \* history: the version of the last answer of each network
  failures

svars == <<networks, latest_status, poll_now, status, recent, answered, failures>>
evars == <<at, sending>>
cvars == <<clients, subs, queue, rx, handler, asked, got>>
vars  == <<running, svars, evars, cvars>>

Hello        == <<"hello", 0, 0>>
Event(n)     == <<"event", n, 0>>
Status(n, v) == <<"status", n, v>>

wants_status == \E c \in clients : "status" \in subs[c]

----------------------------------------------------------------------------
(* broadcast *)

Wanting(kind) == {c \in clients : kind \in subs[c]}
Slow(cs)      == {c \in cs : ~rx[c] \/ Len(queue[c]) = CLIENT_QUEUE}

\* mutant: a client whose queue is full misses the message and stays.
BroadcastSkips(kind, text) ==
  LET to == Wanting(kind) IN
  /\ queue' = [c \in Clients |-> IF c \in to \ Slow(to) THEN Append(queue[c], text) ELSE queue[c]]
  /\ UNCHANGED <<clients, subs>>

\* try_send to every client that wants it; one that cannot take it leaves the map.
broadcast(kind, text) ==
  LET to == Wanting(kind) IN
  /\ queue' = [c \in Clients |-> IF c \in to \ Slow(to) THEN Append(queue[c], text) ELSE queue[c]]
  /\ clients' = clients \ Slow(to)
  /\ subs' = [c \in Clients |-> IF c \in Slow(to) THEN {} ELSE subs[c]]

----------------------------------------------------------------------------
(* The NATS task *)

\* handle_event: the network is noted, and the event goes no further when no client
\* wants it now.  Undecodable payloads and foreign subjects change nothing.
handle_event ==
  /\ ~sending /\ at < Len(Subject)
  /\ at' = at + 1
  /\ networks' = networks \cup {Subject[at']}
  /\ sending' = (Wanting("event") # {})
  /\ UNCHANGED <<running, latest_status, poll_now, status, recent, answered, failures, cvars>>

broadcast_event ==
  /\ sending /\ sending' = FALSE
  /\ broadcast("event", Event(at))
  /\ UNCHANGED <<running, at, svars, rx, handler, asked, got>>

----------------------------------------------------------------------------
(* The status task *)

\* mutant: the networks known when the task started.
NetworksAtStart == Given

\* The networks of a round, read when it starts.
Round == networks

Ask(todo) == status' = [pc |-> IF todo = {} THEN "select" ELSE "poll", todo |-> todo]

\* The interval came round.  An observer is not polled for nobody.
Tick ==
  /\ status.pc = "select"
  /\ wants_status /\ Ask(Round)
  /\ UNCHANGED <<running, networks, latest_status, poll_now, recent, answered, failures, evars, cvars>>

\* A client asked for what the cache does not have: one round, unless the last of
\* these was less than the gap ago.
OnDemand ==
  /\ status.pc = "select" /\ poll_now
  /\ poll_now' = FALSE
  /\ \/ recent /\ UNCHANGED <<recent, status>>
     \/ ~recent /\ recent' = TRUE /\ Ask(Round)
  /\ UNCHANGED <<running, networks, latest_status, answered, failures, evars, cvars>>

GapPasses ==
  /\ recent /\ recent' = FALSE
  /\ UNCHANGED <<running, networks, latest_status, poll_now, status, answered, failures, evars, cvars>>

\* The next version of a status; the last stands for every later one.
NextVersion(n) == Min({answered[n] + 1, MaxVersion})

\* mutant: only the first answer of a network is cached.
PollCachesFirst(n) ==
  /\ status.pc = "poll" /\ n \in status.todo
  /\ answered' = [answered EXCEPT ![n] = NextVersion(n)]
  /\ latest_status' = [latest_status EXCEPT ![n] = IF @ = 0 THEN NextVersion(n) ELSE @]
  /\ status' = [pc |-> "answered", todo |-> status.todo, network |-> n]
  /\ UNCHANGED <<running, networks, poll_now, recent, failures, evars, cvars>>

\* poll_status up to its broadcast: the answer is cached.
poll_status(n) ==
  /\ status.pc = "poll" /\ n \in status.todo
  /\ answered' = [answered EXCEPT ![n] = NextVersion(n)]
  /\ latest_status' = [latest_status EXCEPT ![n] = NextVersion(n)]
  /\ status' = [pc |-> "answered", todo |-> status.todo, network |-> n]
  /\ UNCHANGED <<running, networks, poll_now, recent, failures, evars, cvars>>

\* The request fails, is late, is not JSON or is refused: the round goes on.
PollFails(n) ==
  /\ status.pc = "poll" /\ n \in status.todo
  /\ failures < MaxFailures /\ failures' = failures + 1
  /\ Ask(status.todo \ {n})
  /\ UNCHANGED <<running, networks, latest_status, poll_now, recent, answered, evars, cvars>>

broadcast_status ==
  /\ status.pc = "answered"
  /\ broadcast("status", Status(status.network, latest_status[status.network]))
  /\ Ask(status.todo \ {status.network})
  /\ UNCHANGED <<running, networks, latest_status, poll_now, recent, answered, failures, evars,
                 rx, handler, asked, got>>

----------------------------------------------------------------------------
(* handle_client *)

Unsent == [hello |-> FALSE, last |-> 0, statuses |-> {}]

Goto(c, pc, todo) == handler' = [handler EXCEPT ![c] = [pc |-> pc, todo |-> todo]]

\* The handshake is over: in the map, subscribed to nothing, and the writer running.
accept(c) ==
  /\ handler[c].pc = "none" /\ Goto(c, "hello", <<>>)
  /\ clients' = clients \cup {c} /\ subs' = [subs EXCEPT ![c] = {}]
  /\ UNCHANGED <<running, svars, evars, queue, rx, asked, got>>

Send(c, text) ==
  /\ rx[c] /\ Len(queue[c]) < CLIENT_QUEUE
  /\ queue' = [queue EXCEPT ![c] = Append(@, text)]

send_hello(c) ==
  /\ handler[c].pc = "hello" /\ Goto(c, "read", <<>>)
  /\ \/ Send(c, Hello)
     \/ ~rx[c] /\ UNCHANGED queue
  /\ UNCHANGED <<running, svars, evars, clients, subs, rx, asked, got>>

\* A subscription message: it replaces the choice of a client in the map, and ends the
\* handler of one that is not.
set_subscriptions(c) ==
  /\ handler[c].pc = "read" /\ asked[c] < MaxMessages
  /\ asked' = [asked EXCEPT ![c] = @ + 1]
  /\ \E s \in ClientChoices :
       \/ /\ c \in clients /\ subs' = [subs EXCEPT ![c] = s]
          /\ Goto(c, IF "status" \in s THEN "cache" ELSE "read", <<>>)
       \/ /\ c \notin clients /\ Goto(c, "end", <<>>) /\ UNCHANGED subs
  /\ UNCHANGED <<running, svars, evars, clients, queue, rx, got>>

\* What is cached, in the order of the networks' names; nothing cached asks for a poll.
read_cached(c) ==
  /\ handler[c].pc = "cache"
  /\ LET have == {n \in Networks : latest_status[n] > 0} IN
     /\ poll_now' = (poll_now \/ have = {})
     /\ \E o \in SetToSeqs(have) :
          Goto(c, "cached", [i \in DOMAIN o |-> Status(o[i], latest_status[o[i]])])
  /\ UNCHANGED <<running, networks, latest_status, status, recent, answered, failures, evars,
                 clients, subs, queue, rx, asked, got>>

\* One cached text, for which the handler waits until there is room.
send_cached(c) ==
  /\ handler[c].pc = "cached"
  /\ LET todo == handler[c].todo IN
     \/ todo = <<>> /\ Goto(c, "read", <<>>) /\ UNCHANGED queue
     \/ todo # <<>> /\ ~rx[c] /\ Goto(c, "read", <<>>) /\ UNCHANGED queue
     \/ todo # <<>> /\ Send(c, Head(todo)) /\ Goto(c, "cached", Tail(todo))
  /\ UNCHANGED <<running, svars, evars, clients, subs, rx, asked, got>>

\* Close, a read error, or a message of a bad size or that does not parse.
leave(c) ==
  /\ handler[c].pc = "read" /\ Goto(c, "end", <<>>)
  /\ UNCHANGED <<running, svars, evars, clients, subs, queue, rx, asked, got>>

\* The end of the handler: out of the map, and the writer aborted with its queue.
end_client(c) ==
  /\ handler[c].pc = "end" /\ Goto(c, "gone", <<>>)
  /\ clients' = clients \ {c} /\ subs' = [subs EXCEPT ![c] = {}]
  /\ queue' = [queue EXCEPT ![c] = <<>>] /\ rx' = [rx EXCEPT ![c] = FALSE]
  /\ asked' = [asked EXCEPT ![c] = 0] /\ got' = [got EXCEPT ![c] = Unsent]
  /\ UNCHANGED <<running, svars, evars>>

Delivered(g, text) ==
  CASE text[1] = "hello"  -> [g EXCEPT !.hello = TRUE]
    [] text[1] = "event"  -> [g EXCEPT !.last = text[2]]
    [] text[1] = "status" -> [g EXCEPT !.statuses = @ \cup {text}]

\* The writer: a message sent on, or the send fails and the channel closes.
write(c) ==
  /\ rx[c] /\ queue[c] # <<>>
  /\ \/ /\ got' = [got EXCEPT ![c] = Delivered(@, Head(queue[c]))]
        /\ queue' = [queue EXCEPT ![c] = Tail(@)] /\ UNCHANGED rx
     \/ /\ rx' = [rx EXCEPT ![c] = FALSE] /\ queue' = [queue EXCEPT ![c] = <<>>]
        /\ UNCHANGED got
  /\ UNCHANGED <<running, svars, evars, clients, subs, handler, asked>>

----------------------------------------------------------------------------
(* run *)

Each(x) == [c \in Clients |-> x]
Nothing == [n \in Networks |-> 0]
Idle    == [pc |-> "select", todo |-> {}]

WsInit ==
  /\ running = TRUE
  /\ at = 0 /\ sending = FALSE
  /\ networks = Given /\ latest_status = Nothing /\ poll_now = FALSE
  /\ status = Idle /\ recent = FALSE /\ answered = Nothing /\ failures = 0
  /\ clients = {} /\ subs = Each({}) /\ queue = Each(<<>>) /\ rx = Each(TRUE)
  /\ handler = Each([pc |-> "none", todo |-> <<>>]) /\ asked = Each(0) /\ got = Each(Unsent)

\* The tasks are aborted, the map emptied and the handlers go with the process.
shutdown ==
  /\ running /\ running' = FALSE
  /\ at' = 0 /\ sending' = FALSE
  /\ networks' = Given /\ latest_status' = Nothing /\ poll_now' = FALSE
  /\ status' = Idle /\ recent' = FALSE /\ answered' = Nothing /\ failures' = 0
  /\ clients' = {} /\ subs' = Each({}) /\ queue' = Each(<<>>) /\ rx' = Each(TRUE)
  /\ handler' = Each([pc |-> "none", todo |-> <<>>]) /\ asked' = Each(0) /\ got' = Each(Unsent)

nats_task   == running /\ (handle_event \/ broadcast_event)
Polling     == \/ OnDemand \/ broadcast_status
               \/ \E n \in Networks : poll_status(n) \/ PollFails(n)
status_task == running /\ (Tick \/ Polling)
handle_client(c) ==
  /\ running
  /\ \/ send_hello(c) \/ read_cached(c) \/ send_cached(c) \/ end_client(c)
Browser(c) ==
  /\ running
  /\ accept(c) \/ set_subscriptions(c) \/ leave(c) \/ write(c)

WsNext ==
  \/ nats_task \/ status_task \/ (running /\ GapPasses) \/ shutdown
  \/ \E c \in Clients : handle_client(c) \/ Browser(c)

\* The runtime runs every ready task and the interval keeps ticking; a browser owes
\* nothing, neither a message nor a read.
WsSpec ==
  /\ WsInit /\ [][WsNext]_vars
  /\ WF_vars(nats_task) /\ WF_vars(status_task) /\ WF_vars(running /\ Polling)
  /\ \A c \in Clients : WF_vars(handle_client(c))

----------------------------------------------------------------------------
(* Properties *)

\* handle_client: the server's clock comes first, though the client is in the map and
\* open to broadcasts before it is queued: "On connect the server sends one hello".
HelloLeads(q, g) ==
  IF g.hello THEN \A i \in DOMAIN q : q[i][1] # "hello"
  ELSE /\ g.last = 0 /\ g.statuses = {}
       /\ \A i \in DOMAIN q : q[i][1] = "hello" <=> i = 1

\* The events in a queue, and those of them with none in between.
EventsAt(q) == {i \in DOMAIN q : q[i][1] = "event"}
Adjacent(q, i, j) == i < j /\ \A k \in EventsAt(q) : k <= i \/ j <= k

\* broadcast: a client that cannot keep up loses its place and not single messages.
\* Nobody who asked once for the events is sent one after missing the one before.
NoGap(q, g) ==
  LET events == EventsAt(q) IN
  /\ \A i \in events : (\A j \in events : i <= j) /\ g.last > 0 => q[i][2] = g.last + 1
  /\ \A i, j \in events : Adjacent(q, i, j) => q[j][2] = q[i][2] + 1

\* A client's queue, fed by its handler and by two broadcasting tasks, is a hello and
\* then the events without a gap.
ClientSeesOneStream ==
  \A c \in Clients :
    HelloLeads(queue[c], got[c]) /\ (asked[c] = 1 => NoGap(queue[c], got[c]))

\* poll_status caches before it broadcasts and handle_client subscribes before it reads
\* the cache: whichever way a poll and a subscription interleave, a subscribed client
\* has the last answer of every network, on its way or delivered.
NoStatusMissed ==
  \A c \in clients : \A n \in Networks :
    ("status" \in subs[c] /\ handler[c].pc = "read" /\ rx[c] /\ answered[n] > 0
       /\ ~(status.pc = "answered" /\ status.network = n)) =>
      Status(n, answered[n]) \in got[c].statuses \cup ToSet(queue[c])

\* Shared.poll_now and the interval: who subscribes to the status is sent that of every
\* network seen, though its request was collapsed with another or an observer failed
\* to answer.
StatusServed ==
  \A c \in Clients : \A n \in Networks :
    (c \in clients /\ "status" \in subs[c] /\ n \in networks) ~>
      \/ \E v \in 1..MaxVersion : Status(n, v) \in got[c].statuses \cup ToSet(queue[c])
      \/ c \notin clients \/ "status" \notin subs[c]
=============================================================================
