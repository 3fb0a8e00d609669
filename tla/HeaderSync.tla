------------------------------ MODULE HeaderSync ------------------------------
(***************************************************************************)
(* Sessions on one header tree: the bootstrap synchronisation of lib.rs    *)
(* and what a session (protocol.rs) does with the headers, invs and        *)
(* compact blocks its peer sends, the recovery of missing headers          *)
(* included.                                                               *)
(*                                                                         *)
(* A session's step is what it does between two awaits or two takings of   *)
(* the tree's lock.  A message of another kind, and the announcements a    *)
(* session publishes, do not touch the tree and are left out.              *)
(*                                                                         *)
(* Peers are the environment.  A peer follows some chain, tells us of a    *)
(* new tip in one of the three ways, and answers getheaders as our own     *)
(* tree would.  Links are reliable and ordered while a session lasts.      *)
(***************************************************************************)
EXTENDS HeaderTree

CONSTANTS
  Peers,
  Seeds,        \* bootstrap_addrs, a sequence of peers
  PeerTips,     \* the tips each peer may follow
  LoadedTips,   \* the tips of the files the process may start from
  MaxHeaders,   \* headers in one answer, 2000
  MaxSessions,  \* bound: sessions started
  MaxHangups    \* bound: sessions that end because the peer or the network fails

ASSUME SyncAssumption ==
  /\ Seeds \in Seq(Peers)
  /\ PeerTips \in [Peers -> SUBSET Blocks]
  /\ LoadedTips \subseteq Blocks
  /\ MaxHeaders \in Nat \ {0}
  /\ MaxSessions \in Nat /\ MaxHangups \in Nat
  \* A header commits to its parent: walking back never turns in a circle.
  /\ \A S \in SUBSET (Blocks \ {Genesis}) : (\A b \in S : Parent[b] \in S) => S = {}

VARIABLES
  boot,      \* the seed bootstrap_sync is at, 0 once it has returned
  conn,      \* the session with each peer
  inbox,     \* messages on their way from each peer
  requests,  \* locators on their way to each peer
  best,      \* each peer's own tip
  ended,     \* history: how the last session with each peer ended
  sessions,
  hangups

syncvars == <<boot, conn, inbox, requests, best, ended, sessions, hangups>>
allvars  == <<vars, syncvars>>

----------------------------------------------------------------------------
(* Chains, locators and answers *)

\* The height and the work a block has wherever it is placed, and the chain it ends.
Height[b \in Blocks]    == IF b = Genesis THEN 0 ELSE Height[Parent[b]] + 1
ChainWork[b \in Blocks] == IF b = Genesis THEN Work[b] ELSE ChainWork[Parent[b]] + Work[b]
ChainOf                 == [b \in Blocks |-> ChainTo(b, Height[b])]

OnChain(b, t) == \E i \in DOMAIN ChainOf[t] : ChainOf[t][i] = b

\* The heights build_locator lists: steps of 1, 2, ... 16, then doubling, and 0.
LocatorHeights(height) ==
  LET walk[i \in 0..height] ==
        IF i = 0 THEN [at |-> height, step |-> 1]
        ELSE LET w == walk[i - 1]
             IN  [at   |-> IF w.at > w.step THEN w.at - w.step ELSE 0,
                  step |-> IF w.step < 16 THEN w.step + 1 ELSE 2 * w.step]
  IN  {walk[i].at : i \in 0..height}

build_locator ==
  {best_chain[h + 1] : h \in LocatorHeights(headers[tip].height) \cap 0..Len(best_chain) - 1}

\* Headers from the highest block of the chain that the locator names.
get_headers_from_locator(chain, locator) ==
  LET named == {i \in DOMAIN chain : chain[i] \in locator} \cup {1}
      start == CHOOSE i \in named : \A j \in named : j <= i
      end   == IF start + MaxHeaders < Len(chain) THEN start + MaxHeaders ELSE Len(chain)
  IN  SubSeq(chain, start + 1, end)

----------------------------------------------------------------------------
(* Sessions *)

\* A message is headers, inv or cmpctblock, with the tip its sender had.
NoMessage == [type |-> "headers", blocks |-> <<>>, of |-> Genesis]

\* step: where the handler is (off, getheaders, recv, insert, inserting, recover, due
\* or close); asked_for: at most one block; other: the verdict
\* that the session is about to end for.
Off == [step |-> "off", sync |-> FALSE, asked_for |-> {}, msg |-> NoMessage, other |-> "none"]

Newest(p) == conn[p].msg.blocks[Len(conn[p].msg.blocks)]

Go(p, new) == conn' = [conn EXCEPT ![p] = new]

\* A session begins with a getheaders, after its handshake.
Start(p, sync) ==
  /\ conn[p].step = "off"
  /\ sessions < MaxSessions
  /\ sessions' = sessions + 1
  /\ Go(p, [Off EXCEPT !.step = "getheaders", !.sync = sync])
  /\ inbox' = [inbox EXCEPT ![p] = <<>>]
  /\ requests' = [requests EXCEPT ![p] = <<>>]
  /\ UNCHANGED <<vars, boot, best, ended, hangups>>

\* The session is over; what was on its way is lost.  run_session returns Ok
\* whatever ended it, and bootstrap_sync takes Ok for a finished sync.
End(p, why) ==
  /\ Go(p, Off)
  /\ ended' = [ended EXCEPT ![p] = [why |-> why, tip |-> conn[p].msg.of]]
  /\ boot' = 0
  /\ inbox' = [inbox EXCEPT ![p] = <<>>]
  /\ requests' = [requests EXCEPT ![p] = <<>>]
  /\ UNCHANGED <<vars, best, sessions>>

\* The peer closes, resets or stops answering.
Hangup(p) ==
  /\ conn[p].step \in {"recv", "getheaders"}
  /\ hangups < MaxHangups
  /\ hangups' = hangups + 1
  /\ End(p, "HungUp")

send_getheaders(p) ==
  /\ conn[p].step = "getheaders" /\ lock = Free
  /\ requests' = [requests EXCEPT ![p] = Append(@, build_locator)]
  /\ Go(p, [conn[p] EXCEPT !.step = "recv"])
  /\ UNCHANGED <<vars, boot, inbox, best, ended, sessions, hangups>>

\* Where a handler starts.  During the sync an empty headers message ends it; an
\* inv of a block the tree has seen needs nothing.
FirstStep(p, m) ==
  CASE m.type = "inv" -> IF seen(m.blocks[1]) THEN "recv" ELSE "recover"
    [] m.type # "inv" /\ m.blocks # <<>> -> "insert"
    [] OTHER -> IF conn[p].sync THEN "close" ELSE "recv"

handle_message(p) ==
  /\ conn[p].step = "recv" /\ inbox[p] # <<>> /\ lock = Free
  /\ LET m == Head(inbox[p])
     IN  Go(p, [conn[p] EXCEPT !.step = FirstStep(p, m), !.msg = m])
  /\ inbox' = [inbox EXCEPT ![p] = Tail(@)]
  /\ UNCHANGED <<vars, boot, requests, best, ended, sessions, hangups>>

\* accept_headers takes the write lock ...
Insert(p) ==
  /\ conn[p].step = "insert"
  /\ BeginBatch(conn[p].msg.blocks)
  /\ Go(p, [conn[p] EXCEPT !.step = "inserting"])
  /\ UNCHANGED <<boot, inbox, requests, best, ended, sessions, hangups>>

InsertNext ==
  /\ InsertOne
  /\ UNCHANGED syncvars

\* Mutation: an orphan is taken for a sign of another chain.
is_other_chain_Orphan(err) == err \in HeaderError

is_other_chain(err) == err \in HeaderError \ {"OrphanHeader"}

\* Mutation: an answer that brings nothing new ends the sync.
AfterInsert_StopsOnNothingNew(p, accepted, other) ==
  CASE other # "none" -> "close"
    [] conn[p].sync /\ conn[p].msg.type = "headers" /\ other = "none" ->
         IF accepted > 0 THEN "getheaders" ELSE "close"
    [] OTHER -> "recv"

\* Mutation: a peer on another chain is kept.
AfterInsert_Keeps(p, accepted, other) ==
  IF conn[p].sync /\ conn[p].msg.type = "headers" /\ accepted > 0 THEN "getheaders" ELSE "recv"

\* What follows an insertion that needs no recovery: a peer on another chain is
\* left, and the sync goes on for as long as headers come in.
AfterInsert(p, accepted, other) ==
  IF other # "none" THEN "close"
  ELSE IF conn[p].sync /\ conn[p].msg.type = "headers" /\ accepted > 0 THEN "getheaders"
  ELSE "recv"

\* ... and releases it with the number accepted and the first error.
Inserted(p) ==
  /\ conn[p].step = "inserting"
  /\ EndBatch
  /\ LET behind == lock.err = "OrphanHeader" /\ ~conn[p].sync
         other  == IF is_other_chain(lock.err) THEN lock.err ELSE "none"
         next   == AfterInsert(p, lock.accepted, other)
     IN  Go(p, [conn[p] EXCEPT !.step = IF behind THEN "recover" ELSE next, !.other = other])
  /\ UNCHANGED <<boot, inbox, requests, best, ended, sessions, hangups>>

\* recover_headers: not twice for one block, and not for a refused one ...
recover_headers(p) ==
  /\ conn[p].step = "recover" /\ lock = Free
  /\ LET done == conn[p].asked_for = {Newest(p)} \/ rejection_of(Newest(p)) # "none"
     IN  Go(p, [conn[p] EXCEPT !.step = IF done THEN "recv" ELSE "due"])
  /\ UNCHANGED <<vars, boot, inbox, requests, best, ended, sessions, hangups>>

\* ... and only if the tree grants it.
RecoveryDue(p) ==
  /\ conn[p].step = "due"
  /\ LET proven == conn[p].msg.type # "inv"
     IN  /\ recovery_due(Newest(p), proven)
         /\ Go(p, IF Granted(Newest(p), proven)
                  THEN [conn[p] EXCEPT !.step = "getheaders", !.asked_for = {Newest(p)}]
                  ELSE [conn[p] EXCEPT !.step = "recv"])
  /\ UNCHANGED <<boot, inbox, requests, best, ended, sessions, hangups>>

\* The handler returns SyncComplete or OtherChain, which ends the session.
Close(p) ==
  /\ conn[p].step = "close"
  /\ End(p, IF conn[p].other # "none" THEN "OtherChain" ELSE "SyncComplete")
  /\ UNCHANGED hangups

SessionStep(p) ==
  \/ send_getheaders(p) \/ handle_message(p)
  \/ Insert(p) \/ Inserted(p)
  \/ recover_headers(p) \/ RecoveryDue(p)
  \/ Close(p)

----------------------------------------------------------------------------
(* bootstrap_sync and the manager's dials *)

BootConnects ==
  /\ boot # 0
  /\ \A p \in Peers : conn[p].step = "off"
  /\ Start(Seeds[boot], TRUE)

\* The attempt fails before the session: the next seed, and after the last the
\* first again.
BootFails ==
  /\ boot # 0
  /\ \A p \in Peers : conn[p].step = "off"
  /\ hangups < MaxHangups
  /\ hangups' = hangups + 1
  /\ boot' = (boot % Len(Seeds)) + 1
  /\ UNCHANGED <<vars, conn, inbox, requests, best, ended, sessions>>

\* The manager dials once bootstrap_sync has returned.
Dial(p) == boot = 0 /\ Start(p, FALSE)

----------------------------------------------------------------------------
(* Peers *)

Answer(p) ==
  /\ requests[p] # <<>>
  /\ LET headers_ == get_headers_from_locator(ChainOf[best[p]], Head(requests[p]))
     IN  inbox' = [inbox EXCEPT ![p] =
                     Append(@, [type |-> "headers", blocks |-> headers_, of |-> best[p]])]
  /\ requests' = [requests EXCEPT ![p] = Tail(@)]
  /\ UNCHANGED <<vars, boot, conn, best, ended, sessions, hangups>>

\* The peer moves to a longer chain and announces its new tip: the new headers,
\* the last of them, an inv or a compact block.
Announce(p, t) ==
  LET old == ChainOf[best[p]]
      new == ChainOf[t]
      shared == {i \in DOMAIN new : \A j \in 1..i : OnChain(new[j], best[p])}
      fresh == SubSeq(new, Cardinality(shared) + 1, Len(new))
      how(type, blocks) == [type |-> type, blocks |-> blocks, of |-> t]
  IN  /\ Len(new) > Len(old)
      /\ best' = [best EXCEPT ![p] = t]
      /\ \E m \in {how("headers", fresh), how("headers", <<t>>),
                   how("inv", <<t>>), how("cmpctblock", <<t>>)} :
           inbox' = IF conn[p].step = "off" THEN inbox ELSE [inbox EXCEPT ![p] = Append(@, m)]
      /\ UNCHANGED <<vars, boot, conn, requests, ended, sessions, hangups>>

----------------------------------------------------------------------------
\* The tree as it is after loading a file that holds the chain to t.
Loaded(t) ==
  LET passed == {c.height : c \in {d \in Checkpoints : OnChain(d.hash, t) /\ Height[d.hash] = d.height}}
  IN  /\ headers = [b \in {x \in Blocks : OnChain(x, t)} |->
                      [height |-> Height[b], chain_work |-> ChainWork[b]]]
      /\ tip = t /\ best_chain = ChainOf[t]
      /\ reached = CHOOSE h \in passed \cup {-1} : \A k \in passed : k <= h

SyncInit ==
  /\ \E t \in LoadedTips : Loaded(t)
  /\ rejected = <<>> /\ recovery = NoRecovery
  /\ pruned = FALSE /\ dirty = FALSE
  /\ lock = Free
  /\ file = [records |-> best_chain, partial |-> FALSE]
  /\ saved = {}
  /\ now = 0 /\ crashes = 0
  /\ boot = IF Seeds = <<>> THEN 0 ELSE 1
  /\ conn = [p \in Peers |-> Off]
  /\ inbox = [p \in Peers |-> <<>>]
  /\ requests = [p \in Peers |-> <<>>]
  /\ best \in {f \in [Peers -> Blocks] : \A p \in Peers : f[p] \in PeerTips[p]}
  /\ ended = [p \in Peers |-> [why |-> "none", tip |-> Genesis]]
  /\ sessions = 0 /\ hangups = 0

\* While a batch is being inserted nothing else moves: every other step either
\* waits for the lock or touches nothing the insertion does.  No time passes: the
\* clock only makes requests lapse, so a request that is out stays out.
SyncNext ==
  \/ InsertNext
  \/ \E p \in Peers : SessionStep(p)
  \/ /\ lock = Free
     /\ \/ BootConnects \/ BootFails
        \/ \E p \in Peers : Dial(p)
        \/ \E p \in Peers : Hangup(p)
        \/ \E p \in Peers : Answer(p)
        \/ \E p \in Peers : \E t \in PeerTips[p] : Announce(p, t)

\* Sessions and bootstrap_sync run on and peers answer what they are asked, or at
\* least one of them does while any can: with finitely many messages to handle that
\* is enough.  Nothing is assumed of dials, announcements and failures.
Progress ==
  \/ InsertNext \/ BootConnects
  \/ \E p \in Peers : SessionStep(p) \/ Answer(p)

SyncSpec == SyncInit /\ [][SyncNext]_allvars /\ WF_allvars(Progress)

----------------------------------------------------------------------------
(* Properties *)

\* The chains the tree refuses: with a block that breaks a rule, or past a checkpoint.
RefusedTips ==
  {t \in Blocks : \E i \in 2..Len(ChainOf[t]) :
     LET b == ChainOf[t][i]
     IN  \/ Work[b] < MinWork \/ b \notin Mined \/ Work[b] # ExpectedWork(Parent[b], i - 1)
         \/ \E c \in Checkpoints : c.height = i - 1 /\ c.hash # b}

\* The chains with a block so easy that a tree which follows another block, and has not
\* its parent, takes it for one of a weaker chain.
EasyTips ==
  {t \in Blocks : ~AllowMinDifficulty /\ \E b \in Blocks \ {Genesis} : \E x \in Blocks :
     OnChain(b, t) /\ ~OnChain(Parent[b], x) /\ Work[b] * WEAKER_CHAIN_FACTOR < Work[x]}

\* The peers on our chain: every tip they may follow is valid, never far easier than
\* others, and has the checkpoints behind it or ahead of it.
OurPeers ==
  {p \in Peers : \A t \in PeerTips[p] :
     /\ t \notin RefusedTips \cup EasyTips
     /\ \A c \in Checkpoints : OnChain(c.hash, t) \/ OnChain(t, c.hash)}

\* The tips on another branch than the last checkpoint reached.
RuledOut ==
  {t \in Blocks : \E c \in Checkpoints :
     c.height = reached /\ ~OnChain(c.hash, t) /\ ~OnChain(t, c.hash)}

\* SyncComplete means it: when a session ends with it, the tree holds everything
\* the peer had when it said that it has no more, although answers are cut at
\* MaxHeaders, announcements come in between and several requests may be out.  Only a
\* checkpoint may take it away again.
SyncCompleteIsTrue ==
  \A p \in Peers : ended[p].why = "SyncComplete" => ended[p].tip \in Held \/ ended[p].tip \in RuledOut

\* "A fork with less work than our tip is an ordinary race ... and a peer on one is
\* still a peer on our chain" (is_other_chain): no session with a peer on our chain
\* ends for being on another one, however far behind or ahead of the tree it is and
\* whatever other peers have had the tree refuse.
PeerOnOurChainKept ==
  \A p \in OurPeers : ended[p].why # "OtherChain"

\* The answer to a request on its way to p holds a block of a chain the tree refuses.
AnswersWithRefused(p) ==
  \E i \in DOMAIN requests[p] :
    LET answer == get_headers_from_locator(ChainOf[best[p]], requests[p][i])
    IN  \E j \in DOMAIN answer : answer[j] \in RefusedTips

\* "A peer that sends us a header of a chain we refuse is telling us which chain it
\* follows" (accept_headers): a session whose getheaders a peer has such headers to answer
\* with ends, unless the peer leaves that chain, whatever it and other peers on the chain
\* announced first, were refused for and had the tree forget.  A peer that only names a
\* refused block in an inv, or whose header the tree cannot place while others were asked
\* for it, has shown nothing and is kept until it is asked.
OtherChainIsLeft ==
  \A p \in Peers :
    AnswersWithRefused(p) ~> (conn[p].step = "off" \/ best[p] \notin RefusedTips)

\* One answer to a getheaders sent now reaches b.
WithinReach(b) ==
  LET answer == get_headers_from_locator(ChainOf[b], build_locator)
  IN  \E i \in DOMAIN answer : answer[i] = b

\* The tips a peer may move to, and so announce: longer than another it may follow.
LaterTips(p) == {t \in PeerTips[p] : \E s \in PeerTips[p] : Height[s] < Height[t]}

\* "A missed block used to leave it permanently behind" (recover_headers): a valid
\* block that came with its header but without its parent, and is within reach of
\* one answer, is in the tree in the end if the session lasts, also when another
\* peer was asked for it and left.
MissedBlockIsFetched ==
  \A p \in Peers : \A b \in LaterTips(p) \ RefusedTips :
    (conn[p].step = "recover" /\ conn[p].msg.type # "inv" /\ Newest(p) = b /\ WithinReach(b))
      ~> (b \in Held \/ conn[p].step = "off")
=============================================================================
