------------------------------ MODULE HeaderTree ------------------------------
(***************************************************************************)
(* The tree of block headers (observer/src/headertree.rs): which headers   *)
(* it accepts, which it refuses and remembers as refused, which chain it   *)
(* follows, and how it is written to headers.bin and read back.            *)
(*                                                                         *)
(* The tree is shared by all connections behind a RwLock.  insert_batch    *)
(* and load run under the write lock; here they take one step per header,  *)
(* with lock saying who holds it and what is left, so a property that a    *)
(* reader may rely on is stated for when the lock is free.                 *)
(*                                                                         *)
(* A block stands for its header and its hash.  Its target is represented  *)
(* by the work it stands for: easier target, less work.  tip_height and    *)
(* tip_work are always the fields of the tip's entry and are left out.     *)
(***************************************************************************)
EXTENDS Integers, Sequences, FiniteSets

CONSTANTS
  Blocks,              \* every block that exists
  Genesis,
  Parent,              \* prev_blockhash of every block but Genesis
  HashOrder,           \* the order of the hashes, an injection into Nat
  Work,                \* the work a block's own target stands for
  Mined,               \* the blocks whose hash meets their own target
  MinWork,             \* the work of max_attainable_target
  AllowMinDifficulty,  \* params.allow_min_difficulty_blocks
  RetargetInterval,    \* 2016
  Adjusted,            \* external: the work a retarget asks for, from an epoch's first and last block
  Checkpoints,         \* a set of [height, hash], no two at one height
  WEAKER_CHAIN_FACTOR, REJECTED_REMEMBERED,
  RECOVERY_INTERVAL, RECOVERY_PEERS,
  Announced,           \* bound: the blocks recovery_due is called for
  MaxBatch,            \* bound: the longest headers message
  MaxNow,              \* bound: the clock stops here
  MaxCrashes           \* bound: how often the process stops

ASSUME TreeAssumption ==
  /\ IsFiniteSet(Blocks) /\ Genesis \in Blocks /\ Genesis \in Mined
  /\ Parent \in [Blocks \ {Genesis} -> Blocks]
  /\ HashOrder \in [Blocks -> Nat]
  /\ \A a, b \in Blocks : HashOrder[a] = HashOrder[b] => a = b
  /\ Work \in [Blocks -> Nat \ {0}]
  /\ Mined \subseteq Blocks
  /\ MinWork \in Nat /\ AllowMinDifficulty \in BOOLEAN
  /\ RetargetInterval \in Nat \ {0}
  /\ Adjusted \in [Blocks \X Blocks -> Nat]
  /\ Checkpoints \subseteq [height : Nat, hash : Blocks]
  /\ \A c, d \in Checkpoints : c.height = d.height => c = d
  /\ WEAKER_CHAIN_FACTOR \in Nat \ {0}
  /\ REJECTED_REMEMBERED \in Nat \ {0, 1}   \* a refused block and its refused parent
  /\ RECOVERY_INTERVAL \in Nat \ {0} /\ RECOVERY_PEERS \in Nat \ {0}
  /\ Announced \subseteq Blocks
  /\ MaxBatch \in Nat /\ MaxNow \in Nat /\ MaxCrashes \in Nat

VARIABLES
  headers,     \* HeaderTree.headers: height and chain_work of every header held
  tip,
  best_chain,
  reached,     \* reached_checkpoint, -1 for None
  rejected,    \* rejected and rejected_order: the refusals, next to be forgotten first
  pruned,      \* whether anything was pruned since the tree was made
  dirty,
  recovery,    \* the requests out for blocks the tree lacks
  lock,        \* who holds the write lock, and the headers still to insert
  file,        \* headers.bin: its records, and whether it ends inside one
  saved,       \* history: the tree as of the last complete write, if the file is that one
  now,
  crashes

tree == <<headers, tip, best_chain, reached, rejected, pruned, dirty, recovery>>
vars == <<headers, tip, best_chain, reached, rejected, pruned, dirty, recovery,
          lock, file, saved, now, crashes>>

----------------------------------------------------------------------------
\* A configured checkpoint replaces a built-in one at its height, and a later one of
\* the configuration an earlier one.
merge_checkpoints(builtin, configured) ==
  LET replaced(c, after) == \E j \in DOMAIN configured : j > after /\ configured[j].height = c.height
  IN  {c \in builtin : ~replaced(c, 0)}
        \cup {configured[i] : i \in {j \in DOMAIN configured : ~replaced(configured[j], j)}}

HeaderError ==
  {"OrphanHeader", "WeakerChain", "InvalidPow", "TargetTooEasy",
   "CheckpointMismatch", "ForkBelowCheckpoint"}

Held == DOMAIN headers

Free == [by |-> "nobody", left |-> <<>>, old_tip |-> Genesis, accepted |-> 0, err |-> "none"]
Up   == lock.by # "down"

IsCheckpoint(b, height) == \E c \in Checkpoints : c.height = height /\ c.hash = b

\* The n-th block before b.
Back(b, n) ==
  LET anc[k \in 0..n] == IF k = 0 THEN b ELSE Parent[anc[k - 1]]
  IN  anc[n]

\* rebuild_best_chain: from genesis to t, best_chain[h] at position h + 1.
ChainTo(t, height) == [i \in 1..height + 1 |-> Back(t, height + 1 - i)]

----------------------------------------------------------------------------
(* Refusals: bounded, forgotten least recently used first *)

Remembered(list) == {list[i].hash : i \in DOMAIN list}
ReasonFor(list, b) == (CHOOSE r \in {list[i] : i \in DOMAIN list} : r.hash = b).reason

rejection_of(b) == IF b \in Remembered(rejected) THEN ReasonFor(rejected, b) ELSE "none"
seen(b) == b \in Held \/ b \in Remembered(rejected)

Drop(list, n) == SubSeq(list, n + 1, Len(list))

remember_rejected(list, b, reason) ==
  IF b \in Remembered(list) THEN list
  ELSE LET longer == Append(list, [hash |-> b, reason |-> reason])
       IN  IF Len(longer) > REJECTED_REMEMBERED
           THEN Drop(longer, Len(longer) - REJECTED_REMEMBERED) ELSE longer

\* Mutation: arrival order, nothing moves to the back.
touch_rejected_Arrival(list, b) == list

touch_rejected(list, b) ==
  IF b \notin Remembered(list) THEN list
  ELSE LET at == CHOOSE i \in DOMAIN list : list[i].hash = b
       IN  SubSeq(list, 1, at - 1) \o Drop(list, at) \o <<list[at]>>

----------------------------------------------------------------------------
(* Validation *)

weaker_than_our_tip(b) ==
  ~AllowMinDifficulty /\ Work[b] * WEAKER_CHAIN_FACTOR < Work[tip]

\* The work the block after b, at the given height, has to carry.
ExpectedWork(b, height) ==
  IF height % RetargetInterval = 0
  THEN Adjusted[Back(b, RetargetInterval - 1), b]
  ELSE Work[b]

\* The error a header with a known parent meets, or "ok".  The walk back to the
\* start of an epoch never leaves the tree: see TreeConnected.
validate_header(b, height) ==
  IF Work[b] < MinWork THEN "TargetTooEasy"
  ELSE IF \E c \in Checkpoints : c.height = height /\ c.hash # b THEN "CheckpointMismatch"
  ELSE IF height <= reached THEN "ForkBelowCheckpoint"
  ELSE IF b \notin Mined \/ Work[b] # ExpectedWork(Parent[b], height) THEN "InvalidPow"
  ELSE "ok"

----------------------------------------------------------------------------
(* Pruning *)

ParentClosed(S) == \A b \in S \ {Genesis} : Parent[b] \in S

\* The walk from the checkpoint block to genesis.
Ancestry(map, b) ==
  {x \in DOMAIN map : \A S \in SUBSET DOMAIN map : b \in S /\ ParentClosed(S) => x \in S}

\* Mutations: what stood below the checkpoint stays; nothing below it stays.
Survivors_KeepsBelow(map, b) == DOMAIN map
Survivors_DropsAncestors(map, b) == {x \in DOMAIN map : map[x].height >= map[b].height} \cup {Genesis}

\* prune_below_checkpoint: the checkpoint's ancestry and what stands above it,
\* without whatever that leaves parentless.
Survivors(map, b) ==
  LET keep     == Ancestry(map, b)
      retained == {x \in DOMAIN map : map[x].height > map[b].height \/ x \in keep}
  IN  UNION {S \in SUBSET retained : ParentClosed(S)}

MostWork(map, S) == {x \in S : \A y \in S : map[y].chain_work <= map[x].chain_work}

----------------------------------------------------------------------------
(* insert_inner *)

\* Mutation: the higher block is the better one.
Overtakes_ByHeight(map, b, t) == map[b].height > map[t].height
Overtakes(map, b, t) == map[b].chain_work > map[t].chain_work

\* A valid header enters: the checkpoint it may be is noted, with the pruning
\* and the move of the tip that brings, and then it may become the tip.
Accept(b) ==
  LET entry == [height     |-> headers[Parent[b]].height + 1,
                chain_work |-> headers[Parent[b]].chain_work + Work[b]]
      map   == [x \in Held \cup {b} |-> IF x = b THEN entry ELSE headers[x]]
      noted == IsCheckpoint(b, entry.height) /\ entry.height > reached
      stay  == IF noted THEN Survivors(map, b) ELSE DOMAIN map
      cut   == stay # DOMAIN map
  IN  /\ headers' = [x \in stay |-> map[x]]
      /\ reached' = IF noted THEN entry.height ELSE reached
      /\ \E t \in IF tip \in stay THEN {tip} ELSE MostWork(map, stay) :
           /\ tip' = IF Overtakes(map, b, t) THEN b ELSE t
           /\ best_chain' = IF cut THEN ChainTo(t, map[t].height) ELSE best_chain
      /\ pruned' = (pruned \/ cut)
      /\ dirty' = TRUE
      /\ recovery' = [x \in DOMAIN recovery \ {b} |-> recovery[x]]
      /\ UNCHANGED rejected

Refuse(list, b, reason) ==
  /\ rejected' = remember_rejected(list, b, reason)
  /\ UNCHANGED <<headers, tip, best_chain, reached, pruned, dirty, recovery>>

\* What insert_inner returns: "known", "ok" or the error.
Verdict(b) ==
  IF b \in Held THEN "known"
  ELSE IF Parent[b] \notin Held THEN
    IF Parent[b] \in Remembered(rejected) THEN rejection_of(Parent[b])
    ELSE IF weaker_than_our_tip(b) THEN "WeakerChain" ELSE "OrphanHeader"
  ELSE validate_header(b, headers[Parent[b]].height + 1)

\* A header refused because of its parent first makes the parent the last to be
\* forgotten.  An orphan leaves no trace.
insert_inner(b) ==
  LET verdict == Verdict(b)
      used == IF Parent[b] \in Held THEN rejected ELSE touch_rejected(rejected, Parent[b])
  IN  CASE verdict = "ok" -> Accept(b)
        [] verdict \in {"known", "OrphanHeader"} -> UNCHANGED tree
        [] OTHER -> Refuse(used, b, verdict)

----------------------------------------------------------------------------
(* insert_batch *)

Batches == UNION {[1..n -> Blocks \ {Genesis}] : n \in 1..MaxBatch}

BeginBatch(batch) ==
  /\ lock = Free
  /\ lock' = [Free EXCEPT !.by = "batch", !.left = batch, !.old_tip = tip]
  /\ UNCHANGED <<tree, file, saved, now, crashes>>

\* One header of a batch or of the file.  An error does not stop the run; a batch
\* counts what it accepts and keeps its first error.
InsertOne ==
  /\ lock.by \in {"batch", "load"} /\ lock.left # <<>>
  /\ insert_inner(Head(lock.left))
  /\ LET verdict == Verdict(Head(lock.left))
         err == IF lock.err = "none" /\ verdict \in HeaderError THEN verdict ELSE lock.err
     IN  lock' = [lock EXCEPT !.left = Tail(@),
                              !.accepted = IF verdict = "ok" THEN @ + 1 ELSE @, !.err = err]
  /\ UNCHANGED <<file, saved, now, crashes>>

\* Mutation: the best chain is never rebuilt.
EndBatch_Stale ==
  /\ lock.by = "batch" /\ lock.left = <<>>
  /\ lock' = Free
  /\ UNCHANGED <<tree, file, saved, now, crashes>>

EndBatch ==
  /\ lock.by = "batch" /\ lock.left = <<>>
  /\ best_chain' = IF tip # lock.old_tip THEN ChainTo(tip, headers[tip].height) ELSE best_chain
  /\ lock' = Free
  /\ UNCHANGED <<headers, tip, reached, rejected, pruned, dirty, recovery, file, saved, now, crashes>>

\* The requests that have not lapsed.
Out == {b \in DOMAIN recovery : now - recovery[b].started < RECOVERY_INTERVAL}

\* Mutation: one connection asks and no other.
Granted_OneOnly(missing, proven) == missing \notin Out

\* A request is granted if none is out for the block, or if the peer has proven it
\* has it and few are out.
Granted(missing, proven) ==
  missing \in Out => proven /\ recovery[missing].requests < RECOVERY_PEERS

recovery_due(missing, proven) ==
  /\ lock = Free
  /\ LET requested(b) ==
           IF b \notin Out THEN [started |-> now, requests |-> 1]
           ELSE IF b = missing /\ Granted(b, proven)
                THEN [recovery[b] EXCEPT !.requests = @ + 1] ELSE recovery[b]
     IN  recovery' = [b \in Out \cup {missing} |-> requested(b)]
  /\ UNCHANGED <<headers, tip, best_chain, reached, rejected, pruned, dirty,
                 lock, file, saved, now, crashes>>

----------------------------------------------------------------------------
(* chain_tips *)

\* How far to walk back from b until the best chain has the block at that height.
branch_len(b) ==
  LET height == headers[b].height
      on(n)  == /\ height - n < Len(best_chain)
                /\ best_chain[height - n + 1] = Back(b, n)
  IN  CHOOSE n \in 0..height : on(n) /\ \A m \in 0..n - 1 : ~on(m)

\* The headers that are no header's parent.
chain_tips ==
  LET parents == {Parent[b] : b \in Held \ {Genesis}}
  IN  {[hash |-> b, height |-> headers[b].height, branch_len |-> branch_len(b),
        status |-> IF b = tip THEN "Active" ELSE "HeadersOnly"] : b \in Held \ parents}

----------------------------------------------------------------------------
(* Persistence *)

\* Mutation: only height and hash decide.
Before_IgnoresBest(a, b) ==
  \/ headers[a].height < headers[b].height
  \/ headers[a].height = headers[b].height /\ HashOrder[a] < HashOrder[b]

\* The order save writes in: height, then the best chain first, then the hash.
Before(a, b) ==
  LET off(x) == \A i \in DOMAIN best_chain : best_chain[i] # x
  IN  \/ headers[a].height < headers[b].height
      \/ /\ headers[a].height = headers[b].height
         /\ \/ ~off(a) /\ off(b)
            \/ off(a) = off(b) /\ HashOrder[a] < HashOrder[b]

Records ==
  [i \in 1..Cardinality(Held) |->
     CHOOSE b \in Held : Cardinality({x \in Held : Before(x, b)}) = i - 1]

\* What a reader of the tree can tell.
View == [headers |-> headers, tip |-> tip, best_chain |-> best_chain, reached |-> reached]

\* The file is overwritten in place.  A write that fails, or that a crash cuts
\* short, leaves the first n records and maybe a part of the next.  A file that
\* no restart will read is not told apart, hence the bound.
save(n, partial) ==
  /\ lock = Free /\ crashes < MaxCrashes
  /\ dirty
  /\ partial => n < Cardinality(Held)
  /\ file' = [records |-> SubSeq(Records, 1, n), partial |-> partial]
  /\ dirty' = (n < Cardinality(Held))
  /\ saved' = IF n = Cardinality(Held) THEN {View} ELSE {}
  /\ UNCHANGED <<headers, tip, best_chain, reached, rejected, pruned, recovery,
                 lock, now, crashes>>

\* new and with_checkpoints: the tree that holds genesis alone.
GenesisTree == [b \in {Genesis} |-> [height |-> 0, chain_work |-> Work[Genesis]]]
NoRecovery  == [b \in {} |-> 0]
GenesisReached == IF IsCheckpoint(Genesis, 0) THEN 0 ELSE -1

\* The process stops at any time and loads the file.  A file that ends inside a
\* record is an error load returns and run does not survive.
Restart ==
  /\ Up
  /\ crashes < MaxCrashes
  /\ crashes' = crashes + 1
  /\ headers' = GenesisTree /\ tip' = Genesis /\ best_chain' = <<Genesis>>
  /\ reached' = GenesisReached
  /\ rejected' = <<>> /\ recovery' = NoRecovery
  /\ pruned' = FALSE /\ dirty' = FALSE
  /\ lock' = [Free EXCEPT !.by = IF file.partial THEN "down" ELSE "load", !.left = file.records]
  /\ UNCHANGED <<file, saved, now>>

EndLoad ==
  /\ lock.by = "load" /\ lock.left = <<>>
  /\ best_chain' = ChainTo(tip, headers[tip].height)
  /\ dirty' = pruned
  /\ lock' = Free
  /\ UNCHANGED <<headers, tip, reached, rejected, pruned, recovery, file, saved, now, crashes>>

----------------------------------------------------------------------------
Advance ==
  /\ now < MaxNow
  /\ now' = now + 1
  /\ UNCHANGED <<tree, lock, file, saved, crashes>>

Init ==
  /\ headers = GenesisTree /\ tip = Genesis /\ best_chain = <<Genesis>>
  /\ reached = GenesisReached
  /\ rejected = <<>> /\ recovery = NoRecovery
  /\ pruned = FALSE /\ dirty = FALSE
  /\ lock = Free
  /\ file = [records |-> <<>>, partial |-> FALSE]
  /\ saved = {}
  /\ now = 0
  /\ crashes = 0

Next ==
  \/ \E batch \in Batches : BeginBatch(batch)
  \/ InsertOne \/ EndBatch
  \/ \E b \in Announced, proven \in BOOLEAN : recovery_due(b, proven)
  \/ \E n \in 0..Cardinality(Held), partial \in BOOLEAN : save(n, partial)
  \/ Restart \/ EndLoad
  \/ Advance

Spec == Init /\ [][Next]_vars

----------------------------------------------------------------------------
(* Properties *)

\* No header is without its parent ("a header with no parent panics chain_tips",
\* prune_below_checkpoint), and height and work add up along every branch, in
\* whatever order headers arrive, are pruned or are read back from a cut file.
TreeConnected ==
  /\ Genesis \in Held /\ headers[Genesis].height = 0
  /\ \A b \in Held \ {Genesis} :
       /\ Parent[b] \in Held
       /\ headers[b].height = headers[Parent[b]].height + 1
       /\ headers[b].chain_work = headers[Parent[b]].chain_work + Work[b]

\* The tree follows a chain with the most work of all it holds, pruning included.
TipHasMostWork ==
  tip \in Held /\ \A b \in Held : headers[b].chain_work <= headers[tip].chain_work

\* The header of b and all before it: what is followed from a tip, one height at a time.
Path(b) == {Back(b, n) : n \in 0..headers[b].height}

\* The tips a reader is told of cover the whole tree, one of them is active, and each
\* branch is as long as it has headers that the active chain lacks, although the walk
\* back trusts the best chain, which is rebuilt only now and then.
TipsTellTheForks ==
  lock = Free =>
    /\ UNION {Path(t.hash) : t \in chain_tips} = Held
    /\ \E t \in chain_tips : t.status = "Active"
    /\ \A t \in chain_tips :
         t.branch_len = Cardinality(Path(t.hash) \ Path(tip))

\* Once a checkpoint block is held, it is held for good and everything up to its
\* height is its ancestry (Checkpoint: "nothing new is accepted below it").
OneChainUpToCheckpoint ==
  \A c \in Checkpoints : c.height = reached =>
    /\ c.hash \in Held
    /\ {b \in Held : headers[b].height <= reached} = Path(c.hash)

\* "The parent first, so that remembering the child cannot be what forgets the
\* parent" (insert_inner): refusing a header because its parent was refused keeps
\* the parent's refusal, with room for two, and passes its reason on.
RefusalInUseIsKept ==
  [][lock.left # <<>> /\ rejected' # rejected /\ crashes' = crashes =>
       LET b == Head(lock.left)
       IN  (Parent[b] \notin Held /\ Parent[b] \in Remembered(rejected)) =>
             /\ Parent[b] \in Remembered(rejected')
             /\ b \in Remembered(rejected')
             /\ b \notin Remembered(rejected) => ReasonFor(rejected', b) = rejection_of(Parent[b])]_vars

\* No block of a saved tree has the work of its tip and is lower.
TipIsLowest(view) ==
  \A b \in DOMAIN view.headers :
    view.headers[b].chain_work = view.headers[view.tip].chain_work =>
      view.headers[view.tip].height <= view.headers[b].height

\* A clean tree is the one on disk: with nothing left to save, readers see what the last
\* complete write saved, even after a crash and a load.  No header, no work and no
\* checkpoint is lost (save, load); the tip and its chain come back as well unless a lower
\* block has the tip's work, which load meets first.
CleanTreeIsTheSavedOne ==
  lock = Free /\ ~dirty => \A view \in saved :
    /\ headers = view.headers /\ reached = view.reached
    /\ headers[tip].chain_work = headers[view.tip].chain_work
    /\ TipIsLowest(view) => View = view
=============================================================================
