---------------------------- MODULE PipelineProofs ----------------------------
(***************************************************************************)
(* What holds of the event stream for any number of connection tasks, any  *)
(* size of the queue and any reports: the reserve that emit.rs keeps free  *)
(* of gossip, the loss counters that the metrics tool takes from the       *)
(* stamps, and the bounds of the tool's series (labels.rs).                *)
(***************************************************************************)
EXTENDS Pipeline, FiniteSetTheorems, SequenceTheorems, WellFoundedInduction, TLAPS

----------------------------------------------------------------------------
(* Sequences of events, whatever an event is.                               *)

IsSeq(q) == \E S : q \in Seq(S)

\* What try_send does to the channel.
LEMMA QueueAppend ==
  ASSUME NEW q, NEW e, IsSeq(q)
  PROVE  /\ IsSeq(Append(q, e)) /\ Len(q) \in Nat /\ Len(Append(q, e)) = Len(q) + 1
         /\ \A i \in 1..Len(q) : Append(q, e)[i] = q[i]
         /\ Append(q, e)[Len(q) + 1] = e
         /\ DOMAIN q = 1..Len(q) /\ DOMAIN Append(q, e) = 1..(Len(q) + 1)
<1>1. PICK S : q \in Seq(S)
  BY DEF IsSeq
<1>2. q \in Seq(S \cup {e}) /\ e \in S \cup {e}
  BY <1>1, SeqMonotonic
<1>3. Append(q, e) \in Seq(S \cup {e})
  BY <1>2
<1> QED
  BY <1>2, <1>3 DEF IsSeq

\* What the receiver does to it.
LEMMA QueueTail ==
  ASSUME NEW q, IsSeq(q), q # <<>>
  PROVE  /\ IsSeq(Tail(q)) /\ Len(q) \in Nat /\ Len(q) >= 1 /\ Len(Tail(q)) = Len(q) - 1
         /\ \A i \in 1..Len(Tail(q)) : i + 1 \in 1..Len(q) /\ Tail(q)[i] = q[i + 1]
         /\ Head(q) = q[1] /\ DOMAIN Tail(q) = 1..Len(Tail(q)) /\ DOMAIN q = 1..Len(q)
<1>1. PICK S : q \in Seq(S)
  BY DEF IsSeq
<1>2. Tail(q) \in Seq(S) /\ Len(q) >= 1
  BY <1>1
<1> QED
  BY <1>1, <1>2 DEF IsSeq

\* A queue that begins anew, and one with a single event.
LEMMA ShortQueues ==
  /\ IsSeq(<<>>) /\ Len(<<>>) = 0 /\ DOMAIN <<>> = {}
  /\ \A e : IsSeq(<<e>>) /\ Len(<<e>>) = 1 /\ <<e>>[1] = e /\ DOMAIN <<e>> = {1}
<1>1. <<>> \in Seq({}) /\ Len(<<>>) = 0 /\ DOMAIN <<>> = {}
  OBVIOUS
<1>2. ASSUME NEW e PROVE <<e>> \in Seq({e}) /\ Len(<<e>>) = 1 /\ <<e>>[1] = e /\ DOMAIN <<e>> = {1}
  OBVIOUS
<1> QED
  BY <1>1, <1>2 DEF IsSeq

----------------------------------------------------------------------------
(* The queue.                                                               *)

Places == {"idle", "kinds", "capacity", "try_send", "count", "count_kind"}

\* A stamped event has these fields and no other.
IsEvent(e) ==
  e = [kind            |-> e.kind,
       data            |-> e.data,
       dropped_events  |-> e.dropped_events,
       dropped_by_kind |-> e.dropped_by_kind,
       instance_id     |-> e.instance_id]

QueueType ==
  /\ IsSeq(queue) /\ IsSeq(publishing)
  /\ publisher \in {"running", "aborted"}
  /\ pc \in [Senders -> Places]
  /\ ev = [s \in Senders |-> ev[s]]
  /\ \A s \in Senders : pc[s] # "idle" => IsEvent(ev[s]) /\ ev[s].kind \in Kinds
  /\ dropped \in Nat /\ dropped_by_kind \in [Kinds -> Nat]
  /\ instance \in Nat \ {0}

----------------------------------------------------------------------------
(* What connection tasks send.                                              *)

\* The histograms that a number of the peer's moves.
Clamped == {"skew", "height", "fee_filter", "address_age"}

\* What the events must be like for the tool to read them.
GoodData(kind, d) ==
  /\ kind \in Kinds
  /\ kind = "handshake" => d.at \in Int /\ d.peer_timestamp \in Int /\ d.start_height \in Int
  /\ kind = "block_announcement" => d.height \in Nat
  /\ kind = "fee_filter" => d.feerate \in Int
  /\ kind = "ping_rtt" => DOMAIN d.tcp \cap Clamped = {}
  /\ kind = "address_announcement" => d.at \in Int /\ \A a \in d.addresses : a.ntime \in Int

Sends(s) == \E kind, data : GoodData(kind, data) /\ send(s, kind, data)

\* What a step of the pipeline does to the queue.
QueueStep ==
  \/ \E s \in Senders : Sends(s) \/ SendStep(s)
  \/ Receive \/ Publish \/ AbortPublisher \/ QueueRestart
  \/ UNCHANGED qvars

Item == [hash : Blocks, known : BOOLEAN]

\* A task with a message in hand has blocks left to announce.
IsJob(j) ==
  /\ j = [type |-> j.type, step |-> j.step, items |-> j.items, refused |-> j.refused, msg |-> j.msg]
  /\ j.items \in Seq(Item)
  /\ j.type # "none" => j.items # <<>>

JobType ==
  /\ job = [c \in Senders |-> job[c]]
  /\ \A c \in Senders : IsJob(job[c])
  /\ clock \in Nat

\* One job is changed and is one.
LEMMA JobChange ==
  ASSUME JobType, NEW c \in Senders, NEW j, IsJob(j), job' = [job EXCEPT ![c] = j], clock' \in Nat
  PROVE  JobType'
BY DEF JobType

\* A job that goes on has the fields it had.
LEMMA JobGoesOn ==
  ASSUME NEW j, IsJob(j), NEW step, NEW refused, NEW items
  PROVE  /\ IsJob([j EXCEPT !.step = step]) /\ IsJob([j EXCEPT !.step = step, !.refused = refused])
         /\ items \in Seq(Item) /\ items # <<>> => IsJob([j EXCEPT !.items = items, !.step = step])
<1>1. j = [type |-> j.type, step |-> j.step, items |-> j.items, refused |-> j.refused, msg |-> j.msg]
  BY DEF IsJob
<1>2. ASSUME NEW n, n = [j EXCEPT !.step = step] \/ n = [j EXCEPT !.step = step, !.refused = refused]
                       \/ n = [j EXCEPT !.items = items, !.step = step]
      PROVE  /\ n = [type |-> n.type, step |-> n.step, items |-> n.items, refused |-> n.refused, msg |-> n.msg]
             /\ n.items = j.items \/ n.items = items
             /\ n.type = j.type
  BY <1>1, <1>2
<1> QED
  BY <1>2 DEF IsJob

\* Whether a block is seen is a yes or no.
LEMMA SeenIsBoolean == ASSUME NEW b PROVE seen(b) \in BOOLEAN
BY DEF seen

\* Nothing in hand.
LEMMA NoJobIsJob == IsJob(NoJob)
BY EmptySeq DEF IsJob, NoJob

\* A message taken.
LEMMA TakeJob ==
  ASSUME JobType, NEW c \in Senders, NEW type, NEW step, NEW blocks \in Seq(Blocks), blocks # <<>>,
         Take(c, type, blocks, step)
  PROVE  JobType'
<1> DEFINE items == [i \in DOMAIN blocks |-> [hash |-> blocks[i], known |-> seen(blocks[i])]]
           j == [type |-> type, step |-> step, items |-> items, refused |-> FALSE, msg |-> messages]
<1>1. job' = [job EXCEPT ![c] = j]
  BY DEF Take
<1>2. DOMAIN blocks = 1..Len(blocks) /\ Len(blocks) \in Nat /\ Len(blocks) # 0
  BY EmptySeq
<1>3. \A i \in 1..Len(blocks) : [hash |-> blocks[i], known |-> seen(blocks[i])] \in Item
  <2> TAKE i \in 1..Len(blocks)
  <2>1. blocks[i] \in Blocks
    BY ElementOfSeq
  <2>2. seen(blocks[i]) \in BOOLEAN
    BY SeenIsBoolean
  <2> QED
    BY <2>1, <2>2 DEF Item
<1>4. items \in Seq(Item) /\ items # <<>>
  <2>1. items = [i \in 1..Len(blocks) |-> [hash |-> blocks[i], known |-> seen(blocks[i])]]
    BY <1>2
  <2> HIDE DEF items
  <2>2. items \in Seq(Item)
    BY <1>2, <1>3, <2>1, IsASeq
  <2>3. DOMAIN items = 1..Len(blocks) /\ 1 \in 1..Len(blocks)
    BY <1>2, <2>1
  <2> QED
    BY <2>2, <2>3, EmptySeq
<1> HIDE DEF items
<1>5. IsJob(j)
  BY <1>4 DEF IsJob
<1>6. clock' \in Nat
  BY DEF Take, JobType
<1> HIDE DEF j
<1> QED
  BY <1>1, <1>5, <1>6, JobChange

\* What a connection task keeps in hand, action by action.
LEMMA HandleJob ==
  ASSUME JobType, NEW c \in Senders, Handle(c)
  PROVE  JobType'
<1>0. \A b \in Offers : b \in Seq(Blocks) /\ b # <<>>
  BY AnnounceAssumption
<1>1. ASSUME NEW blocks \in Offers, handle_inv(c, blocks)
      PROVE  JobType'
  <2> DEFINE n == IF Len(blocks) < MAX_BLOCK_INVS_ANNOUNCED THEN Len(blocks) ELSE MAX_BLOCK_INVS_ANNOUNCED
             some == SubSeq(blocks, 1, n)
  <2>1. blocks \in Seq(Blocks) /\ Len(blocks) \in Nat \ {0} /\ MAX_BLOCK_INVS_ANNOUNCED \in Nat \ {0}
    BY <1>0, EmptySeq, AnnounceAssumption
  <2>2. n \in Nat \ {0} /\ n <= Len(blocks)
    BY <2>1
  <2> HIDE DEF n
  <2>3. some \in Seq(Blocks) /\ some # <<>>
    <3>1. \A i \in 1..n : i \in 1..Len(blocks)
      BY <2>1, <2>2
    <3>2. some \in Seq(Blocks) /\ Len(some) = n
      BY <2>1, <2>2, <3>1, SubSeqProperties
    <3> QED
      BY <2>2, <3>2, EmptySeq
  <2>4. Take(c, "inv", some, "read")
    BY <1>1 DEF handle_inv, n
  <2> HIDE DEF some
  <2> QED
    BY <2>3, <2>4, TakeJob
<1>2. ASSUME NEW blocks \in Offers, handle_headers(c, blocks)
      PROVE  JobType'
  BY <1>0, <1>2, TakeJob DEF handle_headers
<1>3. ASSUME NEW b \in Blocks, handle_cmpct_block(c, b)
      PROVE  JobType'
  <2>1. <<b>> \in Seq(Blocks) /\ <<b>> # <<>>
    OBVIOUS
  <2> QED
    BY <1>3, <2>1, TakeJob DEF handle_cmpct_block
<1>4. accept_headers(c) => JobType'
  <2>1. accept_headers(c) => \E t : job' = [job EXCEPT ![c] = NoJob] \/ job' = [job EXCEPT ![c] = Inserted(job[c], t)]
    BY DEF accept_headers, JobType
  <2>2. \A t : IsJob(Inserted(job[c], t))
    <3> TAKE t
    <3>1. IsJob(job[c])
      BY SMTT(30) DEF JobType
    <3>2. \A x : IsJob([job[c] EXCEPT !.step = "emit", !.refused = x])
      BY <3>1, JobGoesOn, ZenonT(40)
    <3> QED
      BY <3>2 DEF Inserted
  <2>3. accept_headers(c) => clock' \in Nat
    BY DEF accept_headers, JobType
  <2> QED
    BY <2>1, <2>2, <2>3, NoJobIsJob, JobChange
<1>5. ReadInvItem(c) => JobType'
  <2> SUFFICES ASSUME ReadInvItem(c) PROVE JobType'
    OBVIOUS
  <2> DEFINE k     == seen(job[c].items[1].hash)
             item  == [job[c].items[1] EXCEPT !.known = k]
             items == [job[c].items EXCEPT ![1] = item]
             j     == [job[c] EXCEPT !.items = items, !.step = "emit"]
  <2>1. job' = [job EXCEPT ![c] = j]
    BY DEF ReadInvItem, JobType
  <2>2. IsJob(job[c]) /\ job[c].items \in Seq(Item) /\ job[c].items # <<>>
    BY DEF JobType, IsJob, ReadInvItem
  <2>3. 1 \in 1..Len(job[c].items) /\ job[c].items[1] \in Item /\ k \in BOOLEAN
    <3>1. k \in BOOLEAN
      BY SeenIsBoolean
    <3> QED
      BY <2>2, <3>1, EmptySeq, ElementOfSeq
  <2> HIDE DEF k
  <2>4. item \in Item
    BY <2>3 DEF Item
  <2> HIDE DEF item
  <2>5. items \in Seq(Item) /\ items # <<>>
    BY <2>2, <2>3, <2>4, SMTT(30)
  <2> HIDE DEF items
  <2>6. IsJob(j)
    BY <2>2, <2>5, JobGoesOn
  <2>7. clock' \in Nat
    BY DEF ReadInvItem, JobType
  <2> HIDE DEF j
  <2> QED
    BY <2>1, <2>6, <2>7, JobChange
<1>6. emit_block_announcement(c) => JobType'
  <2> SUFFICES ASSUME emit_block_announcement(c) PROVE JobType'
    OBVIOUS
  <2> DEFINE rest == Tail(job[c].items)
  <2>1. PICK step : \/ job' = [job EXCEPT ![c] = [job[c] EXCEPT !.step = "probe"]]
                    \/ job' = [job EXCEPT ![c] = NoJob]
                    \/ rest # <<>> /\ job' = [job EXCEPT ![c] = [job[c] EXCEPT !.items = rest, !.step = step]]
    BY DEF emit_block_announcement, JobType
  <2>2. IsJob(job[c]) /\ job[c].items \in Seq(Item) /\ job[c].items # <<>>
    BY DEF JobType, IsJob, emit_block_announcement
  <2>3. rest \in Seq(Item)
    BY <2>2, SMTT(30)
  <2> HIDE DEF rest
  <2>4. /\ IsJob([job[c] EXCEPT !.step = "probe"])
        /\ rest # <<>> => IsJob([job[c] EXCEPT !.items = rest, !.step = step])
    BY <2>2, <2>3, JobGoesOn
  <2>5. clock' \in Nat
    BY DEF emit_block_announcement, JobType
  <2> QED
    BY <2>1, <2>4, <2>5, NoJobIsJob, JobChange, SMTT(30)
<1>7. request_compact_block_coinbase(c) => JobType'
  BY NoJobIsJob, JobChange DEF request_compact_block_coinbase, JobType
<1>8. ASSUME NEW b \in Answers, handle_blocktxn(c, b)
      PROVE  JobType'
  BY <1>8 DEF handle_blocktxn, JobType
<1>9. ASSUME NEW e \in Reports, emit_event(c, e)
      PROVE  JobType'
  BY <1>9 DEF emit_event, JobType
<1>10. SendStep(c) /\ UNCHANGED avars => JobType'
  BY DEF avars, JobType
<1> QED
  BY <1>1, <1>2, <1>3, <1>4, <1>5, <1>6, <1>7, <1>8, <1>9, <1>10 DEF Handle

\* The blocks that tasks have in hand are blocks that peers offered (protocol.rs).
THEOREM JobTypeCorrect == PipeSpec => []JobType
<1>1. PipeInit => JobType
  BY NoJobIsJob DEF PipeInit, AnnounceInit, JobType
<1>2. JobType /\ [PipeNext]_pipevars => JobType'
  <2> SUFFICES ASSUME JobType, [PipeNext]_pipevars PROVE JobType'
    OBVIOUS
  <2>1. \A c \in Senders : Task(c) => JobType'
    BY HandleJob DEF Task
  <2>2. TakeNext \/ handle_message \/ Lose \/ UNCHANGED pipevars => JobType'
    BY DEF TakeNext, handle_message, Lose, pipevars, avars, JobType
  <2>3. Restart => JobType'
    BY NoJobIsJob DEF Restart, AnnounceRestart, JobType
  <2> QED
    BY <2>1, <2>2, <2>3 DEF PipeNext
<1> QED
  BY <1>1, <1>2, PTL DEF PipeSpec

\* A connection task touches the queue by calling send and going on with it.
LEMMA TaskOnQueue ==
  ASSUME JobType, NEW c \in Senders, Handle(c)
  PROVE  Sends(c) \/ SendStep(c) \/ UNCHANGED qvars
<1>1. ASSUME NEW type, NEW blocks, NEW step, Take(c, type, blocks, step)
      PROVE  UNCHANGED qvars
  BY <1>1 DEF Take
<1>2. ASSUME NEW blocks \in Offers, handle_inv(c, blocks) \/ handle_headers(c, blocks)
      PROVE  UNCHANGED qvars
  BY <1>1, <1>2 DEF handle_inv, handle_headers
<1>3. ASSUME NEW b \in Blocks, handle_cmpct_block(c, b)
      PROVE  UNCHANGED qvars
  BY <1>1, <1>3, SMTT(30) DEF handle_cmpct_block
<1>4. accept_headers(c) \/ ReadInvItem(c) => UNCHANGED qvars
  BY DEF accept_headers, ReadInvItem
<1>5. emit_block_announcement(c) => Sends(c)
  <2> SUFFICES ASSUME emit_block_announcement(c) PROVE Sends(c)
    OBVIOUS
  <2> DEFINE b == Head(job[c].items).hash
             known == Head(job[c].items).known
             d == [hash |-> b, type |-> job[c].type, new_to_us |-> ~known,
                   height |-> IF b \in held THEN Height[b] ELSE 0, at |-> clock]
  <2>1. send(c, "block_announcement", d)
    BY DEF emit_block_announcement
  <2>2. b \in Blocks
    <3>1. job[c].items \in Seq(Item) /\ job[c].items # <<>>
      BY DEF JobType, IsJob, emit_block_announcement
    <3>2. Head(job[c].items) \in Item
      BY <3>1, HeadTailProperties
    <3> QED
      BY <3>2 DEF Item
  <2>3. Height[b] \in Nat
    BY <2>2, PipelineAssumption
  <2> HIDE DEF b
  <2>4. GoodData("block_announcement", d)
    BY <2>3, AnnounceAssumption DEF GoodData
  <2> HIDE DEF d
  <2> QED
    BY <2>1, <2>4 DEF Sends
<1>6. \A d : GoodData("compact_block_probe", d)
  BY AnnounceAssumption DEF GoodData
<1>7. request_compact_block_coinbase(c) => Sends(c) \/ UNCHANGED qvars
  BY <1>6 DEF request_compact_block_coinbase, emit_compact_block_probe, Sends
<1>8. ASSUME NEW b \in Answers, handle_blocktxn(c, b)
      PROVE  Sends(c)
  BY <1>6, <1>8 DEF handle_blocktxn, emit_compact_block_probe, Sends
<1>9. ASSUME NEW e \in Reports, emit_event(c, e)
      PROVE  Sends(c)
  <2> DEFINE d == [e.data EXCEPT !.at = clock]
  <2>1. send(c, e.kind, d)
    BY <1>9 DEF emit_event
  <2>2. GoodData(e.kind, d)
    <3>1. /\ e.kind # "block_announcement"
          /\ e.kind = "handshake" =>
               /\ {"at", "peer_timestamp", "start_height"} \subseteq DOMAIN e.data
               /\ e.data.peer_timestamp \in Int /\ e.data.start_height \in Int
          /\ e.kind = "fee_filter" =>
               {"at", "feerate"} \subseteq DOMAIN e.data /\ e.data.feerate \in Int
          /\ e.kind = "ping_rtt" =>
               {"at", "tcp"} \subseteq DOMAIN e.data
                 /\ DOMAIN e.data.tcp \cap {"skew", "height", "fee_filter", "address_age"} = {}
          /\ e.kind = "address_announcement" =>
               /\ {"at", "addresses"} \subseteq DOMAIN e.data
               /\ \A a \in e.data.addresses : a.ntime \in Int
      BY PipelineAssumption
    <3>2. e.kind \in Kinds
      BY AnnounceAssumption
    <3> QED
      BY <3>1, <3>2 DEF GoodData, Clamped, JobType
  <2> QED
    BY <2>1, <2>2 DEF Sends
<1> QED
  BY <1>2, <1>3, <1>4, <1>5, <1>7, <1>8, <1>9 DEF Handle

\* And the rest of the pipeline by taking from it, losing it and starting anew.
LEMMA NextOnQueue ==
  ASSUME JobType, [PipeNext]_pipevars
  PROVE  QueueStep
<1>1. \A c \in Senders : Task(c) => QueueStep
  BY TaskOnQueue DEF Task, QueueStep
<1>2. TakeNext \/ handle_message \/ Lose \/ Restart => QueueStep
  BY DEF TakeNext, handle_message, Lose, Restart, AnnounceRestart, QueueStep
<1>3. UNCHANGED pipevars => QueueStep
  BY DEF pipevars, QueueStep
<1> QED
  BY <1>1, <1>2, <1>3 DEF PipeNext

\* What every step of the queue keeps, action by action.
LEMMA QueueTypeStep ==
  ASSUME QueueType, QueueStep
  PROVE  QueueType'
<1> USE DEF Places
<1>1. ASSUME NEW s \in Senders, Sends(s)
      PROVE  QueueType'
  <2>1. PICK kind, data : send(s, kind, data) /\ kind \in Kinds
    BY <1>1 DEF Sends, GoodData
  <2>2. /\ UNCHANGED <<queue, publishing, publisher, dropped, dropped_by_kind, instance>>
        /\ pc' = [pc EXCEPT ![s] = IF dropped > 0 THEN "kinds" ELSE AfterStamp(kind)]
    BY <2>1 DEF send, Goto
  <2>3. pc' \in [Senders -> Places]
    BY <2>2 DEF QueueType, AfterStamp
  <2>4. ev' = [ev EXCEPT ![s] = [kind |-> kind, data |-> data, dropped_events |-> dropped,
                                 dropped_by_kind |-> NothingRead, instance_id |-> instance]]
    BY <2>1 DEF send
  <2>5. /\ ev' = [t \in Senders |-> ev'[t]] /\ IsEvent(ev'[s]) /\ ev'[s].kind \in Kinds
        /\ \A t \in Senders \ {s} : ev'[t] = ev[t] /\ pc'[t] = pc[t]
    BY <2>1, <2>2, <2>4 DEF QueueType, IsEvent
  <2> QED
    BY <2>2, <2>3, <2>5 DEF QueueType
<1>2. ASSUME NEW s \in Senders, ReadKind(s)
      PROVE  QueueType'
  <2> DEFINE read == ev[s].dropped_by_kind
             next == KindOrder[Cardinality(DOMAIN read) + 1]
             sums == [k \in DOMAIN read \cup {next} |-> IF k = next THEN dropped_by_kind[k] ELSE read[k]]
  <2>1. /\ UNCHANGED <<queue, publishing, publisher, dropped, dropped_by_kind, instance>>
        /\ pc[s] = "kinds" /\ ev' = [ev EXCEPT ![s].dropped_by_kind = sums]
        /\ pc' = [pc EXCEPT ![s] = IF DOMAIN sums = Kinds THEN AfterStamp(ev[s].kind) ELSE "kinds"]
    BY <1>2 DEF ReadKind, Goto
  <2> HIDE DEF sums
  <2>2. pc' \in [Senders -> Places]
    BY <2>1 DEF QueueType, AfterStamp
  <2>3. IsEvent(ev[s]) /\ ev[s].kind \in Kinds
    BY <2>1 DEF QueueType
  <2>4. /\ ev' = [t \in Senders |-> ev'[t]] /\ ev'[s] = [ev[s] EXCEPT !.dropped_by_kind = sums]
        /\ \A t \in Senders \ {s} : ev'[t] = ev[t] /\ pc'[t] = pc[t]
    BY <2>1 DEF QueueType
  <2>5. IsEvent(ev'[s]) /\ ev'[s].kind \in Kinds
    BY <2>3, <2>4 DEF IsEvent
  <2> QED
    BY <2>1, <2>2, <2>4, <2>5 DEF QueueType
<1>3. ASSUME NEW s \in Senders, LookAtCapacity(s)
      PROVE  QueueType'
  BY <1>3 DEF LookAtCapacity, Goto, QueueType
<1>4. ASSUME NEW s \in Senders, TrySend(s)
      PROVE  QueueType'
  <2>1. /\ UNCHANGED <<publishing, publisher, dropped, dropped_by_kind, instance>>
        /\ pc[s] = "try_send"
        /\ \/ queue' = Append(queue, ev[s]) /\ ev' = [ev EXCEPT ![s] = NoEvent]
              /\ pc' = [pc EXCEPT ![s] = "idle"]
           \/ queue' = queue /\ ev' = [ev EXCEPT ![s] = ev[s]] /\ pc' = [pc EXCEPT ![s] = "count"]
    BY <1>4 DEF TrySend, Goto
  <2>2. IsSeq(queue')
    <3>1. IsSeq(queue) /\ IsSeq(Append(queue, ev[s]))
      BY QueueAppend DEF QueueType
    <3> QED
      BY <2>1, <3>1
  <2>3. /\ ev' = [t \in Senders |-> ev'[t]] /\ pc' \in [Senders -> Places]
        /\ \A t \in Senders \ {s} : ev'[t] = ev[t] /\ pc'[t] = pc[t]
        /\ pc'[s] # "idle" => ev'[s] = ev[s]
    BY <2>1 DEF QueueType
  <2> QED
    BY <2>1, <2>2, <2>3 DEF QueueType
<1>5. ASSUME NEW s \in Senders, Count(s)
      PROVE  QueueType'
  BY <1>5 DEF Count, Goto, QueueType
<1>6. ASSUME NEW s \in Senders, CountKind(s)
      PROVE  QueueType'
  <2>1. /\ UNCHANGED <<queue, publishing, publisher, dropped, instance>>
        /\ pc' = [pc EXCEPT ![s] = "idle"] /\ ev' = [ev EXCEPT ![s] = NoEvent]
        /\ dropped_by_kind' = [dropped_by_kind EXCEPT ![ev[s].kind] = @ + 1]
    BY <1>6 DEF CountKind, Goto
  <2>2. dropped_by_kind' \in [Kinds -> Nat]
    <3>1. ASSUME NEW k PROVE [dropped_by_kind EXCEPT ![k] = @ + 1] \in [Kinds -> Nat]
      <4>1. CASE k \in Kinds
        BY <4>1 DEF QueueType
      <4>2. CASE k \notin Kinds
        BY <4>2 DEF QueueType
      <4> QED
        BY <4>1, <4>2
    <3> QED
      BY <2>1, <3>1
  <2> QED
    BY <2>1, <2>2 DEF QueueType
<1>7. Receive => QueueType'
  BY QueueTail, ShortQueues DEF Receive, QueueType
<1>8. Publish \/ AbortPublisher => QueueType'
  BY ShortQueues DEF Publish, AbortPublisher, QueueType
<1>9. QueueRestart => QueueType'
  BY ShortQueues DEF QueueRestart, QueueType
<1>10. UNCHANGED qvars => QueueType'
  BY DEF qvars, QueueType
<1> QED
  BY <1>1, <1>2, <1>3, <1>4, <1>5, <1>6, <1>7, <1>8, <1>9, <1>10 DEF QueueStep, SendStep

\* The type of the queue, of the tasks in it and of the counters (emit.rs).
THEOREM QueueTypeCorrect == PipeSpec => []QueueType
<1>1. PipeInit => QueueType
  BY ShortQueues DEF PipeInit, AnnounceInit, QueueInit, QueueType, Places
<1>2. JobType /\ QueueType /\ [PipeNext]_pipevars => QueueType'
  BY NextOnQueue, QueueTypeStep
<1>3. PipeSpec => []JobType
  BY JobTypeCorrect
<1> QED
  BY <1>1, <1>2, <1>3, PTL DEF PipeSpec

----------------------------------------------------------------------------
(* The reserve.                                                             *)

\* Gossip in the slots kept free of it.
OverShare == {i \in DOMAIN queue : i > GossipShare /\ queue[i].kind = Gossip}

\* Tasks that found room for their gossip and have not put it there yet.
Cleared == {s \in Senders : pc[s] = "try_send" /\ ev[s].kind = Gossip}

\* Once the queue is into its reserve, one task is not among those that may still add
\* gossip to it: the one that filled the last slot of the share.
ReserveBound ==
  GossipShare <= Len(queue) => Cardinality(OverShare) + Cardinality(Cleared) <= Cardinality(Senders) - 1

\* Both are finite, so they can be counted.
LEMMA ReserveCounts ==
  ASSUME QueueType
  PROVE  /\ IsFiniteSet(Senders) /\ Cardinality(Senders) \in Nat \ {0}
         /\ IsFiniteSet(OverShare) /\ Cardinality(OverShare) \in Nat
         /\ IsFiniteSet(Cleared) /\ Cardinality(Cleared) \in Nat
         /\ Len(queue) \in Nat /\ DOMAIN queue = 1..Len(queue)
         /\ GossipShare \in Nat /\ EVENT_QUEUE \in Nat /\ GOSSIP_SHED_BELOW \in Nat
<1>1. Len(queue) \in Nat /\ DOMAIN queue = 1..Len(queue)
  BY QueueAppend DEF QueueType
<1>2. IsFiniteSet(1..Len(queue)) /\ OverShare \in SUBSET (1..Len(queue))
  BY <1>1, FS_Interval DEF OverShare
<1>3. IsFiniteSet(Senders) /\ Senders # {} /\ Cleared \in SUBSET Senders
  BY QueueAssumption DEF Cleared
<1>4. Cardinality(Senders) \in Nat \ {0}
  BY <1>3, FS_CardinalityType, FS_EmptySet
<1>5. IsFiniteSet(OverShare) /\ IsFiniteSet(Cleared)
  BY <1>2, <1>3, FS_Subset
<1>6. GossipShare \in Nat /\ EVENT_QUEUE \in Nat /\ GOSSIP_SHED_BELOW \in Nat
  BY QueueAssumption DEF GossipShare
<1> QED
  BY <1>1, <1>3, <1>4, <1>5, <1>6, FS_CardinalityType

\* A step that brings no event into the queue and clears no task for gossip.
LEMMA ReserveUntouched ==
  ASSUME QueueType, ReserveBound, queue' = queue, Cleared' \subseteq Cleared
  PROVE  ReserveBound'
<1>1. OverShare' = OverShare
  BY DEF OverShare
<1>2. Cardinality(Cleared') <= Cardinality(Cleared) /\ Cardinality(Cleared') \in Nat
  BY ReserveCounts, FS_Subset, FS_CardinalityType
<1>3. /\ Cardinality(OverShare) \in Nat /\ Cardinality(Cleared) \in Nat
      /\ Cardinality(Senders) \in Nat
  BY ReserveCounts
<1> QED
  BY <1>1, <1>2, <1>3 DEF ReserveBound

\* An event that try_send puts into the queue.
LEMMA ReserveOnSend ==
  ASSUME QueueType, ReserveBound, NEW s \in Senders,
         pc[s] = "try_send", queue' = Append(queue, ev[s]),
         ev' = [ev EXCEPT ![s] = NoEvent], pc' = [pc EXCEPT ![s] = "idle"]
  PROVE  ReserveBound'
<1> DEFINE n == Len(queue)
           c == Cardinality(Senders)
<1>1. /\ IsFiniteSet(Senders) /\ c \in Nat \ {0} /\ IsFiniteSet(OverShare) /\ IsFiniteSet(Cleared)
      /\ Cardinality(OverShare) \in Nat /\ Cardinality(Cleared) \in Nat
      /\ n \in Nat /\ DOMAIN queue = 1..n /\ GossipShare \in Nat
  BY ReserveCounts
<1>2. /\ Len(queue') = n + 1 /\ DOMAIN queue' = 1..(n + 1)
      /\ \A i \in 1..n : queue'[i] = queue[i]
      /\ queue'[n + 1] = ev[s]
  BY QueueAppend DEF QueueType
<1>3. /\ pc'[s] = "idle"
      /\ \A t \in Senders \ {s} : pc'[t] = pc[t] /\ ev'[t] = ev[t]
  BY DEF QueueType
<1>4. Cleared' \subseteq Cleared \ {s} /\ Cleared' \subseteq Senders \ {s}
  BY <1>3 DEF Cleared
<1> HIDE DEF n, c
<1>5. CASE n < GossipShare
  <2>1. OverShare' = {}
    BY <1>1, <1>2, <1>5 DEF OverShare
  <2>2. Cardinality(Senders \ {s}) = c - 1 /\ IsFiniteSet(Senders \ {s})
    BY <1>1, FS_RemoveElement DEF c
  <2>3. Cardinality(Cleared') <= c - 1 /\ Cardinality(Cleared') \in Nat
    BY <1>4, <2>2, FS_Subset, FS_CardinalityType
  <2>4. Cardinality(OverShare') = 0
    BY <2>1, FS_EmptySet
  <2> QED
    BY <1>1, <2>3, <2>4 DEF ReserveBound, c
<1>6. CASE ~(n < GossipShare)
  <2>1. Cardinality(OverShare) + Cardinality(Cleared) <= c - 1
    BY <1>1, <1>6 DEF ReserveBound, n, c
  <2>2. CASE ev[s].kind = Gossip
    <3>1. OverShare' \subseteq OverShare \cup {n + 1}
      BY <1>1, <1>2 DEF OverShare
    <3>2. s \in Cleared
      BY <2>2 DEF Cleared
    <3>3. Cardinality(OverShare') <= Cardinality(OverShare) + 1 /\ Cardinality(OverShare') \in Nat
      <4>1. /\ IsFiniteSet(OverShare \cup {n + 1})
            /\ Cardinality(OverShare \cup {n + 1}) <= Cardinality(OverShare) + 1
            /\ Cardinality(OverShare \cup {n + 1}) \in Nat
        <5>1. /\ IsFiniteSet(OverShare \cup {n + 1})
              /\ Cardinality(OverShare \cup {n + 1}) =
                   IF n + 1 \in OverShare THEN Cardinality(OverShare) ELSE Cardinality(OverShare) + 1
          BY <1>1, FS_AddElement
        <5> QED
          BY <1>1, <5>1
      <4>2. IsFiniteSet(OverShare') /\ Cardinality(OverShare') <= Cardinality(OverShare \cup {n + 1})
        BY <3>1, <4>1, FS_Subset
      <4>3. Cardinality(OverShare') \in Nat
        BY <4>2, FS_CardinalityType
      <4> QED
        BY <1>1, <4>1, <4>2, <4>3
    <3>4. Cardinality(Cleared') <= Cardinality(Cleared) - 1 /\ Cardinality(Cleared') \in Nat
      <4>1. IsFiniteSet(Cleared \ {s}) /\ Cardinality(Cleared \ {s}) = Cardinality(Cleared) - 1
        BY <1>1, <3>2, FS_RemoveElement
      <4> QED
        BY <1>4, <4>1, FS_Subset, FS_CardinalityType
    <3> QED
      BY <1>1, <2>1, <3>3, <3>4 DEF ReserveBound, c
  <2>3. CASE ev[s].kind # Gossip
    <3>1. OverShare' = OverShare
      BY <1>1, <1>2, <2>3 DEF OverShare
    <3>2. Cardinality(Cleared') <= Cardinality(Cleared) /\ Cardinality(Cleared') \in Nat
      BY <1>1, <1>4, FS_Subset, FS_CardinalityType
    <3> QED
      BY <1>1, <2>1, <3>1, <3>2 DEF ReserveBound, c
  <2> QED
    BY <2>2, <2>3
<1> QED
  BY <1>5, <1>6

\* The publisher's receive moves every event one slot down.
LEMMA ReserveOnReceive ==
  ASSUME QueueType, ReserveBound, Receive
  PROVE  ReserveBound'
<1>1. /\ IsFiniteSet(OverShare) /\ Cardinality(OverShare) \in Nat /\ Cardinality(Cleared) \in Nat
      /\ Cardinality(Senders) \in Nat /\ Len(queue) \in Nat /\ GossipShare \in Nat
  BY ReserveCounts
<1>2. /\ Len(queue') = Len(queue) - 1 /\ DOMAIN queue' = 1..Len(queue') /\ DOMAIN queue = 1..Len(queue)
      /\ \A i \in 1..Len(queue') : i + 1 \in 1..Len(queue) /\ queue'[i] = queue[i + 1]
  BY QueueTail DEF Receive, QueueType
<1>3. Cleared' = Cleared
  BY DEF Receive, Cleared
<1> DEFINE up == [i \in OverShare' |-> i + 1]
<1>4. up \in Injection(OverShare', OverShare)
  <2>1. \A i \in OverShare' : i \in Nat /\ i + 1 \in OverShare
    BY <1>1, <1>2 DEF OverShare
  <2>2. up \in [OverShare' -> OverShare]
    BY <2>1
  <2>3. \A i, j \in OverShare' : up[i] = up[j] => i = j
    BY <2>1
  <2> QED
    BY <2>2, <2>3 DEF Injection, IsInjective
<1>5. IsFiniteSet(OverShare') /\ Cardinality(OverShare') <= Cardinality(OverShare)
  BY <1>1, <1>4, FS_Injection
<1>6. Cardinality(OverShare') \in Nat
  BY <1>5, FS_CardinalityType
<1> QED
  BY <1>1, <1>2, <1>3, <1>5, <1>6 DEF ReserveBound

\* Every step of the queue keeps the reserve.
LEMMA ReserveStep ==
  ASSUME QueueType, ReserveBound, QueueStep
  PROVE  ReserveBound'
<1>1. ASSUME NEW s \in Senders, Sends(s)
      PROVE  ReserveBound'
  <2>1. PICK kind, data : send(s, kind, data)
    BY <1>1 DEF Sends
  <2>2. /\ queue' = queue /\ ev'[s].kind = kind
        /\ pc'[s] = (IF dropped > 0 THEN "kinds" ELSE AfterStamp(kind))
        /\ \A t \in Senders \ {s} : ev'[t] = ev[t] /\ pc'[t] = pc[t]
    BY <2>1 DEF send, Goto, QueueType
  <2>3. Cleared' \subseteq Cleared
    BY <2>2 DEF Cleared, AfterStamp
  <2> QED
    BY <2>2, <2>3, ReserveUntouched
<1>2. ASSUME NEW s \in Senders, ReadKind(s)
      PROVE  ReserveBound'
  <2>1. IsEvent(ev[s]) /\ queue' = queue
    BY <1>2 DEF ReadKind, QueueType
  <2>2. PICK sums, found : /\ ev' = [ev EXCEPT ![s].dropped_by_kind = sums]
                           /\ pc' = [pc EXCEPT ![s] = IF found THEN AfterStamp(ev[s].kind) ELSE "kinds"]
    BY <1>2 DEF ReadKind, Goto
  <2>3. /\ ev'[s] = [ev[s] EXCEPT !.dropped_by_kind = sums]
        /\ pc'[s] = (IF found THEN AfterStamp(ev[s].kind) ELSE "kinds")
        /\ \A t \in Senders \ {s} : ev'[t] = ev[t] /\ pc'[t] = pc[t]
    BY <2>2 DEF QueueType
  <2>4. ev'[s].kind = ev[s].kind
    BY <2>1, <2>3 DEF IsEvent
  <2>5. Cleared' \subseteq Cleared
    BY <2>3, <2>4 DEF Cleared, AfterStamp
  <2> QED
    BY <2>1, <2>5, ReserveUntouched
<1>3. ASSUME NEW s \in Senders, LookAtCapacity(s)
      PROVE  ReserveBound'
  <2>1. /\ queue' = queue /\ ev' = ev
        /\ pc' = [pc EXCEPT ![s] = IF capacity <= GOSSIP_SHED_BELOW THEN "count" ELSE "try_send"]
    BY <1>3 DEF LookAtCapacity, Goto
  <2>2. CASE capacity <= GOSSIP_SHED_BELOW
    <3>1. Cleared' \subseteq Cleared
      BY <2>1, <2>2 DEF Cleared, QueueType
    <3> QED
      BY <2>1, <3>1, ReserveUntouched
  <2>3. CASE ~(capacity <= GOSSIP_SHED_BELOW)
    <3>1. ~(GossipShare <= Len(queue'))
      BY <2>1, <2>3, ReserveCounts DEF capacity, GossipShare
    <3> QED
      BY <3>1 DEF ReserveBound
  <2> QED
    BY <2>2, <2>3
<1>4. ASSUME NEW s \in Senders, TrySend(s)
      PROVE  ReserveBound'
  <2>1. pc[s] = "try_send"
    BY <1>4 DEF TrySend
  <2>2. CASE capacity > 0 /\ publisher = "running"
    BY <1>4, <2>1, <2>2, ReserveOnSend DEF TrySend, Goto
  <2>3. CASE ~(capacity > 0 /\ publisher = "running")
    <3>1. queue' = queue /\ ev' = [ev EXCEPT ![s] = ev[s]] /\ pc' = [pc EXCEPT ![s] = "count"]
      BY <1>4, <2>3 DEF TrySend, Goto
    <3>2. Cleared' \subseteq Cleared
      BY <3>1 DEF Cleared, QueueType
    <3> QED
      BY <3>1, <3>2, ReserveUntouched
  <2> QED
    BY <2>2, <2>3
<1>5. ASSUME NEW s \in Senders, Count(s) \/ CountKind(s)
      PROVE  ReserveBound'
  <2>1. /\ queue' = queue /\ pc'[s] # "try_send"
        /\ \A t \in Senders \ {s} : ev'[t] = ev[t] /\ pc'[t] = pc[t]
    BY <1>5 DEF Count, CountKind, Goto, QueueType
  <2>2. Cleared' \subseteq Cleared
    BY <2>1 DEF Cleared
  <2> QED
    BY <2>1, <2>2, ReserveUntouched
<1>6. Publish \/ UNCHANGED qvars => ReserveBound'
  <2>1. Publish \/ UNCHANGED qvars => queue' = queue /\ Cleared' \subseteq Cleared
    BY DEF Publish, qvars, Cleared
  <2> QED
    BY <2>1, ReserveUntouched
<1>7. AbortPublisher \/ QueueRestart => ReserveBound'
  <2> SUFFICES ASSUME AbortPublisher \/ QueueRestart, GossipShare <= Len(queue')
               PROVE  Cardinality(OverShare') + Cardinality(Cleared') <= Cardinality(Senders) - 1
    BY DEF ReserveBound
  <2>1. queue' = <<>> /\ Len(queue') = 0 /\ GossipShare <= Len(queue)
    BY ReserveCounts, ShortQueues DEF AbortPublisher, QueueRestart
  <2>2. OverShare' = {} /\ Cardinality({}) = 0
    BY <2>1, ShortQueues, FS_EmptySet DEF OverShare
  <2>3. Cardinality(OverShare) + Cardinality(Cleared) <= Cardinality(Senders) - 1
    BY <2>1 DEF ReserveBound
  <2>4. Cleared' = Cleared \/ Cleared' = {}
    BY DEF AbortPublisher, QueueRestart, Cleared
  <2>5. /\ Cardinality(OverShare) \in Nat /\ Cardinality(Cleared) \in Nat
        /\ Cardinality(Senders) \in Nat \ {0}
    BY ReserveCounts
  <2>6. Cardinality(OverShare') = 0
    BY <2>2
  <2>7. Cardinality(Cleared') = Cardinality(Cleared) \/ Cardinality(Cleared') = 0
    BY <2>2, <2>4
  <2> QED
    BY <2>3, <2>5, <2>6, <2>7
<1>8. Receive => ReserveBound'
  BY ReserveOnReceive
<1> QED
  BY <1>1, <1>2, <1>3, <1>4, <1>5, <1>6, <1>7, <1>8 DEF QueueStep, SendStep

\* The slots kept free of gossip stay free of it but for the tasks that raced for the
\* last one of the share, whatever the number of tasks and slots (emit.rs send).
THEOREM ReserveIsKept == PipeSpec => []ReserveKept
<1>1. PipeInit => ReserveBound
  <2> SUFFICES ASSUME PipeInit PROVE ReserveBound
    OBVIOUS
  <2>1. OverShare = {} /\ Cleared = {} /\ Cardinality({}) = 0
    BY ShortQueues, FS_EmptySet
       DEF PipeInit, AnnounceInit, QueueInit, OverShare, Cleared
  <2>2. Cardinality(Senders) \in Nat \ {0}
    BY QueueAssumption, FS_CardinalityType, FS_EmptySet
  <2> QED
    BY <2>1, <2>2 DEF ReserveBound
<1>2. JobType /\ QueueType /\ ReserveBound /\ [PipeNext]_pipevars => ReserveBound'
  BY NextOnQueue, ReserveStep
<1>3. QueueType /\ ReserveBound => ReserveKept
  <2> SUFFICES ASSUME QueueType, ReserveBound
               PROVE  Cardinality(OverShare) <= Cardinality(Senders) - 1
    BY DEF ReserveKept, OverShare
  <2>1. /\ Cardinality(OverShare) \in Nat /\ Cardinality(Cleared) \in Nat
        /\ Cardinality(Senders) \in Nat \ {0} /\ Len(queue) \in Nat /\ GossipShare \in Nat
        /\ DOMAIN queue = 1..Len(queue)
    BY ReserveCounts
  <2>2. CASE GossipShare <= Len(queue)
    BY <2>1, <2>2 DEF ReserveBound
  <2>3. CASE ~(GossipShare <= Len(queue))
    <3>1. OverShare = {}
      BY <2>1, <2>3 DEF OverShare
    <3> QED
      BY <2>1, <3>1, FS_EmptySet
  <2> QED
    BY <2>2, <2>3
<1>4. PipeSpec => [](JobType /\ QueueType)
  BY JobTypeCorrect, QueueTypeCorrect, PTL
<1> QED
  BY <1>1, <1>2, <1>3, <1>4, PTL DEF PipeSpec

----------------------------------------------------------------------------
(* The loss counters on the stamps.                                         *)

\* A stamp of run i claims no loss beyond the counters d and ks of the run.
Honest(e, i, d, ks) ==
  /\ IsEvent(e) /\ GoodData(e.kind, e.data) /\ e.instance_id = i
  /\ e.dropped_events \in Nat /\ e.dropped_events <= d
  /\ DOMAIN e.dropped_by_kind \subseteq Kinds
  /\ e.dropped_by_kind \in [DOMAIN e.dropped_by_kind -> Nat]
  /\ \A k \in DOMAIN e.dropped_by_kind : e.dropped_by_kind[k] <= ks[k]

\* Its kinds have not been read at all, or all of them.
Whole(e) == DOMAIN e.dropped_by_kind = {} \/ DOMAIN e.dropped_by_kind = Kinds

StampsHonest ==
  /\ \A s \in Senders : pc[s] # "idle" =>
       /\ Honest(ev[s], instance, dropped, dropped_by_kind)
       /\ IF pc[s] = "kinds" THEN DOMAIN ev[s].dropped_by_kind # Kinds ELSE Whole(ev[s])
  /\ \A i \in 1..Len(queue) :
       Honest(queue[i], instance, dropped, dropped_by_kind) /\ Whole(queue[i])
  /\ \A i \in 1..Len(publishing) :
       Honest(publishing[i], instance, dropped, dropped_by_kind) /\ Whole(publishing[i])

\* Counters that only grow leave every stamp honest.
LEMMA HonestLater ==
  ASSUME NEW e, NEW i, NEW d \in Nat, NEW ks \in [Kinds -> Nat], Honest(e, i, d, ks),
         NEW d2 \in Nat, NEW ks2 \in [Kinds -> Nat], d <= d2, \A k \in Kinds : ks[k] <= ks2[k]
  PROVE  Honest(e, i, d2, ks2)
<1>1. \A k \in DOMAIN e.dropped_by_kind : k \in Kinds /\ e.dropped_by_kind[k] \in Nat
                                          /\ e.dropped_by_kind[k] <= ks[k] /\ ks[k] <= ks2[k]
                                          /\ ks[k] \in Nat /\ ks2[k] \in Nat
  BY DEF Honest
<1>2. \A k \in DOMAIN e.dropped_by_kind : e.dropped_by_kind[k] <= ks2[k]
  BY <1>1
<1>3. e.dropped_events <= d2
  BY DEF Honest
<1> QED
  BY <1>2, <1>3 DEF Honest

\* A loss is added to its kind, if it is one that is counted.
LEMMA CountedKind ==
  ASSUME NEW ks \in [Kinds -> Nat], NEW k
  PROVE  /\ [ks EXCEPT ![k] = @ + 1] \in [Kinds -> Nat]
         /\ \A j \in Kinds : ks[j] <= [ks EXCEPT ![k] = @ + 1][j]
<1>1. CASE k \in Kinds
  BY <1>1
<1>2. CASE k \notin Kinds
  <2>1. [ks EXCEPT ![k] = @ + 1] = [j \in Kinds |-> ks[j]]
    BY <1>2
  <2>2. ks = [j \in Kinds |-> ks[j]]
    OBVIOUS
  <2>3. \A j \in Kinds : ks[j] \in Nat /\ ks[j] <= ks[j]
    OBVIOUS
  <2> QED
    BY <2>1, <2>2, <2>3
<1> QED
  BY <1>1, <1>2

\* While kinds are left to read, the next one is a kind.
LEMMA NextKind ==
  ASSUME NEW read, read \subseteq Kinds, read # Kinds
  PROVE  KindOrder[Cardinality(read) + 1] \in Kinds
<1> DEFINE n == Len(KindOrder)
<1>1. KindOrder \in Seq(STRING) /\ n \in Nat /\ DOMAIN KindOrder = 1..n
  BY QueueAssumption
<1>2. Kinds = {KindOrder[i] : i \in 1..n}
  BY <1>1 DEF Kinds, ToSet
<1> DEFINE nth == [i \in 1..n |-> KindOrder[i]]
<1>3. nth \in Surjection(1..n, Kinds)
  BY <1>2 DEF Surjection
<1>4. IsFiniteSet(1..n) /\ Cardinality(1..n) = n
  BY <1>1, FS_Interval, SMTT(30)
<1>5. IsFiniteSet(Kinds) /\ Cardinality(Kinds) <= n
  BY <1>3, <1>4, FS_Surjection
<1>6. /\ Cardinality(read) \in Nat /\ Cardinality(Kinds) \in Nat
      /\ Cardinality(read) <= Cardinality(Kinds) /\ Cardinality(read) # Cardinality(Kinds)
  BY <1>5, FS_Subset, FS_CardinalityType
<1>7. Cardinality(read) + 1 \in 1..n
  BY <1>1, <1>5, <1>6
<1> QED
  BY <1>2, <1>7

\* Every step keeps the stamps honest: the total is read before the kinds, each kind
\* before the next, and losses go on being counted meanwhile.
LEMMA StampsStep ==
  ASSUME QueueType, StampsHonest, QueueStep
  PROVE  StampsHonest'
<1>0. /\ dropped \in Nat /\ dropped_by_kind \in [Kinds -> Nat] /\ instance \in Nat
      /\ IsSeq(queue) /\ IsSeq(publishing)
  BY DEF QueueType
<1>1. ASSUME NEW s \in Senders, Sends(s)
      PROVE  StampsHonest'
  <2>1. PICK kind, data : GoodData(kind, data) /\ send(s, kind, data)
    BY <1>1 DEF Sends
  <2>2. /\ UNCHANGED <<queue, publishing, dropped, dropped_by_kind, instance>>
        /\ ev'[s] = [kind |-> kind, data |-> data, dropped_events |-> dropped,
                     dropped_by_kind |-> NothingRead, instance_id |-> instance]
        /\ \A t \in Senders \ {s} : ev'[t] = ev[t] /\ pc'[t] = pc[t]
    BY <2>1 DEF send, Goto, QueueType
  <2>3. DOMAIN NothingRead = {} /\ NothingRead \in [{} -> Nat] /\ Kinds # {}
    BY QueueAssumption DEF NothingRead, Kinds
  <2>4. /\ Honest(ev'[s], instance, dropped, dropped_by_kind) /\ Whole(ev'[s])
        /\ DOMAIN ev'[s].dropped_by_kind # Kinds
    BY <1>0, <2>1, <2>2, <2>3 DEF Honest, Whole, IsEvent
  <2> QED
    BY <2>2, <2>4 DEF StampsHonest
<1>2. ASSUME NEW s \in Senders, ReadKind(s)
      PROVE  StampsHonest'
  <2> DEFINE read == ev[s].dropped_by_kind
             next == KindOrder[Cardinality(DOMAIN read) + 1]
             sums == [k \in DOMAIN read \cup {next} |-> IF k = next THEN dropped_by_kind[k] ELSE read[k]]
  <2>1. /\ UNCHANGED <<queue, publishing, publisher, dropped, dropped_by_kind, instance>>
        /\ pc[s] = "kinds" /\ ev' = [ev EXCEPT ![s].dropped_by_kind = sums]
        /\ pc' = [pc EXCEPT ![s] = IF DOMAIN sums = Kinds THEN AfterStamp(ev[s].kind) ELSE "kinds"]
    BY <1>2 DEF ReadKind, Goto
  <2>2. Honest(ev[s], instance, dropped, dropped_by_kind)
    BY <2>1 DEF StampsHonest
  <2>3. DOMAIN read \subseteq Kinds /\ read \in [DOMAIN read -> Nat]
        /\ \A k \in DOMAIN read : read[k] <= dropped_by_kind[k]
    BY <2>2 DEF Honest
  <2>4. CASE next \in Kinds
    <3>1. /\ DOMAIN sums = DOMAIN read \cup {next} /\ DOMAIN sums \subseteq Kinds
          /\ sums \in [DOMAIN sums -> Nat]
          /\ \A k \in DOMAIN sums : sums[k] <= dropped_by_kind[k]
      BY <1>0, <2>3, <2>4
    <3> HIDE DEF sums, next, read
    <3>2. /\ ev'[s] = [ev[s] EXCEPT !.dropped_by_kind = sums]
          /\ pc'[s] = (IF DOMAIN sums = Kinds THEN AfterStamp(ev[s].kind) ELSE "kinds")
          /\ \A t \in Senders \ {s} : ev'[t] = ev[t] /\ pc'[t] = pc[t]
      BY <2>1 DEF QueueType
    <3>3. /\ ev'[s].dropped_by_kind = sums /\ IsEvent(ev'[s])
          /\ ev'[s].instance_id = ev[s].instance_id /\ ev'[s].dropped_events = ev[s].dropped_events
          /\ ev'[s].kind = ev[s].kind /\ ev'[s].data = ev[s].data
      BY <2>2, <3>2 DEF Honest, IsEvent
    <3>4. /\ Honest(ev'[s], instance, dropped, dropped_by_kind)
          /\ IF pc'[s] = "kinds" THEN DOMAIN ev'[s].dropped_by_kind # Kinds ELSE Whole(ev'[s])
      BY <2>2, <3>1, <3>2, <3>3 DEF Honest, Whole, AfterStamp
    <3> QED
      BY <2>1, <3>2, <3>4 DEF StampsHonest
  <2>5. next \in Kinds
    BY <2>1, <2>3, NextKind DEF StampsHonest
  <2> QED
    BY <2>4, <2>5
<1>3. ASSUME NEW s \in Senders, LookAtCapacity(s)
      PROVE  StampsHonest'
  <2>1. /\ UNCHANGED <<queue, publishing, ev, dropped, dropped_by_kind, instance>>
        /\ pc[s] = "capacity" /\ pc'[s] \in {"count", "try_send"}
        /\ \A t \in Senders \ {s} : pc'[t] = pc[t]
    BY <1>3 DEF LookAtCapacity, Goto, QueueType
  <2> QED
    BY <2>1 DEF StampsHonest
<1>4. ASSUME NEW s \in Senders, TrySend(s)
      PROVE  StampsHonest'
  <2>1. /\ UNCHANGED <<publishing, dropped, dropped_by_kind, instance>>
        /\ pc[s] = "try_send"
        /\ \/ queue' = Append(queue, ev[s]) /\ pc'[s] = "idle"
           \/ queue' = queue /\ pc'[s] = "count" /\ ev'[s] = ev[s]
        /\ \A t \in Senders \ {s} : ev'[t] = ev[t] /\ pc'[t] = pc[t]
    BY <1>4 DEF TrySend, Goto, QueueType
  <2>2. Honest(ev[s], instance, dropped, dropped_by_kind) /\ Whole(ev[s])
    BY <2>1 DEF StampsHonest
  <2>3. \A i \in 1..Len(queue') : queue'[i] = ev[s] \/ (i \in 1..Len(queue) /\ queue'[i] = queue[i])
    <3>1. CASE queue' = queue
      BY <3>1
    <3>2. CASE queue' = Append(queue, ev[s])
      <4>1. /\ Len(queue) \in Nat /\ Len(queue') = Len(queue) + 1
            /\ \A i \in 1..Len(queue) : queue'[i] = queue[i]
            /\ queue'[Len(queue) + 1] = ev[s]
        BY <1>0, <3>2, QueueAppend
      <4> QED
        BY <4>1
    <3> QED
      BY <2>1, <3>1, <3>2
  <2> QED
    BY <2>1, <2>2, <2>3 DEF StampsHonest
<1>5. ASSUME NEW s \in Senders, Count(s) \/ CountKind(s)
      PROVE  StampsHonest'
  <2>1. /\ UNCHANGED <<queue, publishing, instance>>
        /\ pc[s] \in {"count", "count_kind"}
        /\ \/ pc'[s] = "count_kind" /\ ev'[s] = ev[s]
           \/ pc'[s] = "idle"
        /\ \A t \in Senders \ {s} : ev'[t] = ev[t] /\ pc'[t] = pc[t]
    BY <1>5 DEF Count, CountKind, Goto, QueueType
  <2>2. /\ dropped' \in Nat /\ dropped <= dropped'
        /\ dropped_by_kind' \in [Kinds -> Nat] /\ \A k \in Kinds : dropped_by_kind[k] <= dropped_by_kind'[k]
    <3>1. Count(s) => dropped' = dropped + 1 /\ dropped_by_kind' = dropped_by_kind
      BY DEF Count
    <3>2. CountKind(s) => dropped' = dropped
                          /\ dropped_by_kind' = [dropped_by_kind EXCEPT ![ev[s].kind] = @ + 1]
      BY DEF CountKind
    <3>3. \A k \in Kinds : dropped_by_kind[k] <= dropped_by_kind[k]
      BY <1>0
    <3>4. CASE Count(s)
      BY <1>0, <3>1, <3>3, <3>4
    <3>5. CASE CountKind(s)
      <4> DEFINE ks == [dropped_by_kind EXCEPT ![ev[s].kind] = @ + 1]
      <4>1. ks \in [Kinds -> Nat] /\ \A k \in Kinds : dropped_by_kind[k] <= ks[k]
        BY <1>0, CountedKind
      <4> QED
        BY <1>0, <3>2, <3>5, <4>1
    <3> QED
      BY <1>5, <3>4, <3>5
  <2>3. \A e : Honest(e, instance, dropped, dropped_by_kind) => Honest(e, instance, dropped', dropped_by_kind')
    BY <1>0, <2>2, HonestLater
  <2> QED
    BY <2>1, <2>3 DEF StampsHonest
<1>6. Publish \/ AbortPublisher \/ QueueRestart => StampsHonest'
  <2>1. Publish \/ AbortPublisher => StampsHonest'
    BY ShortQueues DEF Publish, AbortPublisher, StampsHonest
  <2>2. QueueRestart => StampsHonest'
    BY ShortQueues DEF QueueRestart, StampsHonest
  <2> QED
    BY <2>1, <2>2
<1>7. Receive => StampsHonest'
  <2> SUFFICES ASSUME Receive PROVE StampsHonest'
    OBVIOUS
  <2>1. /\ UNCHANGED <<pc, ev, dropped, dropped_by_kind, instance>>
        /\ queue # <<>> /\ publishing' = <<Head(queue)>> /\ queue' = Tail(queue)
    BY DEF Receive
  <2>2. /\ \A i \in 1..Len(queue') : i + 1 \in 1..Len(queue) /\ queue'[i] = queue[i + 1]
        /\ 1 \in 1..Len(queue) /\ Head(queue) = queue[1]
    BY <1>0, <2>1, QueueTail
  <2>3. \A i \in 1..Len(publishing') : publishing'[i] = queue[1]
    BY <2>1, <2>2, ShortQueues
  <2> QED
    BY <2>1, <2>2, <2>3 DEF StampsHonest
<1>8. UNCHANGED qvars => StampsHonest'
  BY DEF qvars, StampsHonest
<1> QED
  BY <1>1, <1>2, <1>3, <1>4, <1>5, <1>6, <1>7, <1>8 DEF QueueStep, SendStep

----------------------------------------------------------------------------
(* The metrics tool.                                                        *)

\* NetworkState has these fields and no other.
IsNet(m) ==
  m = [instance |-> m.instance, dropped |-> m.dropped, by_kind |-> m.by_kind,
       restarts |-> m.restarts, best_height |-> m.best_height, first_seen |-> m.first_seen,
       order |-> m.order, user_agents |-> m.user_agents, versions |-> m.versions,
       series |-> m.series, samples |-> m.samples]

\* The loss gauges of m are those of n.
SameGauges(m, n) == n.instance = m.instance /\ n.dropped = m.dropped /\ n.by_kind = m.by_kind

\* What the bounds are about is in m what it is in n.
SameLabels(m, n) ==
  n.user_agents = m.user_agents /\ n.versions = m.versions /\ n.series = m.series

LabelsOf(m, metric) == {s[2] : s \in {x \in m.series : x[1] = metric}}

Chosen == {"user_agents", "versions", "session_messages", "send_cmpct_version"}
Limit(histogram) ==
  CASE histogram = "skew" -> SKEW [] histogram = "height" -> HEIGHT_DELTA
    [] histogram = "address_age" -> ADDRESS_AGE [] OTHER -> FEE_FILTER

\* A Bounded has its first values and no more than its cap of them, and a label that is
\* not among them is the one for the rest.
Capped(m, metric, values, cap) ==
  /\ IsFiniteSet(values) /\ Cardinality(values) <= cap
  /\ LabelsOf(m, metric) \ {OTHER_LABEL} \subseteq values

\* What a peer chose is within its bounds (labels.rs).
InBounds(m) ==
  /\ IsNet(m)
  /\ Capped(m, "user_agents", m.user_agents, USER_AGENT_CAP)
  /\ Capped(m, "versions", m.versions, PROTOCOL_VERSION_CAP)
  /\ LabelsOf(m, "session_messages") \subseteq KNOWN \cup {OTHER_LABEL}
  /\ LabelsOf(m, "send_cmpct_version") \subseteq {"1", "2", OTHER_LABEL}
  /\ \A x \in m.samples : x[1] \in Clamped => x[2] <= Limit(x[1]) /\ -x[2] <= Limit(x[1])
  /\ m.best_height \in Nat

\* A series is added and nothing else is changed.
LEMMA TouchNet ==
  ASSUME NEW m, NEW metric, NEW labels, IsNet(m)
  PROVE  LET n == Touch(m, metric, labels)
         IN  /\ IsNet(n) /\ SameGauges(m, n)
             /\ n.series = m.series \cup ({metric} \X labels)
             /\ n.user_agents = m.user_agents /\ n.versions = m.versions
             /\ n.samples = m.samples /\ n.best_height = m.best_height
             /\ n.first_seen = m.first_seen /\ n.order = m.order
BY SMTT(30) DEF IsNet, Touch, SameGauges

\* The labels of one metric, then, are more, and of the others the same.
LEMMA TouchLabels ==
  ASSUME NEW m, NEW metric, NEW labels, IsNet(m), NEW k
  PROVE  LabelsOf(Touch(m, metric, labels), k) = LabelsOf(m, k) \cup (IF k = metric THEN labels ELSE {})
<1> DEFINE n == Touch(m, metric, labels)
<1>1. n.series = m.series \cup ({metric} \X labels)
  BY TouchNet
<1> HIDE DEF n
<1>2. ASSUME NEW x \in LabelsOf(n, k)
      PROVE  x \in LabelsOf(m, k) \cup (IF k = metric THEN labels ELSE {})
  <2>1. PICK s \in n.series : s[1] = k /\ x = s[2]
    BY <1>2 DEF LabelsOf
  <2> QED
    BY <1>1, <2>1 DEF LabelsOf
<1>3. ASSUME NEW x \in LabelsOf(m, k)
      PROVE  x \in LabelsOf(n, k)
  BY <1>1, <1>3 DEF LabelsOf
<1>4. ASSUME NEW x \in labels, k = metric
      PROVE  x \in LabelsOf(n, k)
  <2>1. <<metric, x>> \in n.series /\ <<metric, x>>[1] = k /\ <<metric, x>>[2] = x
    BY <1>1, <1>4
  <2> QED
    BY <2>1 DEF LabelsOf
<1> QED
  BY <1>2, <1>3, <1>4 DEF n

\* The labels that peers choose are not touched by a metric of another name.
LEMMA TouchOther ==
  ASSUME NEW m, NEW metric, NEW labels, IsNet(m), metric \notin Chosen
  PROVE  \A k \in Chosen : LabelsOf(Touch(m, metric, labels), k) = LabelsOf(m, k)
<1> TAKE k \in Chosen
<1>1. k # metric
  OBVIOUS
<1>2. LabelsOf(Touch(m, metric, labels), k) = LabelsOf(m, k) \cup (IF k = metric THEN labels ELSE {})
  BY TouchLabels
<1> QED
  BY <1>1, <1>2

\* A label that no peer chose.
LEMMA TouchKeeps ==
  ASSUME NEW m, NEW metric, NEW labels, InBounds(m), metric \notin Chosen
  PROVE  LET n == Touch(m, metric, labels)
         IN  InBounds(n) /\ SameGauges(m, n)
<1> DEFINE n == Touch(m, metric, labels)
<1>1. /\ IsNet(n) /\ SameGauges(m, n)
      /\ n.user_agents = m.user_agents /\ n.versions = m.versions
      /\ n.samples = m.samples /\ n.best_height = m.best_height
  BY TouchNet DEF InBounds
<1>2. \A k \in Chosen : LabelsOf(n, k) = LabelsOf(m, k)
  BY TouchOther DEF InBounds
<1> HIDE DEF n
<1>3. InBounds(n)
  BY <1>1, <1>2 DEF InBounds, Capped, Chosen
<1> QED
  BY <1>1, <1>3 DEF n

\* A label that a peer chose from a closed list.
LEMMA TouchKnown ==
  ASSUME NEW m, NEW labels, InBounds(m)
  PROVE  /\ labels \subseteq KNOWN \cup {OTHER_LABEL} =>
              LET n == Touch(m, "session_messages", labels) IN InBounds(n) /\ SameGauges(m, n)
         /\ labels \subseteq {"1", "2", OTHER_LABEL} =>
              LET n == Touch(m, "send_cmpct_version", labels) IN InBounds(n) /\ SameGauges(m, n)
<1>1. ASSUME NEW metric \in {"session_messages", "send_cmpct_version"},
             metric = "session_messages" => labels \subseteq KNOWN \cup {OTHER_LABEL},
             metric = "send_cmpct_version" => labels \subseteq {"1", "2", OTHER_LABEL}
      PROVE  LET n == Touch(m, metric, labels) IN InBounds(n) /\ SameGauges(m, n)
  <2> DEFINE n == Touch(m, metric, labels)
  <2>1. /\ IsNet(n) /\ SameGauges(m, n)
        /\ n.user_agents = m.user_agents /\ n.versions = m.versions
        /\ n.samples = m.samples /\ n.best_height = m.best_height
    BY TouchNet DEF InBounds
  <2>2. \A k : LabelsOf(n, k) = LabelsOf(m, k) \cup (IF k = metric THEN labels ELSE {})
    BY TouchLabels DEF InBounds
  <2> HIDE DEF n
  <2>3. /\ LabelsOf(n, "user_agents") = LabelsOf(m, "user_agents")
        /\ LabelsOf(n, "versions") = LabelsOf(m, "versions")
        /\ LabelsOf(n, "session_messages") \subseteq KNOWN \cup {OTHER_LABEL}
        /\ LabelsOf(n, "send_cmpct_version") \subseteq {"1", "2", OTHER_LABEL}
    BY <1>1, <2>2 DEF InBounds
  <2>4. InBounds(n)
    BY <2>1, <2>3 DEF InBounds, Capped
  <2> QED
    BY <2>1, <2>4 DEF n
<1> QED
  BY <1>1

\* The first values of a Bounded are remembered and get a label of their own.
LEMMA Remembering ==
  ASSUME NEW values, IsFiniteSet(values), NEW cap \in Nat, Cardinality(values) <= cap, NEW value
  PROVE  /\ IsFiniteSet(remembered(values, cap, value))
         /\ Cardinality(remembered(values, cap, value)) <= cap
         /\ values \subseteq remembered(values, cap, value)
         /\ label(values, cap, value) \in remembered(values, cap, value) \cup {OTHER_LABEL}
<1>1. Cardinality(values) \in Nat
  BY FS_CardinalityType
<1>2. CASE Cardinality(values) < cap
  <2>1. remembered(values, cap, value) = values \cup {value} /\ label(values, cap, value) = value
    BY <1>2 DEF remembered, label
  <2>2. /\ IsFiniteSet(values \cup {value})
        /\ Cardinality(values \cup {value}) = IF value \in values THEN Cardinality(values)
                                              ELSE Cardinality(values) + 1
    BY FS_AddElement
  <2> QED
    BY <1>1, <1>2, <2>1, <2>2
<1>3. CASE ~(Cardinality(values) < cap)
  BY <1>3 DEF remembered, label
<1> QED
  BY <1>2, <1>3

\* A number that no peer chose, or one that was clamped.
LEMMA SampleKeeps ==
  ASSUME NEW m, NEW histogram, NEW value, InBounds(m),
         histogram \in Clamped => value <= Limit(histogram) /\ -value <= Limit(histogram)
  PROVE  LET n == Sample(m, histogram, value)
         IN  InBounds(n) /\ SameGauges(m, n)
<1> DEFINE n == Sample(m, histogram, value)
<1>1. /\ IsNet(n) /\ SameGauges(m, n) /\ SameLabels(m, n)
      /\ n.samples = m.samples \cup {<<histogram, value>>} /\ n.best_height = m.best_height
  <2>1. IsNet(m)
    BY DEF InBounds
  <2> QED
    BY <2>1 DEF IsNet, Sample, SameGauges, SameLabels
<1> HIDE DEF n
<1>2. \A k : LabelsOf(n, k) = LabelsOf(m, k)
  BY <1>1 DEF LabelsOf, SameLabels
<1>3. \A x \in n.samples : x[1] \in Clamped => x[2] <= Limit(x[1]) /\ -x[2] <= Limit(x[1])
  BY <1>1 DEF InBounds
<1>4. InBounds(n)
  BY <1>1, <1>2, <1>3 DEF InBounds, Capped, SameLabels
<1> QED
  BY <1>1, <1>4 DEF n

\* peer_chosen clamps to both sides.
LEMMA Clamps ==
  ASSUME NEW value \in Int, NEW limit \in Nat
  PROVE  peer_chosen(value, limit) <= limit /\ -peer_chosen(value, limit) <= limit
BY DEF peer_chosen

\* What n has besides the gauges, m has.
LEMMA OnlyGauges ==
  ASSUME NEW m, NEW n, InBounds(m), IsNet(n), SameLabels(m, n),
         n.samples = m.samples, n.best_height \in Nat
  PROVE  InBounds(n)
<1>1. \A k : LabelsOf(n, k) = LabelsOf(m, k)
  BY DEF LabelsOf, SameLabels
<1> QED
  BY <1>1 DEF InBounds, Capped, SameLabels

\* A stamp sets the gauges of its run and drops the kinds of another.
LEMMA PipelineGauges ==
  ASSUME NEW m, NEW e, InBounds(m)
  PROVE  LET n == observe_pipeline(m, e)
         IN  /\ InBounds(n)
             /\ n.instance = e.instance_id /\ n.dropped = e.dropped_events
             /\ n.by_kind = IF m.instance \notin {0, e.instance_id} THEN NoDrops
                            ELSE IF DOMAIN e.dropped_by_kind = {} THEN m.by_kind ELSE e.dropped_by_kind
<1> DEFINE n == observe_pipeline(m, e)
<1>1. IsNet(m) /\ m.best_height \in Nat
  BY DEF InBounds
<1>2. /\ IsNet(n) /\ SameLabels(m, n) /\ n.samples = m.samples /\ n.best_height = m.best_height
      /\ n.instance = e.instance_id /\ n.dropped = e.dropped_events
      /\ n.by_kind = IF m.instance \notin {0, e.instance_id} THEN NoDrops
                     ELSE IF DOMAIN e.dropped_by_kind = {} THEN m.by_kind ELSE e.dropped_by_kind
  <2>1. CASE m.instance \notin {0, e.instance_id}
    BY <1>1, <2>1 DEF IsNet, observe_pipeline, SameLabels
  <2>2. CASE ~(m.instance \notin {0, e.instance_id})
    BY <1>1, <2>2 DEF IsNet, observe_pipeline, SameLabels
  <2> QED
    BY <2>1, <2>2
<1>3. InBounds(n)
  BY <1>1, <1>2, OnlyGauges
<1> QED
  BY <1>2, <1>3

\* A handshake, whatever the peer says of itself.
LEMMA HandshakeKeeps ==
  ASSUME NEW m, NEW d, InBounds(m), GoodData("handshake", d)
  PROVE  InBounds(observe_handshake(m, d)) /\ SameGauges(m, observe_handshake(m, d))
<1> DEFINE agent    == user_agent(d.user_agent)
           features == (d.features \cap {"relay", "sendaddrv2", "wtxid_relay"})
                         \cup (IF addr_recv_is_set(d.addr_recv) THEN {"addr_recv"} ELSE {})
           agents   == {label(m.user_agents, USER_AGENT_CAP, agent)}
           versions == {label(m.versions, PROTOCOL_VERSION_CAP, d.protocol_version)}
           m1 == Touch(m, "handshakes", {transport(d.transport)})
           m2 == Touch(m1, "user_agents", agents)
           m3 == Touch(m2, "versions", versions)
           m4 == Touch(Touch(m3, "services", service_bits(d.services)), "features", features)
           m5 == [m4 EXCEPT
                    !.user_agents = remembered(@, USER_AGENT_CAP, agent),
                    !.versions    = remembered(@, PROTOCOL_VERSION_CAP, d.protocol_version)]
           m6 == Sample(m5, "skew", peer_chosen(d.peer_timestamp - d.at, SKEW))
           m7 == Sample(m6, "height", peer_chosen(d.start_height - m.best_height, HEIGHT_DELTA))
<1>1. observe_handshake(m, d) = IF m.best_height = 0 THEN m6 ELSE m7
  BY DEF observe_handshake
<1>2. InBounds(m1) /\ SameGauges(m, m1)
  BY TouchKeeps DEF Chosen
<1>3. m1.user_agents = m.user_agents /\ m1.versions = m.versions
  BY TouchNet DEF InBounds
<1> HIDE DEF m1, agents, versions, features
<1>4. /\ IsNet(m2) /\ SameGauges(m1, m2)
      /\ m2.user_agents = m1.user_agents /\ m2.versions = m1.versions
      /\ m2.samples = m1.samples /\ m2.best_height = m1.best_height
      /\ \A k : LabelsOf(m2, k) = LabelsOf(m1, k) \cup (IF k = "user_agents" THEN agents ELSE {})
  BY <1>2, TouchNet, TouchLabels DEF InBounds
<1> HIDE DEF m2
<1>5. /\ IsNet(m3) /\ SameGauges(m2, m3)
      /\ m3.user_agents = m2.user_agents /\ m3.versions = m2.versions
      /\ m3.samples = m2.samples /\ m3.best_height = m2.best_height
      /\ \A k : LabelsOf(m3, k) = LabelsOf(m2, k) \cup (IF k = "versions" THEN versions ELSE {})
  BY <1>4, TouchNet, TouchLabels
<1> HIDE DEF m3
<1> DEFINE t == Touch(m3, "services", service_bits(d.services))
<1>6. /\ IsNet(t) /\ SameGauges(m3, t)
      /\ t.user_agents = m3.user_agents /\ t.versions = m3.versions
      /\ t.samples = m3.samples /\ t.best_height = m3.best_height
      /\ \A k \in Chosen : LabelsOf(t, k) = LabelsOf(m3, k)
  <2>1. "services" \notin Chosen
    BY DEF Chosen
  <2> QED
    BY <1>5, <2>1, TouchNet, TouchOther
<1> HIDE DEF t
<1>7. /\ IsNet(m4) /\ SameGauges(t, m4)
      /\ m4.user_agents = t.user_agents /\ m4.versions = t.versions
      /\ m4.samples = t.samples /\ m4.best_height = t.best_height
      /\ \A k \in Chosen : LabelsOf(m4, k) = LabelsOf(t, k)
  <2>1. "features" \notin Chosen
    BY DEF Chosen
  <2>2. m4 = Touch(t, "features", features)
    BY DEF t
  <2> HIDE DEF m4
  <2> QED
    BY <1>6, <2>1, <2>2, TouchNet, TouchOther
<1> HIDE DEF m4
<1>8. /\ IsNet(m5) /\ SameGauges(m4, m5)
      /\ m5.user_agents = remembered(m.user_agents, USER_AGENT_CAP, agent)
      /\ m5.versions = remembered(m.versions, PROTOCOL_VERSION_CAP, d.protocol_version)
      /\ m5.samples = m4.samples /\ m5.best_height = m4.best_height /\ m5.series = m4.series
  <2>1. m4.user_agents = m.user_agents /\ m4.versions = m.versions
    BY <1>3, <1>4, <1>5, <1>6, <1>7
  <2> DEFINE a == remembered(m.user_agents, USER_AGENT_CAP, agent)
             b == remembered(m.versions, PROTOCOL_VERSION_CAP, d.protocol_version)
  <2>2. m5 = [m4 EXCEPT !.user_agents = a, !.versions = b]
    BY <2>1
  <2> HIDE DEF m5, a, b
  <2>3. /\ IsNet(m5) /\ SameGauges(m4, m5) /\ m5.user_agents = a /\ m5.versions = b
        /\ m5.samples = m4.samples /\ m5.best_height = m4.best_height /\ m5.series = m4.series
    BY <1>7, <2>2 DEF IsNet, SameGauges
  <2> QED
    BY <2>3 DEF a, b
<1>9. \A k : LabelsOf(m5, k) = LabelsOf(m4, k)
  BY <1>8 DEF LabelsOf
<1> HIDE DEF m5, agent
<1>10. /\ LabelsOf(m5, "user_agents") = LabelsOf(m1, "user_agents") \cup agents
       /\ LabelsOf(m5, "versions") = LabelsOf(m1, "versions") \cup versions
       /\ LabelsOf(m5, "session_messages") = LabelsOf(m1, "session_messages")
       /\ LabelsOf(m5, "send_cmpct_version") = LabelsOf(m1, "send_cmpct_version")
  BY <1>4, <1>5, <1>6, <1>7, <1>9 DEF Chosen
<1>11. {USER_AGENT_CAP, PROTOCOL_VERSION_CAP, SKEW, HEIGHT_DELTA, FEE_FILTER, ADDRESS_AGE} \subseteq Nat
  BY MetricsAssumption
<1>12. /\ Capped(m5, "user_agents", m5.user_agents, USER_AGENT_CAP)
       /\ Capped(m5, "versions", m5.versions, PROTOCOL_VERSION_CAP)
  <2>1. /\ Capped(m1, "user_agents", m.user_agents, USER_AGENT_CAP)
        /\ Capped(m1, "versions", m.versions, PROTOCOL_VERSION_CAP)
    BY <1>2, <1>3 DEF InBounds
  <2>2. Capped(m5, "user_agents", m5.user_agents, USER_AGENT_CAP)
    <3>1. /\ IsFiniteSet(m5.user_agents) /\ Cardinality(m5.user_agents) <= USER_AGENT_CAP
          /\ m.user_agents \subseteq m5.user_agents
          /\ label(m.user_agents, USER_AGENT_CAP, agent) \in m5.user_agents \cup {OTHER_LABEL}
      BY <1>8, <1>11, <2>1, Remembering DEF Capped
    <3> QED
      BY <1>10, <2>1, <3>1 DEF Capped, agents
  <2>3. Capped(m5, "versions", m5.versions, PROTOCOL_VERSION_CAP)
    <3>1. /\ IsFiniteSet(m5.versions) /\ Cardinality(m5.versions) <= PROTOCOL_VERSION_CAP
          /\ m.versions \subseteq m5.versions
          /\ label(m.versions, PROTOCOL_VERSION_CAP, d.protocol_version) \in m5.versions \cup {OTHER_LABEL}
      BY <1>8, <1>11, <2>1, Remembering DEF Capped
    <3> QED
      BY <1>10, <2>1, <3>1 DEF Capped, versions
  <2> QED
    BY <2>2, <2>3
<1>13. InBounds(m5) /\ SameGauges(m, m5)
  <2>1. m5.samples = m1.samples /\ m5.best_height = m1.best_height
    BY <1>4, <1>5, <1>6, <1>7, <1>8
  <2>2. InBounds(m5)
    BY <1>2, <1>8, <1>10, <1>12, <2>1 DEF InBounds
  <2>3. SameGauges(m, m5)
    BY <1>2, <1>4, <1>5, <1>6, <1>7, <1>8 DEF SameGauges
  <2> QED
    BY <2>2, <2>3
<1>14. InBounds(m6) /\ SameGauges(m5, m6)
  <2>1. d.peer_timestamp - d.at \in Int
    BY DEF GoodData
  <2>2. /\ peer_chosen(d.peer_timestamp - d.at, SKEW) <= Limit("skew")
        /\ -peer_chosen(d.peer_timestamp - d.at, SKEW) <= Limit("skew")
    BY <1>11, <2>1, Clamps DEF Limit
  <2> QED
    BY <1>13, <2>2, SampleKeeps
<1> HIDE DEF m6
<1>15. InBounds(m7) /\ SameGauges(m6, m7)
  <2>1. d.start_height - m.best_height \in Int
    BY DEF GoodData, InBounds
  <2>2. /\ peer_chosen(d.start_height - m.best_height, HEIGHT_DELTA) <= Limit("height")
        /\ -peer_chosen(d.start_height - m.best_height, HEIGHT_DELTA) <= Limit("height")
    BY <1>11, <2>1, Clamps DEF Limit
  <2> QED
    BY <1>14, <2>2, SampleKeeps
<1> HIDE DEF m7
<1> QED
  BY <1>1, <1>13, <1>14, <1>15 DEF SameGauges

\* A block announcement: the memory of first sightings has no label.
LEMMA AnnouncementKeeps ==
  ASSUME NEW m, NEW d, InBounds(m), GoodData("block_announcement", d)
  PROVE  InBounds(observe_block_announcement(m, d)) /\ SameGauges(m, observe_block_announcement(m, d))
<1> DEFINE m1   == Touch(m, "block_announcements", {d.type})
           high == [m1 EXCEPT !.best_height = IF d.height > @ THEN d.height ELSE @]
<1>1. InBounds(m1) /\ SameGauges(m, m1) /\ IsNet(m1)
  BY TouchKeeps DEF Chosen, InBounds
<1> HIDE DEF m1
<1>2. InBounds(high) /\ SameGauges(m1, high) /\ IsNet(high)
  <2>1. d.height \in Nat /\ m1.best_height \in Nat
    BY <1>1 DEF GoodData, InBounds
  <2>2. /\ IsNet(high) /\ SameGauges(m1, high) /\ SameLabels(m1, high)
        /\ high.samples = m1.samples /\ high.best_height \in Nat
    BY <1>1, <2>1 DEF IsNet, SameGauges, SameLabels
  <2> QED
    BY <1>1, <2>2, OnlyGauges
<1>3. SameGauges(m, high)
  BY <1>1, <1>2 DEF SameGauges
<1>4. observe_block_announcement(m, d) =
        IF d.new_to_us THEN record(high, d.hash, d.at)
        ELSE IF d.hash \in DOMAIN m.first_seen
        THEN Sample(high, "propagation",
                    IF d.at > m.first_seen[d.hash] THEN d.at - m.first_seen[d.hash] ELSE 0)
        ELSE high
  BY DEF observe_block_announcement, m1
<1> HIDE DEF high
<1>5. InBounds(record(high, d.hash, d.at)) /\ SameGauges(high, record(high, d.hash, d.at))
  <2> DEFINE n == record(high, d.hash, d.at)
  <2>1. /\ IsNet(n) /\ SameGauges(high, n) /\ SameLabels(high, n)
        /\ n.samples = high.samples /\ n.best_height = high.best_height
    BY <1>2 DEF record, IsNet, SameGauges, SameLabels
  <2> QED
    BY <1>2, <2>1, OnlyGauges DEF InBounds
<1>6. \A value : InBounds(Sample(high, "propagation", value))
                 /\ SameGauges(high, Sample(high, "propagation", value))
  BY <1>2, SampleKeeps DEF Clamped
<1> QED
  BY <1>2, <1>3, <1>4, <1>5, <1>6 DEF SameGauges

\* The end of a session or of an attempt.
LEMMA ResultKeeps ==
  ASSUME NEW m, NEW d, InBounds(m)
  PROVE  InBounds(observe_connection_result(m, d)) /\ SameGauges(m, observe_connection_result(m, d))
<1> DEFINE commands == {command(c) : c \in d.commands} \cup (IF d.others THEN {OTHER_LABEL} ELSE {})
           m1 == Touch(m, "session_messages", commands)
           m2 == Touch(m1, "silent_sessions", IF d.commands = {} /\ ~d.others THEN {"yes"} ELSE {})
           session == IF d.outcome # "disconnected" THEN m ELSE m2
<1>1. observe_connection_result(m, d) = Touch(session, "connection_attempts", {d.outcome})
  BY DEF observe_connection_result
<1>2. commands \subseteq KNOWN \cup {OTHER_LABEL}
  BY DEF command
<1>3. InBounds(m1) /\ SameGauges(m, m1)
  BY <1>2, TouchKnown
<1> HIDE DEF commands, m1
<1>4. InBounds(m2) /\ SameGauges(m1, m2)
  BY <1>3, TouchKeeps DEF Chosen
<1> HIDE DEF m2
<1>5. InBounds(session) /\ SameGauges(m, session)
  BY <1>3, <1>4 DEF SameGauges
<1> HIDE DEF session
<1>6. /\ InBounds(Touch(session, "connection_attempts", {d.outcome}))
      /\ SameGauges(session, Touch(session, "connection_attempts", {d.outcome}))
  BY <1>5, TouchKeeps DEF Chosen
<1> QED
  BY <1>1, <1>5, <1>6 DEF SameGauges

\* A pong, with what the kernel says: numbers no peer chose.
LEMMA PingKeeps ==
  ASSUME NEW m, NEW d, InBounds(m), DOMAIN d.tcp \cap Clamped = {}
  PROVE  InBounds(observe_ping(m, d)) /\ SameGauges(m, observe_ping(m, d))
<1> DEFINE m1 == Sample(m, "rtt", d.rtt)
           n  == observe_tcp(m1, d.tcp)
<1>1. InBounds(m1) /\ SameGauges(m, m1) /\ IsNet(m1)
  BY SampleKeeps DEF Clamped, InBounds
<1> HIDE DEF m1
<1>2. /\ IsNet(n) /\ SameGauges(m1, n) /\ SameLabels(m1, n) /\ n.best_height = m1.best_height
      /\ n.samples = m1.samples \cup {<<name, d.tcp[name]>> : name \in DOMAIN d.tcp}
  BY <1>1 DEF observe_tcp, IsNet, SameGauges, SameLabels
<1> HIDE DEF n
<1>3. \A x \in n.samples : x[1] \in Clamped => x[2] <= Limit(x[1]) /\ -x[2] <= Limit(x[1])
  BY <1>1, <1>2 DEF InBounds
<1>4. \A k : LabelsOf(n, k) = LabelsOf(m1, k)
  BY <1>2 DEF LabelsOf, SameLabels
<1>5. InBounds(n)
  BY <1>1, <1>2, <1>3, <1>4 DEF InBounds, Capped, SameLabels
<1>6. observe_ping(m, d) = n
  BY DEF observe_ping, n, m1
<1> QED
  BY <1>1, <1>2, <1>5, <1>6 DEF SameGauges

\* The rest: the version of a SENDCMPCT.
LEMMA SendCmpctKeeps ==
  ASSUME NEW m, NEW d, InBounds(m)
  PROVE  InBounds(observe_send_cmpct(m, d)) /\ SameGauges(m, observe_send_cmpct(m, d))
<1> DEFINE m1 == Touch(m, "send_cmpct_mode", {IF d.high_bandwidth THEN "high" ELSE "low"})
           labels == {CASE d.version = 1 -> "1" [] d.version = 2 -> "2" [] OTHER -> OTHER_LABEL}
<1>1. InBounds(m1) /\ SameGauges(m, m1)
  BY TouchKeeps DEF Chosen
<1>2. labels \subseteq {"1", "2", OTHER_LABEL}
  OBVIOUS
<1>3. observe_send_cmpct(m, d) = Touch(m1, "send_cmpct_version", labels)
  BY DEF observe_send_cmpct
<1> HIDE DEF m1, labels
<1>4. LET n == Touch(m1, "send_cmpct_version", labels) IN InBounds(n) /\ SameGauges(m1, n)
  BY <1>1, <1>2, TouchKnown
<1> QED
  BY <1>1, <1>3, <1>4 DEF SameGauges

\* Numbers that were clamped, or that no peer chose.
LEMMA SamplesKeep ==
  ASSUME NEW m, NEW S, InBounds(m),
         \A x \in S : x[1] \in Clamped => x[2] <= Limit(x[1]) /\ -x[2] <= Limit(x[1])
  PROVE  LET n == [m EXCEPT !.samples = @ \cup S]
         IN  InBounds(n) /\ SameGauges(m, n)
<1> DEFINE n == [m EXCEPT !.samples = @ \cup S]
<1>1. IsNet(m)
  BY DEF InBounds
<1>2. /\ IsNet(n) /\ SameGauges(m, n) /\ SameLabels(m, n)
      /\ n.samples = m.samples \cup S /\ n.best_height = m.best_height
  <2> DEFINE more == m.samples \cup S
  <2> HIDE DEF more
  <2>1. n = [m EXCEPT !.samples = more]
    BY DEF more
  <2>2. /\ IsNet(n) /\ SameGauges(m, n) /\ SameLabels(m, n)
        /\ n.samples = more /\ n.best_height = m.best_height
    BY <1>1, <2>1 DEF IsNet, SameGauges, SameLabels
  <2> QED
    BY <2>2 DEF more
<1> HIDE DEF n
<1>3. \A k : LabelsOf(n, k) = LabelsOf(m, k)
  BY <1>2 DEF LabelsOf, SameLabels
<1>4. \A x \in n.samples : x[1] \in Clamped => x[2] <= Limit(x[1]) /\ -x[2] <= Limit(x[1])
  BY <1>2 DEF InBounds
<1>5. InBounds(n)
  BY <1>2, <1>3, <1>4 DEF InBounds, Capped, SameLabels
<1> QED
  BY <1>2, <1>5 DEF n

\* And the messages, entries and claimed ages of gossip.
LEMMA GossipKeeps ==
  ASSUME NEW m, NEW d, InBounds(m), d.at \in Int, \A a \in d.addresses : a.ntime \in Int
  PROVE  /\ InBounds(observe_address_announcement(m, d))
         /\ SameGauges(m, observe_address_announcement(m, d))
<1> DEFINE nets     == {address_net(e.addr) : e \in d.addresses}
           services == UNION {service_bits(e.services) : e \in d.addresses}
           ages     == {<<"address_age", peer_chosen(d.at - e.ntime, ADDRESS_AGE)>> : e \in d.addresses}
           m1 == Touch(m, "address_announcements", {d.message})
           m2 == Touch(m1, "address_entries", nets)
           m3 == Touch(m2, "address_entry_services", services)
           n  == [m3 EXCEPT !.samples = @ \cup ages]
<1>1. observe_address_announcement(m, d) = n
  BY DEF observe_address_announcement
<1>2. \A x \in ages : x[1] \in Clamped => x[2] <= Limit(x[1]) /\ -x[2] <= Limit(x[1])
  <2> SUFFICES ASSUME NEW e \in d.addresses
               PROVE  LET age == peer_chosen(d.at - e.ntime, ADDRESS_AGE)
                      IN  age <= Limit("address_age") /\ -age <= Limit("address_age")
    OBVIOUS
  <2>1. d.at - e.ntime \in Int /\ ADDRESS_AGE \in Nat
    BY MetricsAssumption
  <2> QED
    BY <2>1, Clamps DEF Limit
<1> HIDE DEF nets, services, ages
<1>3. InBounds(m1) /\ SameGauges(m, m1)
  BY TouchKeeps DEF Chosen
<1> HIDE DEF m1
<1>4. InBounds(m2) /\ SameGauges(m1, m2)
  BY <1>3, TouchKeeps DEF Chosen
<1> HIDE DEF m2
<1>5. InBounds(m3) /\ SameGauges(m2, m3)
  BY <1>4, TouchKeeps DEF Chosen
<1> HIDE DEF m3
<1>6. InBounds(n) /\ SameGauges(m3, n)
  BY <1>2, <1>5, SamplesKeep
<1> QED
  BY <1>1, <1>3, <1>4, <1>5, <1>6 DEF SameGauges

\* Whatever the event, the gauges are those of its stamp and the labels stay bounded.
LEMMA ObserveKeeps ==
  ASSUME NEW m, NEW e, InBounds(m), GoodData(e.kind, e.data)
  PROVE  /\ InBounds(observe(m, e))
         /\ SameGauges(observe_pipeline(m, e), observe(m, e))
<1> DEFINE gauged == observe_pipeline(m, e)
<1>1. InBounds(gauged)
  BY PipelineGauges
<1> HIDE DEF gauged
<1>2. CASE e.kind = "handshake"
  <2>1. observe(m, e) = observe_handshake(gauged, e.data)
    BY <1>2 DEF observe, gauged
  <2> QED
    BY <1>1, <1>2, <2>1, HandshakeKeeps DEF gauged
<1>3. CASE e.kind = "block_announcement"
  <2>1. observe(m, e) = observe_block_announcement(gauged, e.data)
    BY <1>3 DEF observe, gauged
  <2> QED
    BY <1>1, <1>3, <2>1, AnnouncementKeeps DEF gauged
<1>4. CASE e.kind = "connection_result"
  <2>1. observe(m, e) = observe_connection_result(gauged, e.data)
    BY <1>4 DEF observe, gauged
  <2> QED
    BY <1>1, <2>1, ResultKeeps DEF gauged
<1>5. CASE e.kind = "ping_rtt"
  <2>1. observe(m, e) = observe_ping(gauged, e.data)
    BY <1>5 DEF observe, gauged
  <2> QED
    BY <1>1, <1>5, <2>1, PingKeeps DEF gauged, GoodData
<1>6. CASE e.kind \in {"send_cmpct", "address_announcement"}
  <2>1. /\ e.kind = "send_cmpct" => observe(m, e) = observe_send_cmpct(gauged, e.data)
        /\ e.kind = "address_announcement" => observe(m, e) = observe_address_announcement(gauged, e.data)
    BY DEF observe, gauged
  <2>2. e.kind = "address_announcement" =>
          e.data.at \in Int /\ \A a \in e.data.addresses : a.ntime \in Int
    BY DEF GoodData
  <2> QED
    BY <1>1, <1>6, <2>1, <2>2, SendCmpctKeeps, GossipKeeps DEF gauged
<1>7. CASE e.kind = "compact_block_probe"
  <2>1. observe(m, e) = Touch(gauged, "compact_block_probes", {e.data.stage})
    BY <1>7 DEF observe, gauged
  <2>2. "compact_block_probes" \notin Chosen
    BY DEF Chosen
  <2> QED
    BY <1>1, <2>1, <2>2, TouchKeeps DEF gauged
<1>8. CASE e.kind = "fee_filter"
  <2>1. observe(m, e) = Sample(gauged, "fee_filter", peer_chosen(e.data.feerate, FEE_FILTER))
    BY <1>8 DEF observe, gauged
  <2>2. /\ peer_chosen(e.data.feerate, FEE_FILTER) <= Limit("fee_filter")
        /\ -peer_chosen(e.data.feerate, FEE_FILTER) <= Limit("fee_filter")
    BY <1>8, MetricsAssumption, Clamps DEF GoodData, Limit
  <2> QED
    BY <1>1, <2>1, <2>2, SampleKeeps DEF gauged
<1>9. CASE e.kind \notin {"handshake", "block_announcement", "connection_result", "ping_rtt",
                          "send_cmpct", "address_announcement", "compact_block_probe", "fee_filter"}
  <2>1. observe(m, e) = gauged
    BY <1>9 DEF observe, gauged
  <2> QED
    BY <1>1, <2>1 DEF SameGauges, gauged
<1> QED
  BY <1>2, <1>3, <1>4, <1>5, <1>6, <1>7, <1>8, <1>9

----------------------------------------------------------------------------
(* The gauges over the runs of the observer.                                *)

\* The final counters of a run: of this one, what they are now.
Run(r) == IF r = instance THEN [dropped |-> dropped, by_kind |-> dropped_by_kind] ELSE past[r]

\* The gauges are about a run there was and claim no loss it did not have.
NetHonest ==
  /\ InBounds(net)
  /\ IsSeq(past) /\ Len(past) = instance - 1
  /\ net.dropped \in Nat /\ net.by_kind \in [Kinds -> Nat]
  /\ net.instance \in 0..instance
  /\ net.instance = 0 => net.by_kind = NoDrops
  /\ net.instance # 0 =>
       /\ net.dropped <= Run(net.instance).dropped
       /\ \A k \in Kinds : net.by_kind[k] <= Run(net.instance).by_kind[k]

\* No drops of any kind.
LEMMA NoDropsType == NoDrops \in [Kinds -> Nat] /\ \A k \in Kinds : NoDrops[k] = 0
BY PipelineAssumption DEF NoDrops

\* The tool takes an event with an honest stamp.
LEMMA ObserveHonest ==
  ASSUME NetHonest, QueueType, NEW e, Honest(e, instance, dropped, dropped_by_kind), Whole(e)
  PROVE  LET n == observe(net, e)
         IN  /\ InBounds(n) /\ n.instance = instance
             /\ n.dropped \in Nat /\ n.dropped <= dropped
             /\ n.by_kind \in [Kinds -> Nat] /\ \A k \in Kinds : n.by_kind[k] <= dropped_by_kind[k]
<1> DEFINE n == observe(net, e)
           p == observe_pipeline(net, e)
<1>1. /\ instance \in Nat \ {0} /\ dropped \in Nat /\ dropped_by_kind \in [Kinds -> Nat]
      /\ InBounds(net) /\ net.by_kind \in [Kinds -> Nat]
  BY DEF QueueType, NetHonest
<1>2. InBounds(n) /\ SameGauges(p, n)
  BY <1>1, ObserveKeeps DEF Honest
<1>3. /\ p.instance = instance /\ p.dropped = e.dropped_events
      /\ p.by_kind = IF net.instance \notin {0, instance} THEN NoDrops
                     ELSE IF DOMAIN e.dropped_by_kind = {} THEN net.by_kind ELSE e.dropped_by_kind
  BY <1>1, PipelineGauges DEF Honest
<1>4. e.dropped_events \in Nat /\ e.dropped_events <= dropped
  BY DEF Honest
<1> HIDE DEF n, p
<1>5. p.by_kind \in [Kinds -> Nat] /\ \A k \in Kinds : p.by_kind[k] <= dropped_by_kind[k]
  <2>1. CASE p.by_kind = NoDrops
    BY <1>1, <2>1, NoDropsType
  <2>2. CASE p.by_kind = net.by_kind /\ net.instance = 0
    BY <1>1, <2>2, NoDropsType DEF NetHonest
  <2>3. CASE p.by_kind = net.by_kind /\ net.instance = instance
    <3>1. \A k \in Kinds : net.by_kind[k] <= dropped_by_kind[k]
      BY <1>1, <2>3 DEF NetHonest, Run
    <3> QED
      BY <1>1, <2>3, <3>1
  <2>4. CASE p.by_kind = e.dropped_by_kind /\ DOMAIN e.dropped_by_kind # {}
    <3>1. DOMAIN e.dropped_by_kind = Kinds
      BY <2>4 DEF Whole
    <3> QED
      BY <2>4, <3>1 DEF Honest
  <2> QED
    BY <1>3, <2>1, <2>2, <2>3, <2>4
<1> QED
  BY <1>2, <1>3, <1>4, <1>5 DEF SameGauges, n

\* Steps of the queue in one run: the counters only grow.
LEMMA CountersGrow ==
  ASSUME QueueType, QueueStep, ~QueueRestart
  PROVE  /\ instance' = instance /\ dropped' \in Nat /\ dropped <= dropped'
         /\ dropped_by_kind' \in [Kinds -> Nat]
         /\ \A k \in Kinds : dropped_by_kind[k] <= dropped_by_kind'[k]
<1>1. /\ dropped \in Nat /\ dropped_by_kind \in [Kinds -> Nat]
      /\ \A k \in Kinds : dropped_by_kind[k] <= dropped_by_kind[k]
  BY DEF QueueType
<1>2. ASSUME UNCHANGED <<dropped, dropped_by_kind, instance>>
      PROVE  /\ instance' = instance /\ dropped' \in Nat /\ dropped <= dropped'
             /\ dropped_by_kind' \in [Kinds -> Nat]
             /\ \A k \in Kinds : dropped_by_kind[k] <= dropped_by_kind'[k]
  BY <1>1, <1>2
<1>3. ASSUME NEW s \in Senders, Sends(s)
      PROVE  UNCHANGED <<dropped, dropped_by_kind, instance>>
  BY <1>3 DEF Sends, send
<1>4. ASSUME NEW s \in Senders, ReadKind(s) \/ LookAtCapacity(s) \/ TrySend(s)
      PROVE  UNCHANGED <<dropped, dropped_by_kind, instance>>
  BY <1>4 DEF ReadKind, LookAtCapacity, TrySend
<1>5. Receive \/ Publish \/ AbortPublisher \/ UNCHANGED qvars =>
        UNCHANGED <<dropped, dropped_by_kind, instance>>
  BY DEF Receive, Publish, AbortPublisher, qvars
<1>6. ASSUME NEW s \in Senders, Count(s)
      PROVE  /\ instance' = instance /\ dropped' \in Nat /\ dropped <= dropped'
             /\ dropped_by_kind' \in [Kinds -> Nat]
             /\ \A k \in Kinds : dropped_by_kind[k] <= dropped_by_kind'[k]
  BY <1>1, <1>6 DEF Count
<1>7. ASSUME NEW s \in Senders, CountKind(s)
      PROVE  /\ instance' = instance /\ dropped' \in Nat /\ dropped <= dropped'
             /\ dropped_by_kind' \in [Kinds -> Nat]
             /\ \A k \in Kinds : dropped_by_kind[k] <= dropped_by_kind'[k]
  <2> DEFINE ks == [dropped_by_kind EXCEPT ![ev[s].kind] = @ + 1]
  <2>1. ks \in [Kinds -> Nat] /\ \A k \in Kinds : dropped_by_kind[k] <= ks[k]
    BY <1>1, CountedKind
  <2>2. dropped_by_kind' = ks /\ dropped' = dropped /\ instance' = instance
    BY <1>7 DEF CountKind
  <2> QED
    BY <1>1, <2>1, <2>2
<1> QED
  BY <1>2, <1>3, <1>4, <1>5, <1>6, <1>7 DEF QueueStep, SendStep

\* The gauges of a run stay true of it while it goes on.
LEMMA NetLater ==
  ASSUME NetHonest, QueueType, QueueStep, ~QueueRestart, UNCHANGED <<net, past>>
  PROVE  NetHonest'
<1>1. /\ instance' = instance /\ dropped \in Nat /\ dropped' \in Nat /\ dropped <= dropped'
      /\ dropped_by_kind \in [Kinds -> Nat] /\ dropped_by_kind' \in [Kinds -> Nat]
      /\ \A k \in Kinds : dropped_by_kind[k] <= dropped_by_kind'[k]
  BY CountersGrow DEF QueueType
<1>2. CASE net.instance = instance /\ net.instance # 0
  <2>1. /\ net.dropped \in Nat /\ net.by_kind \in [Kinds -> Nat]
        /\ net.dropped <= dropped /\ \A k \in Kinds : net.by_kind[k] <= dropped_by_kind[k]
    BY <1>2 DEF NetHonest, Run
  <2>2. net.dropped <= dropped' /\ \A k \in Kinds : net.by_kind[k] <= dropped_by_kind'[k]
    <3>1. ASSUME NEW k \in Kinds PROVE net.by_kind[k] <= dropped_by_kind'[k]
      <4>1. /\ net.by_kind[k] \in Nat /\ dropped_by_kind[k] \in Nat /\ dropped_by_kind'[k] \in Nat
            /\ net.by_kind[k] <= dropped_by_kind[k] /\ dropped_by_kind[k] <= dropped_by_kind'[k]
        BY <1>1, <2>1
      <4> QED
        BY <4>1
    <3> QED
      BY <1>1, <2>1, <3>1
  <2> QED
    BY <1>1, <1>2, <2>2 DEF NetHonest, Run
<1>3. CASE ~(net.instance = instance /\ net.instance # 0)
  BY <1>1, <1>3 DEF NetHonest, Run
<1> QED
  BY <1>2, <1>3

\* Every step keeps the gauges honest.
LEMMA NetStep ==
  ASSUME JobType, QueueType, StampsHonest, NetHonest, [PipeNext]_pipevars
  PROVE  NetHonest'
<1>1. QueueStep
  BY NextOnQueue
<1>2. instance \in Nat \ {0} /\ instance' \in Nat \ {0}
  BY <1>1, QueueTypeStep DEF QueueType
<1>3. CASE Restart
  <2>1. /\ past' = Append(past, [dropped |-> dropped, by_kind |-> dropped_by_kind])
        /\ net' = net /\ instance' = instance + 1
    BY <1>3 DEF Restart, AnnounceRestart, QueueRestart
  <2>2. /\ IsSeq(past') /\ Len(past') = instance
        /\ past'[instance] = [dropped |-> dropped, by_kind |-> dropped_by_kind]
        /\ \A r \in 1..instance - 1 : past'[r] = past[r]
    <3>1. IsSeq(past) /\ Len(past) = instance - 1
      BY DEF NetHonest
    <3>2. Len(past) + 1 = instance
      BY <1>2, <3>1
    <3> QED
      BY <2>1, <3>1, <3>2, QueueAppend
  <2>3. net.instance # 0 => Run(net.instance)' = Run(net.instance)
    BY <1>2, <2>1, <2>2 DEF NetHonest, Run
  <2> QED
    BY <1>2, <2>1, <2>2, <2>3 DEF NetHonest
<1>4. CASE handle_message
  <2> DEFINE e == Head(publishing)
  <2>1. /\ net' = observe(net, e) /\ UNCHANGED <<past, instance, dropped, dropped_by_kind>>
        /\ publishing # <<>>
    BY <1>4 DEF handle_message, Publish
  <2>2. Honest(e, instance, dropped, dropped_by_kind) /\ Whole(e)
    <3>1. e = publishing[1] /\ 1 \in 1..Len(publishing)
      BY <2>1, QueueTail DEF QueueType
    <3> QED
      BY <3>1 DEF StampsHonest
  <2> HIDE DEF e
  <2>3. /\ InBounds(net') /\ net'.instance = instance
        /\ net'.dropped \in Nat /\ net'.dropped <= dropped
        /\ net'.by_kind \in [Kinds -> Nat] /\ \A k \in Kinds : net'.by_kind[k] <= dropped_by_kind[k]
    BY <2>1, <2>2, ObserveHonest
  <2> QED
    BY <1>2, <2>1, <2>3 DEF NetHonest, Run
<1>5. CASE TakeNext \/ Lose \/ UNCHANGED pipevars
  <2>1. UNCHANGED <<net, past>> /\ instance' = instance
    BY <1>5 DEF TakeNext, Lose, Receive, Publish, AbortPublisher, pipevars, pvars, qvars
  <2>2. ~QueueRestart
    BY <1>2, <2>1 DEF QueueRestart
  <2> QED
    BY <1>1, <2>1, <2>2, NetLater
<1>6. ASSUME NEW c \in Senders, Task(c)
      PROVE  NetHonest'
  <2>1. UNCHANGED <<net, past>>
    BY <1>6 DEF Task
  <2>2. Sends(c) \/ SendStep(c) \/ UNCHANGED qvars
    BY <1>6, TaskOnQueue DEF Task
  <2>3. instance' = instance
    BY <2>2 DEF Sends, send, SendStep, ReadKind, LookAtCapacity, TrySend, Count, CountKind, qvars
  <2>4. ~QueueRestart
    BY <1>2, <2>3 DEF QueueRestart
  <2> QED
    BY <1>1, <2>1, <2>4, NetLater
<1> QED
  BY <1>3, <1>4, <1>5, <1>6 DEF PipeNext

\* A new tool on a new observer.
LEMMA InitHonest == PipeInit => StampsHonest /\ NetHonest
<1> SUFFICES ASSUME PipeInit PROVE StampsHonest /\ NetHonest
  OBVIOUS
<1>1. StampsHonest
  BY ShortQueues DEF PipeInit, AnnounceInit, QueueInit, StampsHonest
<1>2. net = NetworkState /\ past = <<>> /\ instance = 1
  BY DEF PipeInit, AnnounceInit, QueueInit
<1>3. /\ IsNet(net) /\ net.series = {} /\ net.samples = {} /\ net.user_agents = {} /\ net.versions = {}
      /\ net.best_height = 0 /\ net.instance = 0 /\ net.dropped = 0 /\ net.by_kind = NoDrops
  BY <1>2 DEF NetworkState, IsNet
<1>4. \A k : LabelsOf(net, k) = {}
  BY <1>3 DEF LabelsOf
<1>5. USER_AGENT_CAP \in Nat /\ PROTOCOL_VERSION_CAP \in Nat
  BY MetricsAssumption
<1>6. InBounds(net)
  BY <1>3, <1>4, <1>5, FS_EmptySet DEF InBounds, Capped
<1>7. NetHonest
  BY <1>2, <1>3, <1>6, ShortQueues, NoDropsType DEF NetHonest
<1> QED
  BY <1>1, <1>7

\* The stamps and the gauges are honest in every state of every run of the observer.
THEOREM CountersAreHonest == PipeSpec => [](StampsHonest /\ NetHonest)
<1>1. PipeInit => StampsHonest /\ NetHonest
  BY InitHonest
<1>2. JobType /\ QueueType /\ StampsHonest /\ NetHonest /\ [PipeNext]_pipevars
        => (StampsHonest /\ NetHonest)'
  BY NextOnQueue, StampsStep, NetStep
<1>3. PipeSpec => [](JobType /\ QueueType)
  BY JobTypeCorrect, QueueTypeCorrect, PTL
<1> QED
  BY <1>1, <1>2, <1>3, PTL DEF PipeSpec

\* The metrics tool never claims a loss that did not happen in the run it names, however
\* the counters were read while others counted, and over restarts (metrics lib.rs
\* observe_pipeline; emit.rs stamps).
THEOREM LossIsNeverOverstated == PipeSpec => []LossNeverOverstated
<1>1. NetHonest => LossNeverOverstated
  BY DEF NetHonest, LossNeverOverstated, Run
<1>2. PipeSpec => []NetHonest
  BY CountersAreHonest, PTL
<1> QED
  BY <1>1, <1>2, PTL

\* "Every series is bounded", for any events of any peers in any order (labels.rs).
THEOREM SeriesStayBounded == PipeSpec => []PeersCannotGrowIt
<1>1. InBounds(net) => PeersCannotGrowIt
  <2> SUFFICES ASSUME InBounds(net) PROVE PeersCannotGrowIt
    OBVIOUS
  <2>1. \A k : Labels(k) = LabelsOf(net, k)
    BY DEF Labels, LabelsOf
  <2>2. {USER_AGENT_CAP, PROTOCOL_VERSION_CAP, SKEW, HEIGHT_DELTA, FEE_FILTER, ADDRESS_AGE} \subseteq Nat
    BY MetricsAssumption
  <2>3. ASSUME NEW metric, NEW values, NEW cap \in Nat, Capped(net, metric, values, cap)
        PROVE  Cardinality(LabelsOf(net, metric) \ {OTHER_LABEL}) <= cap
    <3> DEFINE some == LabelsOf(net, metric) \ {OTHER_LABEL}
    <3>1. /\ IsFiniteSet(values) /\ Cardinality(values) <= cap /\ some \in SUBSET values
      BY <2>3 DEF Capped
    <3> HIDE DEF some
    <3>2. /\ IsFiniteSet(some) /\ Cardinality(some) <= Cardinality(values)
          /\ Cardinality(some) \in Nat /\ Cardinality(values) \in Nat
      BY <3>1, FS_Subset, FS_CardinalityType
    <3>3. Cardinality(some) <= cap
      BY <3>1, <3>2
    <3> QED
      BY <3>3 DEF some
  <2>4. /\ Cardinality(Labels("user_agents") \ {OTHER_LABEL}) <= USER_AGENT_CAP
        /\ Cardinality(Labels("versions") \ {OTHER_LABEL}) <= PROTOCOL_VERSION_CAP
    BY <2>1, <2>2, <2>3 DEF InBounds
  <2>5. \A x \in net.samples : x[1] \in {"skew", "height", "fee_filter", "address_age"} =>
          x[2] <= Limit(x[1]) /\ -x[2] <= Limit(x[1])
    BY DEF InBounds, Clamped
  <2> QED
    BY <2>1, <2>4, <2>5 DEF PeersCannotGrowIt, InBounds, Limit
<1>2. NetHonest => InBounds(net)
  BY DEF NetHonest
<1>3. PipeSpec => []NetHonest
  BY CountersAreHonest, PTL
<1> QED
  BY <1>1, <1>2, <1>3, PTL

----------------------------------------------------------------------------
(* Every call of send is accounted for.                                     *)

\* Tasks that have called send and whose event is neither queued nor counted yet.
OnTheirWay == In({"kinds", "capacity", "try_send", "count"})

\* The part of LossesAddUp that is about the total.
CallsAddUp ==
  /\ calls \in Nat /\ taken \in Nat
  /\ publisher = "running" =>
       calls = taken + Len(queue) + dropped + Cardinality(OnTheirWay)

\* A task comes to some places, leaves them, or neither.
LEMMA ComesAndGoes ==
  ASSUME NEW W, NEW s \in Senders, \A t \in Senders \ {s} : pc'[t] = pc[t]
  PROVE  /\ Cardinality(In(W)) \in Nat /\ Cardinality(In(W)') \in Nat
         /\ pc[s] \in W /\ pc'[s] \in W => Cardinality(In(W)') = Cardinality(In(W))
         /\ pc[s] \notin W /\ pc'[s] \notin W => Cardinality(In(W)') = Cardinality(In(W))
         /\ pc[s] \notin W /\ pc'[s] \in W => Cardinality(In(W)') = Cardinality(In(W)) + 1
         /\ pc[s] \in W /\ pc'[s] \notin W => Cardinality(In(W)') = Cardinality(In(W)) - 1
<1> DEFINE A == {t \in Senders : pc[t] \in W}
           B == {t \in Senders : pc'[t] \in W}
<1>1. In(W) = A /\ In(W)' = B
  BY DEF In
<1>2. /\ s \in A <=> pc[s] \in W
      /\ s \in B <=> pc'[s] \in W
      /\ \A t : t # s => (t \in A <=> t \in B)
  OBVIOUS
<1>3. IsFiniteSet(Senders) /\ A \in SUBSET Senders /\ B \in SUBSET Senders
  BY QueueAssumption
<1> HIDE DEF A, B
<1>4. IsFiniteSet(A) /\ IsFiniteSet(B) /\ Cardinality(A) \in Nat /\ Cardinality(B) \in Nat
  BY <1>3, FS_Subset, FS_CardinalityType
<1>5. (s \in A /\ s \in B) \/ (s \notin A /\ s \notin B) => A = B
  BY <1>2
<1>6. s \notin A /\ s \in B => Cardinality(B) = Cardinality(A) + 1
  <2>1. s \notin A /\ s \in B => B = A \cup {s}
    BY <1>2
  <2>2. s \notin A => Cardinality(A \cup {s}) = Cardinality(A) + 1
    BY <1>4, FS_AddElement
  <2> QED
    BY <2>1, <2>2
<1>7. s \in A /\ s \notin B => Cardinality(B) = Cardinality(A) - 1
  <2>1. s \in A /\ s \notin B => B = A \ {s}
    BY <1>2
  <2>2. s \in A => Cardinality(A \ {s}) = Cardinality(A) - 1
    BY <1>4, FS_RemoveElement
  <2> QED
    BY <2>1, <2>2
<1>8. Cardinality(In(W)) = Cardinality(A) /\ Cardinality(In(W)') = Cardinality(B)
  BY <1>1
<1> QED
  BY <1>2, <1>4, <1>5, <1>6, <1>7, <1>8

\* A task sets out, arrives, or neither.
LEMMA SetOut ==
  ASSUME NEW s \in Senders, \A t \in Senders \ {s} : pc'[t] = pc[t]
  PROVE  LET on(where) == where \in {"kinds", "capacity", "try_send", "count"}
         IN  /\ Cardinality(OnTheirWay) \in Nat /\ Cardinality(OnTheirWay') \in Nat
             /\ on(pc[s]) /\ on(pc'[s]) => Cardinality(OnTheirWay') = Cardinality(OnTheirWay)
             /\ ~on(pc[s]) /\ ~on(pc'[s]) => Cardinality(OnTheirWay') = Cardinality(OnTheirWay)
             /\ ~on(pc[s]) /\ on(pc'[s]) => Cardinality(OnTheirWay') = Cardinality(OnTheirWay) + 1
             /\ on(pc[s]) /\ ~on(pc'[s]) => Cardinality(OnTheirWay') = Cardinality(OnTheirWay) - 1
<1> DEFINE W == {"kinds", "capacity", "try_send", "count"}
<1>1. OnTheirWay = In(W) /\ OnTheirWay' = In(W)'
  BY DEF OnTheirWay
<1> HIDE DEF W
<1>2. /\ Cardinality(OnTheirWay) \in Nat /\ Cardinality(OnTheirWay') \in Nat
      /\ pc[s] \in W /\ pc'[s] \in W => Cardinality(OnTheirWay') = Cardinality(OnTheirWay)
      /\ pc[s] \notin W /\ pc'[s] \notin W => Cardinality(OnTheirWay') = Cardinality(OnTheirWay)
      /\ pc[s] \notin W /\ pc'[s] \in W => Cardinality(OnTheirWay') = Cardinality(OnTheirWay) + 1
      /\ pc[s] \in W /\ pc'[s] \notin W => Cardinality(OnTheirWay') = Cardinality(OnTheirWay) - 1
  BY <1>1, ComesAndGoes
<1> QED
  BY <1>2, Zenon DEF W

\* A task's step adds to the calls what it adds to the events on their way, and takes
\* from these what it adds to the queue or to the losses.
LEMMA TaskAddsUp ==
  ASSUME JobType, QueueType, CallsAddUp, NEW c \in Senders, Task(c)
  PROVE  CallsAddUp'
<1>1. /\ taken' = taken /\ calls \in Nat /\ taken \in Nat
      /\ calls' = IF pc[c] = "idle" /\ pc'[c] # "idle" THEN calls + 1 ELSE calls
      /\ Len(queue) \in Nat /\ dropped \in Nat
  BY QueueAppend DEF Task, CallsAddUp, QueueType
<1>2. Sends(c) \/ SendStep(c) \/ UNCHANGED qvars
  BY TaskOnQueue DEF Task
<1>3. publisher' = publisher /\ \A t \in Senders \ {c} : pc'[t] = pc[t]
  BY <1>2 DEF Sends, send, SendStep, ReadKind, LookAtCapacity, TrySend, Count, CountKind,
              Goto, qvars, QueueType
<1>4. /\ Cardinality(OnTheirWay) \in Nat /\ Cardinality(OnTheirWay') \in Nat
      /\ LET on(where) == where \in {"kinds", "capacity", "try_send", "count"}
             m == Cardinality(OnTheirWay)
             n == Cardinality(OnTheirWay')
         IN  /\ on(pc[c]) /\ on(pc'[c]) => n = m
             /\ ~on(pc[c]) /\ ~on(pc'[c]) => n = m
             /\ ~on(pc[c]) /\ on(pc'[c]) => n = m + 1
             /\ on(pc[c]) /\ ~on(pc'[c]) => n = m - 1
  BY <1>3, SetOut
<1>5. CASE Sends(c)
  <2>1. PICK kind, data : send(c, kind, data)
    BY <1>5 DEF Sends
  <2>2. /\ UNCHANGED <<queue, dropped>> /\ pc[c] = "idle"
        /\ pc'[c] \in {"kinds", "capacity", "try_send"}
    BY <2>1 DEF send, Goto, AfterStamp, QueueType
  <2>3. Cardinality(OnTheirWay') = Cardinality(OnTheirWay) + 1 /\ calls' = calls + 1
    BY <1>1, <1>4, <2>2
  <2> QED
    BY <1>1, <1>3, <1>4, <2>2, <2>3 DEF CallsAddUp
<1>6. CASE ReadKind(c) \/ LookAtCapacity(c)
  <2>1. /\ UNCHANGED <<queue, dropped>> /\ pc[c] \in {"kinds", "capacity"}
        /\ pc'[c] \in {"kinds", "capacity", "try_send", "count"}
    BY <1>6 DEF ReadKind, LookAtCapacity, Goto, AfterStamp, QueueType
  <2>2. Cardinality(OnTheirWay') = Cardinality(OnTheirWay) /\ calls' = calls
    BY <1>1, <1>4, <2>1
  <2> QED
    BY <1>1, <1>3, <2>1, <2>2 DEF CallsAddUp
<1>7. CASE TrySend(c)
  <2>1. /\ dropped' = dropped /\ pc[c] = "try_send"
        /\ \/ queue' = Append(queue, ev[c]) /\ pc'[c] = "idle"
           \/ queue' = queue /\ pc'[c] = "count"
    BY <1>7 DEF TrySend, Goto, QueueType
  <2>2. CASE queue' = Append(queue, ev[c]) /\ pc'[c] = "idle"
    <3>1. Len(queue') = Len(queue) + 1
      BY <2>2, QueueAppend DEF QueueType
    <3>2. Cardinality(OnTheirWay') = Cardinality(OnTheirWay) - 1 /\ calls' = calls
      BY <1>1, <1>4, <2>1, <2>2
    <3> QED
      BY <1>1, <1>3, <1>4, <2>1, <3>1, <3>2 DEF CallsAddUp
  <2>3. CASE queue' = queue /\ pc'[c] = "count"
    <3>1. Cardinality(OnTheirWay') = Cardinality(OnTheirWay) /\ calls' = calls
      BY <1>1, <1>4, <2>1, <2>3
    <3> QED
      BY <1>1, <1>3, <2>1, <2>3, <3>1 DEF CallsAddUp
  <2> QED
    BY <2>1, <2>2, <2>3
<1>8. CASE Count(c)
  <2>1. queue' = queue /\ dropped' = dropped + 1 /\ pc[c] = "count" /\ pc'[c] = "count_kind"
    BY <1>8 DEF Count, Goto, QueueType
  <2>2. Cardinality(OnTheirWay') = Cardinality(OnTheirWay) - 1 /\ calls' = calls
    BY <1>1, <1>4, <2>1
  <2> QED
    BY <1>1, <1>3, <1>4, <2>1, <2>2 DEF CallsAddUp
<1>9. CASE CountKind(c)
  <2>1. UNCHANGED <<queue, dropped>> /\ pc[c] = "count_kind" /\ pc'[c] = "idle"
    BY <1>9 DEF CountKind, Goto, QueueType
  <2>2. Cardinality(OnTheirWay') = Cardinality(OnTheirWay) /\ calls' = calls
    BY <1>1, <1>4, <2>1
  <2> QED
    BY <1>1, <1>3, <2>1, <2>2 DEF CallsAddUp
<1>10. CASE UNCHANGED qvars
  <2>1. UNCHANGED <<queue, dropped, pc>>
    BY <1>10 DEF qvars
  <2>2. OnTheirWay' = OnTheirWay /\ calls' = calls
    BY <1>1, <2>1 DEF OnTheirWay, In
  <2> QED
    BY <1>1, <1>3, <2>1, <2>2 DEF CallsAddUp
<1> QED
  BY <1>2, <1>5, <1>6, <1>7, <1>8, <1>9, <1>10 DEF SendStep

\* While the publisher runs, the calls of send in a run are the events it took, the ones
\* queued, the ones on their way and the ones counted as dropped: nothing is lost
\* uncounted (emit.rs send), for any number of tasks.
THEOREM NothingIsLostUncounted == PipeSpec => []CallsAddUp
<1>1. PipeInit => CallsAddUp
  <2> SUFFICES ASSUME PipeInit PROVE CallsAddUp
    OBVIOUS
  <2>1. OnTheirWay = {} /\ Len(queue) = 0 /\ dropped = 0 /\ calls = 0 /\ taken = 0
    BY ShortQueues DEF PipeInit, AnnounceInit, QueueInit, OnTheirWay, In
  <2> QED
    BY <2>1, FS_EmptySet DEF CallsAddUp
<1>2. JobType /\ QueueType /\ CallsAddUp /\ [PipeNext]_pipevars => CallsAddUp'
  <2> SUFFICES ASSUME JobType, QueueType, CallsAddUp, [PipeNext]_pipevars PROVE CallsAddUp'
    OBVIOUS
  <2>1. TakeNext => CallsAddUp'
    <3> SUFFICES ASSUME TakeNext PROVE CallsAddUp'
      OBVIOUS
    <3>1. /\ UNCHANGED <<publisher, pc, dropped, calls>> /\ taken' = taken + 1
          /\ queue # <<>> /\ queue' = Tail(queue)
      BY DEF TakeNext, Receive
    <3>2. Len(queue') = Len(queue) - 1 /\ Len(queue) \in Nat
      BY <3>1, QueueTail DEF QueueType
    <3>3. OnTheirWay' = OnTheirWay
      BY <3>1 DEF OnTheirWay, In
    <3>4. Cardinality(OnTheirWay) \in Nat /\ dropped \in Nat
      <4>1. IsFiniteSet(Senders) /\ OnTheirWay \in SUBSET Senders
        BY QueueAssumption DEF OnTheirWay, In
      <4> QED
        BY <4>1, FS_Subset, FS_CardinalityType DEF QueueType
    <3> QED
      BY <3>1, <3>2, <3>3, <3>4 DEF CallsAddUp
  <2>2. handle_message \/ Lose \/ UNCHANGED pipevars => CallsAddUp'
    BY DEF handle_message, Lose, Publish, AbortPublisher, pipevars, pvars, qvars, OnTheirWay, In, CallsAddUp
  <2>3. Restart => CallsAddUp'
    <3> SUFFICES ASSUME Restart PROVE CallsAddUp'
      OBVIOUS
    <3>1. OnTheirWay' = {} /\ Len(queue') = 0 /\ dropped' = 0 /\ calls' = 0 /\ taken' = 0
      BY ShortQueues DEF Restart, AnnounceRestart, QueueRestart, OnTheirWay, In
    <3> QED
      BY <3>1, FS_EmptySet DEF CallsAddUp
  <2> QED
    BY <2>1, <2>2, <2>3, TaskAddsUp DEF PipeNext
<1>3. PipeSpec => [](JobType /\ QueueType)
  BY JobTypeCorrect, QueueTypeCorrect, PTL
<1> QED
  BY <1>1, <1>2, <1>3, PTL DEF PipeSpec

----------------------------------------------------------------------------
(* Losses by kind.                                                          *)

\* A set of numbers with zero and every successor has them all.
LEMMA AllNumbers ==
  ASSUME NEW S \in SUBSET Nat, 0 \in S, \A n \in S : n + 1 \in S
  PROVE  S = Nat
<1>1. SUFFICES ASSUME Nat \ S # {} PROVE FALSE
  OBVIOUS
<1>2. PICK n \in Nat \ S : \A m \in Nat \ S : ~(<<m, n>> \in OpToRel(<, Nat))
  BY <1>1, WFMin, NatLessThanWellFounded
<1>3. n - 1 \in Nat /\ n - 1 < n /\ (n - 1) + 1 = n
  <2>1. n \in Nat /\ n # 0
    BY <1>2, Zenon
  <2> QED
    BY <2>1
<1>4. <<n - 1, n>> \in OpToRel(<, Nat)
  BY <1>2, <1>3 DEF OpToRel
<1>5. n - 1 \in S
  BY <1>2, <1>3, <1>4
<1> QED
  BY <1>2, <1>3, <1>5

\* What dropped_by_kind comes to.
Sum(f) == FoldFunction(+, 0, f)

\* The element that the sum takes next, the sums over the sets in D, and the sets of n
\* elements at most.
NextOf(s) == CHOOSE x \in s : TRUE
Summed(f, D, g) ==
  g = [s \in D |-> IF s = {} THEN 0 ELSE f[NextOf(s)] + g[s \ {NextOf(s)}]]
UpTo(S, n) == {s \in SUBSET S : Cardinality(s) <= n}

\* As the fold takes it, one element after another.
LEMMA SumIs ==
  ASSUME NEW f PROVE Sum(f) = (CHOOSE g : Summed(f, SUBSET DOMAIN f, g))[DOMAIN f]
BY Zenon DEF Sum, FoldFunction, FoldFunctionOnSet, MapThenFoldSet, Summed, NextOf

\* What is left of a set.
LEMMA OneLess ==
  ASSUME NEW S, IsFiniteSet(S), NEW s \in SUBSET S, s # {}
  PROVE  /\ NextOf(s) \in s /\ s \ {NextOf(s)} \in SUBSET S
         /\ Cardinality(s) \in Nat /\ Cardinality(s \ {NextOf(s)}) \in Nat
         /\ Cardinality(s) = Cardinality(s \ {NextOf(s)}) + 1
<1>1. NextOf(s) \in s
  BY DEF NextOf
<1>2. IsFiniteSet(s)
  BY FS_Subset
<1>3. Cardinality(s) \in Nat /\ IsFiniteSet(s \ {NextOf(s)})
  BY <1>2, FS_CardinalityType, FS_Subset
<1>4. Cardinality(s \ {NextOf(s)}) = Cardinality(s) - 1 /\ Cardinality(s \ {NextOf(s)}) \in Nat
  BY <1>1, <1>2, <1>3, FS_RemoveElement, FS_CardinalityType
<1> QED
  BY <1>1, <1>3, <1>4

\* The numbers of elements that a finite set's subsets have.
LEMMA Sizes ==
  ASSUME NEW S, IsFiniteSet(S)
  PROVE  /\ Cardinality(S) \in Nat /\ UpTo(S, Cardinality(S)) = SUBSET S
         /\ \A s \in SUBSET S : Cardinality(s) \in Nat /\ (Cardinality(s) = 0 <=> s = {})
<1>1. Cardinality(S) \in Nat /\ \A s \in SUBSET S : IsFiniteSet(s) /\ Cardinality(s) <= Cardinality(S)
  BY FS_Subset, FS_CardinalityType
<1>2. \A s \in SUBSET S : Cardinality(s) \in Nat /\ (Cardinality(s) = 0 <=> s = {})
  BY <1>1, FS_CardinalityType, FS_EmptySet
<1> QED
  BY <1>1, <1>2 DEF UpTo

\* There is a sum.
LEMMA SumExists ==
  ASSUME NEW f, IsFiniteSet(DOMAIN f)
  PROVE  \E g : Summed(f, SUBSET DOMAIN f, g)
<1> DEFINE D(n) == UpTo(DOMAIN f, n)
           N == {n \in Nat : \E g : Summed(f, D(n), g)}
<1>1. 0 \in N
  <2> DEFINE g == [s \in D(0) |-> 0]
  <2>1. \A s \in D(0) : s = {}
    <3>1. \A s \in SUBSET DOMAIN f : Cardinality(s) \in Nat /\ (Cardinality(s) = 0 <=> s = {})
      BY Sizes
    <3> QED
      BY <3>1 DEF UpTo
  <2> HIDE DEF D
  <2>2. g = [s \in D(0) |-> IF s = {} THEN 0 ELSE f[NextOf(s)] + g[s \ {NextOf(s)}]]
    BY <2>1
  <2>3. Summed(f, D(0), g)
    BY <2>2, Zenon DEF Summed
  <2> QED
    BY <2>3
<1>2. ASSUME NEW n \in N PROVE n + 1 \in N
  <2>1. n \in Nat /\ n + 1 \in Nat
    OBVIOUS
  <2>2. PICK g : Summed(f, D(n), g)
    OBVIOUS
  <2> DEFINE h == [s \in D(n + 1) |-> IF s = {} THEN 0 ELSE f[NextOf(s)] + g[s \ {NextOf(s)}]]
  <2>3. ASSUME NEW s \in D(n + 1), s # {} PROVE s \ {NextOf(s)} \in D(n)
    <3>1. s \in SUBSET DOMAIN f /\ Cardinality(s) <= n + 1
      BY <2>3 DEF UpTo
    <3>2. /\ s \ {NextOf(s)} \in SUBSET DOMAIN f
          /\ Cardinality(s) \in Nat /\ Cardinality(s \ {NextOf(s)}) \in Nat
          /\ Cardinality(s) = Cardinality(s \ {NextOf(s)}) + 1
      BY <2>3, <3>1, OneLess
    <3>3. Cardinality(s \ {NextOf(s)}) <= n
      BY <2>1, <3>1, <3>2
    <3> QED
      BY <3>2, <3>3 DEF UpTo
  <2>4. D(n) \subseteq D(n + 1)
    <3>1. ASSUME NEW s \in D(n) PROVE s \in SUBSET DOMAIN f /\ Cardinality(s) <= n + 1
      <4>1. s \in SUBSET DOMAIN f /\ Cardinality(s) <= n /\ Cardinality(s) \in Nat
        BY <3>1, Sizes DEF UpTo
      <4> QED
        BY <2>1, <4>1
    <3> QED
      BY <3>1 DEF UpTo
  <2> HIDE DEF D
  <2>5. ASSUME NEW s \in D(n) PROVE h[s] = g[s]
    <3>1. g[s] = IF s = {} THEN 0 ELSE f[NextOf(s)] + g[s \ {NextOf(s)}]
      <4>1. g = [t \in D(n) |-> IF t = {} THEN 0 ELSE f[NextOf(t)] + g[t \ {NextOf(t)}]]
        BY <2>2, Zenon DEF Summed
      <4> QED
        BY <4>1, Zenon
    <3>2. h[s] = IF s = {} THEN 0 ELSE f[NextOf(s)] + g[s \ {NextOf(s)}]
      BY <2>4, Zenon
    <3> QED
      BY <3>1, <3>2, Zenon
  <2>6. h = [s \in D(n + 1) |-> IF s = {} THEN 0 ELSE f[NextOf(s)] + h[s \ {NextOf(s)}]]
    <3>1. ASSUME NEW s \in D(n + 1)
          PROVE  (IF s = {} THEN 0 ELSE f[NextOf(s)] + g[s \ {NextOf(s)}])
                   = (IF s = {} THEN 0 ELSE f[NextOf(s)] + h[s \ {NextOf(s)}])
      <4> HIDE DEF h
      <4>1. CASE s = {}
        BY <4>1, Zenon
      <4>2. CASE s # {}
        <5>1. h[s \ {NextOf(s)}] = g[s \ {NextOf(s)}]
          BY <2>3, <2>5, <4>2, Zenon
        <5> QED
          BY <5>1, Zenon
      <4> QED
        BY <4>1, <4>2, Zenon
    <3> QED
      BY <3>1, Zenon
  <2>7. Summed(f, D(n + 1), h)
    BY <2>6, Zenon DEF Summed
  <2> QED
    BY <2>1, <2>7
<1>3. N = Nat
  <2> HIDE DEF N
  <2>1. N \in SUBSET Nat
    BY DEF N
  <2> QED
    BY <1>1, <1>2, <2>1, AllNumbers
<1>4. Cardinality(DOMAIN f) \in Nat /\ D(Cardinality(DOMAIN f)) = SUBSET DOMAIN f
  BY Sizes
<1>5. \E g : Summed(f, D(Cardinality(DOMAIN f)), g)
  <2> HIDE DEF D
  <2> QED
    BY <1>3, <1>4
<1> HIDE DEF D
<1> QED
  BY <1>4, <1>5, Zenon

\* g is the sum of f over every set of kinds, that of one and of the others.
SumsTo(D, f, g) ==
  /\ Sum(f) = g[D] /\ g[{}] = 0
  /\ \A s \in SUBSET D : s # {} => g[s] = f[NextOf(s)] + g[s \ {NextOf(s)}]

\* The sums exist.
LEMMA SumStep ==
  ASSUME NEW D, IsFiniteSet(D), NEW f, DOMAIN f = D
  PROVE  \E g : SumsTo(D, f, g)
<1> DEFINE g == CHOOSE g : Summed(f, SUBSET D, g)
<1>1. Summed(f, SUBSET D, g)
  BY SumExists, Zenon
<1>2. Sum(f) = g[D]
  BY SumIs, Zenon
<1> HIDE DEF g
<1>3. g = [s \in SUBSET D |-> IF s = {} THEN 0 ELSE f[NextOf(s)] + g[s \ {NextOf(s)}]]
  BY <1>1, Zenon DEF Summed
<1>4. \A s \in SUBSET D : g[s] = IF s = {} THEN 0 ELSE f[NextOf(s)] + g[s \ {NextOf(s)}]
  BY <1>3, Zenon
<1>5. {} \in SUBSET D
  OBVIOUS
<1>6. g[{}] = 0
  BY <1>4, <1>5, Zenon
<1>7. \A s \in SUBSET D : s # {} => g[s] = f[NextOf(s)] + g[s \ {NextOf(s)}]
  BY <1>4, Zenon
<1> QED
  BY <1>2, <1>6, <1>7, Zenon DEF SumsTo

\* One more of one kind is one more in all.
LEMMA SumAddsOne ==
  ASSUME NEW D, IsFiniteSet(D), NEW f \in [D -> Nat], NEW k \in D
  PROVE  Sum(f) \in Nat /\ Sum([f EXCEPT ![k] = @ + 1]) = Sum(f) + 1
<1> DEFINE e == [f EXCEPT ![k] = @ + 1]
<1>1. DOMAIN f = D /\ DOMAIN e = D
  OBVIOUS
<1>2. PICK g : SumsTo(D, f, g)
  BY <1>1, SumStep
<1>3. PICK h : SumsTo(D, e, h)
  <2> HIDE DEF e
  <2> QED
    BY <1>1, SumStep
<1>4. e[k] = f[k] + 1 /\ \A x \in D : f[x] \in Nat /\ (x # k => e[x] = f[x])
  OBVIOUS
<1> HIDE DEF e
<1> DEFINE OK(s) == g[s] \in Nat /\ h[s] = IF k \in s THEN g[s] + 1 ELSE g[s]
           N == {n \in Nat : \A s \in SUBSET D : Cardinality(s) = n => OK(s)}
<1>5. 0 \in N
  <2>1. \A s \in SUBSET D : Cardinality(s) = 0 => s = {}
    BY Sizes
  <2>2. OK({})
    BY <1>2, <1>3 DEF SumsTo
  <2> HIDE DEF OK
  <2> QED
    BY <2>1, <2>2
<1>6. ASSUME NEW n \in N PROVE n + 1 \in N
  <2>1. n \in Nat /\ \A s \in SUBSET D : Cardinality(s) = n => OK(s)
    OBVIOUS
  <2> HIDE DEF N
  <2>2. ASSUME NEW s \in SUBSET D, Cardinality(s) = n + 1 PROVE OK(s)
    <3> DEFINE x == NextOf(s)
               t == s \ {x}
    <3>1. s # {}
      <4>1. s = {} => Cardinality(s) = 0
        BY Sizes
      <4> QED
        BY <2>1, <2>2, <4>1
    <3>2. x \in s /\ t \in SUBSET D /\ Cardinality(t) \in Nat /\ n + 1 = Cardinality(t) + 1
      BY <2>2, <3>1, OneLess
    <3>3. OK(t)
      <4>1. Cardinality(t) = n
        BY <2>1, <3>2
      <4> HIDE DEF OK, x, t
      <4> QED
        BY <2>1, <3>2, <4>1
    <3>4. g[s] = f[x] + g[t] /\ h[s] = e[x] + h[t]
      BY <1>2, <1>3, <3>1 DEF SumsTo
    <3>5. f[x] \in Nat /\ (x # k => e[x] = f[x]) /\ (x = k => e[x] = f[x] + 1)
      BY <1>4, <3>2
    <3>6. /\ x = k => k \in s /\ k \notin t
          /\ x # k => (k \in s <=> k \in t)
      BY <3>2
    <3> HIDE DEF x, t
    <3>7. g[t] \in Nat /\ h[t] = IF k \in t THEN g[t] + 1 ELSE g[t]
      BY <3>3
    <3> QED
      BY <3>4, <3>5, <3>6, <3>7
  <2> HIDE DEF OK
  <2> QED
    BY <2>1, <2>2 DEF N
<1>7. N = Nat
  <2>1. N \in SUBSET Nat
    OBVIOUS
  <2> HIDE DEF N
  <2> QED
    BY <1>5, <1>6, <2>1, AllNumbers
<1>8. OK(D)
  <2>1. Cardinality(D) \in N /\ D \in SUBSET D
    BY <1>7, Sizes
  <2> HIDE DEF OK
  <2> QED
    BY <2>1
<1>9. g[D] \in Nat /\ h[D] = g[D] + 1
  BY <1>8
<1> QED
  BY <1>2, <1>3, <1>9 DEF e, SumsTo

\* Nothing of any kind is nothing.
LEMMA SumOfNone ==
  ASSUME NEW D, IsFiniteSet(D)
  PROVE  Sum([k \in D |-> 0]) = 0
<1> DEFINE f == [k \in D |-> 0]
<1>1. DOMAIN f = D /\ \A k \in D : f[k] = 0
  OBVIOUS
<1> HIDE DEF f
<1>2. PICK g : SumsTo(D, f, g)
  BY <1>1, SumStep
<1> DEFINE N == {n \in Nat : \A s \in SUBSET D : Cardinality(s) = n => g[s] = 0}
<1>3. 0 \in N
  <2>1. \A s \in SUBSET D : Cardinality(s) = 0 => s = {}
    BY Sizes
  <2> QED
    BY <1>2, <2>1 DEF SumsTo
<1>4. ASSUME NEW n \in N PROVE n + 1 \in N
  <2>1. n \in Nat /\ \A s \in SUBSET D : Cardinality(s) = n => g[s] = 0
    OBVIOUS
  <2> HIDE DEF N
  <2>2. ASSUME NEW s \in SUBSET D, Cardinality(s) = n + 1 PROVE g[s] = 0
    <3> DEFINE x == NextOf(s)
               t == s \ {x}
    <3>1. s # {}
      <4>1. s = {} => Cardinality(s) = 0
        BY Sizes
      <4> QED
        BY <2>1, <2>2, <4>1
    <3>2. x \in s /\ t \in SUBSET D /\ Cardinality(t) \in Nat /\ n + 1 = Cardinality(t) + 1
      BY <2>2, <3>1, OneLess
    <3>3. g[s] = f[x] + g[t]
      BY <1>2, <3>1 DEF SumsTo
    <3> HIDE DEF x, t
    <3>4. Cardinality(t) = n
      BY <2>1, <3>2
    <3>5. g[t] = 0
      BY <2>1, <3>2, <3>4
    <3>6. f[x] = 0
      BY <1>1, <3>2
    <3> QED
      BY <3>3, <3>5, <3>6
  <2> QED
    BY <2>1, <2>2 DEF N
<1>5. N = Nat
  <2>1. N \in SUBSET Nat
    OBVIOUS
  <2> HIDE DEF N
  <2> QED
    BY <1>3, <1>4, <2>1, AllNumbers
<1>6. Cardinality(D) \in N /\ D \in SUBSET D
  BY <1>5, Sizes
<1>7. g[D] = 0
  BY <1>6
<1> QED
  BY <1>2, <1>7 DEF f, SumsTo

\* There are finitely many kinds.
LEMMA FewKinds == IsFiniteSet(Kinds)
<1> DEFINE n == Len(KindOrder)
<1>1. KindOrder \in Seq(STRING) /\ n \in Nat /\ DOMAIN KindOrder = 1..n
  BY QueueAssumption
<1> DEFINE nth == [i \in 1..n |-> KindOrder[i]]
<1>2. nth \in Surjection(1..n, Kinds)
  BY <1>1 DEF Surjection, Kinds, ToSet
<1>3. IsFiniteSet(1..n)
  BY <1>1, FS_Interval, SMTT(30)
<1> QED
  BY <1>2, <1>3, FS_Surjection

\* The part of LossesAddUp that is about the kinds.
KindsAddUp == dropped = Sum(dropped_by_kind) + Cardinality(In({"count_kind"}))

\* A loss is counted in the total, and then in its kind.
LEMMA KindsStep ==
  ASSUME QueueType, KindsAddUp, QueueStep
  PROVE  KindsAddUp'
<1> DEFINE W == {"count_kind"}
<1>1. Sum(dropped_by_kind) \in Nat /\ dropped_by_kind \in [Kinds -> Nat] /\ dropped \in Nat
  <2>1. dropped_by_kind \in [Kinds -> Nat] /\ dropped \in Nat
    BY DEF QueueType
  <2> QED
    BY <2>1, FewKinds, SumAddsOne, QueueAssumption DEF Kinds
<1>2. dropped = Sum(dropped_by_kind) + Cardinality(In(W))
  BY DEF KindsAddUp
<1>3. ASSUME NEW s \in Senders, Sends(s) \/ ReadKind(s) \/ LookAtCapacity(s) \/ TrySend(s)
      PROVE  KindsAddUp'
  <2>1. /\ UNCHANGED <<dropped, dropped_by_kind>> /\ pc[s] \notin W /\ pc'[s] \notin W
        /\ \A t \in Senders \ {s} : pc'[t] = pc[t]
    BY <1>3 DEF Sends, send, ReadKind, LookAtCapacity, TrySend, Goto, AfterStamp, QueueType
  <2> HIDE DEF W
  <2>2. Cardinality(In(W)') = Cardinality(In(W))
    BY <2>1, ComesAndGoes
  <2> QED
    BY <1>2, <2>1, <2>2 DEF KindsAddUp, W
<1>4. ASSUME NEW s \in Senders, Count(s)
      PROVE  KindsAddUp'
  <2>1. /\ dropped' = dropped + 1 /\ dropped_by_kind' = dropped_by_kind
        /\ pc[s] \notin W /\ pc'[s] \in W /\ \A t \in Senders \ {s} : pc'[t] = pc[t]
    BY <1>4 DEF Count, Goto, QueueType
  <2> HIDE DEF W
  <2>2. Cardinality(In(W)) \in Nat /\ Cardinality(In(W)') = Cardinality(In(W)) + 1
    BY <2>1, ComesAndGoes
  <2>3. dropped' = Sum(dropped_by_kind) + Cardinality(In(W)')
    BY <1>1, <1>2, <2>1, <2>2
  <2> QED
    BY <2>1, <2>3 DEF KindsAddUp, W
<1>5. ASSUME NEW s \in Senders, CountKind(s)
      PROVE  KindsAddUp'
  <2>1. /\ dropped' = dropped /\ ev[s].kind \in Kinds
        /\ dropped_by_kind' = [dropped_by_kind EXCEPT ![ev[s].kind] = @ + 1]
        /\ pc[s] \in W /\ pc'[s] \notin W /\ \A t \in Senders \ {s} : pc'[t] = pc[t]
    BY <1>5 DEF CountKind, Goto, QueueType
  <2> HIDE DEF W
  <2>2. Cardinality(In(W)) \in Nat /\ Cardinality(In(W)') = Cardinality(In(W)) - 1
    BY <2>1, ComesAndGoes
  <2>3. Sum(dropped_by_kind') = Sum(dropped_by_kind) + 1
    BY <1>1, <2>1, FewKinds, SumAddsOne
  <2>4. dropped' = Sum(dropped_by_kind') + Cardinality(In(W)')
    BY <1>1, <1>2, <2>1, <2>2, <2>3
  <2> QED
    BY <2>4 DEF KindsAddUp, W
<1>6. ASSUME UNCHANGED <<dropped, dropped_by_kind, pc>> PROVE KindsAddUp'
  <2>1. In(W)' = In(W)
    BY <1>6 DEF In
  <2>2. Sum(dropped_by_kind)' = Sum(dropped_by_kind)
    BY <1>6
  <2> QED
    BY <1>2, <1>6, <2>1, <2>2 DEF KindsAddUp
<1>7. Receive \/ Publish \/ AbortPublisher \/ UNCHANGED qvars => KindsAddUp'
  BY <1>6 DEF Receive, Publish, AbortPublisher, qvars
<1>8. QueueRestart => KindsAddUp'
  <2> SUFFICES ASSUME QueueRestart PROVE KindsAddUp'
    OBVIOUS
  <2>1. /\ dropped' = 0 /\ dropped_by_kind' = [k \in Kinds |-> 0] /\ In(W)' = {}
    BY DEF QueueRestart, In
  <2>2. Sum(dropped_by_kind') = 0 /\ Cardinality(In(W)') = 0
    BY <2>1, FewKinds, SumOfNone, FS_EmptySet
  <2> QED
    BY <2>1, <2>2 DEF KindsAddUp
<1> QED
  BY <1>3, <1>4, <1>5, <1>7, <1>8 DEF QueueStep, SendStep

\* The kinds add up to the total but for a task between its two increments, however
\* many tasks lose events at once and of whatever kinds (emit.rs send).
THEOREM KindsAddUpToTheTotal == PipeSpec => []KindsAddUp
<1>1. PipeInit => KindsAddUp
  <2> SUFFICES ASSUME PipeInit PROVE KindsAddUp
    OBVIOUS
  <2>1. dropped = 0 /\ dropped_by_kind = [k \in Kinds |-> 0] /\ In({"count_kind"}) = {}
    BY DEF PipeInit, AnnounceInit, QueueInit, In
  <2> QED
    BY <2>1, FewKinds, SumOfNone, FS_EmptySet DEF KindsAddUp
<1>2. JobType /\ QueueType /\ KindsAddUp /\ [PipeNext]_pipevars => KindsAddUp'
  BY NextOnQueue, KindsStep
<1>3. PipeSpec => [](JobType /\ QueueType)
  BY JobTypeCorrect, QueueTypeCorrect, PTL
<1> QED
  BY <1>1, <1>2, <1>3, PTL DEF PipeSpec

\* The operator is told of the events that were lost: nothing is lost uncounted, in total
\* or by kind, and no gauge claims a loss that did not happen in the run it is about
\* (emit.rs send, observe_dropped of the metrics tool).
THEOREM LossesTold == PipeSpec => []LossesAreTold
<1>1. CallsAddUp /\ KindsAddUp /\ LossNeverOverstated => LossesAreTold
  <2>1. KindsAddUp => dropped = FoldFunction(+, 0, dropped_by_kind) + Cardinality(In({"count_kind"}))
    BY Zenon DEF KindsAddUp, Sum
  <2>2. CallsAddUp =>
          (publisher = "running" =>
             calls = taken + Len(queue) + dropped
                     + Cardinality(In({"kinds", "capacity", "try_send", "count"})))
    BY DEF CallsAddUp, OnTheirWay
  <2> QED
    BY <2>1, <2>2, Zenon DEF LossesAddUp, LossesAreTold
<1> QED
  BY <1>1, NothingIsLostUncounted, KindsAddUpToTheTotal, LossIsNeverOverstated, PTL

----------------------------------------------------------------------------
(* The headers of a message, inserted one after the other.                  *)

\* What is known is the records [held, rejected].
Known(t) == t.held \cup t.rejected
IsKnown(t) == t = [held |-> t.held, rejected |-> t.rejected]

\* A header is added, or nothing is; none is forgotten.
LEMMA InsertKnows ==
  ASSUME NEW t, IsKnown(t), NEW b
  PROVE  /\ IsKnown(Insert(t, b)) /\ t.held \subseteq Insert(t, b).held
         /\ Known(t) \subseteq Known(Insert(t, b))
         /\ Known(Insert(t, b)) \subseteq Known(t) \cup {b}
<1>1. \/ Insert(t, b) = t
      \/ Insert(t, b) = [t EXCEPT !.rejected = @ \cup {b}]
      \/ Insert(t, b) = [t EXCEPT !.held = @ \cup {b}]
  BY Zenon DEF Insert
<1>2. CASE Insert(t, b) = t
  BY <1>2
<1>3. CASE Insert(t, b) = [t EXCEPT !.rejected = @ \cup {b}]
  <2>1. Insert(t, b) = [held |-> t.held, rejected |-> t.rejected \cup {b}]
    BY <1>3 DEF IsKnown
  <2> QED
    BY <2>1 DEF IsKnown, Known
<1>4. CASE Insert(t, b) = [t EXCEPT !.held = @ \cup {b}]
  <2>1. Insert(t, b) = [held |-> t.held \cup {b}, rejected |-> t.rejected]
    BY <1>4 DEF IsKnown
  <2> QED
    BY <2>1 DEF IsKnown, Known
<1> QED
  BY <1>1, <1>2, <1>3, <1>4

\* Numbers up to n have a greatest.
LEMMA Greatest ==
  ASSUME NEW n \in Nat, NEW s \in SUBSET (1..n), s # {}
  PROVE  Max(s) \in s /\ \A i \in s : i <= Max(s)
<1> DEFINE N == {k \in Nat : \A r \in SUBSET (1..k) : r # {} => \E m \in r : \A i \in r : m >= i}
<1>1. 0 \in N
  <2>1. 1..0 = {}
    OBVIOUS
  <2> QED
    BY <2>1
<1>2. ASSUME NEW k \in N PROVE k + 1 \in N
  <2>1. k \in Nat /\ \A r \in SUBSET (1..k) : r # {} => \E m \in r : \A i \in r : m >= i
    OBVIOUS
  <2>2. ASSUME NEW r \in SUBSET (1..(k + 1)), r # {}
        PROVE  \E m \in r : \A i \in r : m >= i
    <3>1. CASE k + 1 \in r
      BY <2>1, <3>1
    <3>2. CASE k + 1 \notin r
      <4>1. r \in SUBSET (1..k)
        BY <2>1, <3>2
      <4> QED
        BY <2>1, <2>2, <4>1
    <3> QED
      BY <3>1, <3>2
  <2> QED
    BY <2>1, <2>2
<1>3. N = Nat
  <2>1. N \in SUBSET Nat
    OBVIOUS
  <2> HIDE DEF N
  <2> QED
    BY <1>1, <1>2, <2>1, AllNumbers
<1>4. n \in N
  BY <1>3
<1>5. \E m \in s : \A i \in s : m >= i
  BY <1>4
<1>6. Max(s) \in s /\ \A i \in s : Max(s) >= i
  BY <1>5, Zenon DEF Max
<1> QED
  BY <1>6

\* What is known after the headers with the numbers in each set of D.
Folded(t, blocks, D, g) ==
  g = [s \in D |-> IF s = {} THEN t ELSE Insert(g[s \ {Max(s)}], blocks[Max(s)])]

\* FoldLeft takes the headers from the last to the first.
LEMMA FoldIs ==
  ASSUME NEW t, NEW blocks
  PROVE  FoldLeft(Insert, t, blocks)
           = (CHOOSE g : Folded(t, blocks, SUBSET DOMAIN blocks, g))[DOMAIN blocks]
BY Zenon DEF FoldLeft, MapThenFoldSet, Folded

\* That is defined for any number of headers.
LEMMA FoldExists ==
  ASSUME NEW t, NEW blocks, NEW n \in Nat
  PROVE  \E g : Folded(t, blocks, SUBSET (1..n), g)
<1> DEFINE D(k) == SUBSET (1..k)
           N == {k \in Nat : \E g : Folded(t, blocks, D(k), g)}
<1>1. 0 \in N
  <2> DEFINE g == [s \in D(0) |-> t]
  <2>1. \A s \in D(0) : s = {}
    <3>1. 1..0 = {}
      OBVIOUS
    <3> QED
      BY <3>1
  <2> HIDE DEF D
  <2>2. g = [s \in D(0) |-> IF s = {} THEN t ELSE Insert(g[s \ {Max(s)}], blocks[Max(s)])]
    BY <2>1
  <2>3. Folded(t, blocks, D(0), g)
    BY <2>2, Zenon DEF Folded
  <2> QED
    BY <2>3
<1>2. ASSUME NEW k \in N PROVE k + 1 \in N
  <2>1. k \in Nat /\ k + 1 \in Nat
    OBVIOUS
  <2>2. PICK g : Folded(t, blocks, D(k), g)
    OBVIOUS
  <2> DEFINE h == [s \in D(k + 1) |-> IF s = {} THEN t ELSE Insert(g[s \ {Max(s)}], blocks[Max(s)])]
  <2>3. ASSUME NEW s \in D(k + 1), s # {} PROVE s \ {Max(s)} \in D(k)
    <3>1. Max(s) \in s /\ \A i \in s : i <= Max(s)
      BY <2>1, <2>3, Greatest
    <3>2. ASSUME NEW m \in 1..(k + 1), NEW i \in 1..(k + 1), i <= m, i # m PROVE i \in 1..k
      BY <2>1, <3>2
    <3>3. ASSUME NEW i \in s \ {Max(s)} PROVE i \in 1..k
      <4>1. i \in 1..(k + 1) /\ Max(s) \in 1..(k + 1) /\ i <= Max(s) /\ i # Max(s)
        BY <3>1
      <4> QED
        BY <3>2, <4>1, Zenon
    <3> QED
      BY <3>3
  <2>4. D(k) \subseteq D(k + 1)
    BY <2>1
  <2> HIDE DEF D
  <2>5. ASSUME NEW s \in D(k) PROVE h[s] = g[s]
    <3>1. g[s] = IF s = {} THEN t ELSE Insert(g[s \ {Max(s)}], blocks[Max(s)])
      <4>1. g = [r \in D(k) |-> IF r = {} THEN t ELSE Insert(g[r \ {Max(r)}], blocks[Max(r)])]
        BY <2>2, Zenon DEF Folded
      <4> QED
        BY <4>1, Zenon
    <3>2. h[s] = IF s = {} THEN t ELSE Insert(g[s \ {Max(s)}], blocks[Max(s)])
      BY <2>4, Zenon
    <3> QED
      BY <3>1, <3>2, Zenon
  <2>6. h = [s \in D(k + 1) |-> IF s = {} THEN t ELSE Insert(h[s \ {Max(s)}], blocks[Max(s)])]
    <3>1. ASSUME NEW s \in D(k + 1)
          PROVE  (IF s = {} THEN t ELSE Insert(g[s \ {Max(s)}], blocks[Max(s)]))
                   = (IF s = {} THEN t ELSE Insert(h[s \ {Max(s)}], blocks[Max(s)]))
      <4> HIDE DEF h
      <4>1. CASE s = {}
        BY <4>1, Zenon
      <4>2. CASE s # {}
        <5>1. h[s \ {Max(s)}] = g[s \ {Max(s)}]
          BY <2>3, <2>5, <4>2, Zenon
        <5> QED
          BY <5>1, Zenon
      <4> QED
        BY <4>1, <4>2, Zenon
    <3> QED
      BY <3>1, Zenon
  <2>7. Folded(t, blocks, D(k + 1), h)
    BY <2>6, Zenon DEF Folded
  <2> QED
    BY <2>1, <2>7
<1>3. N = Nat
  <2> HIDE DEF N
  <2>1. N \in SUBSET Nat
    BY DEF N
  <2> QED
    BY <1>1, <1>2, <2>1, AllNumbers
<1>4. \E g : Folded(t, blocks, D(n), g)
  <2> HIDE DEF D
  <2> QED
    BY <1>3
<1> QED
  BY <1>4

\* A message's headers leave what was known known, and add none but themselves.
LEMMA FoldKnows ==
  ASSUME NEW t, IsKnown(t), NEW blocks, NEW n \in Nat, DOMAIN blocks = 1..n,
         NEW u, u = FoldLeft(Insert, t, blocks)
  PROVE  /\ Known(t) \subseteq Known(u)
         /\ \A b \in Known(u) \ Known(t) : \E i \in 1..n : blocks[i] = b
<1> DEFINE g == CHOOSE g : Folded(t, blocks, SUBSET (1..n), g)
<1>1. Folded(t, blocks, SUBSET (1..n), g)
  BY FoldExists, Zenon
<1>2. u = g[1..n]
  BY FoldIs, Zenon
<1> HIDE DEF g
<1>3. \A s \in SUBSET (1..n) : g[s] = IF s = {} THEN t ELSE Insert(g[s \ {Max(s)}], blocks[Max(s)])
  <2>1. g = [s \in SUBSET (1..n) |-> IF s = {} THEN t ELSE Insert(g[s \ {Max(s)}], blocks[Max(s)])]
    BY <1>1, Zenon DEF Folded
  <2> QED
    BY <2>1, Zenon
<1> DEFINE Fine(v) == /\ IsKnown(v) /\ Known(t) \subseteq Known(v)
                      /\ \A b \in Known(v) \ Known(t) : \E i \in 1..n : blocks[i] = b
           N == {k \in Nat : k <= n => Fine(g[1..k])}
<1>4. 0 \in N
  <2>1. 1..0 = {} /\ 1..0 \in SUBSET (1..n)
    OBVIOUS
  <2>2. g[1..0] = t
    BY <1>3, <2>1
  <2>3. Fine(t)
    OBVIOUS
  <2> HIDE DEF Fine
  <2> QED
    BY <2>2, <2>3
<1>5. ASSUME NEW k \in N PROVE k + 1 \in N
  <2>1. k \in Nat /\ k + 1 \in Nat /\ (k <= n => Fine(g[1..k]))
    OBVIOUS
  <2> HIDE DEF N
  <2>2. ASSUME k + 1 <= n PROVE Fine(g[1..(k + 1)])
    <3> DEFINE s == 1..(k + 1)
               v == g[1..k]
    <3>1. s \in SUBSET (1..n) /\ s # {} /\ k + 1 \in s /\ k + 1 \in 1..n
      <4>1. k + 1 \in 1..(k + 1) /\ k + 1 \in 1..n
        <5> HIDE DEF Fine
        <5> QED
          BY <2>1, <2>2
      <4>2. 1..(k + 1) \subseteq 1..n
        <5> HIDE DEF Fine
        <5> QED
          BY <2>1, <2>2
      <4> QED
        BY <4>1, <4>2
    <3>2. Max(s) = k + 1 /\ s \ {k + 1} = 1..k
      <4>1. Max(s) \in s /\ k + 1 <= Max(s)
        <5>1. s \in SUBSET (1..n) /\ s # {} /\ k + 1 \in s
          BY <3>1
        <5> HIDE DEF s
        <5>2. Max(s) \in s /\ \A i \in s : i <= Max(s)
          BY <5>1, Greatest
        <5> QED
          BY <5>1, <5>2
      <4>2. ASSUME NEW m \in 1..(k + 1), k + 1 <= m PROVE m = k + 1
        BY <2>1, <4>2
      <4>3. Max(s) = k + 1
        BY <4>1, <4>2, Zenon
      <4>4. s \ {k + 1} = 1..k
        BY <2>1
      <4> QED
        BY <4>3, <4>4
    <3> HIDE DEF s
    <3>3. g[s] = Insert(v, blocks[k + 1])
      BY <1>3, <3>1, <3>2
    <3>4. Fine(v)
      <4>1. k <= n
        BY <2>1, <2>2
      <4> HIDE DEF Fine
      <4> QED
        BY <2>1, <4>1
    <3> HIDE DEF v
    <3>5. /\ IsKnown(g[s]) /\ Known(v) \subseteq Known(g[s])
          /\ Known(g[s]) \subseteq Known(v) \cup {blocks[k + 1]}
      BY <3>3, <3>4, InsertKnows
    <3>6. Fine(g[s])
      BY <3>1, <3>4, <3>5
    <3> HIDE DEF Fine
    <3> QED
      BY <3>6 DEF s
  <2> HIDE DEF Fine
  <2> QED
    BY <2>1, <2>2 DEF N
<1>6. N = Nat
  <2>1. N \in SUBSET Nat
    OBVIOUS
  <2> HIDE DEF N
  <2> QED
    BY <1>4, <1>5, <2>1, AllNumbers
<1>7. Fine(g[1..n])
  <2>1. n \in N /\ n <= n
    BY <1>6
  <2> HIDE DEF Fine
  <2> QED
    BY <2>1
<1> QED
  BY <1>2, <1>7

----------------------------------------------------------------------------
(* Blocks that are new.                                                     *)

Seen == held \cup rejected

\* A message in hand has b as a block that is new to us.
Carries(j, b) ==
  j.type # "none" /\ \E i \in DOMAIN j.items : j.items[i].hash = b /\ j.items[i].known = FALSE

\* b is announced as new, or will be by a task whose headers are in the tree.
Claimed(b) == \E d \in told : d.hash = b /\ d.new_to_us = TRUE
Owed(b) ==
  \E c \in Senders : job[c].type # "inv" /\ job[c].step = "emit" /\ Carries(job[c], b)

\* What claims b as new, out already and with a verdict of the tree, and underway.
Judged(b) ==
  {d \in told : d.hash = b /\ d.new_to_us /\ d.unplaced \in {"placed", "refused"}}
Claims(b) == {d.msg : d \in Judged(b)}
Underway(b) == {job[c].msg : c \in {s \in Senders : Carries(job[s], b)}}

\* A block in the tree is claimed as new, will be, or has come without an announcement;
\* what is called known is; and no more messages claim a block, or may, than there are tasks.
NewsInv ==
  /\ \A b \in Seen : Claimed(b) \/ Owed(b) \/ b \in untold
  /\ \A c \in Senders : job[c].type # "none" =>
       \A i \in DOMAIN job[c].items : job[c].items[i].known = TRUE => job[c].items[i].hash \in Seen
  /\ \A c \in Senders : job[c].step = "insert" => job[c].type # "inv"
  /\ \A d \in told : d.new_to_us \in BOOLEAN /\ (d.new_to_us = FALSE => d.hash \in Seen)
  /\ \A b : b \notin Seen => Claims(b) = {}
  /\ \A b : /\ IsFiniteSet(Claims(b) \cup Underway(b))
            /\ Cardinality(Claims(b) \cup Underway(b)) <= Cardinality(Senders)

\* The invariant is more than the property.
LEMMA NewsInvGives == NewsInv => NewBlocksAreClaimed
<1> SUFFICES ASSUME NewsInv PROVE NewBlocksAreClaimed
  OBVIOUS
<1>1. ClaimsPerBlock
  <2>1. ASSUME NEW b PROVE Cardinality(Claims(b)) <= Cardinality(Senders)
    <3>1. /\ IsFiniteSet(Claims(b) \cup Underway(b))
          /\ Cardinality(Claims(b) \cup Underway(b)) <= Cardinality(Senders)
      BY DEF NewsInv
    <3>2. /\ Cardinality(Claims(b)) <= Cardinality(Claims(b) \cup Underway(b))
          /\ Cardinality(Claims(b)) \in Nat /\ Cardinality(Claims(b) \cup Underway(b)) \in Nat
      BY <3>1, FS_Subset, FS_CardinalityType
    <3>3. Cardinality(Senders) \in Nat
      BY QueueAssumption, FS_CardinalityType
    <3> QED
      BY <3>1, <3>2, <3>3
  <2> QED
    BY <2>1, Zenon DEF ClaimsPerBlock, Claims, Judged
<1>2. FirstIsNotLost
  <2> SUFFICES ASSUME NEW d \in told, d.new_to_us = FALSE,
                      ~\E e \in told : e.hash = d.hash /\ e.new_to_us,
                      d.hash \notin untold
               PROVE  \E c \in Senders : \E k \in DOMAIN job[c].items :
                        job[c].items[k].hash = d.hash /\ ~job[c].items[k].known
    <3>1. \A d \in told : d.new_to_us \in BOOLEAN
      BY DEF NewsInv
    <3> QED
      BY <3>1, Zenon DEF NewsInv, FirstIsNotLost
  <2>1. d.hash \in Seen
    BY DEF NewsInv
  <2>2. ~Claimed(d.hash)
    BY Zenon DEF Claimed
  <2>3. Owed(d.hash)
    BY <2>1, <2>2 DEF NewsInv
  <2> QED
    BY <2>3, Zenon DEF Owed, Carries
<1> QED
  BY <1>1, <1>2 DEF NewBlocksAreClaimed

\* Tasks have at most one message in hand.
LEMMA UnderwayFew ==
  ASSUME NEW b
  PROVE  /\ IsFiniteSet(Underway(b)) /\ Cardinality(Underway(b)) <= Cardinality(Senders)
         /\ IsFiniteSet(Underway(b)') /\ Cardinality(Underway(b)') <= Cardinality(Senders)
<1>1. IsFiniteSet(Senders)
  BY QueueAssumption
<1>2. ASSUME NEW A, A \subseteq Senders, NEW f
      PROVE  IsFiniteSet({f[c] : c \in A}) /\ Cardinality({f[c] : c \in A}) <= Cardinality(Senders)
  <2>1. IsFiniteSet(A) /\ Cardinality(A) <= Cardinality(Senders)
    BY <1>1, <1>2, FS_Subset
  <2>2. IsFiniteSet({f[c] : c \in A}) /\ Cardinality({f[c] : c \in A}) <= Cardinality(A)
    <3> DEFINE m == [c \in A |-> f[c]]
    <3>1. m \in Surjection(A, {f[c] : c \in A})
      BY DEF Surjection
    <3> QED
      BY <2>1, <3>1, FS_Surjection
  <2>3. /\ Cardinality(A) \in Nat /\ Cardinality(Senders) \in Nat
        /\ Cardinality({f[c] : c \in A}) \in Nat
    BY <1>1, <2>1, <2>2, FS_CardinalityType
  <2> QED
    BY <2>1, <2>2, <2>3
<1> DEFINE f == [c \in Senders |-> job[c].msg]
           g == [c \in Senders |-> job'[c].msg]
           A == {s \in Senders : Carries(job[s], b)}
           B == {s \in Senders : Carries(job'[s], b)}
<1>3. Underway(b) = {f[c] : c \in A}
  BY DEF Underway
<1>4. Underway(b)' = {g[c] : c \in B}
  BY DEF Underway, Carries
<1>5. A \subseteq Senders /\ B \subseteq Senders
  OBVIOUS
<1> HIDE DEF f, g, A, B
<1> QED
  BY <1>2, <1>3, <1>4, <1>5

\* What messages underway may claim grows only where a task takes up b as new.
LEMMA UnderwayStep ==
  ASSUME NEW c \in Senders, \A s \in Senders \ {c} : job'[s] = job[s], NEW b,
         Carries(job'[c], b) => Carries(job[c], b) /\ job'[c].msg = job[c].msg
  PROVE  Underway(b)' \subseteq Underway(b)
<1>1. Underway(b)' = {job'[s].msg : s \in {r \in Senders : Carries(job'[r], b)}}
  BY DEF Underway, Carries
<1>2. ASSUME NEW s \in Senders, Carries(job'[s], b)
      PROVE  Carries(job[s], b) /\ job'[s].msg = job[s].msg
  BY <1>2
<1> QED
  BY <1>1, <1>2 DEF Underway

\* Another task that owes the claim of b goes on owing it.
LEMMA OwedStep ==
  ASSUME NEW c \in Senders, \A s \in Senders \ {c} : job'[s] = job[s], NEW b, Owed(b),
         ~(job[c].type # "inv" /\ job[c].step = "emit" /\ Carries(job[c], b))
  PROVE  Owed(b)'
<1>1. PICK s \in Senders : job[s].type # "inv" /\ job[s].step = "emit" /\ Carries(job[s], b)
  BY DEF Owed
<1>2. s # c
  BY <1>1
<1>3. job'[s] = job[s]
  BY <1>2
<1>4. job'[s].type # "inv" /\ job'[s].step = "emit" /\ Carries(job'[s], b)
  BY <1>1, <1>3
<1>5. \E r \in Senders : job'[r].type # "inv" /\ job'[r].step = "emit" /\ Carries(job'[r], b)
  BY <1>4
<1> QED
  BY <1>5 DEF Owed, Carries

\* The claims on a block stay few: either there is none, or no message takes it up.
LEMMA ClaimsStep ==
  ASSUME NewsInv,
         \A b : \/ Claims(b)' = {}
                \/ b \in Seen' /\ (Claims(b) \cup Underway(b))' \subseteq Claims(b) \cup Underway(b)
  PROVE  /\ \A b : b \notin Seen' => Claims(b)' = {}
         /\ \A b : /\ IsFiniteSet(Claims(b)' \cup Underway(b)')
                   /\ Cardinality(Claims(b)' \cup Underway(b)') <= Cardinality(Senders)
<1>1. ASSUME NEW b
      PROVE  /\ IsFiniteSet(Claims(b)' \cup Underway(b)')
             /\ Cardinality(Claims(b)' \cup Underway(b)') <= Cardinality(Senders)
  <2>1. CASE Claims(b)' = {}
    <3>1. Claims(b)' \cup Underway(b)' = Underway(b)'
      BY <2>1
    <3> QED
      BY <3>1, UnderwayFew
  <2>2. CASE Claims(b)' \cup Underway(b)' \subseteq Claims(b) \cup Underway(b)
    <3> DEFINE A == Claims(b) \cup Underway(b)
               B == Claims(b)' \cup Underway(b)'
    <3>1. IsFiniteSet(A) /\ Cardinality(A) <= Cardinality(Senders)
      BY DEF NewsInv
    <3>2. B \subseteq A
      BY <2>2
    <3> HIDE DEF A, B
    <3>3. IsFiniteSet(B) /\ Cardinality(B) <= Cardinality(A)
      BY <3>1, <3>2, FS_Subset
    <3>4. Cardinality(A) \in Nat /\ Cardinality(B) \in Nat /\ Cardinality(Senders) \in Nat
      BY <3>1, <3>3, FS_CardinalityType, QueueAssumption
    <3>5. IsFiniteSet(B) /\ Cardinality(B) <= Cardinality(Senders)
      BY <3>1, <3>3, <3>4
    <3> QED
      BY <3>5 DEF B
  <2> QED
    BY <2>1, <2>2
<1> QED
  BY <1>1

\* A message is taken: what of it is known is.
LEMMA TakeKeepsNews ==
  ASSUME JobType, NewsInv, NEW c \in Senders, NEW type, NEW blocks, NEW step,
         type \in {"inv", "headers", "compact_block"}, step = "insert" => type # "inv",
         Take(c, type, blocks, step)
  PROVE  NewsInv'
<1> DEFINE items == [i \in DOMAIN blocks |-> [hash |-> blocks[i], known |-> seen(blocks[i])]]
           j == [type |-> type, step |-> step, items |-> items, refused |-> FALSE, msg |-> messages]
<1>1. job[c].type = "none" /\ job' = [job EXCEPT ![c] = j] /\ UNCHANGED <<held, rejected, told, untold>>
  BY DEF Take, Free
<1>2. job'[c] = j /\ \A s \in Senders \ {c} : job'[s] = job[s]
  BY <1>1 DEF JobType
<1>3. \A i \in DOMAIN items : items[i].known = TRUE <=> items[i].hash \in Seen
  BY SeenIsBoolean DEF seen, Seen
<1> HIDE DEF items
<1>4. j.type = type /\ j.step = step /\ j.items = items
  OBVIOUS
<1> HIDE DEF j
<1>5. Seen' = Seen /\ \A b : Claims(b)' = Claims(b) /\ (Claimed(b) => Claimed(b)')
  BY <1>1 DEF Seen, Claims, Judged, Claimed
<1>6. \A b \in Seen' : Claimed(b)' \/ Owed(b)' \/ b \in untold'
  <2> SUFFICES ASSUME NEW b \in Seen, Owed(b) PROVE Owed(b)'
    BY <1>1, <1>5 DEF NewsInv
  <2>1. ~Carries(job[c], b)
    BY <1>1 DEF Carries
  <2> QED
    BY <1>2, <2>1, OwedStep
<1>7. \A s \in Senders : job'[s].type # "none" =>
         \A i \in DOMAIN job'[s].items : job'[s].items[i].known = TRUE => job'[s].items[i].hash \in Seen'
  BY <1>2, <1>3, <1>4, <1>5 DEF NewsInv
<1>8. \A s \in Senders : job'[s].step = "insert" => job'[s].type # "inv"
  BY <1>2, <1>4 DEF NewsInv
<1>9. \A b : \/ Claims(b)' = {}
             \/ b \in Seen' /\ (Claims(b) \cup Underway(b))' \subseteq Claims(b) \cup Underway(b)
  <2> SUFFICES ASSUME NEW b, b \in Seen PROVE Underway(b)' \subseteq Underway(b)
    BY <1>5 DEF NewsInv
  <2>1. ~Carries(job'[c], b)
    BY <1>2, <1>3, <1>4 DEF Carries
  <2> QED
    BY <1>2, <2>1, UnderwayStep
<1>10. \A d \in told' : d.new_to_us \in BOOLEAN /\ (d.new_to_us = FALSE => d.hash \in Seen')
  BY <1>1, <1>5 DEF NewsInv
<1> QED
  BY <1>6, <1>7, <1>8, <1>9, <1>10, ClaimsStep DEF NewsInv

\* Headers are inserted: what they add to the tree is owed its claim, or noted as untold.
LEMMA AcceptKeepsNews ==
  ASSUME JobType, NewsInv, NEW c \in Senders, accept_headers(c)
  PROVE  NewsInv'
<1> DEFINE j      == job[c]
           blocks == [i \in DOMAIN j.items |-> j.items[i].hash]
           t0     == [held |-> held, rejected |-> rejected]
           t      == FoldLeft(Insert, t0, blocks)
<1>1. /\ j.type # "none" /\ j.step = "insert" /\ held' = t.held /\ rejected' = t.rejected
      /\ told' = told
      /\ \/ job' = [job EXCEPT ![c] = NoJob]
            /\ untold' = untold \cup ((t.held \cup t.rejected) \ (held \cup rejected))
         \/ job' = [job EXCEPT ![c] = Inserted(j, t)] /\ untold' = untold
  BY Zenon DEF accept_headers
<1>2. j.items \in Seq(Item) /\ j.type # "inv"
  BY <1>1 DEF JobType, IsJob, NewsInv
<1>3. Len(j.items) \in Nat /\ DOMAIN j.items = 1..Len(j.items)
  BY <1>2, LenProperties
<1>4. IsKnown(t0) /\ Known(t0) = Seen /\ DOMAIN blocks = 1..Len(j.items)
  BY <1>3 DEF IsKnown, Known, Seen
<1> HIDE DEF t, t0
<1>5. /\ Known(t0) \subseteq Known(t)
      /\ \A b \in Known(t) \ Known(t0) : \E i \in 1..Len(j.items) : blocks[i] = b
  <2> HIDE DEF blocks, j
  <2> QED
    BY <1>3, <1>4, FoldKnows DEF t
<1>6. /\ Seen' = Known(t) /\ Seen \subseteq Seen'
      /\ \A b \in Seen' \ Seen : \E i \in DOMAIN j.items : j.items[i].hash = b
  BY <1>1, <1>3, <1>4, <1>5 DEF Seen, Known
<1>7. \A b : Claims(b)' = Claims(b) /\ (Claimed(b) => Claimed(b)')
  BY <1>1 DEF Claims, Judged, Claimed
<1>8. \A s \in Senders \ {c} : job'[s] = job[s]
  BY <1>1 DEF JobType
<1>9. \/ job'[c] = NoJob /\ untold' = untold \cup (Seen' \ Seen)
      \/ /\ untold' = untold /\ job'[c].items = j.items /\ job'[c].step = "emit"
         /\ job'[c].type = j.type /\ job'[c].msg = j.msg
  <2>1. CASE job' = [job EXCEPT ![c] = NoJob]
             /\ untold' = untold \cup ((t.held \cup t.rejected) \ (held \cup rejected))
    BY <1>6, <2>1 DEF JobType, Seen, Known
  <2>2. CASE job' = [job EXCEPT ![c] = Inserted(j, t)] /\ untold' = untold
    <3>1. job'[c] = Inserted(j, t)
      BY <2>2 DEF JobType
    <3>2. j = [type |-> j.type, step |-> j.step, items |-> j.items, refused |-> j.refused, msg |-> j.msg]
      BY DEF JobType, IsJob
    <3> HIDE DEF j
    <3>3. \E r : Inserted(j, t) = [j EXCEPT !.step = "emit", !.refused = r]
      BY Zenon DEF Inserted
    <3>4. PICK r : job'[c] = [j EXCEPT !.step = "emit", !.refused = r]
      BY <3>1, <3>3
    <3> QED
      BY <2>2, <3>2, <3>4
  <2> QED
    BY <1>1, <2>1, <2>2
<1> HIDE DEF blocks
<1>10. \A b \in Seen' : Claimed(b)' \/ Owed(b)' \/ b \in untold'
  <2>1. ASSUME NEW b \in Seen PROVE Claimed(b)' \/ Owed(b)' \/ b \in untold'
    <3>1. Owed(b) => Owed(b)'
      BY <1>1, <1>8, OwedStep
    <3>2. untold \subseteq untold'
      BY <1>9
    <3> QED
      BY <1>7, <3>1, <3>2 DEF NewsInv
  <2>2. ASSUME NEW b \in Seen' \ Seen PROVE Owed(b)' \/ b \in untold'
    <3>1. CASE job'[c] = NoJob /\ untold' = untold \cup (Seen' \ Seen)
      BY <3>1
    <3>2. CASE job'[c].items = j.items /\ job'[c].step = "emit" /\ job'[c].type = j.type
      <4>1. PICK i \in DOMAIN j.items : j.items[i].hash = b
        BY <1>6
      <4>2. j.items[i].known = FALSE
        <5>1. j.items[i].known \in BOOLEAN
          <6>1. j.items[i] \in Item
            BY <1>2, <1>3, ElementOfSeq
          <6> QED
            BY <6>1 DEF Item
        <5>2. j.items[i].known = TRUE => b \in Seen
          BY <1>1, <4>1 DEF NewsInv
        <5> QED
          BY <5>1, <5>2
      <4>3. job'[c].type # "inv" /\ job'[c].step = "emit" /\ Carries(job'[c], b)
        BY <1>1, <1>2, <3>2, <4>1, <4>2 DEF Carries
      <4>4. \E r \in Senders : job'[r].type # "inv" /\ job'[r].step = "emit" /\ Carries(job'[r], b)
        BY <4>3
      <4> QED
        BY <4>4 DEF Owed, Carries
    <3> QED
      BY <1>9, <3>1, <3>2
  <2> QED
    BY <2>1, <2>2
<1>11. \A s \in Senders : job'[s].type # "none" =>
         \A i \in DOMAIN job'[s].items : job'[s].items[i].known = TRUE => job'[s].items[i].hash \in Seen'
  BY <1>1, <1>6, <1>8, <1>9 DEF NewsInv, NoJob
<1>12. \A s \in Senders : job'[s].step = "insert" => job'[s].type # "inv"
  BY <1>8, <1>9 DEF NewsInv, NoJob
<1>13. \A b : \/ Claims(b)' = {}
              \/ b \in Seen' /\ (Claims(b) \cup Underway(b))' \subseteq Claims(b) \cup Underway(b)
  <2> SUFFICES ASSUME NEW b PROVE Underway(b)' \subseteq Underway(b)
    BY <1>6, <1>7 DEF NewsInv
  <2>1. Carries(job'[c], b) => Carries(job[c], b) /\ job'[c].msg = job[c].msg
    BY <1>9 DEF Carries, NoJob
  <2> QED
    BY <1>8, <2>1, UnderwayStep
<1>14. \A d \in told' : d.new_to_us \in BOOLEAN /\ (d.new_to_us = FALSE => d.hash \in Seen')
  BY <1>1, <1>6 DEF NewsInv
<1> QED
  BY <1>10, <1>11, <1>12, <1>13, <1>14, ClaimsStep DEF NewsInv

\* The next block of an inv is looked up.
LEMMA ReadKeepsNews ==
  ASSUME JobType, NewsInv, NEW c \in Senders, ReadInvItem(c)
  PROVE  NewsInv'
<1> DEFINE j == job[c]
           k == [j EXCEPT !.items[1].known = seen(j.items[1].hash), !.step = "emit"]
<1>1. /\ j.type = "inv" /\ UNCHANGED <<held, rejected, told, untold>>
      /\ job' = [job EXCEPT ![c] = k]
  BY DEF ReadInvItem
<1>2. /\ j = [type |-> j.type, step |-> j.step, items |-> j.items, refused |-> j.refused, msg |-> j.msg]
      /\ j.items \in Seq(Item) /\ 1 \in DOMAIN j.items /\ DOMAIN j.items = 1..Len(j.items)
  <2>1. j.items \in Seq(Item) /\ j.items # <<>>
    BY <1>1 DEF JobType, IsJob
  <2>2. Len(j.items) \in Nat /\ Len(j.items) # 0
    BY <2>1, EmptySeq
  <2> QED
    BY <2>1, <2>2 DEF JobType, IsJob
<1>3. j.items[1] \in Item
  BY <1>2, ElementOfSeq
<1>4. job'[c] = k /\ \A s \in Senders \ {c} : job'[s] = job[s]
  BY <1>1 DEF JobType
<1> DEFINE new == [j.items EXCEPT ![1].known = seen(j.items[1].hash)]
<1>5. k.type = "inv" /\ k.step = "emit" /\ k.msg = j.msg /\ k.items = new
  <2> HIDE DEF j
  <2> QED
    BY <1>1, <1>2
<1>6. /\ DOMAIN new = DOMAIN j.items /\ \A i \in DOMAIN new : i # 1 => new[i] = j.items[i]
      /\ new[1].hash = j.items[1].hash /\ (new[1].known = TRUE <=> j.items[1].hash \in Seen)
  <2>1. /\ DOMAIN new = DOMAIN j.items /\ \A i \in DOMAIN new : i # 1 => new[i] = j.items[i]
        /\ new[1] = [j.items[1] EXCEPT !.known = seen(j.items[1].hash)]
    <3> HIDE DEF j
    <3> QED
      BY <1>2
  <2>2. seen(j.items[1].hash) = TRUE <=> j.items[1].hash \in Seen
    BY SeenIsBoolean DEF seen, Seen
  <2> HIDE DEF j
  <2>3. new[1].hash = j.items[1].hash /\ new[1].known = seen(j.items[1].hash)
    BY <1>3, <2>1 DEF Item
  <2> QED
    BY <2>1, <2>2, <2>3
<1> HIDE DEF new, k
<1>7. Seen' = Seen /\ \A b : Claims(b)' = Claims(b) /\ (Claimed(b) => Claimed(b)')
  BY <1>1 DEF Seen, Claims, Judged, Claimed
<1>8. \A b \in Seen' : Claimed(b)' \/ Owed(b)' \/ b \in untold'
  <2> SUFFICES ASSUME NEW b \in Seen, Owed(b) PROVE Owed(b)'
    BY <1>1, <1>7 DEF NewsInv
  <2> QED
    BY <1>1, <1>4, OwedStep
<1>9. \A s \in Senders : job'[s].type # "none" =>
         \A i \in DOMAIN job'[s].items : job'[s].items[i].known = TRUE => job'[s].items[i].hash \in Seen'
  <2>1. ASSUME NEW i \in DOMAIN k.items, k.items[i].known = TRUE PROVE k.items[i].hash \in Seen
    <3>1. CASE i = 1
      BY <1>5, <1>6, <2>1, <3>1
    <3>2. CASE i # 1
      <4>1. k.items[i] = j.items[i] /\ i \in DOMAIN j.items /\ j.type # "none"
        BY <1>1, <1>5, <1>6, <3>2
      <4> QED
        BY <2>1, <4>1 DEF NewsInv
    <3> QED
      BY <3>1, <3>2
  <2> QED
    BY <1>4, <1>7, <2>1 DEF NewsInv
<1>10. \A s \in Senders : job'[s].step = "insert" => job'[s].type # "inv"
  BY <1>4, <1>5 DEF NewsInv
<1>11. \A b : \/ Claims(b)' = {}
              \/ b \in Seen' /\ (Claims(b) \cup Underway(b))' \subseteq Claims(b) \cup Underway(b)
  <2> SUFFICES ASSUME NEW b, b \in Seen PROVE Underway(b)' \subseteq Underway(b)
    BY <1>7 DEF NewsInv
  <2>1. ASSUME Carries(k, b) PROVE Carries(j, b)
    <3>1. PICK i \in DOMAIN k.items : k.items[i].hash = b /\ k.items[i].known = FALSE
      BY <2>1 DEF Carries
    <3>2. i # 1
      BY <1>5, <1>6, <3>1
    <3>3. k.items[i] = j.items[i] /\ i \in DOMAIN j.items /\ j.type # "none"
      BY <1>1, <1>5, <1>6, <3>2
    <3> QED
      BY <3>1, <3>3 DEF Carries
  <2> QED
    BY <1>4, <1>5, <2>1, UnderwayStep
<1>12. \A d \in told' : d.new_to_us \in BOOLEAN /\ (d.new_to_us = FALSE => d.hash \in Seen')
  BY <1>1, <1>7 DEF NewsInv
<1> QED
  BY <1>8, <1>9, <1>10, <1>11, <1>12, ClaimsStep DEF NewsInv

\* A block is announced: the claim that was owed is out.
LEMMA EmitKeepsNews ==
  ASSUME JobType, NewsInv, NEW c \in Senders, emit_block_announcement(c)
  PROVE  NewsInv'
<1> DEFINE j    == job[c]
           b0   == Head(j.items).hash
           rest == Tail(j.items)
           d    == [hash |-> b0, new_to_us |-> ~Head(j.items).known, msg |-> j.msg,
                    unplaced |-> Unplaced(b0, j.type)]
<1>1. /\ j.type # "none" /\ j.step = "emit" /\ UNCHANGED <<held, rejected, untold>>
      /\ told' = told \cup {d}
      /\ \/ rest = <<>> /\ job' = [job EXCEPT ![c] = [j EXCEPT !.step = "probe"]]
         \/ (rest = <<>> \/ j.type = "inv") /\ job' = [job EXCEPT ![c] = NoJob]
         \/ /\ rest # <<>>
            /\ job' = [job EXCEPT ![c] =
                 [j EXCEPT !.items = rest, !.step = IF j.type = "inv" THEN "read" ELSE "emit"]]
  BY Zenon DEF emit_block_announcement
<1>2. /\ j = [type |-> j.type, step |-> j.step, items |-> j.items, refused |-> j.refused, msg |-> j.msg]
      /\ j.items \in Seq(Item) /\ j.items # <<>>
  BY <1>1 DEF JobType, IsJob
<1>3. /\ Len(j.items) \in Nat /\ Len(j.items) # 0 /\ DOMAIN j.items = 1..Len(j.items)
      /\ 1 \in DOMAIN j.items /\ Head(j.items) = j.items[1]
      /\ Len(rest) = Len(j.items) - 1 /\ DOMAIN rest = 1..Len(rest)
      /\ \A i \in 1..Len(rest) : rest[i] = j.items[i + 1] /\ i + 1 \in DOMAIN j.items
  <2> HIDE DEF j
  <2>1. Len(j.items) \in Nat /\ Len(j.items) # 0 /\ DOMAIN j.items = 1..Len(j.items)
    BY <1>2, EmptySeq, LenProperties
  <2>2. Head(j.items) = j.items[1] /\ rest \in Seq(Item) /\ Len(rest) = Len(j.items) - 1
    BY <1>2, HeadTailProperties
  <2>3. \A i \in 1..Len(rest) : rest[i] = j.items[i + 1]
    BY <1>2, HeadTailProperties
  <2> QED
    BY <2>1, <2>2, <2>3, LenProperties
<1>4. j.items[1] \in Item /\ j.items[1].known \in BOOLEAN
  <2>1. j.items[1] \in Item
    BY <1>2, <1>3, ElementOfSeq
  <2> QED
    BY <2>1 DEF Item
<1>5. \A s \in Senders \ {c} : job'[s] = job[s]
  BY <1>1 DEF JobType
<1> DEFINE k == job'[c]
<1>6. \/ rest = <<>> /\ k.type = j.type /\ k.step = "probe" /\ k.items = j.items /\ k.msg = j.msg
      \/ (rest = <<>> \/ j.type = "inv") /\ k = NoJob
      \/ /\ rest # <<>> /\ k.type = j.type /\ k.items = rest /\ k.msg = j.msg
         /\ k.step = IF j.type = "inv" THEN "read" ELSE "emit"
  <2>1. \/ rest = <<>> /\ k = [j EXCEPT !.step = "probe"]
        \/ (rest = <<>> \/ j.type = "inv") /\ k = NoJob
        \/ /\ rest # <<>>
           /\ k = [j EXCEPT !.items = rest, !.step = IF j.type = "inv" THEN "read" ELSE "emit"]
    BY <1>1 DEF JobType
  <2> HIDE DEF j, k, rest
  <2> QED
    BY <1>2, <2>1
<1>7. d.hash = j.items[1].hash /\ d.msg = j.msg /\ d.unplaced = Unplaced(b0, j.type)
      /\ d.new_to_us \in BOOLEAN /\ (d.new_to_us = TRUE <=> j.items[1].known = FALSE)
  BY <1>3, <1>4
<1>8. d.new_to_us = FALSE => d.hash \in Seen
  BY <1>1, <1>3, <1>4, <1>7 DEF NewsInv
<1>9. b0 \notin Seen => d.unplaced \notin {"placed", "refused"}
  BY <1>7 DEF Unplaced, Seen
<1>10. b0 = j.items[1].hash
  BY <1>3
<1> HIDE DEF d, b0
<1>11. Seen' = Seen /\ \A b : Claimed(b) => Claimed(b)'
  BY <1>1 DEF Seen, Claimed
<1>12. \A b : Carries(k, b) => Carries(j, b) /\ k.msg = j.msg
  <2> SUFFICES ASSUME NEW b, Carries(k, b) PROVE Carries(j, b) /\ k.msg = j.msg
    OBVIOUS
  <2>1. k.type # "none"
    BY DEF Carries
  <2>2. PICK i \in DOMAIN k.items : k.items[i].hash = b /\ k.items[i].known = FALSE
    BY DEF Carries
  <2> HIDE DEF j, k, rest
  <2>3. CASE rest = <<>> /\ k.items = j.items /\ k.msg = j.msg
    BY <1>1, <2>2, <2>3 DEF Carries
  <2>4. CASE k.items = rest /\ k.msg = j.msg
    <3>1. i + 1 \in DOMAIN j.items /\ j.items[i + 1] = k.items[i]
      BY <1>3, <2>2, <2>4
    <3> QED
      BY <1>1, <2>2, <2>4, <3>1 DEF Carries
  <2> QED
    BY <1>6, <2>1, <2>3, <2>4 DEF NoJob
<1>13. \A b \in Seen' : Claimed(b)' \/ Owed(b)' \/ b \in untold'
  <2> SUFFICES ASSUME NEW b \in Seen, Owed(b), ~Owed(b)' PROVE Claimed(b)'
    BY <1>1, <1>11 DEF NewsInv
  <2>1. j.type # "inv" /\ Carries(j, b)
    BY <1>5, OwedStep
  <2>2. PICK i \in DOMAIN j.items : j.items[i].hash = b /\ j.items[i].known = FALSE
    BY <2>1 DEF Carries
  <2>3. CASE i = 1
    <3>1. d \in told' /\ d.hash = b /\ d.new_to_us = TRUE
      BY <1>1, <1>7, <2>2, <2>3
    <3>2. \E e \in told' : e.hash = b /\ e.new_to_us = TRUE
      BY <3>1
    <3> QED
      BY <3>2 DEF Claimed
  <2>4. CASE i # 1
    <3>1. i - 1 \in DOMAIN rest /\ rest[i - 1] = j.items[i]
      <4> HIDE DEF j, rest
      <4>1. i - 1 \in 1..Len(rest) /\ (i - 1) + 1 = i
        BY <1>3, <2>2, <2>4
      <4> QED
        BY <1>3, <4>1
    <3>2. rest # <<>>
      BY <3>1
    <3>3. k.type = j.type /\ k.items = rest /\ k.step = "emit"
      BY <1>6, <2>1, <3>2
    <3> HIDE DEF j, rest, k
    <3>4. k.type # "inv" /\ k.step = "emit" /\ Carries(k, b)
      BY <1>1, <2>1, <2>2, <3>1, <3>3 DEF Carries
    <3>5. \E r \in Senders : job'[r].type # "inv" /\ job'[r].step = "emit" /\ Carries(job'[r], b)
      BY <3>4 DEF k
    <3>6. Owed(b)'
      BY <3>5 DEF Owed, Carries
    <3> QED
      BY <3>6
  <2> QED
    BY <2>3, <2>4
<1>14. \A s \in Senders : job'[s].type # "none" =>
         \A i \in DOMAIN job'[s].items : job'[s].items[i].known = TRUE => job'[s].items[i].hash \in Seen'
  <2>1. ASSUME k.type # "none", NEW i \in DOMAIN k.items, k.items[i].known = TRUE
        PROVE  k.items[i].hash \in Seen
    <3>1. \A x \in DOMAIN j.items : j.items[x].known = TRUE => j.items[x].hash \in Seen
      BY <1>1 DEF NewsInv
    <3> HIDE DEF j, k, rest
    <3>2. CASE k.items = j.items
      BY <2>1, <3>1, <3>2
    <3>3. CASE k.items = rest
      <4>1. i + 1 \in DOMAIN j.items /\ j.items[i + 1] = k.items[i]
        BY <1>3, <2>1, <3>3
      <4> QED
        BY <2>1, <3>1, <4>1
    <3> QED
      BY <1>6, <2>1, <3>2, <3>3 DEF NoJob
  <2> QED
    BY <1>5, <1>11, <2>1 DEF NewsInv
<1>15. \A s \in Senders : job'[s].step = "insert" => job'[s].type # "inv"
  BY <1>5, <1>6 DEF NewsInv, NoJob
<1>16. \A b : \/ Claims(b)' = {}
              \/ b \in Seen' /\ (Claims(b) \cup Underway(b))' \subseteq Claims(b) \cup Underway(b)
  <2>1. ASSUME NEW b, b \notin Seen PROVE Claims(b)' = {}
    <3>1. Judged(b) = {}
      <4>1. Claims(b) = {}
        BY <2>1 DEF NewsInv
      <4> QED
        BY <4>1 DEF Claims
    <3>3. Judged(b)' \subseteq Judged(b) \cup {d}
      BY <1>1 DEF Judged
    <3>2. d \notin Judged(b)'
      BY <1>7, <1>9, <1>10, <2>1 DEF Judged
    <3>4. Judged(b)' = {}
      BY <3>1, <3>2, <3>3
    <3> QED
      BY <3>4 DEF Claims
  <2>2. ASSUME NEW b, b \in Seen
        PROVE  (Claims(b) \cup Underway(b))' \subseteq Claims(b) \cup Underway(b)
    <3>1. Underway(b)' \subseteq Underway(b)
      BY <1>5, <1>12, UnderwayStep
    <3>2. ASSUME NEW e \in Judged(b)' PROVE e.msg \in Claims(b) \cup Underway(b)
      <4>1. CASE e \in told
        BY <3>2, <4>1 DEF Judged, Claims
      <4>2. CASE e = d
        <5>1. d.hash = b /\ d.new_to_us = TRUE
          BY <1>7, <3>2, <4>2 DEF Judged
        <5>2. j.items[1].hash = b /\ j.items[1].known = FALSE /\ 1 \in DOMAIN j.items
          BY <1>3, <1>7, <5>1
        <5>3. Carries(job[c], b)
          BY <1>1, <5>2 DEF Carries
        <5>4. job[c].msg \in Underway(b)
          BY <5>3 DEF Underway
        <5> QED
          BY <1>7, <4>2, <5>4
      <4> QED
        BY <1>1, <3>2, <4>1, <4>2 DEF Judged
    <3>3. Claims(b)' \subseteq Claims(b) \cup Underway(b)
      BY <3>2 DEF Claims
    <3> QED
      BY <3>1, <3>3
  <2> QED
    BY <1>11, <2>1, <2>2
<1>17. \A e \in told' : e.new_to_us \in BOOLEAN /\ (e.new_to_us = FALSE => e.hash \in Seen')
  BY <1>1, <1>7, <1>8, <1>11 DEF NewsInv
<1> QED
  BY <1>13, <1>14, <1>15, <1>16, <1>17, ClaimsStep DEF NewsInv

\* A probe is asked for: what the message claimed is out.
LEMMA ProbeKeepsNews ==
  ASSUME JobType, NewsInv, NEW c \in Senders, request_compact_block_coinbase(c)
  PROVE  NewsInv'
<1>1. /\ job[c].step = "probe" /\ job' = [job EXCEPT ![c] = NoJob]
      /\ UNCHANGED <<held, rejected, told, untold>>
  BY DEF request_compact_block_coinbase
<1>2. job'[c] = NoJob /\ \A s \in Senders \ {c} : job'[s] = job[s]
  BY <1>1 DEF JobType
<1>3. Seen' = Seen /\ \A b : Claims(b)' = Claims(b) /\ (Claimed(b) => Claimed(b)')
  BY <1>1 DEF Seen, Claims, Judged, Claimed
<1>4. \A b \in Seen' : Claimed(b)' \/ Owed(b)' \/ b \in untold'
  <2> SUFFICES ASSUME NEW b \in Seen, Owed(b) PROVE Owed(b)'
    BY <1>1, <1>3 DEF NewsInv
  <2> QED
    BY <1>1, <1>2, OwedStep
<1>5. \A s \in Senders : job'[s].type # "none" =>
         \A i \in DOMAIN job'[s].items : job'[s].items[i].known = TRUE => job'[s].items[i].hash \in Seen'
  BY <1>2, <1>3 DEF NewsInv, NoJob
<1>6. \A s \in Senders : job'[s].step = "insert" => job'[s].type # "inv"
  BY <1>2 DEF NewsInv, NoJob
<1>7. \A b : \/ Claims(b)' = {}
             \/ b \in Seen' /\ (Claims(b) \cup Underway(b))' \subseteq Claims(b) \cup Underway(b)
  <2> SUFFICES ASSUME NEW b, b \in Seen PROVE Underway(b)' \subseteq Underway(b)
    BY <1>3 DEF NewsInv
  <2>1. ~Carries(job'[c], b)
    BY <1>2 DEF Carries, NoJob
  <2> QED
    BY <1>2, <2>1, UnderwayStep
<1>8. \A d \in told' : d.new_to_us \in BOOLEAN /\ (d.new_to_us = FALSE => d.hash \in Seen')
  BY <1>1, <1>3 DEF NewsInv
<1> QED
  BY <1>4, <1>5, <1>6, <1>7, <1>8, ClaimsStep DEF NewsInv

\* Steps of the queue and of the metrics tool, and events of other kinds, leave it alone.
LEMMA RestKeepsNews ==
  ASSUME NewsInv, UNCHANGED <<held, rejected, job, told, untold>>
  PROVE  NewsInv'
<1>1. held' = held /\ rejected' = rejected /\ job' = job /\ told' = told /\ untold' = untold
  OBVIOUS
<1>2. Seen' = Seen
  BY <1>1 DEF Seen
<1>3. \A b : /\ (Claimed(b)' <=> Claimed(b)) /\ (Owed(b)' <=> Owed(b))
             /\ Claims(b)' = Claims(b) /\ Underway(b)' = Underway(b)
  BY <1>1 DEF Claimed, Owed, Carries, Claims, Judged, Underway
<1> QED
  BY <1>1, <1>2, <1>3 DEF NewsInv

\* A new run has announced nothing, and has all of its tree without an announcement.
LEMMA NewRunHasNoNews ==
  ASSUME Seen' \subseteq untold', told' = {}, job' = [c \in Senders |-> NoJob]
  PROVE  NewsInv'
<1>1. \A c \in Senders : job'[c].type = "none" /\ job'[c].step = "recv"
  BY DEF NoJob
<1>2. \A b : Claims(b)' = {}
  BY DEF Claims, Judged
<1>3. \A b : /\ IsFiniteSet(Claims(b)' \cup Underway(b)')
             /\ Cardinality(Claims(b)' \cup Underway(b)') <= Cardinality(Senders)
  <2> SUFFICES ASSUME NEW b
               PROVE  /\ IsFiniteSet(Claims(b)' \cup Underway(b)')
                      /\ Cardinality(Claims(b)' \cup Underway(b)') <= Cardinality(Senders)
    OBVIOUS
  <2>1. Claims(b)' \cup Underway(b)' = Underway(b)'
    BY <1>2
  <2> QED
    BY <2>1, UnderwayFew
<1> QED
  BY <1>1, <1>2, <1>3 DEF NewsInv

\* Nor has the first.
LEMMA InitHasNoNews == PipeInit => NewsInv
<1> SUFFICES ASSUME PipeInit PROVE NewsInv
  OBVIOUS
<1>1. held = {Root} /\ rejected = {} /\ untold = {Root} /\ told = {} /\ job = [c \in Senders |-> NoJob]
  BY DEF PipeInit, AnnounceInit
<1>2. \A c \in Senders : job[c].type = "none" /\ job[c].step = "recv"
  BY <1>1 DEF NoJob
<1>3. \A b : Claims(b) = {}
  BY <1>1 DEF Claims, Judged
<1>4. \A b : /\ IsFiniteSet(Claims(b) \cup Underway(b))
             /\ Cardinality(Claims(b) \cup Underway(b)) <= Cardinality(Senders)
  <2> SUFFICES ASSUME NEW b
               PROVE  /\ IsFiniteSet(Claims(b) \cup Underway(b))
                      /\ Cardinality(Claims(b) \cup Underway(b)) <= Cardinality(Senders)
    OBVIOUS
  <2>1. Claims(b) \cup Underway(b) = Underway(b)
    BY <1>3
  <2> QED
    BY <2>1, UnderwayFew
<1> QED
  BY <1>1, <1>2, <1>3, <1>4 DEF NewsInv, Seen

\* The invariant is kept by every step.
LEMMA StepKeepsNews ==
  ASSUME JobType, NewsInv, [PipeNext]_pipevars
  PROVE  NewsInv'
<1>1. ASSUME NEW c \in Senders, Handle(c) PROVE NewsInv'
  <2>1. ASSUME NEW type \in {"inv", "headers", "compact_block"}, NEW blocks, NEW step,
               step = "insert" => type # "inv", Take(c, type, blocks, step)
        PROVE  NewsInv'
    BY <2>1, TakeKeepsNews
  <2>2. ASSUME NEW blocks, handle_inv(c, blocks) PROVE NewsInv'
    BY <2>2, <2>1 DEF handle_inv
  <2>3. ASSUME NEW blocks, handle_headers(c, blocks) PROVE NewsInv'
    BY <2>3, <2>1 DEF handle_headers
  <2>4. ASSUME NEW b, handle_cmpct_block(c, b) PROVE NewsInv'
    BY <2>4, <2>1 DEF handle_cmpct_block
  <2>5. ASSUME NEW b, handle_blocktxn(c, b) PROVE NewsInv'
    BY <2>5, RestKeepsNews DEF handle_blocktxn
  <2>6. ASSUME NEW e, emit_event(c, e) PROVE NewsInv'
    BY <2>6, RestKeepsNews DEF emit_event
  <2>7. SendStep(c) /\ UNCHANGED avars => NewsInv'
    BY RestKeepsNews DEF avars
  <2> QED
    BY <1>1, <2>2, <2>3, <2>4, <2>5, <2>6, <2>7, AcceptKeepsNews, ReadKeepsNews, EmitKeepsNews,
       ProbeKeepsNews, Zenon DEF Handle
<1>2. Restart => NewsInv'
  <2> SUFFICES ASSUME Restart PROVE NewsInv'
    OBVIOUS
  <2>1. rejected' = {} /\ untold' = held' /\ told' = {} /\ job' = [c \in Senders |-> NoJob]
    BY DEF Restart, AnnounceRestart
  <2> QED
    BY <2>1, NewRunHasNoNews DEF Seen
<1>3. TakeNext \/ handle_message \/ Lose \/ UNCHANGED pipevars => NewsInv'
  BY RestKeepsNews DEF TakeNext, handle_message, Lose, pipevars, avars
<1> QED
  BY <1>1, <1>2, <1>3 DEF PipeNext, Task

\* A block that is new is announced as new, and by no more messages than there are tasks:
\* whether it is known is read under one lock (handle_headers and handle_cmpct_block of
\* protocol.rs), inserted under another and announced later (emit_block_announcement).
THEOREM NewBlocksClaimed == PipeSpec => []NewBlocksAreClaimed
<1>1. PipeInit => NewsInv
  BY InitHasNoNews
<1>2. JobType /\ NewsInv /\ [PipeNext]_pipevars => NewsInv'
  BY StepKeepsNews
<1>3. NewsInv => NewBlocksAreClaimed
  BY NewsInvGives
<1>4. PipeSpec => []JobType
  BY JobTypeCorrect
<1> QED
  BY <1>1, <1>2, <1>3, <1>4, PTL DEF PipeSpec
=============================================================================
