------------------------------ MODULE EventQueue ------------------------------
(***************************************************************************)
(* The queue between the connection tasks and the NATS publisher (emit.rs, *)
(* publisher.rs), with the loss counters that are stamped on every event.  *)
(*                                                                         *)
(* send never blocks, but it is not atomic: tasks on other threads run     *)
(* between its reads of the counters, its look at the free capacity, its   *)
(* try_send and its counting of a loss.  Each of those is a step here.     *)
(*                                                                         *)
(* The counters, the instance id and the queue live in the process: a      *)
(* restart begins with new ones.  The last act of a stop is to abort the   *)
(* publisher, while connection tasks still hold senders (lib.rs).          *)
(***************************************************************************)
EXTENDS Naturals, Sequences, FiniteSets, SequencesExt

CONSTANTS
  Senders,            \* tasks that emit at the same time
  KindOrder,          \* the kinds of event, in the order of DroppedEvents
  Gossip,             \* the kind of an address announcement
  EVENT_QUEUE,        \* slots of the queue
  GOSSIP_SHED_BELOW   \* of which this many are kept free of gossip

ASSUME QueueAssumption ==
  /\ IsFiniteSet(Senders) /\ Senders # {}
  /\ KindOrder \in Seq(STRING) /\ Gossip \in ToSet(KindOrder)
  /\ EVENT_QUEUE \in Nat \ {0}
  /\ GOSSIP_SHED_BELOW \in 0..EVENT_QUEUE

Kinds == ToSet(KindOrder)

VARIABLES
  queue,            \* the channel, oldest first
  publishing,       \* the event the publisher has taken and not published yet
  publisher,        \* "running" or "aborted"
  pc,               \* where each sender is in send
  ev,               \* the event each sender is sending
  dropped,          \* DROPPED
  dropped_by_kind,  \* DROPPED_BY_KIND
  instance          \* INSTANCE, one number per run of the observer

qvars == <<queue, publishing, publisher, pc, ev, dropped, dropped_by_kind, instance>>

----------------------------------------------------------------------------

NoEvent == [kind |-> "none"]

\* The counts of one kind after another, as far as they have been read.
NothingRead == [k \in {} |-> 0]

capacity == EVENT_QUEUE - Len(queue)

QueueInit ==
  /\ queue = <<>> /\ publishing = <<>> /\ publisher = "running"
  /\ pc = [s \in Senders |-> "idle"]
  /\ ev = [s \in Senders |-> NoEvent]
  /\ dropped = 0
  /\ dropped_by_kind = [k \in Kinds |-> 0]
  /\ instance = 1

Goto(s, where) == pc' = [pc EXCEPT ![s] = where]

\* Once stamped: only gossip looks at the free capacity.
AfterStamp(kind) == IF kind = Gossip THEN "capacity" ELSE "try_send"

\* send is called: the total is read, and the kinds only if there is a loss.
send(s, kind, data) ==
  /\ pc[s] = "idle"
  /\ ev' = [ev EXCEPT ![s] = [kind            |-> kind,
                              data            |-> data,
                              dropped_events  |-> dropped,
                              dropped_by_kind |-> NothingRead,
                              instance_id     |-> instance]]
  /\ Goto(s, IF dropped > 0 THEN "kinds" ELSE AfterStamp(kind))
  /\ UNCHANGED <<queue, publishing, publisher, dropped, dropped_by_kind, instance>>

\* The counter of the next kind is read.
ReadKind(s) ==
  LET read == ev[s].dropped_by_kind
      next == KindOrder[Cardinality(DOMAIN read) + 1]
      now  == [k \in DOMAIN read \cup {next} |->
                 IF k = next THEN dropped_by_kind[k] ELSE read[k]]
  IN  /\ pc[s] = "kinds"
      /\ ev' = [ev EXCEPT ![s].dropped_by_kind = now]
      /\ Goto(s, IF DOMAIN now = Kinds THEN AfterStamp(ev[s].kind) ELSE "kinds")
      /\ UNCHANGED <<queue, publishing, publisher, dropped, dropped_by_kind, instance>>

\* Mutant of LookAtCapacity: off by one.
LookBelow(s) ==
  /\ pc[s] = "capacity"
  /\ Goto(s, IF capacity < GOSSIP_SHED_BELOW THEN "count" ELSE "try_send")
  /\ UNCHANGED <<queue, publishing, publisher, ev, dropped, dropped_by_kind, instance>>

\* Gossip is shed when the queue runs short.
LookAtCapacity(s) ==
  /\ pc[s] = "capacity"
  /\ Goto(s, IF capacity <= GOSSIP_SHED_BELOW THEN "count" ELSE "try_send")
  /\ UNCHANGED <<queue, publishing, publisher, ev, dropped, dropped_by_kind, instance>>

\* try_send fails when the queue is full or its receiver is gone.
TrySend(s) ==
  LET fits == capacity > 0 /\ publisher = "running"
  IN  /\ pc[s] = "try_send"
      /\ queue' = IF fits THEN Append(queue, ev[s]) ELSE queue
      /\ ev' = [ev EXCEPT ![s] = IF fits THEN NoEvent ELSE @]
      /\ Goto(s, IF fits THEN "idle" ELSE "count")
      /\ UNCHANGED <<publishing, publisher, dropped, dropped_by_kind, instance>>

\* A loss is added to the total first, and then to its kind.
Count(s) ==
  /\ pc[s] = "count"
  /\ dropped' = dropped + 1
  /\ Goto(s, "count_kind")
  /\ UNCHANGED <<queue, publishing, publisher, ev, dropped_by_kind, instance>>

CountKind(s) ==
  /\ pc[s] = "count_kind"
  /\ dropped_by_kind' = [dropped_by_kind EXCEPT ![ev[s].kind] = @ + 1]
  /\ ev' = [ev EXCEPT ![s] = NoEvent]
  /\ Goto(s, "idle")
  /\ UNCHANGED <<queue, publishing, publisher, dropped, instance>>

SendStep(s) == ReadKind(s) \/ LookAtCapacity(s) \/ TrySend(s) \/ Count(s) \/ CountKind(s)

----------------------------------------------------------------------------
(* The publisher *)

\* The slot is free as soon as the event is taken.
Receive ==
  /\ publisher = "running" /\ publishing = <<>> /\ queue # <<>>
  /\ publishing' = <<Head(queue)>>
  /\ queue' = Tail(queue)
  /\ UNCHANGED <<publisher, pc, ev, dropped, dropped_by_kind, instance>>

\* Whether the publish succeeds or fails, which is logged, the event is gone.
Publish ==
  /\ publisher = "running" /\ publishing # <<>>
  /\ publishing' = <<>>
  /\ UNCHANGED <<queue, publisher, pc, ev, dropped, dropped_by_kind, instance>>

\* The end of run in lib.rs: the receiver goes, and what it held.
AbortPublisher ==
  /\ publisher = "running"
  /\ publisher' = "aborted"
  /\ publishing' = <<>> /\ queue' = <<>>
  /\ UNCHANGED <<pc, ev, dropped, dropped_by_kind, instance>>

\* The process is gone, stopped or crashed, and a new one starts.
QueueRestart ==
  /\ queue' = <<>> /\ publishing' = <<>> /\ publisher' = "running"
  /\ pc' = [s \in Senders |-> "idle"]
  /\ ev' = [s \in Senders |-> NoEvent]
  /\ dropped' = 0
  /\ dropped_by_kind' = [k \in Kinds |-> 0]
  /\ instance' = instance + 1

----------------------------------------------------------------------------
(* Properties *)

\* The slots that gossip may fill when it is alone.
GossipShare == EVENT_QUEUE - GOSSIP_SHED_BELOW

\* The slots kept free of gossip stay free of it, up to one event for each task
\* that looked at the capacity before another filled it: the look and the
\* try_send in send are two steps.
ReserveKept ==
  Cardinality({i \in DOMAIN queue : i > GossipShare /\ queue[i].kind = Gossip})
    <= Cardinality(Senders) - 1
=============================================================================
