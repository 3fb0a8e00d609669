------------------------------- MODULE Pipeline -------------------------------
(***************************************************************************)
(* The event stream from end to end: connection tasks announce blocks and  *)
(* emit events (Announcements), the queue sheds or drops what it cannot    *)
(* hold and the publisher publishes the rest (EventQueue), and the metrics *)
(* tool follows the stream over restarts of the observer (Metrics).        *)
(***************************************************************************)
EXTENDS Announcements, Metrics

CONSTANT MaxRestarts  \* bound: restarts of the observer

\* The tool knows the kinds that DroppedEvents has; a block is announced by its own
\* event only; clocks, heights, fees and times of addresses that peers send are integers; what the kernel says
\* of a connection is none of these; and a chain of parents, each named by its hash, ends
\* at the root.
ASSUME PipelineAssumption ==
  /\ MetricKinds = Kinds
  /\ \A e \in Reports :
       /\ e.kind # "block_announcement"
       /\ e.kind = "handshake" =>
            /\ {"at", "peer_timestamp", "start_height"} \subseteq DOMAIN e.data
            /\ e.data.peer_timestamp \in Int /\ e.data.start_height \in Int
       /\ e.kind = "fee_filter" =>
            {"at", "feerate"} \subseteq DOMAIN e.data /\ e.data.feerate \in Int
       /\ e.kind = "ping_rtt" =>
            {"at", "tcp"} \subseteq DOMAIN e.data
              /\ DOMAIN e.data.tcp \cap {"skew", "height", "fee_filter", "address_age"} = {}
       /\ e.kind = "address_announcement" =>
            /\ {"at", "addresses"} \subseteq DOMAIN e.data
            /\ \A a \in e.data.addresses : a.ntime \in Int
  /\ \A b \in Blocks : Height[b] \in Nat

VARIABLES
  net,     \* NetworkState of the metrics tool
  calls,   \* history: calls of send in this run
  taken,   \* history: events the publisher took in this run
  past     \* history: the final counters of earlier runs

pvars == <<net, calls, taken, past>>
pipevars == <<qvars, avars, pvars>>

----------------------------------------------------------------------------

PipeInit ==
  /\ AnnounceInit
  /\ net = NetworkState
  /\ calls = 0 /\ taken = 0 /\ past = <<>>

\* A step of a connection task; from idle to busy is a call of send.
Task(c) ==
  /\ Handle(c)
  /\ calls' = IF pc[c] = "idle" /\ pc'[c] # "idle" THEN calls + 1 ELSE calls
  /\ UNCHANGED <<net, taken, past>>

TakeNext ==
  /\ Receive
  /\ taken' = taken + 1
  /\ UNCHANGED <<avars, net, calls, past>>

Lose ==
  /\ Publish \/ AbortPublisher
  /\ UNCHANGED <<avars, pvars>>

\* The tool does nothing but read its subscription: it handles an event as it is
\* published.
handle_message ==
  /\ Publish
  /\ net' = observe(net, Head(publishing))
  /\ UNCHANGED <<avars, calls, taken, past>>

Restart ==
  /\ Len(past) < MaxRestarts
  /\ AnnounceRestart
  /\ past' = Append(past, [dropped |-> dropped, by_kind |-> dropped_by_kind])
  /\ calls' = 0 /\ taken' = 0
  /\ UNCHANGED net

PipeNext ==
  \/ \E c \in Senders : Task(c)
  \/ TakeNext \/ handle_message \/ Lose
  \/ Restart

PipeSpec == PipeInit /\ [][PipeNext]_pipevars

----------------------------------------------------------------------------
(* Properties *)

In(where) == {s \in Senders : pc[s] \in where}

\* Nothing goes missing on the way to the publisher without being counted: the
\* calls of send in a run are the events taken, queued, on their way and dropped,
\* and the kinds add up to the total but for a task between its two increments.
LossesAddUp ==
  /\ publisher = "running" =>
       calls = taken + Len(queue) + dropped
               + Cardinality(In({"kinds", "capacity", "try_send", "count"}))
  /\ dropped = FoldFunction(+, 0, dropped_by_kind) + Cardinality(In({"count_kind"}))

\* The gauges never claim a loss that did not happen in the run they are about,
\* though stamps are read one counter at a time, overtake each other between
\* their reading and the queue, and outlive their run.
LossNeverOverstated ==
  net.instance # 0 =>
    LET run == IF net.instance = instance
               THEN [dropped |-> dropped, by_kind |-> dropped_by_kind]
               ELSE past[net.instance]
    IN  /\ net.dropped <= run.dropped
        /\ \A k \in Kinds : net.by_kind[k] <= run.by_kind[k]

\* What the operator is told of lost events is what was lost: nothing is lost uncounted
\* in the observer, and nothing is counted in the metrics that was not lost.
LossesAreTold == LossesAddUp /\ LossNeverOverstated

Labels(metric) == {s[2] : s \in {x \in net.series : x[1] = metric}}

\* "Every series is bounded", whatever peers claim and in whatever order: a label a
\* peer chooses has no more values than its cap and "other", a command or a version
\* is one of a closed list, and a number a peer chose moves no sum past its limit.
PeersCannotGrowIt ==
  /\ Cardinality(Labels("user_agents") \ {OTHER_LABEL}) <= USER_AGENT_CAP
  /\ Cardinality(Labels("versions") \ {OTHER_LABEL}) <= PROTOCOL_VERSION_CAP
  /\ Labels("session_messages") \subseteq KNOWN \cup {OTHER_LABEL}
  /\ Labels("send_cmpct_version") \subseteq {"1", "2", OTHER_LABEL}
  /\ \A x \in net.samples :
       x[1] \in {"skew", "height", "fee_filter", "address_age"} =>
         LET limit == CASE x[1] = "skew" -> SKEW [] x[1] = "height" -> HEIGHT_DELTA
                        [] x[1] = "address_age" -> ADDRESS_AGE [] OTHER -> FEE_FILTER
         IN  x[2] <= limit /\ -x[2] <= limit
=============================================================================
