------------------------------ MODULE Transport ------------------------------
(***************************************************************************)
(* The readers and writers of transport.rs on one connection, with the     *)
(* peer and the kernel as environment.                                     *)
(*                                                                         *)
(* A v1 frame is HEADER units of header and a payload; a unit is its frame *)
(* and its place in it, so bytes read twice, skipped or misframed show.    *)
(* What the reader makes of a frame depends on five facts about it: its    *)
(* magic, the length declared, the length sent, whether the checksum is    *)
(* the payload's, whether the command is a name and whether the payload    *)
(* parses.  A v2 frame is one packet: BIP324 frames, decrypts and keeps    *)
(* partial packets itself.                                                 *)
(*                                                                         *)
(* The session polls recv() against its ping timer and drops the future    *)
(* when the timer wins.                                                    *)
(***************************************************************************)
EXTENDS Naturals, Sequences, FiniteSets

CONSTANTS
  Frames,          \* the frames a peer may send
  HEADER,          \* units of a v1 header, 24 bytes
  MAX_V1_PAYLOAD,
  MaxFrames,       \* bound: frames the peer sends
  MaxCancels,      \* bound: recv() futures dropped
  MaxRetries       \* bound: calls of recv() after a fault

ASSUME TransportAssumption ==
  /\ Frames \subseteq [magic: BOOLEAN, len: Nat, body: Nat, sum: BOOLEAN, named: BOOLEAN, decodes: BOOLEAN]
  /\ HEADER \in Nat \ {0}
  /\ {MAX_V1_PAYLOAD, MaxFrames, MaxCancels, MaxRetries} \subseteq Nat

VARIABLES
  version, sent, closed,
  wire,         \* units written by the peer and not read
  state,        \* V1ReadState: "Header" or "Payload"
  buf,          \* what has been read of the current frame, header included
  polling,      \* a recv() future exists
  taken, delivered, undecodable, verdict,
  cancels, retries

tvars == <<version, sent, closed, wire, state, buf, polling, taken, delivered,
           undecodable, verdict, cancels, retries>>
reader == <<state, buf, polling, taken, delivered, undecodable, verdict>>

Faults == {"PeerClosed", "Truncated", "Decode", "Oversized", "WrongMagic", "V2Decrypt",
           "Write", "Reset"}

----------------------------------------------------------------------------
(* The peer and the wire *)

Size(f) == IF version = 1 THEN HEADER + f.body ELSE 1

Units(i, f) == [k \in 1..Size(f) |-> <<i, k>>]

Send(f) ==
  /\ closed = "open" /\ Len(sent) < MaxFrames
  /\ sent' = Append(sent, f)
  /\ wire' = wire \o Units(Len(sent) + 1, f)
  /\ UNCHANGED <<version, closed, reader, cancels, retries>>

\* The connection ends, perhaps inside the peer's last frame (cut units of it never
\* came).  What had arrived can still be read.
HangUp(how, cut) ==
  /\ closed = "open"
  /\ cut > 0 => cut < Size(sent[Len(sent)])
  /\ closed' = how
  /\ wire' = SubSeq(wire, 1, Len(wire) - cut)
  /\ UNCHANGED <<version, sent, reader, cancels, retries>>

----------------------------------------------------------------------------
(* recv *)

Poll ==
  /\ ~polling
  /\ \/ verdict = "none" /\ UNCHANGED <<verdict, retries>>
     \/ /\ verdict \in Faults \ {"Write", "Reset"} /\ version = 1 /\ retries < MaxRetries
        /\ verdict' = "none" /\ retries' = retries + 1
  /\ polling' = TRUE
  /\ UNCHANGED <<version, sent, closed, wire, state, buf, taken, delivered, undecodable, cancels>>

\* mutant: a partial read kept in the future goes with it.
CancelForgets ==
  /\ polling /\ cancels < MaxCancels
  /\ polling' = FALSE /\ cancels' = cancels + 1
  /\ buf' = <<>> /\ state' = "Header"
  /\ UNCHANGED <<version, sent, closed, wire, taken, delivered, undecodable, verdict, retries>>

\* The state lives in the reader, not in the future: nothing read is lost.
Cancel ==
  /\ polling /\ cancels < MaxCancels
  /\ polling' = FALSE /\ cancels' = cancels + 1
  /\ UNCHANGED <<version, sent, closed, wire, state, buf, taken, delivered, undecodable, verdict, retries>>

Fail(fault) == polling' = FALSE /\ verdict' = fault

\* undecodable(): a frame under a readable command goes up as Unknown.
HandUp(i) ==
  /\ polling' = FALSE
  /\ taken' = i
  /\ IF sent[i].decodes \/ sent[i].named
       THEN /\ delivered' = Append(delivered,
                 [frame |-> i, as |-> IF sent[i].decodes THEN "message" ELSE "Unknown"])
            /\ undecodable' = undecodable + (IF sent[i].decodes THEN 0 ELSE 1)
            /\ verdict' = verdict
       ELSE /\ verdict' = "Decode" /\ UNCHANGED <<delivered, undecodable>>

\* The header in b: the frame it opens, 0 if b is not the header of one frame.
HeaderOf(b) ==
  IF \A k \in 1..HEADER : b[k] = <<b[1][1], k>> THEN b[1][1] ELSE 0

\* Every unit of the payload read: the checksum first, then the decoder.
Finish(b) ==
  LET i == HeaderOf(b) f == sent[i]
      intact == f.sum /\ b = Units(i, f)
  IN  IF intact
        THEN /\ buf' = <<>> /\ state' = "Header"
             /\ HandUp(i)
        ELSE /\ buf' = b /\ state' = "Payload"
             /\ Fail("Decode")
             /\ UNCHANGED <<taken, delivered, undecodable>>

\* A whole header: magic, then length, then on to the payload.
StartPayload(b) ==
  LET i == HeaderOf(b) IN
  IF i = 0 \/ ~sent[i].magic
    THEN buf' = b /\ state' = "Header" /\ Fail("WrongMagic") /\ UNCHANGED <<taken, delivered, undecodable>>
  ELSE IF sent[i].len > MAX_V1_PAYLOAD
    THEN buf' = b /\ state' = "Header" /\ Fail("Oversized") /\ UNCHANGED <<taken, delivered, undecodable>>
  ELSE IF sent[i].len = 0 THEN Finish(b)
  ELSE buf' = b /\ state' = "Payload" /\ UNCHANGED <<polling, verdict, taken, delivered, undecodable>>

Wanted == (IF state = "Header" THEN HEADER ELSE HEADER + sent[HeaderOf(buf)].len) - Len(buf)

Proceed(b, wanted) ==
  IF wanted > 0
    THEN buf' = b /\ UNCHANGED <<state, polling, verdict, taken, delivered, undecodable>>
    ELSE IF state = "Header" THEN StartPayload(b) ELSE Finish(b)

\* mutant: a read is tried although nothing is wanted.
V1RecvReadsFirst ==
  /\ version = 1 /\ polling
  /\ \/ \E n \in 1..Len(wire) :
          /\ n <= Wanted
          /\ Proceed(buf \o SubSeq(wire, 1, n), Wanted - n)
          /\ wire' = SubSeq(wire, n + 1, Len(wire))
     \/ /\ Wanted > 0 /\ wire = <<>> /\ closed = "fin"
        /\ Fail(IF buf = <<>> THEN "PeerClosed" ELSE "Truncated")
        /\ UNCHANGED <<wire, state, buf, taken, delivered, undecodable>>
  /\ UNCHANGED <<version, sent, closed, cancels, retries>>

\* One read of the v1 socket brings some of what is wanted, or finds the end.
V1Recv ==
  /\ version = 1 /\ polling
  /\ \/ Wanted = 0 /\ Proceed(buf, 0) /\ wire' = wire
     \/ /\ Wanted > 0
        /\ \E n \in 1..Len(wire) :
             /\ n <= Wanted
             /\ Proceed(buf \o SubSeq(wire, 1, n), Wanted - n)
             /\ wire' = SubSeq(wire, n + 1, Len(wire))
     \/ /\ Wanted > 0 /\ wire = <<>> /\ closed = "fin"
        /\ Fail(IF buf = <<>> THEN "PeerClosed" ELSE "Truncated")
        /\ UNCHANGED <<wire, state, buf, taken, delivered, undecodable>>
  /\ UNCHANGED <<version, sent, closed, cancels, retries>>

\* One packet, which bip324 has decrypted or could not.
V2Recv ==
  /\ version = 2 /\ polling
  /\ \/ /\ wire # <<>>
        /\ wire' = Tail(wire)
        /\ LET i == wire[1][1] IN
           IF sent[i].sum
             THEN HandUp(i)
             ELSE /\ Fail("V2Decrypt") /\ taken' = i
                  /\ UNCHANGED <<delivered, undecodable>>
     \/ /\ wire = <<>> /\ closed = "fin"
        /\ Fail("PeerClosed")
        /\ UNCHANGED <<wire, taken, delivered, undecodable>>
  /\ UNCHANGED <<version, sent, closed, state, buf, cancels, retries>>

\* A read of a socket the peer has reset.
RecvFails ==
  /\ polling /\ closed = "reset" /\ wire = <<>>
  /\ Fail("Reset")
  /\ UNCHANGED <<version, sent, closed, wire, state, buf, taken, delivered, undecodable, cancels, retries>>

\* writer.send of whatever the session has to say, failing; the session is over.
SendFails ==
  /\ ~polling /\ verdict = "none" /\ closed # "open"
  /\ verdict' = "Write"
  /\ UNCHANGED <<version, sent, closed, wire, state, buf, polling, taken, delivered, undecodable, cancels, retries>>

----------------------------------------------------------------------------

TransportInit ==
  /\ version \in {1, 2}
  /\ sent = <<>> /\ closed = "open" /\ wire = <<>>
  /\ state = "Header" /\ buf = <<>> /\ polling = FALSE
  /\ taken = 0 /\ delivered = <<>> /\ undecodable = 0 /\ verdict = "none"
  /\ cancels = 0 /\ retries = 0

Peer ==
  \/ \E f \in Frames : Send(f)
  \/ \E how \in {"fin", "reset"}, cut \in 0..Len(wire) : HangUp(how, cut)

Recv == V1Recv \/ V2Recv \/ RecvFails

TransportNext == Peer \/ Poll \/ Cancel \/ Recv \/ SendFails

\* The session's loop polls recv() again after every message and every tick, and
\* the runtime polls a future whose socket is ready.
TransportSpec ==
  /\ TransportInit /\ [][TransportNext]_tvars
  /\ WF_tvars(Poll) /\ WF_tvars(Recv)

----------------------------------------------------------------------------
(* Properties *)

\* The wire, the buffer and the pending future are what the channel does not have.
Channel == INSTANCE MessageChannel WITH
  version <- version, sent <- sent, closed <- closed,
  taken <- taken, delivered <- delivered, verdict <- verdict

\* The reader implements the channel of MessageChannel (transport.rs: "recv() is
\* cancel-safe", "the fault names where the stream ran out"): no byte of a message
\* is lost or read twice over dropped futures and short reads, corrupt frames are
\* never handed up, and a refused header stays refused.
ImplementsChannel == Channel!ChannelSpec

\* The reader waits for bytes a header promised and the peer has not sent.
Owed ==
  closed = "open" /\ taken < Len(sent) /\ sent[taken + 1].body < sent[taken + 1].len

\* Every frame the peer puts on the wire is handed up or answered with a fault
\* (transport.rs recv): the session never waits for bytes that are already there,
\* however many recv() futures the ping timer has dropped.
EveryFrameAnswered ==
  \A n \in 1..MaxFrames : (Len(sent) >= n) ~> (taken >= n \/ verdict # "none" \/ Owed)
=============================================================================
