---------------------------- MODULE MessageChannel ----------------------------
(***************************************************************************)
(* What a TransportReader promises its session, whatever the framing: the  *)
(* peer's messages come up whole, once and in order, however the bytes     *)
(* were cut up and however often a recv() was abandoned half way; one we   *)
(* can name but not read comes up as Unknown; and when no further message  *)
(* can be read, the fault named is what the peer really did.  A fault that *)
(* leaves the stream without a known boundary is given again to whoever    *)
(* asks again.                                                             *)
(***************************************************************************)
EXTENDS Naturals, Sequences

CONSTANTS
  Frames,         \* what a peer may send
  MAX_V1_PAYLOAD

VARIABLES
  version,    \* 1 plaintext, 2 BIP324
  sent,       \* the frames the peer has put on the wire, the last perhaps in part
  closed,     \* "open", "fin", "reset"
  taken,      \* how many of them recv() is done with
  delivered,  \* the messages recv() has returned
  verdict     \* "none", or the fault of the last recv()

cvars == <<version, sent, closed, taken, delivered, verdict>>

\* The fault a frame deserves, "none" if it can be handed up.
Deserves(v, f) ==
  IF v = 2
    THEN IF ~f.sum THEN "V2Decrypt" ELSE IF f.decodes \/ f.named THEN "none" ELSE "Decode"
    ELSE IF ~f.magic THEN "WrongMagic"
         ELSE IF f.len > MAX_V1_PAYLOAD THEN "Oversized"
         ELSE IF ~f.sum \/ f.len # f.body THEN "Decode"
         ELSE IF f.decodes \/ f.named THEN "none" ELSE "Decode"

\* After these the boundary of the next frame is known, and the frame is gone.
Skipped(v, f) == v = 2 \/ (f.magic /\ f.len <= MAX_V1_PAYLOAD /\ f.sum /\ f.len = f.body)

HandedUp(i, f) == [frame |-> i, as |-> IF f.decodes THEN "message" ELSE "Unknown"]

ChannelInit ==
  /\ version \in {1, 2} /\ sent = <<>> /\ closed = "open"
  /\ taken = 0 /\ delivered = <<>> /\ verdict = "none"

PeerSends ==
  /\ closed = "open"
  /\ \E f \in Frames : sent' = Append(sent, f)
  /\ UNCHANGED <<version, closed, taken, delivered, verdict>>

PeerCloses ==
  /\ closed = "open" /\ closed' \in {"fin", "reset"}
  /\ UNCHANGED <<version, sent, taken, delivered, verdict>>

Deliver ==
  /\ verdict = "none" /\ taken < Len(sent)
  /\ Deserves(version, sent[taken + 1]) = "none"
  /\ taken' = taken + 1
  /\ delivered' = Append(delivered, HandedUp(taken + 1, sent[taken + 1]))
  /\ UNCHANGED <<version, sent, closed, verdict>>

\* The next frame is one the reader refuses.
Refuse ==
  /\ verdict = "none" /\ taken < Len(sent)
  /\ verdict' = Deserves(version, sent[taken + 1]) /\ verdict' # "none"
  /\ taken' = IF Skipped(version, sent[taken + 1]) THEN taken + 1 ELSE taken
  /\ UNCHANGED <<version, sent, closed, delivered>>

\* The stream ran out: between two frames, or (v1 only) inside one.
RunOut ==
  /\ verdict = "none" /\ closed = "fin"
  /\ verdict' = IF version = 1 /\ taken < Len(sent) THEN "Truncated" ELSE "PeerClosed"
  /\ UNCHANGED <<version, sent, closed, taken, delivered>>

\* The socket fails: on a read after a reset, on a write at any time.
SocketFails ==
  /\ verdict = "none"
  /\ \/ closed = "reset" /\ verdict' = "Reset"
     \/ verdict' = "Write"
  /\ UNCHANGED <<version, sent, closed, taken, delivered>>

AskAgain ==
  /\ verdict # "none" /\ verdict' = "none"
  /\ UNCHANGED <<version, sent, closed, taken, delivered>>

ChannelNext ==
  \/ PeerSends \/ PeerCloses \/ Deliver \/ Refuse \/ RunOut \/ SocketFails \/ AskAgain

ChannelSpec == ChannelInit /\ [][ChannelNext]_cvars
=============================================================================
