------------------------------- MODULE Attempt -------------------------------
(***************************************************************************)
(* One connection attempt (connection.rs) from the dial to the result, with *)
(* the session of module Session inside it: which transports are tried, the *)
(* version handshake, what is published and reported and in which order,   *)
(* and how an error becomes an outcome.                                    *)
(*                                                                         *)
(* An error is the Stage it was tagged with and the kind of the io error   *)
(* under it.  The address manager and the readers of the event stream and  *)
(* of the RPC see the attempt between any two of its steps.                *)
(***************************************************************************)
EXTENDS Session

CONSTANTS
  Nets,       \* the networks of the address dialled: "ip", "tor", "i2p"
  TorEnabled,
  Long        \* bound: the <<net, hint>> whose sessions last; in others the peer just goes

VARIABLES
  stage,    \* where attempt() is
  net, hint,
  version,  \* the transport being tried or in use, 0 before the first
  got,      \* messages of the version handshake received
  err,      \* the error of the last connect
  events,   \* published: <<kind, transport, reason>>
  told      \* sent to the address manager

avars == <<stage, net, hint, version, got, err, events, told>>

NoError == [stage |-> "none", kind |-> "none"]
E(s, k) == [stage |-> s, kind |-> k]

----------------------------------------------------------------------------
(* Errors *)

\* What tcp_connect can fail with, by network (the kinds are the kernel's and the
\* proxy's).
ConnectErrors ==
  IF net = "i2p" \/ (net = "tor" /\ ~TorEnabled) THEN {E("NetworkDisabled", "none")}
  ELSE IF net = "tor"
    THEN {E("TorProxyTimeout", "none"), E("ProxyUnreachable", "ConnectionRefused"),
          E("ProxyUnreachable", "none")}
    ELSE {E("TcpConnectTimeout", "none"), E("none", "ConnectionRefused"),
          E("none", "NetworkUnreachable"), E("none", "HostUnreachable"), E("none", "TimedOut"),
          E("none", "Other")}

\* A handshake runs out of its own time, or its socket fails; TimedOut is the kernel
\* giving up on the connection.
TransportErrors == {E("V2TransportTimeout", "none")}
  \cup {E("V2TransportHandshake", kind) : kind \in {"UnexpectedEof", "TimedOut", "none"}}

HandshakeErrors == {E("VersionHandshakeTimeout", "none")}
  \cup {E("VersionHandshake", kind) : kind \in {"UnexpectedEof", "TimedOut", "none"}}

is_timed_out(e) ==
  \/ e.stage \in {"TcpConnectTimeout", "TorProxyTimeout", "V2TransportTimeout",
                  "VersionHandshakeTimeout"}
  \/ e.kind = "TimedOut"

is_tcp_level(e) ==
  e.kind \in {"ConnectionRefused", "NetworkUnreachable", "HostUnreachable"} \/ is_timed_out(e)

\* classify: an outcome is <<"OurFault", reason>> or <<"Failed", reason>>.
classify(e, n) ==
  IF e.kind = "NetworkUnreachable" THEN <<"OurFault", "NetworkUnreachable">>
  ELSE IF e.stage = "NetworkDisabled" THEN <<"OurFault", "NetworkDisabled">>
  ELSE IF e.stage \in {"ProxyUnreachable", "TorProxyTimeout"}
    THEN <<"OurFault", "ProxyUnreachable">>
  ELSE IF e.stage # "none" THEN <<"Failed", e.stage>>
  ELSE IF n = "tor" /\ e.kind = "ConnectionRefused" THEN <<"OurFault", "ProxyUnreachable">>
  ELSE IF e.kind \in {"ConnectionRefused", "HostUnreachable", "UnexpectedEof"}
    THEN <<"Failed", e.kind>>
  ELSE <<"Failed", "Other">>

\* session_outcome and is_violation.  The end of a session with a peer on another chain
\* is in HeaderSync.
session_outcome(e, c) ==
  IF e \in {"Oversized", "ProtocolViolation"} THEN <<"Violated">> ELSE <<"Disconnected", silent(c)>>

classify_session_end(e) ==
  CASE e = "Write"     -> "WriteError"
    [] e = "Oversized" -> "OversizedMessage"
    [] OTHER           -> e

\* What a session comes to in the stream, and an attempt that never had one; the
\* latter names a transport only if the dial did not have to detect it.
disconnected_result(v, e) == <<"Disconnected", v, classify_session_end(e)>>

failed_result(e, n, h) ==
  <<classify(e, n)[1], CASE h = "V2" -> 2 [] h = "V1Only" -> 1 [] OTHER -> 0, classify(e, n)[2]>>

----------------------------------------------------------------------------
(* attempt, connect_and_run, run_session *)

AttemptInit ==
  /\ now = 0 /\ conn = NoConnection /\ registry = <<>>
  /\ inbox = <<>> /\ taking = TRUE /\ known = {} /\ ended = "none" /\ said = 0 /\ stalls = 0
  /\ learned = <<>> /\ free = 0 /\ answered = <<>> /\ due = {} /\ heard = 0 /\ overdue = FALSE
  /\ stage = "start" /\ net \in Nets /\ hint \in {"V2", "V1Only", "Unknown"}
  /\ version = 0 /\ got = {} /\ err = NoError
  /\ events = <<>> /\ told = <<>>

Tell(what) == told' = Append(told, what)
Publish(event) == events' = Append(events, event)

\* The hint decides which transport is tried first.
Start ==
  /\ stage = "start"
  /\ version' = (IF hint = "V1Only" THEN 1 ELSE 2)
  /\ stage' = "connect"
  /\ UNCHANGED <<svars, net, hint, got, err, events, told>>

\* connect_and_run on an error: a dial that is still detecting falls back once.
Failed(e) ==
  /\ err' = e
  /\ IF hint = "Unknown" /\ version = 2 /\ ~is_tcp_level(e)
       THEN version' = 1 /\ stage' = "connect" /\ Tell(<<"v1_only">>)
       ELSE stage' = "failed" /\ UNCHANGED <<version, told>>
  /\ UNCHANGED events

tcp_connect ==
  /\ stage = "connect" /\ got' = {}
  /\ \/ /\ ~(net = "i2p" \/ (net = "tor" /\ ~TorEnabled))
        /\ stage' = (IF version = 2 THEN "transport" ELSE "version")
        /\ UNCHANGED <<version, err, events, told>>
     \/ \E e \in ConnectErrors : Failed(e)
  /\ UNCHANGED <<svars, net, hint>>

\* The BIP324 handshake.
connect_v2 ==
  /\ stage = "transport"
  /\ \/ stage' = "version" /\ UNCHANGED <<version, err, events, told>>
     \/ \E e \in TransportErrors : Failed(e)
  /\ UNCHANGED <<svars, net, hint, got>>

\* The loop of version_handshake: anything but the two it waits for is ignored.
version_handshake ==
  /\ stage = "version"
  /\ \/ /\ \E m \in {"version", "verack", "sendaddrv2"} \ got : got' = got \cup {m}
        /\ stage' = (IF {"version", "verack"} \subseteq got' THEN "shaken" ELSE "version")
        /\ UNCHANGED <<version, err, events, told>>
     \/ got' = got /\ \E e \in HandshakeErrors : Failed(e)
  /\ UNCHANGED <<svars, net, hint>>

\* The manager hears first, then the stream, then the registry.
Connected ==
  /\ stage = "shaken" /\ stage' = "announce"
  /\ Tell(<<"connected">>)
  /\ got' = {} /\ err' = NoError
  /\ UNCHANGED <<svars, net, hint, version, events>>

emit_handshake ==
  /\ stage = "announce" /\ stage' = "register"
  /\ Publish(<<"Handshake", version, "none">>)
  /\ UNCHANGED <<svars, net, hint, version, got, err, told>>

Register ==
  /\ stage = "register" /\ stage' = "run"
  /\ registry' = register(registry)
  /\ conn' = NewConnection
  /\ UNCHANGED <<now, inbox, taking, known, ended, said, stalls, learned, free,
                 answered, due, heard, overdue>>
  /\ UNCHANGED <<net, hint, version, got, err, events, told>>

\* A read ends the session with a fault.  A header that declares too much, which only v1
\* has, is held against the peer; the others (a cut message, a wrong magic, a packet
\* that does not decrypt, an untagged error) are judged as PeerClosed is.
Run ==
  /\ stage = "run"
  /\ \/ PeerGone("PeerClosed")
     \/ version = 1 /\ PeerGone("Oversized")
     \/ FinishWrite
     \/ <<net, hint>> \in Long /\ (LoopStep \/ PeerStep \/ Tick)
  /\ stage' = IF ended' # "none" THEN "ended" ELSE "run"
  /\ UNCHANGED <<net, hint, version, got, err, events, told>>

\* The socket and what was in it go, and the clock and the histories of the session
\* with it.
CloseSocket ==
  /\ now' = 0 /\ inbox' = <<>> /\ taking' = TRUE /\ known' = {} /\ said' = 0 /\ stalls' = 0
  /\ learned' = <<>> /\ free' = 0 /\ answered' = <<>> /\ due' = {} /\ heard' = 0

\* mutant: a detecting dial whose v2 session ended tries v1 too.
UnregisterAndFallBack ==
  /\ stage = "ended"
  /\ IF hint = "Unknown" /\ version = 2
       THEN stage' = "connect" /\ version' = 1 /\ ended' = "none"
       ELSE stage' = "report" /\ UNCHANGED <<version, ended>>
  /\ registry' = unregister(registry)
  /\ CloseSocket
  /\ UNCHANGED <<conn, overdue, net, hint, got, err, events, told>>

\* run_session returns: the registration is dropped with its frame.
Unregister ==
  /\ stage = "ended" /\ stage' = "report"
  /\ registry' = unregister(registry)
  /\ CloseSocket
  /\ UNCHANGED <<conn, ended, overdue>>
  /\ UNCHANGED <<net, hint, version, got, err, events, told>>

\* One result per attempt, published before the manager is told the attempt is over.
emit_result ==
  /\ stage \in {"report", "failed"}
  /\ stage' = (IF stage = "report" THEN "finish" ELSE "give up")
  /\ Publish(IF stage = "report" THEN disconnected_result(version, ended)
             ELSE failed_result(err, net, hint))
  /\ UNCHANGED <<svars, net, hint, version, got, err, told>>

finish ==
  /\ stage \in {"finish", "give up"}
  /\ stage' = "done"
  /\ Tell(IF stage = "finish" THEN session_outcome(ended, conn) ELSE classify(err, net))
  /\ UNCHANGED <<svars, net, hint, version, got, err, events>>

\* The task is dropped at an await when the process stops: the guard and the
\* registration go with it, the result is not published.
Abort ==
  /\ stage \in {"connect", "transport", "version", "run"}
  /\ stage' = "aborted"
  /\ registry' = unregister(registry)
  /\ Tell(<<"Ended">>)
  /\ conn' = NoConnection /\ ended' = "none" /\ overdue' = FALSE
  /\ CloseSocket
  /\ got' = {}
  /\ UNCHANGED <<net, hint, version, err, events>>

AttemptNext ==
  \/ Start \/ tcp_connect \/ connect_v2 \/ version_handshake
  \/ Connected \/ emit_handshake \/ Register \/ Run \/ Unregister
  \/ emit_result \/ finish \/ Abort

AttemptSpec == AttemptInit /\ [][AttemptNext]_<<svars, avars>>

----------------------------------------------------------------------------
(* Properties *)

\* What the manager hears during an attempt; anything else is its end.
Notes == {<<"connected">>, <<"v1_only">>}

\* attempt: "one event per attempt whether or not it reached a session".  An attempt
\* that falls back never runs two sessions; its stream is a handshake and one
\* Disconnected on the same transport, or one failure, and nothing after it; the
\* manager hears of exactly one end, after everything else.
StoryToldOnce ==
  /\ Len(events) <= 2
  /\ Len(events) = 2 => /\ events[1][1] = "Handshake" /\ events[2][1] = "Disconnected"
                        /\ events[1][2] = events[2][2]
  /\ stage = "done" => Len(events) = (IF Contains(told, <<"connected">>) THEN 2 ELSE 1)
  /\ \A i \in DOMAIN told : told[i] \notin Notes => i = Len(told)
  /\ stage \in {"done", "aborted"} => told # <<>> /\ Last(told) \notin Notes

\* Registered: the registry never holds a session a reader has been told is over, nor
\* one the manager counts as ended, whichever way the task stopped.
NoGhostSession ==
  connections_list # {} =>
    /\ \A i \in DOMAIN events : events[i][1] = "Handshake"
    /\ told = <<>> \/ Last(told) = <<"connected">>

\* The stream, the manager and the registry, which a task reaches one after the other,
\* tell one and the same story of an attempt, however it ends.
OneStoryPerAttempt == StoryToldOnce /\ NoGhostSession
=============================================================================
