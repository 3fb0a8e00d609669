----------------------------- MODULE MCWebsocket -----------------------------
(***************************************************************************)
(* A browser with a queue of two that may change its subscription, and     *)
(* four events of a network, which is found on the stream.                 *)
(***************************************************************************)
EXTENDS Websocket

MCSubject == <<"main", "main", "main", "main">>
MCChoices == {{"event", "status"}, {"event"}}
=============================================================================
