------------------------------ MODULE MCAttempt ------------------------------
(***************************************************************************)
(* A ping every unit, a deadline of four, two nonces remembered, one token *)
(* in each bucket and two units to earn it back.                           *)
(***************************************************************************)
EXTENDS Attempt

Addr(entries) == [command |-> "addr", entries |-> entries, unread |-> FALSE]

MCGossips ==
  {Addr(<<"self">>), Addr(<<"ok", "ok">>),
   [command |-> "addrv2", unread |-> TRUE, declared |-> 4, room |-> 3,
    entries |-> <<"refused", "ok", "foreign", "unframed">>]}

MCSays ==
  {[command |-> "ping"], [command |-> "getheaders"], [command |-> "inv"],
   [command |-> "pong", nonce |-> -1]}

MCLong == {<<"ip", "V1Only">>}
=============================================================================
