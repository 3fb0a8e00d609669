------------------------------ MODULE MCPipeline ------------------------------
(***************************************************************************)
(* A finite instance of Pipeline: two connection tasks, a queue of three   *)
(* slots of which two are kept free of gossip, a block b1 and a refused    *)
(* block x built on it, which is an orphan until b1 has come.  Handshakes, *)
(* gossip and the end of a session carry the labels that the metrics tool  *)
(* must not let peers choose.                                              *)
(***************************************************************************)
EXTENDS Pipeline, TLC

CONSTANTS c1, c2

MCKindOrder ==
  <<"block_announcement", "address_announcement", "connection_result", "handshake",
    "compact_block_probe", "fee_filter", "send_cmpct", "ping_rtt">>
MCParent    == "b1" :> "root" @@ "x" :> "b1"
MCOffers    == {<<"b1">>, <<"x">>, <<"b1", "x">>, <<"x", "b1">>}
MCMaxCost   == <<6, 3>>
MCCost      == [type \in {"inv", "headers", "address_announcement"} |-> 2]
                 @@ [type \in {"compact_block", "blocktxn", "handshake", "connection_result"} |-> 3]
                 @@ [type \in {"send_cmpct", "fee_filter", "ping_rtt"} |-> 4]
MCSymmetry  == Permutations(Senders)

MCServices  == 0 :> "network" @@ 1 :> "bit_1"
Says(client, version, services, timestamp) ==
  emit_handshake([transport |-> 2, user_agent |-> [client |-> client, comment |-> "x"],
                  version |-> version, services |-> services, features |-> {"relay"},
                  addr_recv |-> IF version = "1" THEN "0.0.0.0" ELSE "1.2.3.4",
                  timestamp |-> timestamp, start_height |-> 9])
Entry(prefix, host, suffix, services, ntime) ==
  [addr |-> [prefix |-> prefix, host |-> host, suffix |-> suffix], services |-> services,
   ntime |-> ntime]
MCReports ==
  {Says("Satoshi", "70016", {0}, 99), Says("Knots", "1", {0, 1}, -99),
   address_announcement("addrv2", {Entry("", "ipv4", "", {}, 99), Entry("cjdns:", "ipv6", "", {1}, 0)}),
   connection_result("disconnected", {"inv", "nonsense"}, FALSE),
   handle_send_cmpct(TRUE, 3), handle_fee_filter(99), handle_pong(1, [srtt |-> 1])}
=============================================================================
