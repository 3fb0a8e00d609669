------------------------------ MODULE MCArchive ------------------------------
(***************************************************************************)
(* Six messages of two runs of the observer, one of them not an event;     *)
(* three records fill a file, and a table has room for two of three hosts. *)
(***************************************************************************)
EXTENDS Archive

Event(kind, i, d, h, data) ==
  [kind |-> kind, instance |-> i, dropped |-> d, addr |-> <<h, 8333>>] @@ data
Block(placed) == [hash |-> <<19, "b">>, placed |-> placed]

MCPublished ==
  <<Event("handshake", 1, 0, "h1", [user_agent |-> "a1", services |-> {"network"}]),
    Event("block_announcement", 1, 2, "h2", Block(FALSE)),
    Event("garbage", 1, 0, "h1", <<>>),
    Event("address_announcement", 1, 1, "h3", [rate_limited |-> 2, addresses |-> <<AllServices, {"witness"}>>]),
    Event("block_announcement", 2, 0, "h1", Block(TRUE)),
    Event("disconnected", 2, 1, "h1", [reason |-> "decode_error", messages |-> 0, secs |-> 3])>>

MCNameOrder == "h1" :> 1 @@ "h2" :> 2 @@ "h3" :> 3 @@ "a1" :> 4

MCConfigs ==
  {[network |-> "signet", compressed |-> TRUE, filter |-> {}],
   [network |-> "mainnet", compressed |-> FALSE, filter |-> {"block_announcement", "disconnected"}]}
=============================================================================
