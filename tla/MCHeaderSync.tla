----------------------------- MODULE MCHeaderSync -----------------------------
(***************************************************************************)
(* A finite instance of HeaderSync.                                        *)
(***************************************************************************)
EXTENDS HeaderSync, TLC

CONSTANTS p1, p2, p3

\* The chain a1-a2-a3 with the checkpoint a1, a stale block c2 at the height of a2, and
\* the chain x-y-z beside the checkpoint.  The refusals of its three blocks are one more
\* than the tree remembers.
MCParent ==
  "a1" :> "g" @@ "a2" :> "a1" @@ "a3" :> "a2" @@ "c2" :> "a1" @@
  "x" :> "g" @@ "y" :> "x" @@ "z" :> "y"
MCBlocks    == DOMAIN MCParent \cup {"g"}
MCHashOrder == "g" :> 0 @@ "a1" :> 1 @@ "a2" :> 2 @@ "a3" :> 3 @@ "c2" :> 4 @@
               "x" :> 5 @@ "y" :> 6 @@ "z" :> 7
MCWork      == [b \in MCBlocks |-> 1]
MCMined     == MCBlocks \ {"x"}
MCAdjusted  == [p \in MCBlocks \X MCBlocks |-> 1]
MCCheckpoints == {[height |-> 1, hash |-> "a1"]}

\* p1 is on our chain, or on a stale branch of it.  p2 may turn to the other chain, and
\* p3 is on it.
MCPeerTips == p1 :> {"c2", "a3"} @@ p2 :> {"a1", "a3", "z"} @@ p3 :> {"z"}
TwoSeeds   == <<p1, p2>>
=============================================================================
