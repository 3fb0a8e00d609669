----------------------------- MODULE MCHeaderTree -----------------------------
(***************************************************************************)
(* A finite instance of HeaderTree.                                        *)
(***************************************************************************)
EXTENDS HeaderTree, TLC

\* Two branches from genesis and x, which is badly mined.  A retarget gives a2 twice
\* the work of the others: it has more work than c2 at its height and as much as the
\* higher c3, until the checkpoint c4 prunes it and the tree grows on to c5.
MCParent ==
  "a1" :> "g" @@ "a2" :> "a1" @@ "c1" :> "g" @@ "c2" :> "c1" @@
  "c3" :> "c2" @@ "c4" :> "c3" @@ "c5" :> "c4" @@ "x" :> "g"
MCBlocks    == DOMAIN MCParent \cup {"g"}
MCHashOrder == "g" :> 0 @@ "a1" :> 8 @@ "a2" :> 7 @@ "c1" :> 6 @@ "c2" :> 5 @@
               "c3" :> 4 @@ "c4" :> 3 @@ "c5" :> 2 @@ "x" :> 1
MCWork      == [b \in MCBlocks |-> IF b = "a2" THEN 2 ELSE 1]
MCMined     == MCBlocks \ {"x"}
MCAdjusted  == [p \in MCBlocks \X MCBlocks |-> IF p = <<"g", "a1">> THEN 2 ELSE 1]

At4(b)        == [height |-> 4, hash |-> b]
MCCheckpoints == merge_checkpoints({At4("x")}, <<At4("c3"), At4("c4")>>)
=============================================================================
