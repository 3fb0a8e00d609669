------------------------------ MODULE DialShares ------------------------------
(***************************************************************************)
(* DialBudget with a history of how the dials were really divided, for the *)
(* property about shares over many calls of allocate.                      *)
(***************************************************************************)
EXTENDS DialBudget

\* Each class's share of the budgets, minus what it took, in 1/Total dials, since
\* the last call in which some class had fewer candidates than there were slots.
VARIABLE drift

SharesInit == Init /\ drift = [c \in Classes |-> 0]

AllocateCounted(b, candidates) ==
  /\ Allocate(b, candidates)
  /\ drift' = IF \A c \in Classes : candidates[c] >= b
                THEN [c \in Classes |-> drift[c] + Weight[c] * b]
                ELSE [c \in Classes |-> 0]

HandOutCounted ==
  /\ HandOut
  /\ drift' = IF \A c \in Classes : available[c] >= budget
                THEN [c \in Classes |-> drift[c] - Total * (take'[c] - take[c])]
                ELSE drift

SharesNext ==
  \/ \E b \in Budgets, candidates \in Candidates : AllocateCounted(b, candidates)
  \/ HandOutCounted

\* The manager ticks for ever, and a call of allocate runs to its end.
SharesSpec == SharesInit /\ [][SharesNext]_<<vars, drift>> /\ WF_<<vars, drift>>(SharesNext)

----------------------------------------------------------------------------
\* "70/20/10 ... comes out right over a few dozen ticks" (allocate): over any stretch of
\* calls with enough candidates in every class, with whatever credit it began, each class
\* stays within a fixed number of dials of its share of the budgets, though the cap
\* discards some of what a class earns. The credit it began with and the one it ends with
\* account for two caps either way, the rest is for what is discarded until the classes
\* owe so much that nothing is. The budgets are those of the run: up to the default of
\* connections_per_second.
WithinShare == Finished => \A c \in Classes : drift[c] \in -(4 * Cap)..(4 * Cap)
=============================================================================
