---------------------------- MODULE MCDialShares ----------------------------
(***************************************************************************)
(* A finite instance of DialShares with the weights of the code, 70/20/10, *)
(* divided by their common factor.                                         *)
(***************************************************************************)
EXTENDS DialShares

Weights == <<7, 2, 1>>
MCWeight == [c \in Classes |-> Weights[c + 1]]

Offer(unknown, was_good, bad) ==
  [c \in Classes |-> IF c = CLASS_UNKNOWN THEN unknown ELSE IF c = CLASS_BAD THEN bad ELSE was_good]

\* Enough everywhere, and too few everywhere for ten but not for one.
MCCandidates == {Offer(10, 10, 10), Offer(2, 4, 3)}
=============================================================================
