------------------------------ MODULE DialBudget ------------------------------
(***************************************************************************)
(* How Book::allocate (observer/src/addresses/book.rs) divides a tick's    *)
(* dial budget between the classes unknown, was_good and bad: each earns   *)
(* its weight of the budget as credit, and the slots go one at a time to   *)
(* the class that is owed most and still has a candidate.                  *)
(*                                                                         *)
(* Credit is a float in the code.  Here it is an integer in units of       *)
(* 1/Total of a dial, in which every share is exact; a rounding error      *)
(* could only decide between classes that are owed the same.               *)
(* The loop over the slots is one step per slot.                           *)
(***************************************************************************)
EXTENDS Integers

CONSTANTS
  Weight,      \* WEIGHT_UNKNOWN, WEIGHT_WAS_GOOD, WEIGHT_BAD, as a function of the class index
  CREDIT_CAP,  \* in dials
  Budgets,     \* the budgets tick may pass
  Candidates   \* how many candidates each class may offer, a set of functions of the class index

Classes == 0..2
CLASS_UNKNOWN == 0
CLASS_BAD     == 2

ASSUME BudgetAssumption ==
  /\ Weight \in [Classes -> Nat \ {0}]
  /\ CREDIT_CAP \in Nat \ {0}
  /\ Budgets \subseteq Nat
  /\ Candidates \subseteq [Classes -> Nat]

Total == Weight[0] + Weight[1] + Weight[2]
Cap   == CREDIT_CAP * Total

VARIABLES
  credit,     \* Book.credit
  take,       \* slots handed out to each class in this call
  available,  \* candidates of each class in this call
  budget,     \* the argument of this call
  left        \* iterations of the slot loop still to run

vars == <<credit, take, available, budget, left>>

BMin(a, b) == IF a <= b THEN a ELSE b
BMax(a, b) == IF a >= b THEN a ELSE b
Sum(f) == f[0] + f[1] + f[2]

\* Mutation: the loop over the classes ends before the last one.
Open_Short == {c \in Classes \ {CLASS_BAD} : take[c] < available[c]}

Open == {c \in Classes : take[c] < available[c]}

\* Mutation: the loop also stops when the class owed most has no candidate.
Finished_GivesUp == left = 0 \/ \E c \in Classes \ Open : \A d \in Open : credit[d] < credit[c]

\* The loop stops early when no class has a candidate left.
Finished == left = 0 \/ Open = {}

\* The first class, in index order, that is owed the most.
MostOwed(c) ==
  /\ c \in Open
  /\ \A d \in Open : credit[d] < credit[c] \/ (credit[d] = credit[c] /\ c <= d)

Earned(b) == [c \in Classes |-> BMin(credit[c] + Weight[c] * b, Cap)]

\* A call begins: every class earns its share of the budget.
Allocate(b, candidates) ==
  /\ Finished
  /\ budget' = b
  /\ left' = b
  /\ available' = candidates
  /\ take' = [c \in Classes |-> 0]
  /\ credit' = Earned(b)

\* Mutation: a slot costs the class nothing.
Debited_Free(c) == credit
Debited(c) == [credit EXCEPT ![c] = BMax(@ - Total, -Cap)]

\* One slot goes to the class that is owed most.
HandOut ==
  /\ ~Finished
  /\ \E c \in Classes :
       /\ MostOwed(c)
       /\ take' = [take EXCEPT ![c] = @ + 1]
       /\ credit' = Debited(c)
  /\ left' = left - 1
  /\ UNCHANGED <<available, budget>>

Init ==
  /\ credit = [c \in Classes |-> 0]
  /\ take = [c \in Classes |-> 0]
  /\ available = [c \in Classes |-> 0]
  /\ budget = 0
  /\ left = 0

Next ==
  \/ \E b \in Budgets, candidates \in Candidates : Allocate(b, candidates)
  \/ HandOut

Spec == Init /\ [][Next]_vars

----------------------------------------------------------------------------
\* allocate wastes no slot and invents no candidate: when it returns, it has
\* handed out the whole budget or every candidate, whichever is less.  This is
\* what AddrManager's pick assumes of it.
BudgetIsUsed ==
  /\ \A c \in Classes : take[c] <= available[c]
  /\ Finished => Sum(take) = BMin(budget, Sum(available))

\* The class with the smallest weight is not starved: always having a candidate,
\* it is dialled again and again, whatever the other classes have to offer.
BadNotStarved == []<>(take[CLASS_BAD] > 0)
=============================================================================
