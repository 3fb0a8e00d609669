--------------------------- MODULE DialSharesProofs ---------------------------
(***************************************************************************)
(* How the dial budget is divided, for any weights, cap, budgets and       *)
(* candidates: no slot is wasted or invented, no slot is left without a    *)
(* class while one has a candidate, and what is carried over from call to  *)
(* call stays within the cap.                                              *)
(***************************************************************************)
EXTENDS DialShares, TLAPS

----------------------------------------------------------------------------
\* The inductive invariant: the slots handed out and those still to come are the budget,
\* and no class is owed or owes more than the cap.
BudgetInv ==
  /\ credit \in [Classes -> Int] /\ \A c \in Classes : -Cap <= credit[c] /\ credit[c] <= Cap
  /\ take \in [Classes -> Nat] /\ available \in [Classes -> Nat]
  /\ budget \in Nat /\ left \in Nat
  /\ \A c \in Classes : take[c] <= available[c]
  /\ Sum(take) + left = budget

\* The three classes, and what a dial costs of the credit.
LEMMA Sizes ==
  /\ Classes = {0, 1, 2}
  /\ Total \in Nat \ {0} /\ Cap \in Nat /\ Total <= Cap
<1>1. Classes = {0, 1, 2}
  BY DEF Classes
<1>2. Total \in Nat \ {0}
  BY <1>1, BudgetAssumption DEF Total
<1>3. Cap \in Nat /\ Total <= Cap
  <2> DEFINE t == Total
             k == CREDIT_CAP
  <2>1. t \in Nat \ {0} /\ k \in Nat \ {0}
    BY <1>2, BudgetAssumption
  <2> HIDE DEF t, k
  <2>2. k * t \in Nat /\ t <= k * t
    BY <2>1
  <2> QED
    BY <2>2 DEF Cap, t, k
<1> QED
  BY <1>1, <1>2, <1>3

\* While there are slots and candidates the loop has a class to give the next slot to
\* (allocate: it goes on as long as some class is eligible).
LEMMA SlotsFindAClass ==
  ASSUME BudgetInv, ~Finished
  PROVE  \E c \in Classes : MostOwed(c)
<1>1. Open # {} /\ Open \subseteq {0, 1, 2} /\ \A c \in {0, 1, 2} : credit[c] \in Int
  BY Sizes DEF Finished, Open, BudgetInv
<1> DEFINE Beats(c, d) == credit[d] < credit[c] \/ (credit[d] = credit[c] /\ c <= d)
<1>2. \A c, d \in {0, 1, 2} : Beats(c, d) \/ Beats(d, c)
  BY <1>1
<1>3. \A c, d, e \in {0, 1, 2} : Beats(c, d) /\ Beats(d, e) => Beats(c, e)
  BY <1>1
<1>4. \A c \in {0, 1, 2} : Beats(c, c)
  BY <1>1
<1> HIDE DEF Beats
<1>5. \E c \in Open : \A d \in Open : Beats(c, d)
  BY <1>1, <1>2, <1>3, <1>4
<1> QED
  BY <1>5, Sizes, <1>1 DEF MostOwed, Beats

\* A call of allocate begins.
LEMMA CallBegins ==
  ASSUME BudgetInv, NEW b \in Budgets, NEW candidates \in Candidates, Allocate(b, candidates)
  PROVE  BudgetInv'
<1>1. /\ budget' = b /\ left' = b /\ available' = candidates
      /\ take' = [c \in Classes |-> 0] /\ credit' = Earned(b)
  BY DEF Allocate
<1>2. b \in Nat /\ candidates \in [Classes -> Nat]
  BY BudgetAssumption
<1>3. Sum(take') = 0 /\ take' \in [Classes -> Nat]
  BY <1>1, Sizes DEF Sum
<1>4. ASSUME NEW c \in Classes PROVE credit'[c] \in Int /\ -Cap <= credit'[c] /\ credit'[c] <= Cap
  <2> DEFINE w == Weight[c] * b
  <2>1. w \in Nat
    <3>1. Weight[c] \in Nat
      BY BudgetAssumption
    <3> QED
      BY <1>2, <3>1
  <2>2. credit'[c] = BMin(credit[c] + w, Cap)
    BY <1>1 DEF Earned
  <2> HIDE DEF w
  <2>3. credit[c] \in Int /\ -Cap <= credit[c] /\ credit[c] <= Cap /\ Cap \in Nat
    BY Sizes DEF BudgetInv
  <2> QED
    BY <2>1, <2>2, <2>3 DEF BMin
<1>5. credit' \in [Classes -> Int]
  <2>1. credit' = [c \in Classes |-> credit'[c]]
    BY <1>1 DEF Earned
  <2> QED
    BY <1>4, <2>1
<1>6. \A c \in Classes : take'[c] <= available'[c]
  BY <1>1, <1>2
<1> QED
  BY <1>1, <1>2, <1>3, <1>4, <1>5, <1>6 DEF BudgetInv

\* A slot is handed out.
LEMMA SlotGoes ==
  ASSUME BudgetInv, HandOut
  PROVE  BudgetInv'
<1>1. PICK c \in Classes : MostOwed(c) /\ take' = [take EXCEPT ![c] = @ + 1] /\ credit' = Debited(c)
  BY DEF HandOut
<1>2. left # 0 /\ left' = left - 1 /\ available' = available /\ budget' = budget
  BY DEF HandOut, Finished
<1>3. take[c] < available[c]
  BY <1>1 DEF MostOwed, Open
<1>4. take' \in [Classes -> Nat] /\ \A d \in Classes : take'[d] = IF d = c THEN take[d] + 1 ELSE take[d]
  BY <1>1 DEF BudgetInv
<1>5. \A d \in Classes : take'[d] <= available'[d]
  BY <1>2, <1>3, <1>4 DEF BudgetInv
<1>6. Sum(take') = Sum(take) + 1
  <2>1. /\ take[0] \in Nat /\ take[1] \in Nat /\ take[2] \in Nat /\ c \in {0, 1, 2}
        /\ 0 \in Classes /\ 1 \in Classes /\ 2 \in Classes
    BY Sizes DEF BudgetInv
  <2> QED
    BY <1>4, <2>1 DEF Sum
<1>7. left' \in Nat /\ Sum(take') + left' = budget'
  <2>1. Sum(take) \in Nat
    BY Sizes DEF BudgetInv, Sum
  <2>2. Sum(take) + left = budget /\ left \in Nat /\ budget \in Nat
    BY DEF BudgetInv
  <2> QED
    BY <1>2, <1>6, <2>1, <2>2
<1>8. credit' = [credit EXCEPT ![c] = BMax(credit[c] - Total, -Cap)]
  BY <1>1 DEF Debited
<1>9. ASSUME NEW d \in Classes PROVE credit'[d] \in Int /\ -Cap <= credit'[d] /\ credit'[d] <= Cap
  <2>1. /\ credit[d] \in Int /\ -Cap <= credit[d] /\ credit[d] <= Cap
        /\ Cap \in Nat /\ Total \in Nat
    BY Sizes DEF BudgetInv
  <2>2. credit'[d] = IF d = c THEN BMax(credit[d] - Total, -Cap) ELSE credit[d]
    BY <1>8 DEF BudgetInv
  <2> HIDE DEF Cap, Total
  <2> QED
    BY <2>1, <2>2 DEF BMax
<1>10. credit' \in [Classes -> Int]
  <2>1. credit' = [d \in Classes |-> credit'[d]]
    BY <1>8 DEF BudgetInv
  <2> QED
    BY <1>9, <2>1
<1> QED
  BY <1>2, <1>4, <1>5, <1>7, <1>9, <1>10 DEF BudgetInv

\* Every step of Book::allocate, the start of a call and each slot, keeps the invariant.
LEMMA BudgetInvariant == SharesSpec => []BudgetInv
<1>1. SharesInit => BudgetInv
  <2> SUFFICES ASSUME Init PROVE BudgetInv
    BY DEF SharesInit
  <2>1. Cap \in Nat /\ Classes = {0, 1, 2}
    BY Sizes
  <2> HIDE DEF Cap
  <2> QED
    BY <2>1 DEF Init, BudgetInv, Sum
<1>2. BudgetInv /\ [SharesNext]_<<vars, drift>> => BudgetInv'
  <2> SUFFICES ASSUME BudgetInv, [SharesNext]_<<vars, drift>> PROVE BudgetInv'
    OBVIOUS
  <2>1. ASSUME NEW b \in Budgets, NEW candidates \in Candidates, AllocateCounted(b, candidates)
        PROVE  BudgetInv'
    BY <2>1, CallBegins DEF AllocateCounted
  <2>2. CASE HandOutCounted
    BY <2>2, SlotGoes DEF HandOutCounted
  <2>3. CASE UNCHANGED <<vars, drift>>
    BY <2>3 DEF vars, BudgetInv
  <2> QED
    BY <2>1, <2>2, <2>3 DEF SharesNext
<1> QED
  BY <1>1, <1>2, PTL DEF SharesSpec

----------------------------------------------------------------------------
\* When allocate returns, every slot of the budget is handed out or every candidate is
\* dialled, and never more than there are.
THEOREM BudgetIsSpent == SharesSpec => []BudgetIsUsed
<1>1. BudgetInv => BudgetIsUsed
  <2> SUFFICES ASSUME BudgetInv, Finished PROVE Sum(take) = BMin(budget, Sum(available))
    BY DEF BudgetInv, BudgetIsUsed
  <2>1. /\ take[0] \in Nat /\ take[1] \in Nat /\ take[2] \in Nat
        /\ available[0] \in Nat /\ available[1] \in Nat /\ available[2] \in Nat
        /\ take[0] <= available[0] /\ take[1] <= available[1] /\ take[2] <= available[2]
    BY Sizes DEF BudgetInv
  <2>2. budget \in Nat /\ left \in Nat /\ Sum(take) + left = budget
    BY DEF BudgetInv
  <2>3. CASE left = 0
    BY <2>1, <2>2, <2>3 DEF Sum, BMin
  <2>4. CASE Open = {}
    <3>1. take[0] = available[0] /\ take[1] = available[1] /\ take[2] = available[2]
      BY <2>1, <2>4, Sizes DEF Open
    <3> QED
      BY <2>1, <2>2, <3>1 DEF Sum, BMin
  <2> QED
    BY <2>3, <2>4 DEF Finished
<1> QED
  BY <1>1, BudgetInvariant, PTL

\* What allocate carries over in Book.credit never exceeds the cap in either direction,
\* and the loop never has a slot and a candidate without a class to choose.
CreditIsCapped ==
  /\ \A c \in Classes : -Cap <= credit[c] /\ credit[c] <= Cap
  /\ ~Finished => \E c \in Classes : MostOwed(c)

\* Every call of Book::allocate, and every slot it hands out, leaves the credit capped,
\* and its loop stops early only when no class has a candidate left.
THEOREM CreditStaysCapped == SharesSpec => []CreditIsCapped
<1>1. BudgetInv => CreditIsCapped
  BY SlotsFindAClass DEF BudgetInv, CreditIsCapped
<1> QED
  BY <1>1, BudgetInvariant, PTL
=============================================================================
