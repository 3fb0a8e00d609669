SPECIFICATION SharesSpec
CONSTANTS
  Weight <- MCWeight
  CREDIT_CAP = 4
  Budgets = {1, 10}
  Candidates <- MCCandidates
INVARIANTS
  BudgetIsUsed
  WithinShare
PROPERTIES
  BadNotStarved
