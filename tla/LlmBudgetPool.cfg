SPECIFICATION BudgetSpec
CONSTANTS
  BudgetRequests = {r1, r2}
  Basic = {trial}
  Paying = {senior}
  MaxCost = 2
  Cap = 2
  Contributions = {1}
  Months = 2
  Mortal = FALSE
  MaxWrites = 3
SYMMETRY RequestSymmetry
INVARIANT
  ContributionsReachPool
