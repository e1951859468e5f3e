SPECIFICATION FairSpec
CONSTANTS
  NumRuns = 3
  NumEnvs = 2
  Wants <- PoolAndOneNamed
  Configured = {1}
  Budgets = {0, 1}
  Faults <- AllFaults
INVARIANT TypeOK
PROPERTIES
  ServedInTurn
  BudgetAsAsked
  Served
CHECK_DEADLOCK FALSE
