SPECIFICATION Spec
SYMMETRY Symmetry
CONSTANTS
  Caller = {a, b}
  gopls = gopls
  workspace = workspace
  other = other
  third = third
  Server <- MCServers
  Root <- MCRoots
  DefaultRoot = workspace
  Wanted <- MCWanted
  Client = {1, 2, 3}
  MaxRestarts = 0
  MaxExtraRoots = 1
  MaxCalls = 3
  None = none
CHECK_DEADLOCK FALSE
INVARIANTS
 OneUpPerKey NoneLost PoolReported BudgetHolds WaitersHaveSpawner
