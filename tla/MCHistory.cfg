CONSTANTS
    MaxId = 6
    Rewinds = 2
    Compacts = 1
    Forks = 1
    Crashes = 1
    Failures = 1
    Total = 4
    PerSecond = 3
    StrayId = 4
    Budget <- MCBudget
SPECIFICATION Spec
CHECK_DEADLOCK FALSE
CONSTRAINT StrayedBound
INVARIANTS Acyclic SweptIsChain DeadBranchesSkipped
PROPERTY ImplementsJournal
