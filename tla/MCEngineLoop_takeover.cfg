SPECIFICATION FairSpec
CONSTANTS
  m1 = m1  p1 = p1  n1 = n1  n2 = n2
  Direct <- OneMessage
  Prompt <- None
  Notice <- OneNotice
  Later <- None
  MaxTurns = 1
  MaxExtra = 1
  MaxCompacts = 1
CHECK_DEADLOCK FALSE
INVARIANTS NoStranded JoinedIsQuiet
PROPERTIES ImplementsLock ComesToRest
