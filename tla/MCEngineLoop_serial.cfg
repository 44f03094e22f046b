SPECIFICATION FairSpec
CONSTANTS
  m1 = m1  p1 = p1  n1 = n1  n2 = n2
  Direct <- None
  Prompt <- OnePrompt
  Notice <- TwoNotices
  Later <- LastNotice
  MaxTurns = 0
  MaxExtra = 1
  MaxCompacts = 1
CHECK_DEADLOCK FALSE
INVARIANTS Exclusive NothingLost
PROPERTIES EndsAnswered ImplementsBox
