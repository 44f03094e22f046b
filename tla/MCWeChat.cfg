SPECIFICATION Spec
CONSTANTS
  User = {"ann", "bob"}
  Inbox <- MCInbox
  Notice = notice
  Capacity = 1
  MaxRuns = 2
  MaxOthers = 1
  MaxFaults = 2
  None = none
CHECK_DEADLOCK FALSE
INVARIANTS
 Accounted AtMostOnce TurnHasEnd
PROPERTY InOrder
