CONSTANTS
  Conn = {c1, c2}
  Emitter = {e1}
  Capacity = 1
  MaxEvents = 2
  MaxUpsets = 1
  None = None
SYMMETRY Symmetry
CHECK_DEADLOCK FALSE
SPECIFICATION Spec
INVARIANTS
  ViewOnce
  NothingMissed
  NoOldEraFrame
  PageComing
