SYMMETRY Symmetry
SPECIFICATION Spec
CONSTANTS
  Caller = {a, b}
  Reloader = reloader
  Config = {old, new}
  Dial = {1, 2, 3}
  MaxCalls = 2
  MaxReloads = 1
  None = none
CHECK_DEADLOCK FALSE
INVARIANTS
 SingleDial NothingAfterClose DrainedFirst
PROPERTIES
  LostOnlyByAdoption
