CONSTANTS
  a = a  b = b
  File <- MCFile
  Gone = Gone
  Nobody = Nobody
  Unreadable <- MCFile
  MaxSnapshots = 3
  MaxMessage = 3
  MaxWrites = 2
  MaxEvents = 2
SYMMETRY Symmetry
SPECIFICATION Spec
CHECK_DEADLOCK FALSE
INVARIANTS RewindUndoes BackupsHold
