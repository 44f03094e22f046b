SPECIFICATION FairJobSpec
CONSTANTS
  Killer = {k1, k2}
  Runner = runner
  Nobody = nobody
CHECK_DEADLOCK FALSE
INVARIANTS
 EndsOnce NoStallAfterEnd
PROPERTIES
  EndsUnlessStalling
