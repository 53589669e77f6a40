SPECIFICATION Spec
CONSTANTS
  Calls = {1, 2}
  Kinds <- MCKinds
  Templates = {t1}
  None = None
  MaxEdits = 1
  MaxDrops = 1
INVARIANTS TypeOK RepliesTrue
 
CHECK_DEADLOCK FALSE
