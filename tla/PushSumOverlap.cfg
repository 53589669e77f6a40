SPECIFICATION Spec
CONSTANTS
  Articles = {a1, a2}
  NoPost = NoPost
  Scores <- Low
  Sub <- Up
  Crawls = {c1, c2}
  Day = 3
  Offset = 1
  Overdue = 6
  Period = 1
  Start = 3
  MaxTick = 6
  MaxCrashes = 1
SYMMETRY Symmetry
INVARIANTS TypeOK Remembered
PROPERTY NoEarlyRepeat
