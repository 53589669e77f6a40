SPECIFICATION Spec
CONSTANTS
  Articles = {a1, a2}
  NoPost = NoPost
  Scores <- Enough
  Sub <- Up
  Crawls = {c1, c2}
  Day = 3
  Offset = 1
  Overdue = 6
  Period = 6
  Start = 0
  MaxTick = 13
  MaxCrashes = 1
SYMMETRY Symmetry
INVARIANTS RepeatExplained
