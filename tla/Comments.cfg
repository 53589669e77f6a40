SPECIFICATION Spec
CONSTANTS
  MaxComments = 3
  At <- Minutes
  Shift = 1
  Checks = {k1, k2}
  Writers = {w1}
  Faults = {"busy", "subscribers", "delete", "del", "save", "stop", "restart"}
  MaxFaults = 1
  MaxOverlaps = 1
  MaxWrites = 1
INVARIANTS TypeOK NoneMissed RepeatExplained TrackedUntilGone
PROPERTIES ToldInTheEnd
CHECK_DEADLOCK FALSE
