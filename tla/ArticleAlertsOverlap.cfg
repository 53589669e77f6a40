SPECIFICATION Spec
CONSTANTS
  Articles <- Three
  Id <- Twins
  Watches = {w1}
  Matches <- Later
  Checks = {c1, c2}
  Structs = {s1, s2}
  High = {}
  Loops = {l1}
  NoArticle = NoArticle
  FeedSize = 2
  QueueCap = 1
  Faults = {"read", "fetch", "html", "save", "commit", "stop", "restart",
            "elsewhere", "destroy"}
  MaxFaults = 1
  MaxOthers = 1
  MaxSaves = 5
SYMMETRY Symmetry
INVARIANTS TypeOK NotLost OnlyFound NoneSilent 
