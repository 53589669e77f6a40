SPECIFICATION FairSpec
CONSTANTS
  Articles <- Three
  Id <- Seconds
  Watches = {w1}
  Matches <- Later
  Checks = {c1}
  Structs = {s1, s2}
  High = {}
  Loops = {l1}
  NoArticle = NoArticle
  FeedSize = 2
  QueueCap = 1
  Faults = {"html", "destroy", "restart"}
  MaxFaults = 1
  MaxOthers = 1
  MaxSaves = 3
PROPERTIES AlertsAsPromised EventuallyAlerted
