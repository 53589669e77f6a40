SPECIFICATION FairSpec
CONSTANTS
  Users = {u1}
  Boards = {b1, b2}
  SubTypes = {"keyword"}
  Values = {v1, v2}
  Chats = {c1}
  NoChat = NoChat
  NoData = NoData
  Procs = {p1, p2}
  Quota = 2
  MaxId = 2
  MaxFaults = 0
  Serial = TRUE
INVARIANTS NoLostMember
PROPERTIES EventuallyListed
