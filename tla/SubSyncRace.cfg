SPECIFICATION Spec
CONSTANTS
  Users = {u1}
  Boards = {b1}
  SubTypes = {"keyword"}
  Values = {v1}
  Chats = {c1}
  NoChat = NoChat
  NoData = NoData
  Procs = {p1, p2}
  Quota <- Unlimited
  MaxId = 2
  MaxFaults = 1
  Serial = FALSE
SYMMETRY Symmetry
INVARIANTS TypeOK CoverInv ScannedInv DataInv DeletedForGood
