SPECIFICATION Spec
CONSTANTS
  u1 = u1  u2 = u2
  lower = lower  upper = upper  pair = pair  thread = thread
  x = x  y = y  z = z
  Users = {u1, u2}
  Items = {lower, upper, pair, thread}
  Articles = {thread}
  Folded <- MCFolded
  ValuesOf <- MCValuesOf
  Values = {x, y, z}
  Inputs <- MCInputs
  Roles <- MCRoles
  Seed <- MCSeed
  Offers <- MCOffers
  RoleOf <- MCRoleOf
  Given = {"admin", "user"}
  Built = {"admin", "user"}
  Default = 3
  ArticleMax = 1
  Handlers = {h1, h2}
  Workers = {w1, w2}
  None = None
  Gone = Gone
  MaxRequests = 3
  MaxFaults = 1
SYMMETRY Perms
INVARIANTS TypeOK RankLaw QuotaLaw
PROPERTIES OwnRowsOnly
CHECK_DEADLOCK FALSE
