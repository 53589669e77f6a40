SPECIFICATION Spec
CONSTANTS
  Users = {u1, u2}
  Chats = {c1, c2}
  Codes = {k1, k2}
  Requests = {r1, r2}
  None = None
  Empty = Empty
SYMMETRY Symmetry

PROPERTIES CodeForEveryone
