SPECIFICATION Spec
CONSTANTS
  User = {u1, u2}
  Name = {n1, n2}
  Request = {q1, q2}
  Conn = {c1}
  Loads = {{"me", "rename"}, {"rename", "transfer"}, {"patch", "transfer", "delete"}}
  FeedCap = 1
  FaultyDB = TRUE
  Unnamed = Unnamed
  None = None
SYMMETRY Symm
INVARIANTS TypeOK RoomShownIsRow NamesAgree EmojiRoomKept SomebodyGoesOn
