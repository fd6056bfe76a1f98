SPECIFICATION FairSpec
CONSTANTS
  Conn = {c1, c2, c3}
  Pid = {p1, p2}
  NoPid = NoPid
  NoConn = NoConn
INVARIANTS JoinedIsCounted GhostsAreDropped CountIsRight EmptyIsTimed
PROPERTIES RefinesRoster JoinsReturn
