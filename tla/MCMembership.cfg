SPECIFICATION Spec
CONSTANTS
    User = {u1, u2, u3, u4}
    Room = {r1}
    Request = {q1, q2}
    GroupMemberCap = 3
    FaultyDB = TRUE
    NoUser = NoUser
SYMMETRY Symmetry
INVARIANTS OwnerColumnAgrees MembersWithinCap NoOrphanRows PrivateByInvite
PROPERTY RefinesBook
