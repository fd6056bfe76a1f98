SPECIFICATION Spec
CONSTANTS
    User = {u1, u2, u3}
    Room = {r1}
    Request = {q1, q2}
    GroupMemberCap = 3
    FaultyDB = FALSE
    NoUser = NoUser
INVARIANT OwnerIsMember
