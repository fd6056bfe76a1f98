SPECIFICATION Spec
CONSTANTS
    Conn = {c1}
    Request = {q1, q2}
    Verbs = {"create", "join", "leave", "delete"}
    Faults = {"snapshot", "user", "room"}
    SendCap = 1
    c1 = c1
    q1 = q1
    q2 = q2
    NoConn = NoConn
SYMMETRY Symmetry
INVARIANTS TypeOK JoinReachesLive LeaveDetaches ListAgrees ClosedLeavesHub RequestsProceed
\* The server may be quiet or dead.
CHECK_DEADLOCK FALSE
