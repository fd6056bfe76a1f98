SPECIFICATION Spec

CONSTANTS
    Conn = {c1, c2}
    Request = {q1}
    Verbs = {"leave"}
    Faults = {}
    SendCap = 2
    c1 = c1
    c2 = c2
    q1 = q1
    NoConn = NoConn

SYMMETRY Symmetry

INVARIANTS
    HubSurvives

\* The server may be quiet or dead.
CHECK_DEADLOCK FALSE
