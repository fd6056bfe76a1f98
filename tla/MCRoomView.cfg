SPECIFICATION Spec
CONSTANTS
    Room = {r1, r2}
    Sender = {s1, s2}
    Fetch = {f1, f2}
    HistoryLimit = 1
    MaxMessage = 2
    None = None
SYMMETRY Symmetry
INVARIANTS TypeOK NothingMissed BadgeClears
