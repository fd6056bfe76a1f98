SPECIFICATION Spec
CONSTANTS
    Client = {c1, c2}
    Hub = {h1, h2}
    Sender = {s1, s2}
    Message = {m1, m2}
    RoomIDs = {group}
    LobbyRoomID = lobby
    BroadcastCap = 2
    SendCap = 1
    NoHub = NoHub
SYMMETRY Symmetry
INVARIANTS TypeOK OneHub AttachedServed IdleTimerArmed
PROPERTY RefinesFanout
