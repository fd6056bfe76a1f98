SPECIFICATION FairSpec
CONSTANTS
    Client = {c1}
    Hub = {h1, h2}
    Sender = {s1, s2}
    Message = {m1}
    RoomIDs = {group, lobby}
    LobbyRoomID = lobby
    BroadcastCap = 1
    SendCap = 1
    NoHub = NoHub
PROPERTIES LobbyPermanent CallsReturn EmptyHubReclaimed
