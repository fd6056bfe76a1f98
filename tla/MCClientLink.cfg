SPECIFICATION FairSpec
CONSTANTS
    Socket = {k1, k2, k3}
    NoSocket = NoSocket
    MAX_RECONNECT_ATTEMPTS = 5
    MaxSaves = 2
INVARIANTS TypeOK NeverStranded ButtonOnlyOffline
PROPERTY Reconnects
CHECK_DEADLOCK FALSE
