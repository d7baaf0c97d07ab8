SPECIFICATION MCSpec
CONSTANTS
    a = a  b = b  c3 = c3
    Scenes = {"any"}
    MaxSessions = 2
    MaxReqsPerWake = 1
    HeaderLen = 1
    BodyLen = 1
    OutRoom = 1
    Clients = {a, b}
    Readers = {}
    Kinds = {"request"}
    EarlyClients = TRUE
    MaxFrames = 1
    MaxConnections = 1
INVARIANTS SlotFree
