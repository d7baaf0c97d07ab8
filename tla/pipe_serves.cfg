SPECIFICATION MCSpec
CONSTANTS
    a = a  b = b  c3 = c3
    Scenes = {"frames", "clients"}
    MaxSessions = 2
    MaxReqsPerWake = 1
    HeaderLen = 2
    BodyLen = 1
    OutRoom = 1
    Clients = {a, b, c3}
    Readers = {a}
    Kinds = {"request", "malformed", "refused"}
    EarlyClients = TRUE
    MaxFrames = 2
    MaxConnections = 1
INVARIANTS TypeOK EventMeansDone FairShare SlotFree
PROPERTIES AnswersInOrder IdleGoFirst EveryRequestAnswered
