SPECIFICATION Spec
CONSTANTS
    Apps = {a, b}
    SeqSpace = 32
    DataMax = 2
    MaxAttempts = 2
    Isn = 30
    OutLen = 2
    InLen = 3
    MaxConn = 2
    Addresses = {1, 2}
    Ports = {1, 2}
    UdpSlots = 1
    Clients = {a}
    Homes = {1}
    Alone = TRUE
INVARIANTS RoomAsPromised CurrentConfiguration
PROPERTIES  OutputSettles
