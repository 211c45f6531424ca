SPECIFICATION ProtocolSpec
CONSTANTS
    Apps = {1, 2}
    Kinds = {}
    IPC_MAX_CLIENTS = 2
    IPC_RECV_BUF = 3
    MaxSent = 2
    NoApp = 0
PROPERTY EveryoneConnects
