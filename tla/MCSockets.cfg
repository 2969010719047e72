SPECIFICATION Spec
CONSTANTS
    Hosts <- MCHosts
    Switches <- MCSwitches
    Ports <- MCPorts
    Toward <- MCToward
    Sockets <- MCSockets
    Bytes <- MCBytes
    Traffic <- MCTraffic
    Noises <- MCNoises
    Phantoms <- MCPhantoms
    PAYLOAD_MAX = 0
    PIPE_CAPACITY = 4
    TABLE_SIZE = 4
    QUEUE = 1
    FD_MAX = 2
    None = None
INVARIANTS
    SockTypeOK
    RoutesPointHome
PROPERTIES
    SendersGoOn
    QueuesMove
