SPECIFICATION Spec
CONSTANTS
    Hosts <- MCHosts
    Switches <- MCSwitches
    Ports <- MCPorts
    Toward <- MCToward
    Bytes <- MCBytes
    Traffic <- MCTraffic
    Noises <- MCNoises
    PAYLOAD_MAX = 4
    PIPE_CAPACITY = 10
    TABLE_SIZE = 6
    MaxInFlight = 3
    None = None
CONSTRAINT FewInFlight
INVARIANTS
    RoutesPointHome
