SPECIFICATION Spec
CONSTANTS
    Hosts <- MixedHosts
    Switches <- MixedSwitches
    Ports <- MixedPorts
    Toward <- MixedToward
    Sockets <- MixedSockets
    Bytes <- MCBytes
    Traffic <- MixedTraffic
    Noises <- MCNoises
    Phantoms <- NoPhantoms
    PAYLOAD_MAX = 0
    PIPE_CAPACITY = 4
    TABLE_SIZE = 4
    QUEUE = 1
    FD_MAX = 2
    None = None
INVARIANTS
    NoLoop
