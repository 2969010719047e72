SPECIFICATION Spec
CONSTANTS
    Hosts <- MCHosts
    Switches <- MCSwitches
    Ports <- MCPorts
    Toward <- MCToward
    Traffic <- MCTraffic
    Bytes <- MCBytes
    Noises <- MCNoises
    Dirs <- MCDirs
    Files <- MCFiles
    UserCmds <- MCPings
    PAYLOAD_MAX = 4
    PIPE_CAPACITY = 12
    TABLE_SIZE = 6
    PING_TIMER = 2
    MAX_FILE_BUFFER = 4
    MaxCmds = 2
    Glue = 7
    Letter = 7
    None = None
    NoCmd = NoCmd
INVARIANTS
    AckMeansReachable
