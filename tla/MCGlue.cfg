SPECIFICATION Spec
CONSTANTS
    Hosts <- MCHosts
    Switches <- MCSwitches
    Ports <- MCPorts
    Toward <- MCToward
    Traffic <- MCTraffic
    Bytes <- MCBytes
    Noises <- MCNoises
    Dirs <- MCDirs
    Files <- MCFiles
    UserCmds <- MCSetAndAsk
    PAYLOAD_MAX = 2
    PIPE_CAPACITY = 18
    TABLE_SIZE = 6
    PING_TIMER = 2
    MAX_FILE_BUFFER = 4
    MaxCmds = 3
    Glue <- MCGlue
    Letter <- MCLetter
    None = None
    NoCmd = NoCmd
PROPERTIES
    StateAnswered
