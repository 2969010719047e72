SPECIFICATION Spec
CONSTANTS
    Configs <- MCConfigs
    MaxNode = 3
    None = None
INVARIANTS
    ListsInFileOrder
    LinkEndsMeet
    NoOrphans
    SoundNodesStay
PROPERTIES
    NodesComeUp
