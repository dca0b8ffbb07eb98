CONSTANTS
    NB_YANK_BUFFERS = 3
    Byte = {1, 2}
    MaxText = 2
    MaxTotal = 3
    None = None
SPECIFICATION Spec
INVARIANTS YankedRegion
PROPERTIES KillKeepsText ImplementsKillHistory
