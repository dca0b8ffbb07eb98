CONSTANTS
    Space = "s"
    Newline = "n"
    Byte = {"s", "n", "x"}
    NB_LOGS_MAX = 8
    MayEvict = FALSE
    MaxSize = 2
    MaxYank = 1
    Commands <- OverwriteUndo
SPECIFICATION Spec
PROPERTIES RedoRestores
