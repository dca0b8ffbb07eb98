CONSTANTS
    Space = "s"
    Newline = "n"
    Byte = {"x", "s", "n"}
    NB_LOGS_MAX = 6
    MayEvict = FALSE
    MaxSize = 2
    MaxYank = 2
    Commands <- EditCommands
SPECIFICATION SessionSpec
INVARIANTS LogSound LogReplays UndoInOrder
PROPERTIES RedoRestores FlagKept
