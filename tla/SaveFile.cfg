CONSTANTS
    Files = {"f", "g"}
    Block = {1}
    \* 04755
    Modes = {2541}
    IOBUF_SIZE = 2
    MaxSize = 2
    MaxCommands = 3
SPECIFICATION Spec
INVARIANTS Recoverable UnmodifiedOnDisk MappedReadable
PROPERTIES ModeKept SaveEnds
CHECK_DEADLOCK FALSE
