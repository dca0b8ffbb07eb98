SPECIFICATION Spec
CONSTANTS
    Byte = {"a", "nl"}
    MAX_PAGE_SIZE = 2
    MapFile <- File3
    UsedCharsets = {"8bit"}
    UsedEols = {"UNIX"}
    MaxSize = 5
    MaxInsert = 2
    Ops = {"insert", "insert-buffer", "delete", "write", "read", "mmap"}
INVARIANTS PagesFit CacheExact
PROPERTIES EditsExact ImplementsTextBuffer InsertEnds
