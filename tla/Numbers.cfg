SPECIFICATION Spec
CONSTANTS
    Byte = {"a", "nl", "T"}
    MAX_PAGE_SIZE = 3
    MapFile <- NoFile
    UsedCharsets = {"8bit", "utf8"}
    UsedEols = {"UNIX", "DOS"}
    MaxSize = 4
    MaxInsert = 2
    Ops = {"insert", "delete", "write", "pos", "char", "set-charset"}
    LetterBytes = {"a", "nl", "cr", "L2", "L3", "T"}
    MaxLetters = 5
INVARIANTS PosExact LineFound CharRoundTrip CharacterSteps
