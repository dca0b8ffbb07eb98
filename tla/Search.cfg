SPECIFICATION Spec
CONSTANTS
    Word = {"a"}
    Newline = "nl"
    MaxPattern = 2
    SEARCH_STEPS = 2
    MaxSize = 4
    MaxReplaced = 3
    MaxSearched = 2
    MaxEvents = 2
INVARIANTS AskedFirst
PROPERTIES StepsTakenBack RepeatAdvances ReplaceStringExact LinesDeleted ReplaceEnds
