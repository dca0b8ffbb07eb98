\* A broken state has no successor: the program may do anything.
CHECK_DEADLOCK FALSE
CONSTANTS
    MaxBuffer = 3
    MaxWindow = 3
    Commands = {"switch-to-buffer", "kill-buffer", "find-file",
                "find-alternate-file", "split-window",
                "delete-window", "delete-other-windows", "other-window", "help"}
SPECIFICATION Spec
INVARIANTS NothingDangles PromptsAnswerable PromptsFresh
PROPERTIES KillAskedInWindow
