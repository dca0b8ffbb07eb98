\* A broken state has no successor: the program may do anything.
CHECK_DEADLOCK FALSE
CONSTANTS
    MaxBuffer = 4
    MaxWindow = 2
    Commands = {"switch-to-buffer", "find-alternate-file"}
SPECIFICATION Spec
PROPERTIES KillAsked
