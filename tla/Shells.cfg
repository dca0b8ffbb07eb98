CONSTANTS
    Addr = {1, 2}
    MaxPid = 2
    MaxFd = 2
    MaxUnread = 1
SPECIFICATION Spec
INVARIANTS HandlersOwned
PROPERTIES ExitNoticed OutputRead
CHECK_DEADLOCK FALSE
