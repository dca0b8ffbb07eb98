\* The editor stops when it is left.
CHECK_DEADLOCK FALSE
CONSTANT N = 3
SPECIFICATION Spec
INVARIANTS QuitScan ExitAccounted
PROPERTIES QuitProgress
