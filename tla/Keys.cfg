SPECIFICATION Spec
CONSTANTS
    Keys = {11, 19, 21, 24, 40, 41, 50, 101}
    MaxTyped = 6
CHECK_DEADLOCK FALSE
INVARIANTS ReplayExact
PROPERTIES KeyHandled
