SPECIFICATION Spec
CONSTANTS
    MaxPolls = 30
    MaxApiErrors = 1
CHECK_DEADLOCK FALSE
INVARIANT FailsOnlyOnTimeout
