SPECIFICATION Spec
CONSTANTS
    MaxPolls = 30
    MaxApiErrors = 2
CHECK_DEADLOCK FALSE
INVARIANT FailureReported
