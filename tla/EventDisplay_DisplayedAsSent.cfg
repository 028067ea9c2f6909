SPECIFICATION Spec
CONSTANT MaxChunks = 2
CHECK_DEADLOCK FALSE
INVARIANT DisplayedAsSent
