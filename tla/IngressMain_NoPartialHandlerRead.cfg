SPECIFICATION Spec
INVARIANT NoPartialHandlerRead
