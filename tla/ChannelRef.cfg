SPECIFICATION Spec
CONSTANTS
    Letters = {"a", "b"}
    MaxLen = 5
INVARIANT PathParseMatchesReference
INVARIANT HostParseMatchesReference
