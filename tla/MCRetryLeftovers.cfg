SPECIFICATION Spec
CONSTANT MaxAttempts = 3
INVARIANT NothingLeftAfterTimeout
