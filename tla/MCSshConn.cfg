SPECIFICATION Spec
CONSTANT MaxLines = 2
CHECK_DEADLOCK FALSE
INVARIANT StderrComplete
INVARIANT WaitedOnce
INVARIANT CloseLeavesNothing
PROPERTY UnblocksWithoutChild
