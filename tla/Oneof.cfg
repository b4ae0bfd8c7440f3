SPECIFICATION Spec
INVARIANT TerminalNull
CHECK_DEADLOCK FALSE
