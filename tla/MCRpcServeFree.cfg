CONSTANT MaxReqs = 4
SPECIFICATION Spec
INVARIANT ContextOutlivesPerform
CHECK_DEADLOCK FALSE
