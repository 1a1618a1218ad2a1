SPECIFICATION Spec
CONSTANTS
    Null = Null
    Events = {"e1", "e2"}
    Second = {"e2"}
    MaxUser = 2
INVARIANT
    ShownIsOwn
CHECK_DEADLOCK FALSE
