SPECIFICATION Spec
CONSTANTS
    child = child
    d1 = d1
    d2 = d2
    Tasks = {child, d1, d2}
    Child = child
    Env = {"escape"}
PROPERTIES TimeoutBounds
\* An invocation that has ended stays so.
CHECK_DEADLOCK FALSE
