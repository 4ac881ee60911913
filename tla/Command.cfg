SPECIFICATION Spec
CONSTANTS
    child = child
    d1 = d1
    d2 = d2
    Tasks = {child, d1, d2}
    Child = child
    Env = {"escape", "refuse"}
INVARIANTS TypeOK OutputComplete OkMeansUndisturbed KillIsFinal
PROPERTIES CallReturns InterruptStops
\* An invocation that has ended stays so.
CHECK_DEADLOCK FALSE
