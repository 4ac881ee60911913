SPECIFICATION Spec
CONSTANTS
    Locals <- MCLocals
    Fields <- MCFields
    Callees <- MCCallees
    Handlers <- MCHandlers
    Texts <- MCTexts
    Inputs <- MCInputs
INVARIANTS
    TypeOK
    Settles
    Idempotent
    ClosureReached
    PairKept
    Licensed
    SuppressedStaysSilent
PROPERTIES
    JoinsStand
