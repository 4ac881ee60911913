SPECIFICATION Spec
CONSTANTS
    Targets = {t1, t2}
    Files = {"a", "b"}
    NoFile = NoFile
    Char <- MCChar
    Workspaces <- MCWorkspaces
    Late <- MCLate
SYMMETRY Symmetry
INVARIANTS
    TypeOK
    PlanApplied
    CodeKept
    VerdictIsExact
    AppliesOnlyAgreed
    NeverStale
