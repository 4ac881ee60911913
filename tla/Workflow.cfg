SPECIFICATION Spec
CONSTANTS
    N = 3
    Rust = {1, 2}
    Targets = {"lib", "test"}
    Compiles <- MCCompiles
    Needs <- MCNeeds
    Codes = {"c", "d", "unsorted", "mixed", "broken"}
    Prints = {"p", "q"}
    Findings <- MCFindings
    Hidden <- MCHidden
    Rustfmt <- MCRustfmt
    Inputs <- MCInputs
    Saves <- MCSaves
    Scribbles <- MCScribbles
    MaxSaves = 2
    MaxWrites = 2
    MaxCrashes = 1
INVARIANTS
    TypeOK
    CommitsVerified
    PassedIsClean
    NothingNewHidden
    FixIsFinal
    BaselineHolds
    CoversAll
PROPERTIES
    ImplementsAtomic
