SPECIFICATION Spec
CONSTANTS
    p1 = p1
    p2 = p2
    t1 = t1
    t2 = t2
    t3 = t3
    NoProc = NoProc
    NoTxn = NoTxn
    Procs = {p1, p2}
    Txns = {t1, t2, t3}
    Files <- MCFiles
    Contents <- MCContents
    Fix <- MCFix
    Saves <- MCContents
    Protected = {}
    Env = {"race"}
    MaxSaves = 1
    MaxFaults = 0
INVARIANTS OnlySpacing
