--------------------------- MODULE MCTransaction ---------------------------
(* Instances of Transaction for TLC: two source files, loosely or tightly  *)
(* spaced; "other" is content no fixer would produce.                      *)
EXTENDS TransactionProperties, TLC

CONSTANTS p1, p2, t1, t2, t3

MCFiles == {1, 2}
MCContents == {"loose", "tight", "other"}
MCFix == [c \in MCContents |-> IF c = "loose" THEN "tight" ELSE c]
Symmetry == Permutations({p1, p2}) \cup Permutations({t1, t2, t3})
============================================================================
