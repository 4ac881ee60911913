------------------------------ MODULE MCEdits ------------------------------
(* Texts with the cases in which raw and normalized offsets part: CRLF, a  *)
(* byte order mark, a stray CR, indentation, mixed line endings.           *)
EXTENDS Edits

MCChar == Trivia \cup {"bom", "x", "y", "z"}

\* Two gaps; statements are single characters.
Plain   == <<"x", "lf", "lf", "sp", "y", "lf", "z">>
Windows == <<"bom", "x", "cr", "lf", "y", "cr", "lf", "cr", "lf", "z">>
StrayCr == <<"x", "cr", "cr", "lf", "cr", "lf", "y">>
Blended == <<"x", "cr", "lf", "cr", "lf", "y", "lf", "z">>
Compact == <<"x", "sp", "y", "lf", "lf", "lf", "z">>

Small == <<"x", "lf", "y">>

MCWorkspaces == [{"a", "b"} -> {Small, Windows, StrayCr}]
                \cup {[f \in {"a", "b"} |-> IF f = "a" THEN t ELSE Small] :
                        t \in {Plain, Blended, Compact}}
\* Shorter, shifted by one character, and other code in the same places.
MCLate == {<<"x">>, <<"z", "x", "lf", "lf", "y", "lf", "z">>}

Symmetry == Permutations(Targets)
=============================================================================
