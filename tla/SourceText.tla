----------------------------- MODULE SourceText -----------------------------
(***************************************************************************)
(* Texts as crates/core/src/text.rs and edits.rs see them: the raw text of *)
(* a file, the text rustc and the planner work on (no byte order mark, LF  *)
(* for CRLF), the offsets of one in the other, and whitespace edits.       *)
(*                                                                         *)
(* A text is a sequence of characters: "bom", "cr", "lf", "sp" (space or   *)
(* tab) and anything else, which stands for code.  Offsets count from 0.   *)
(***************************************************************************)
EXTENDS Integers, FiniteSets, SequencesExt

Trivia == {"sp", "cr", "lf"}
AllTrivia(s) == \A i \in 1..Len(s) : s[i] \in Trivia

\* The values of x at those of the first n positions that are picked, in order.
Gather(x, picked, n) ==
    LET first[k \in 0..n] ==
            IF k = 0 THEN <<>>
            ELSE IF k \in picked THEN Append(first[k - 1], x[k]) ELSE first[k - 1]
    IN  first[n]

\* What is left of s without its trivia.
Code(s) == Gather(s, {n \in 1..Len(s) : s[n] \notin Trivia}, Len(s))

Slice(s, start, end) == SubSeq(s, start + 1, end)
Splice(s, start, end, new) ==
    SubSeq(s, 1, start) \o new \o SubSeq(s, end + 1, Len(s))

-----------------------------------------------------------------------------
(* SourceText.                                                             *)

CrLfAt(raw, i) == i \in 1..(Len(raw) - 1) /\ raw[i] = "cr" /\ raw[i + 1] = "lf"
LfAt(raw, i) == raw[i] = "lf" /\ ~CrLfAt(raw, i - 1)
HasBom(raw) == raw # <<>> /\ raw[1] = "bom"

\* The raw positions the loop visits: not the mark, not the LF of a CRLF.
Visited(raw) ==
    {i \in 1..Len(raw) : ~CrLfAt(raw, i - 1) /\ (HasBom(raw) => i # 1)}
InOrder(positions, n) == Gather([i \in 1..n |-> i], positions, n)
VisitedSeq(raw) == InOrder(Visited(raw), Len(raw))

Normalized(raw) ==
    LET v == VisitedSeq(raw)
    IN  [k \in 1..Len(v) |-> IF CrLfAt(raw, v[k]) THEN "lf" ELSE raw[v[k]]]

\* Mutant: the byte order mark counts as a character of the normalized text.
RawOffsetWithBom(raw, n) ==
    LET v == InOrder({i \in 1..Len(raw) : ~CrLfAt(raw, i - 1)}, Len(raw))
    IN  Append(v, Len(raw) + 1)[n + 1] - 1
\* normalized_to_raw; rustc translates the spans of its JSON output alike.
RawOffset(raw, n) == Append(VisitedSeq(raw), Len(raw) + 1)[n + 1] - 1

AnyCrLf(raw) == \E i \in 1..Len(raw) : CrLfAt(raw, i)
AnyLf(raw) == \E i \in 1..Len(raw) : LfAt(raw, i)
IsCrLf(raw) == AnyCrLf(raw) /\ ~AnyLf(raw)
Mixed(raw) == AnyCrLf(raw) /\ AnyLf(raw)

\* Mutant: the replacement keeps its LFs.
OriginalNewlinesLf(raw, s) == s
OriginalNewlines(raw, s) ==
    IF IsCrLf(raw)
    THEN FlattenSeq([i \in 1..Len(s) |-> IF s[i] = "lf" THEN <<"cr", "lf">> ELSE <<s[i]>>])
    ELSE s

-----------------------------------------------------------------------------
(* Edits.                                                                  *)

LfPositions(gap) == {i \in 1..Len(gap) : gap[i] = "lf"}
FirstLf(gap) == CHOOSE i \in LfPositions(gap) : \A j \in LfPositions(gap) : i <= j
LastLf(gap)  == CHOOSE i \in LfPositions(gap) : \A j \in LfPositions(gap) : j <= i

\* blank_line_replacement, for a gap that is trivia and has a line break.
BlankLineReplacement(gap, blanks) ==
    SubSeq(gap, 1, FirstLf(gap)) \o [i \in 1..blanks |-> "lf"]
        \o SubSeq(gap, LastLf(gap) + 1, Len(gap))

\* Two edits of one text, in any order, that validate_edits and collect_edits
\* call overlapping; consecutive edits are compared, in the order of spans.
Before(d, e) == d.start < e.start \/ (d.start = e.start /\ d.end < e.end)
Clash(d, e) == d.end > e.start \/ d.start = e.start
Consecutive(d, e, E) ==
    Before(d, e) /\ ~\E x \in E : Before(d, x) /\ Before(x, e)
Overlapping(E) == \E d, e \in E : Consecutive(d, e, E) /\ Clash(d, e)

\* The edit of E that starts at an offset of the source, if any does.
EditAt(s, E, offset) ==
    LET here == {d \in E : d.start = offset}
        e == CHOOSE d \in here : TRUE
    IN  IF here = {} THEN s ELSE Splice(s, e.start, e.end, e.fix)

\* apply_edits: edits [start, end, fix] in the coordinates of the source, no two
\* with one start, are applied from its end to its start.
ApplyEdits(source, E) ==
    LET after[n \in 0..(Len(source) + 1)] ==    \* those in the last n offsets
            IF n = 0 THEN source
            ELSE EditAt(after[n - 1], E, Len(source) + 1 - n)
    IN  after[Len(source) + 1]
=============================================================================
