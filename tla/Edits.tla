------------------------------- MODULE Edits -------------------------------
(***************************************************************************)
(* From the planner's decisions to bytes on disk: the diagnostics that the *)
(* lint emits for a source (lint/src/pass.rs), their collection over all   *)
(* targets (collect_edits of crates/cli/src/protocol.rs), the refusal of   *)
(* findings without a fix, and the application of the edits (apply).       *)
(*                                                                         *)
(* One workspace is linted by several rustc processes, the targets.  Each  *)
(* reads the same text and reports findings at gaps, in any order; rustc   *)
(* may withhold the suggestion of a finding.  Another process may write to *)
(* a file after it was linted.  Names of files, messages beside the blank  *)
(* lines they ask for, and rules are abstracted away.                      *)
(***************************************************************************)
EXTENDS SourceText

CONSTANTS Targets, Files, NoFile,
          Char,          \* the characters of the texts
          Workspaces,    \* a set of functions from Files to texts
          Late           \* the texts that a late write may leave

ASSUME CharAssumption == Trivia \subseteq Char
ASSUME TextAssumption == /\ Workspaces \subseteq [Files -> Seq(Char)]
                         /\ Late \subseteq Seq(Char)

VARIABLES
    orig,       \* the text of each file that the lint reads
    disk,       \* the text of each file now
    reported,   \* the planned items that each target has reported
    findings,   \* finding -> fixable
    edits,      \* the collected edits, in offsets of the raw text
    phase,
    written,    \* the files that apply has written
    file, data, todo,   \* apply: the file in work, its bytes, its edits left
    touched     \* a late write happened

vars == <<orig, disk, reported, findings, edits, phase, written, file, data,
          todo, touched>>

-----------------------------------------------------------------------------
(* What the planner may ask for, in offsets of the normalized text.        *)

\* Trivia between two statements; a trailing comment keeps what precedes the
\* first line break, a leading one the indentation after the last.
TriviaRuns(s) ==
    {r \in (1..Len(s)) \X (1..Len(s)) :
        /\ r[1] < r[2] /\ r[2] < Len(s)
        /\ AllTrivia(Slice(s, r[1], r[2]))
        /\ s[r[1]] \notin Trivia /\ s[r[2] + 1] \notin Trivia}
GapsOf(run, gap) ==
    IF LfPositions(gap) = {} THEN {run}
    ELSE {run[1], run[1] + FirstLf(gap) - 1} \X {run[2], run[1] + LastLf(gap)}
Gaps(s) == UNION {GapsOf(r, Slice(s, r[1], r[2])) : r \in TriviaRuns(s)}

Vertical(s, g) == LfPositions(Slice(s, g[1], g[2])) # {}
BlankLines(s, g) ==
    IF Vertical(s, g) THEN Cardinality(LfPositions(Slice(s, g[1], g[2]))) - 1 ELSE 0

\* A file that mixes line endings is an error of the lint: read_source.
\* Mutant: it is linted like any other.
ReadableAny(raw) == TRUE
Readable(raw) == ~Mixed(raw)

\* The findings at gaps with the wrong number of blank lines.
Items(f) ==
    LET raw == orig[f]
        s == Normalized(raw)
    IN  IF ~Readable(raw) THEN {}
        ELSE {i \in [file : {f}, gap : Gaps(s), blanks : 0..1, fix : BOOLEAN] :
                 /\ i.blanks # BlankLines(s, i.gap)
                 /\ i.fix => Vertical(s, i.gap)}

\* The set of edits of one target does not overlap: validate_edits.
Fits(t, i) ==
    \A j \in reported[t] :
        j.file = i.file => i.gap[2] <= j.gap[1] \/ j.gap[2] <= i.gap[1]

Planned(i) ==
    [start |-> i.gap[1], end |-> i.gap[2],
     fix |-> BlankLineReplacement(
                 Slice(Normalized(orig[i.file]), i.gap[1], i.gap[2]), i.blanks)]

-----------------------------------------------------------------------------
(* collect_edits.                                                          *)

\* The suggestion in the JSON output: raw offsets, line endings of the file.
Span(i) == [start |-> RawOffset(orig[i.file], i.gap[1]),
            end   |-> RawOffset(orig[i.file], i.gap[2])]
After(i) == OriginalNewlines(orig[i.file], Planned(i).fix)

Key(i) == <<i.file, i.gap, i.blanks>>

\* Mutant: the last target decides.
MergeLast(i) ==
    [k \in DOMAIN findings \cup {Key(i)} |->
        IF k = Key(i) THEN i.fix ELSE findings[k]]
\* Every target that reports a finding must have a fix for it.
Merge(i) ==
    [k \in DOMAIN findings \cup {Key(i)} |->
        IF k # Key(i) THEN findings[k]
        ELSE i.fix /\ (k \in DOMAIN findings => findings[k])]

Same(d, e) == d.file = e.file /\ d.start = e.start /\ d.end = e.end

\* Mutant: what is replaced may be anything.
AcceptableOver(e) ==
    /\ e.after \in Seq(Trivia)
    /\ \A d \in edits : Same(d, e) => d = e
\* Mutant: the last suggestion for a span wins.
AcceptableLast(e) == e.before \in Seq(Trivia) /\ e.after \in Seq(Trivia)
\* Whitespace only, and no other replacement for the same span.
Acceptable(e) ==
    /\ e.before \in Seq(Trivia) /\ e.after \in Seq(Trivia)
    /\ \A d \in edits : Same(d, e) => d = e

InRange(i) == /\ Span(i).start \in 0..Span(i).end
              /\ Span(i).end \in 0..Len(disk[i.file])
EditOf(i) ==
    LET s == Span(i)
    IN  [file |-> i.file, start |-> s.start, end |-> s.end,
         before |-> Slice(disk[i.file], s.start, s.end), after |-> After(i)]

Insert(e) == {d \in edits : ~Same(d, e)} \cup {e}

Report(t, i) ==
    /\ phase = "collect"
    /\ i \notin reported[t] /\ Fits(t, i)
    /\ reported' = [reported EXCEPT ![t] = @ \cup {i}]
    /\ findings' = Merge(i)
    /\ IF i.fix
       THEN IF InRange(i) /\ Acceptable(EditOf(i))
            THEN edits' = Insert(EditOf(i)) /\ UNCHANGED phase
            ELSE phase' = "rejected" /\ UNCHANGED edits
       ELSE UNCHANGED <<edits, phase>>
    /\ UNCHANGED <<orig, disk, written, file, data, todo, touched>>

EditsOf(f) == {e \in edits : e.file = f}

\* The end of collect_edits, the errors of the lint, and execute's refusal.
CollectEnd ==
    /\ phase = "collect"
    /\ phase' = IF \/ \E f \in Files : Overlapping(EditsOf(f))
                   \/ \E f \in Files : ~Readable(orig[f])
                THEN "rejected"
                ELSE IF \E k \in DOMAIN findings : ~findings[k]
                THEN "refused" ELSE "apply"
    /\ UNCHANGED <<orig, disk, reported, findings, edits, written, file, data,
                   todo, touched>>

-----------------------------------------------------------------------------
(* apply.                                                                  *)

OpenFile(f) ==
    /\ phase = "apply"
    /\ EditsOf(f) # {} /\ f \notin written
    /\ phase' = "splice"
    /\ file' = f /\ data' = disk[f] /\ todo' = EditsOf(f)
    /\ UNCHANGED <<orig, disk, reported, findings, edits, written, touched>>

\* Mutant: the edits are applied from the start of the file.
IsNextFirst(e) == e \in todo /\ \A d \in todo : d.start >= e.start
\* group.sort_by_key(|edit| Reverse(edit.start))
IsNext(e) == e \in todo /\ \A d \in todo : d.start <= e.start

\* Mutant: what the edit replaces is not compared.
StaleLength(e) == e.end > Len(data)
Stale(e) == \/ e.end > Len(data)
            \/ Slice(data, e.start, e.end) # e.before

SpliceEdit(e) ==
    /\ phase = "splice" /\ IsNext(e)
    /\ IF Stale(e)
       THEN phase' = "stale" /\ UNCHANGED <<data, todo>>
       ELSE /\ data' = Splice(data, e.start, e.end, e.after)
            /\ todo' = todo \ {e}
            /\ UNCHANGED phase
    /\ UNCHANGED <<orig, disk, reported, findings, edits, written, file, touched>>

WriteFile ==
    /\ phase = "splice" /\ todo = {}
    /\ disk' = [disk EXCEPT ![file] = data]
    /\ written' = written \cup {file}
    /\ phase' = "apply"
    /\ UNCHANGED <<orig, reported, findings, edits, file, data, todo, touched>>

ApplyEnd ==
    /\ phase = "apply"
    /\ \A f \in Files : EditsOf(f) = {} \/ f \in written
    /\ phase' = "done"
    /\ UNCHANGED <<orig, disk, reported, findings, edits, written, file, data,
                   todo, touched>>

\* Another process writes to the replica, once in a behaviour.
LateWrite(f) ==
    /\ ~touched
    /\ phase \in {"collect", "apply", "splice"}
    /\ \E text \in Late : disk' = [disk EXCEPT ![f] = text]
    /\ touched' = TRUE
    /\ UNCHANGED <<orig, reported, findings, edits, phase, written, file, data, todo>>

Over == /\ phase \in {"rejected", "refused", "stale", "done"}
        /\ UNCHANGED vars

-----------------------------------------------------------------------------
Init == /\ orig \in Workspaces
        /\ disk = orig
        /\ reported = [t \in Targets |-> {}]
        /\ findings = <<>>
        /\ edits = {}
        /\ phase = "collect"
        /\ written = {}
        /\ file = NoFile /\ data = <<>> /\ todo = {}
        /\ touched = FALSE

Next == \/ \E t \in Targets, f \in Files : \E i \in Items(f) : Report(t, i)
        \/ CollectEnd
        \/ \E f \in Files : OpenFile(f)
        \/ \E e \in todo : SpliceEdit(e)
        \/ WriteFile
        \/ ApplyEnd
        \/ \E f \in Files : LateWrite(f)
        \/ Over

Spec == Init /\ [][Next]_vars

-----------------------------------------------------------------------------
(* Properties.                                                             *)

Edit == [file : Files, start : Nat, end : Nat, before : Seq(Trivia), after : Seq(Trivia)]

\* Every variable keeps its range, and only edits of the file in work are due.
TypeOK ==
    /\ orig \in [Files -> Seq(Char)]
    /\ disk \in [Files -> Seq(Char)]
    /\ findings \in [DOMAIN findings -> BOOLEAN]
    /\ edits \subseteq Edit
    /\ phase \in {"collect", "rejected", "refused", "apply", "splice", "stale", "done"}
    /\ written \subseteq Files
    /\ file \in Files \cup {NoFile}
    /\ phase = "splice" => file \in Files
    /\ data \in Seq(Char)
    /\ todo \subseteq edits
    /\ \A e \in todo : e.file = file
    /\ touched \in BOOLEAN

AllItems == UNION {reported[t] : t \in Targets}
Fixes(f) == {Planned(i) : i \in {j \in AllItems : j.file = f /\ j.fix}}

\* What the planner decided is what ends on disk: reading the result as the
\* compiler does gives the planned edits applied to what the compiler read,
\* and the byte order mark and the line endings of the file are kept.
PlanApplied ==
    phase = "done" /\ ~touched =>
        \A f \in Files :
            /\ Normalized(disk[f]) = ApplyEdits(Normalized(orig[f]), Fixes(f))
            /\ HasBom(disk[f]) = HasBom(orig[f])
            /\ AnyCrLf(disk[f]) = AnyCrLf(orig[f])
            /\ AnyLf(disk[f]) = AnyLf(orig[f])

\* Whatever another process writes into the replica, applying edits removes
\* and adds nothing but whitespace: each file has the code of its original or
\* of a text that the other process wrote.
CodeKept ==
    \A f \in Files : \E text \in {orig[f]} \cup Late : Code(disk[f]) = Code(text)

Contradict(d, e) == \/ d.start = e.start /\ d.end = e.end /\ d # e
                    \/ d.start < e.end /\ e.start < d.end /\ d # e

\* In whichever order targets report, a collection is given up exactly if two
\* targets ask for different text in one place (or a file mixes its line
\* endings): a duplicate is no conflict, and no conflict hides behind one.
VerdictIsExact ==
    ~touched /\ phase # "collect" =>
        (phase = "rejected" <=>
            \E f \in Files : \/ Mixed(orig[f])
                             \/ \E d, e \in Fixes(f) : Contradict(d, e))

\* Nothing is applied if any target reported a finding without a fix, even
\* where another target had one for the same finding.
AppliesOnlyAgreed ==
    phase \in {"apply", "splice", "stale", "done"} => \A i \in AllItems : i.fix

\* Unless another process writes to the replica, no edit is ever found stale:
\* the edits of a file do not disturb each other.
NeverStale == ~touched => phase # "stale"
=============================================================================
