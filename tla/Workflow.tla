------------------------------ MODULE Workflow ------------------------------
(***************************************************************************)
(* Invocations of cargo statement-spacing, one after the other, in one     *)
(* workspace: crates/cli/src/workflow.rs, the lint of cargo.rs and the     *)
(* baseline of baseline.rs.  An editor saves at any time; build scripts    *)
(* write to the tree that is linted; targets crash.                        *)
(*                                                                         *)
(* A text is its code, whether rustfmt accepts it, and its findings.  What *)
(* a finding says of its own fix:                                          *)
(*   clean   removes it          ugly    rustfmt rejects the result        *)
(*   reveals removes it and leaves another       none    there is no fix   *)
(*   breaks  changes the code                                              *)
(* Applying edits to text and committing several files are modelled in     *)
(* Edits and Transaction; here each is one step or a few.  rustfmt, which  *)
(* --format-first runs, may make anything of a text, as long as it leaves  *)
(* one alone that it accepts: it sorts imports, so that it may change the  *)
(* code, which here is the sequence of tokens, and the findings.           *)
(***************************************************************************)
EXTENDS Integers, FiniteSets, Sequences

CONSTANTS
    N,           \* files 1..N, in the order in which a scan reads them
    Rust,        \* those with the extension .rs
    Targets,     \* Cargo targets
    Compiles,    \* target -> its source files
    Needs,       \* target -> the targets that compile before it
    Codes, Prints,
    Findings,    \* [id, print, item, fix, denied, seen]
    Hidden,      \* the finding that a fix reveals
    Rustfmt,     \* text -> what rustfmt makes of it
    Inputs,      \* [project, plan]: the texts to start from, the invocations
    Saves,       \* file -> the texts that an editor saves
    Scribbles,   \* file -> the texts that build scripts write
    MaxSaves, MaxWrites, MaxCrashes

\* Whatever is left to compile, something of it can be: no target needs itself.
ASSUME NeedsAssumption ==
    /\ \A t \in Targets : Needs[t] \subseteq Targets
    /\ \A left \in SUBSET Targets : left # {} => \E t \in left : Needs[t] \cap left = {}

Files == 1..N
Options == [command : {"check", "fix"}, baseline : BOOLEAN, write : BOOLEAN,
            dry : BOOLEAN, first : BOOLEAN]
\* What main accepts: some options belong to one command, two of them conflict.
Invocation == {o \in Options :
    IF o.command = "check" THEN ~o.dry /\ ~o.first /\ ~(o.baseline /\ o.write)
                           ELSE ~o.baseline /\ ~o.write}
NoOptions == [command |-> "check", baseline |-> FALSE, write |-> FALSE,
              dry |-> FALSE, first |-> FALSE]
Text == [code : Codes, formatted : BOOLEAN, findings : SUBSET Findings]
ASSUME InputsAssumption == \A in \in Inputs : in.project \in [Files -> Text] /\ in.plan \in Seq(Invocation)
\* A target has at least its root file.
ASSUME FilesAssumption ==
    /\ N \in Nat /\ Rust \subseteq Files
    /\ \A t \in Targets : Compiles[t] \subseteq Files /\ Compiles[t] # {}
ASSUME FindingsAssumption ==
    IsFiniteSet(Findings) /\ \A x \in Findings : x.print \in Prints
ASSUME TextsAssumption ==
    /\ "broken" \in Codes /\ Hidden \in Findings
    /\ \A f \in Files : Saves[f] \cup Scribbles[f] \subseteq Text
ASSUME RustfmtAssumption ==
    /\ Rustfmt \in [Text -> Text]
    /\ \A x \in Text : x.formatted => Rustfmt[x] = x
\* The findings of a text are those that a target which compiles the file can
\* report, also after rustfmt; it has nothing to say of other files than Rust's.
Seen(f, x) == \E t \in Targets : f \in Compiles[t] /\ t \in x.seen
ASSUME SeenAssumption ==
    \A f \in Files :
        /\ \A text \in Saves[f] \cup Scribbles[f] \cup {in.project[f] : in \in Inputs} :
              /\ f \notin Rust => text.formatted
              /\ \A x \in text.findings : Seen(f, x)
        /\ (\E t \in Targets : f \in Compiles[t]) => Seen(f, Hidden)
        /\ f \in Rust => \A text \in Text :
              (\A x \in text.findings : Seen(f, x))
                  => \A x \in Rustfmt[text].findings : Seen(f, x)

VARIABLES
    project,     \* file -> text
    replica,     \* the copy that a fix works on
    user,        \* what was last saved to each file of the project
    admitted,    \* the baseline: fingerprint -> count
    plan,        \* the invocations to come
    options, status,
    pc,
    label,       \* which lint: declarations, initial, fixed
    scan,        \* the texts that the scan in progress has read
    original,    \* the scan of the project at the start
    before,      \* before_layout, before_lint and candidate
    seen,        \* target -> the texts whose diagnostics it sent
    reported,    \* the targets that wrote their handshake
    failed,      \* the targets that did not compile
    found,       \* lint -> its result
    remaining,   \* the findings of the first lint that the baseline leaves
    document,    \* the baseline to write
    changed,     \* the files to commit
    touched,     \* file -> how often others wrote to it since the start
    saves, writes, crashes,
    settled,     \* a fix succeeded, and nobody has saved since it began
    recorded     \* a baseline was written, and nobody has saved since then

work == <<scan, seen, reported, failed>>
results == <<found, remaining, document, changed>>
env == <<user, touched, plan, saves, writes, crashes, settled, recorded>>
vars == <<project, replica, admitted, options, status, pc, label, original,
          before, work, results, env>>

NoScan == <<>>
NoResult == [findings |-> {}, files |-> {}, tokens |-> <<>>]
NoPrint == "elsewhere"
Fingerprints == Files \X (Prints \cup {NoPrint})
NoDocument == [p \in Fingerprints |-> 0]
Labels == {"declarations", "initial", "fixed"}

\* Checking reads the project in place.
Tree == IF options.command = "check" THEN project ELSE replica

-----------------------------------------------------------------------------
(* The start.                                                              *)

Start ==
    /\ pc = "idle" /\ plan # <<>>
    /\ options' = Head(plan) /\ plan' = Tail(plan)
    /\ status' = "running"
    /\ pc' = "scan"
    /\ scan' = NoScan /\ seen' = [t \in Targets |-> <<>>] /\ reported' = {} /\ failed' = {}
    /\ found' = [l \in Labels |-> NoResult] /\ remaining' = {} /\ changed' = {}
    /\ document' = NoDocument
    /\ touched' = [f \in Files |-> 0]
    /\ label' = IF options'.first THEN "declarations" ELSE "initial"
    /\ replica' = project /\ original' = project /\ before' = project
    /\ UNCHANGED <<project, user, admitted, saves, writes, crashes, settled, recorded>>

\* The command returns; mutant: without a status in its report.
EndSilently(s) == pc' = "idle" /\ status' = status
End(s) == pc' = "idle" /\ status' = s

\* Snapshots are read one file after the other.
OfProject == {"scan", "assertOriginal", "assertAgain", "verify"}
OfTree == {"snapshot", "assert"}
ReadFile ==
    /\ pc \in OfProject \cup OfTree /\ Len(scan) < N
    /\ LET f == Len(scan) + 1
       IN  scan' = Append(scan, IF pc \in OfProject THEN project[f] ELSE Tree[f])
    /\ UNCHANGED <<project, replica, admitted, options, status, pc, label,
                   original, before, seen, reported, failed, results, env>>
Scanned(at) == pc = at /\ Len(scan) = N /\ scan' = NoScan

\* assert_snapshot; mutant: it compares the number of files.
MatchesCount(expected) == Len(scan) = Len(expected)
Matches(expected) == scan = expected

Original ==
    /\ Scanned("scan")
    /\ original' = scan
    /\ pc' = IF options.first THEN "copy" ELSE "fmtOriginal"
    /\ UNCHANGED <<project, replica, admitted, options, status, label, before,
                   seen, reported, failed, results, env>>

\* cargo fmt --check
Formatted(tree) == \A f \in Rust : tree[f].formatted
FmtOriginal ==
    /\ pc = "fmtOriginal"
    /\ IF Formatted(project) THEN pc' = "copy" /\ UNCHANGED status ELSE End("error")
    /\ UNCHANGED <<project, replica, admitted, options, label, original, before,
                   work, results, env>>

\* copy_snapshot reads every file again.
Copy ==
    /\ pc = "copy"
    /\ IF options.command = "check" THEN pc' = "snapshot" /\ UNCHANGED <<status, replica>>
       ELSE IF project = original
       THEN pc' = "snapshot" /\ replica' = original /\ UNCHANGED status
       ELSE End("error") /\ UNCHANGED replica
    /\ UNCHANGED <<project, admitted, options, label, original, before, work,
                   results, env>>

-----------------------------------------------------------------------------
(* lint: the scan before it, the targets, their reports, the scan after.   *)

Snapshot ==
    /\ Scanned("snapshot")
    /\ before' = scan
    /\ IF label = "fixed" /\ ~Formatted(Tree)
       THEN End("error") ELSE pc' = "lint" /\ UNCHANGED status
    /\ seen' = [t \in Targets |-> <<>>] /\ reported' = {} /\ failed' = {}
    /\ UNCHANGED <<project, replica, admitted, options, label, original, results, env>>

\* What a target finds in the texts it reads: pairs of a file and a finding.
FindingsIn(t, texts) ==
    {d \in Compiles[t] \X Findings : d[2] \in texts[d[1]].findings /\ t \in d[2].seen}
Texts(t) == [f \in Compiles[t] |-> Tree[f]]

Compilable(t) ==
    /\ seen[t] = <<>> /\ t \notin failed
    /\ Needs[t] \subseteq reported \ failed

\* A finding of a denied lint fails its target.
Compile(t) ==
    /\ pc = "lint" /\ Compilable(t)
    /\ seen' = [seen EXCEPT ![t] = Texts(t)]
    /\ reported' = reported \cup {t}
    /\ failed' = IF \E d \in FindingsIn(t, Texts(t)) : d[2].denied
                 THEN failed \cup {t} ELSE failed
    /\ UNCHANGED <<project, replica, admitted, options, status, pc, label, scan,
                   original, before, results, env>>

\* A crash without an error diagnostic, before or after its own diagnostics.
Crash(t) ==
    /\ pc = "lint" /\ Compilable(t) /\ crashes < MaxCrashes
    /\ seen' \in {seen, [seen EXCEPT ![t] = Texts(t)]}
    /\ failed' = failed \cup {t}
    /\ crashes' = crashes + 1
    /\ UNCHANGED <<project, replica, admitted, options, status, pc, label, scan,
                   original, before, reported, results, user, touched, saves,
                   writes, plan, settled, recorded>>

Spoken == {t \in Targets : seen[t] # <<>>}
Found == UNION {FindingsIn(t, seen[t]) : t \in Spoken}
CheckedFiles == UNION {Compiles[t] : t \in reported}
Tokens(f) == {seen[t][f].code : t \in {t \in reported : f \in Compiles[t]}}

Fixable(findings) == {d \in findings : d[2].fix # "none"}

\* The reports are accepted; mutant: although a target failed.
AcceptedFailed ==
    /\ reported # {}
    /\ \A f \in CheckedFiles : Cardinality(Tokens(f)) = 1
    /\ \A d \in Fixable(Found) : d[1] \in CheckedFiles
Accepted ==
    /\ reported # {}
    /\ failed # {} => Found # {}
    /\ \A f \in CheckedFiles : Cardinality(Tokens(f)) = 1
    /\ \A d \in Fixable(Found) : d[1] \in CheckedFiles

LintEnd ==
    /\ pc = "lint"
    /\ failed # {} \/ \A t \in Targets : ~Compilable(t)
    /\ IF Accepted
       THEN /\ found' = [found EXCEPT ![label] =
                   [findings |-> Found, files |-> CheckedFiles,
                    tokens |-> [f \in CheckedFiles |-> CHOOSE c \in Tokens(f) : TRUE]]]
            /\ pc' = "assert" /\ UNCHANGED status
       ELSE End("error") /\ UNCHANGED found
    /\ UNCHANGED <<project, replica, admitted, options, label, original, before,
                   work, remaining, document, changed, env>>

Assert ==
    /\ Scanned("assert")
    /\ IF Matches(before)
       THEN /\ pc' = CASE label = "declarations" -> "layout"
                       [] label = "initial"      -> "baseline"
                       [] label = "fixed"        -> "gates"
            /\ UNCHANGED status
       ELSE End("error")
    /\ UNCHANGED <<project, replica, admitted, options, label, original, before,
                   seen, reported, failed, results, env>>

-----------------------------------------------------------------------------
(* Edits.                                                                  *)

Fixes(f, edits) == {x \in Findings : <<f, x>> \in edits}
Edited(text, fixes) ==
    LET with(kind) == \E x \in fixes : x.fix = kind
    IN  [code |-> IF with("breaks") THEN "broken" ELSE text.code,
         formatted |-> text.formatted /\ ~with("ugly"),
         findings |-> (text.findings \ fixes)
                      \cup (IF with("reveals") THEN {Hidden} ELSE {})]
Applied(tree, edits) == [f \in Files |-> Edited(tree[f], Fixes(f, edits))]
\* protocol::apply refuses an edit of bytes that are no longer there.
Current(tree, edits) == \A d \in edits : d[2] \in tree[d[1]].findings

\* --format-first: the edits between declarations, then cargo fmt; mutant: all
\* edits.
LayoutEditsAll(findings) == Fixable(findings)
LayoutEdits(findings) == {d \in Fixable(findings) : d[2].item}
Layout ==
    /\ pc = "layout"
    /\ LET edits == LayoutEdits(found["declarations"].findings)
           laid == Applied(replica, edits)
       IN  IF Current(replica, edits)
           THEN /\ replica' = [f \in Files |->
                       IF f \in Rust THEN Rustfmt[laid[f]] ELSE laid[f]]
                /\ label' = "initial"
                /\ pc' = "snapshot" /\ UNCHANGED status
           ELSE End("error") /\ UNCHANGED <<replica, label>>
    /\ UNCHANGED <<project, admitted, options, original, before, work, results, env>>

\* A finding without a fix stops the run; else the edits are applied.
Apply ==
    /\ pc = "apply"
    /\ LET edits == found["initial"].findings
       IN  IF Fixable(edits) = edits /\ Current(replica, edits)
           THEN /\ replica' = Applied(replica, edits)
                /\ label' = "fixed"
                /\ pc' = "snapshot" /\ UNCHANGED status
           ELSE End("error") /\ UNCHANGED <<replica, label>>
    /\ UNCHANGED <<project, admitted, options, original, before, work, results, env>>

-----------------------------------------------------------------------------
(* baseline.rs                                                             *)

\* fingerprints: the lines around a finding, in the tree as it is now.
Fingerprint(finding) ==
    LET f == finding[1]
        x == finding[2]
    IN  <<f, IF x \in Tree[f].findings THEN x.print ELSE NoPrint>>

\* document; mutant: one entry for each fingerprint, whatever its count.
DocumentOnce(findings) ==
    [p \in Fingerprints |-> IF \E x \in findings : Fingerprint(x) = p THEN 1 ELSE 0]
Document(findings) ==
    [p \in Fingerprints |-> Cardinality({x \in findings : Fingerprint(x) = p})]

Least(x, y) == IF x < y THEN x ELSE y
\* What filter may leave; mutant: a known fingerprint admits every finding.
LeftAny(findings) == {{x \in findings : admitted[Fingerprint(x)] = 0}}
Left(findings) ==
    {findings \ matched : matched \in {m \in SUBSET findings :
        \A p \in Fingerprints :
            Document(m)[p] = Least(Document(findings)[p], admitted[p])}}

Baseline ==
    /\ pc = "baseline"
    /\ IF options.baseline THEN remaining' \in Left(found["initial"].findings)
                           ELSE remaining' = found["initial"].findings
    /\ document' = IF options.write THEN Document(found["initial"].findings) ELSE document
    /\ pc' = IF options.command = "check" THEN "assertOriginal" ELSE "apply"
    /\ UNCHANGED <<project, replica, admitted, options, status, label, original,
                   before, work, found, changed, env>>

-----------------------------------------------------------------------------
(* The end of check, of fix --dry-run and of fix.                          *)

Complete == reported = Targets
Untouched == \A f \in Files : touched[f] = 0

\* Gates on the candidate; mutants: one of them is left out.
PassesAnyFindings ==
    /\ found["initial"].files = found["fixed"].files
    /\ found["initial"].tokens = found["fixed"].tokens
PassesAnyTokens ==
    /\ found["fixed"].findings = {}
    /\ found["initial"].files = found["fixed"].files
Passes ==
    /\ found["fixed"].findings = {}
    /\ found["initial"].files = found["fixed"].files
    /\ found["initial"].tokens = found["fixed"].tokens
Differs == {f \in Files : before[f] # original[f]}

Gates ==
    /\ pc = "gates"
    /\ IF Passes /\ Differs \subseteq Rust
       THEN /\ changed' = Differs
            /\ pc' = "assertOriginal" /\ UNCHANGED status
       ELSE End("error") /\ UNCHANGED changed
    /\ UNCHANGED <<project, replica, admitted, options, label, original, before,
                   work, found, remaining, document, env>>

AssertOriginal ==
    /\ Scanned("assertOriginal")
    /\ IF ~Matches(original) THEN End("error")
       ELSE IF options.command = "fix"
       THEN /\ pc' = IF options.dry THEN "assertAgain"
                     ELSE IF changed = {} THEN "finalCheck" ELSE "replace"
            /\ UNCHANGED status
       ELSE End(IF options.write THEN "baselined"
                ELSE IF remaining = {} THEN "passed" ELSE "violations")
    /\ IF pc' = "idle" /\ status' = "baselined"
       THEN /\ admitted' = document
            /\ recorded' = (Complete /\ Untouched)
       ELSE UNCHANGED <<admitted, recorded>>
    /\ UNCHANGED <<project, replica, options, label, original, before, seen,
                   reported, failed, results, user, touched, saves, writes,
                   crashes, plan, settled>>

\* fix --dry-run looks at the project once more, after its diff.
AssertAgain ==
    /\ Scanned("assertAgain")
    /\ End(IF ~Matches(original) THEN "error"
           ELSE IF changed = {} THEN "passed" ELSE "would-fix")
    /\ UNCHANGED <<project, replica, admitted, options, label, original, before,
                   seen, reported, failed, results, env>>

\* transaction::commit, as module Transaction implements it: after a look at
\* the whole project (assertOriginal) the changed files are replaced, unless one
\* of them has been saved since; mutant: if one has not.
UnsavedOne == \E f \in changed : project[f] = original[f]
Unsaved == \A f \in changed : project[f] = original[f]
Replace ==
    /\ pc = "replace"
    /\ IF Unsaved
       THEN /\ project' = [f \in Files |-> IF f \in changed THEN before[f] ELSE project[f]]
            /\ pc' = "finalCheck" /\ UNCHANGED status
       ELSE End("error") /\ UNCHANGED project
    /\ UNCHANGED <<replica, admitted, options, label, original, before, work,
                   results, env>>

FinalCheck ==
    /\ pc = "finalCheck"
    /\ pc' = IF ~Formatted(project) THEN "rollback"
             ELSE IF changed = {} THEN "success" ELSE "verify"
    /\ UNCHANGED <<project, replica, admitted, options, status, label, original,
                   before, work, results, env>>

Verify ==
    /\ Scanned("verify")
    /\ pc' = IF Matches([f \in Files |-> IF f \in changed THEN before[f] ELSE original[f]])
             THEN "success" ELSE "rollback"
    /\ UNCHANGED <<project, replica, admitted, options, status, label, original,
                   before, seen, reported, failed, results, env>>

\* Files that were saved after they were replaced are left alone.
Rollback ==
    /\ pc = "rollback"
    /\ project' = [f \in Files |->
           IF f \in changed /\ project[f] = before[f] THEN original[f] ELSE project[f]]
    /\ pc' = "undone"
    /\ UNCHANGED <<replica, admitted, options, status, label, original, before,
                   work, results, env>>

Undone ==
    /\ pc = "undone" /\ End("error")
    /\ UNCHANGED <<project, replica, admitted, options, label, original, before,
                   work, results, env>>

Success ==
    /\ pc = "success"
    /\ End(IF changed = {} THEN "passed" ELSE "fixed")
    /\ settled' = Untouched
    /\ recorded' = (recorded /\ changed = {})
    /\ UNCHANGED <<project, replica, admitted, options, label, original, before,
                   work, results, user, touched, plan, saves, writes, crashes>>

\* A command fails, a call fails, or the user interrupts.
Fail ==
    /\ pc \notin {"idle", "rollback", "undone", "success"}
    /\ IF pc \in {"finalCheck", "verify"}
       THEN pc' = "rollback" /\ UNCHANGED status
       ELSE \E s \in {"error", "interrupted"} : End(s)
    /\ UNCHANGED <<project, replica, admitted, options, label, original, before,
                   work, results, env>>

-----------------------------------------------------------------------------
(* The environment.                                                        *)

\* Somebody writes to a file of the project.
WriteProject(f, x) ==
    /\ project' = [project EXCEPT ![f] = x] /\ user' = [user EXCEPT ![f] = x]
    /\ touched' = [touched EXCEPT ![f] = Least(2, @ + 1)]
    /\ settled' = FALSE /\ recorded' = FALSE

\* An editor saves.
Save(f, x) ==
    /\ saves < MaxSaves /\ project[f] # x
    /\ WriteProject(f, x)
    /\ saves' = saves + 1
    /\ UNCHANGED <<replica, admitted, options, status, pc, label, original, before,
                   work, results, plan, writes, crashes>>

\* A build script or macro writes to the tree it runs in, once to a file in a
\* lint: no snapshot sees a write that is taken back.
BuildWrite(f, x) ==
    /\ pc = "lint" /\ writes < MaxWrites /\ Tree[f] = before[f] /\ Tree[f] # x
    /\ IF options.command = "check" THEN WriteProject(f, x) /\ UNCHANGED replica
       ELSE /\ replica' = [replica EXCEPT ![f] = x]
            /\ UNCHANGED <<project, user, touched, settled, recorded>>
    /\ writes' = writes + 1
    /\ UNCHANGED <<admitted, options, status, pc, label, original, before, work,
                   results, plan, saves, crashes>>

Rest == pc = "idle" /\ plan = <<>> /\ UNCHANGED vars

Init ==
    /\ \E in \in Inputs : project = in.project /\ plan = in.plan
    /\ user = project /\ replica = project /\ original = project /\ before = project
    /\ admitted = NoDocument /\ document = NoDocument
    /\ options = NoOptions /\ status = "none"
    /\ pc = "idle" /\ label = "initial"
    /\ scan = NoScan /\ seen = [t \in Targets |-> <<>>] /\ reported = {} /\ failed = {}
    /\ found = [l \in Labels |-> NoResult] /\ remaining = {} /\ changed = {}
    /\ touched = [f \in Files |-> 0]
    /\ saves = 0 /\ writes = 0 /\ crashes = 0
    /\ settled = FALSE /\ recorded = FALSE

Program ==
    \/ Start \/ ReadFile \/ Original \/ FmtOriginal \/ Copy \/ Snapshot
    \/ LintEnd \/ Assert \/ Layout \/ Baseline \/ Apply \/ Gates
    \/ AssertOriginal \/ AssertAgain \/ Replace \/ FinalCheck \/ Verify
    \/ Rollback \/ Undone \/ Success
Environment ==
    \/ \E t \in Targets : Compile(t) \/ Crash(t)
    \/ \E f \in Files : (\E x \in Saves[f] : Save(f, x)) \/ (\E x \in Scribbles[f] : BuildWrite(f, x))
    \/ Fail
Next == Program \/ Environment \/ Rest

Spec == Init /\ [][Next]_vars

-----------------------------------------------------------------------------
(* Properties.                                                             *)

TypeOK ==
    /\ {project, user, replica, original, before} \subseteq [Files -> Text]
    /\ {admitted, document} \subseteq [Fingerprints -> Nat]
    /\ options \in Invocation
    /\ status \in {"none", "running", "baselined", "passed", "violations",
                   "would-fix", "fixed", "error", "interrupted"}
    /\ pc = "idle" <=> status # "running"
    /\ label \in Labels
    /\ scan \in Seq(Text) /\ Len(scan) <= N
    /\ \A t \in Targets : seen[t] = <<>> \/ seen[t] \in [Compiles[t] -> Text]
    /\ reported \subseteq Spoken /\ failed \subseteq Targets
    /\ \A l \in Labels : /\ found[l].findings \subseteq Files \X Findings
                         /\ found[l].tokens \in [found[l].files -> Codes]
    /\ remaining \subseteq found["initial"].findings
    /\ changed \subseteq Rust
    /\ touched \in [Files -> 0..2]
    /\ settled \in BOOLEAN /\ recorded \in BOOLEAN

\* A file of a tree is formatted, and no target that compiles it finds anything.
Clean(tree, f) ==
    /\ f \in Rust => tree[f].formatted
    /\ \A x \in tree[f].findings : ~Seen(f, x)

\* The edits between declarations that a text offers, what --format-first may
\* make of it, and the code that a fix may commit in its place.
Between(text) == {x \in text.findings : x.item /\ x.fix # "none"}
LaidFrom(text) == {Rustfmt[Edited(text, edits)] : edits \in SUBSET Between(text)}
MayCommit(f, text) ==
    {x.code : x \in IF options.first /\ f \in Rust THEN LaidFrom(text) ELSE {text}}

\* Whatever the lint suggested, whichever targets crashed or failed over a
\* denied lint, and whatever build scripts wrote: the texts that are committed
\* are formatted, and no target that compiles them has findings there.  Their
\* code is the original, or, under --format-first, whose layout comes before
\* the first lint whose tokens count, what rustfmt makes of the original with
\* some of its own edits between declarations: no other edit changes it, and no
\* build script.
CommitsVerified ==
    pc = "replace" =>
        \A f \in Files :
            /\ Clean(before, f)
            /\ before[f].code \in MayCommit(f, original[f])

\* A check, or a fix that finds nothing to do, passes only if what it read was
\* formatted and clean for every target, also under saves in the middle; only a
\* file saved away and back escapes the snapshots.
PassedIsClean ==
    status = "passed" /\ ~options.baseline =>
        \A f \in Files : touched[f] = 2 \/ Clean(original, f)

\* Under a baseline, a check passes only if no fingerprint occurs more often in
\* the files its targets reported than the baseline admits.
Occurring(f, p) ==
    {x \in original[f].findings :
        x.print = p /\ \E t \in reported : f \in Compiles[t] /\ t \in x.seen}
NothingNewHidden ==
    status = "passed" /\ options.baseline =>
        \A f \in found["initial"].files, p \in Prints :
            touched[f] = 2 \/ Cardinality(Occurring(f, p)) <= admitted[<<f, p>>]

\* A fix is final: until somebody saves, no check reports a violation and no
\* further fix has anything to commit.
FixIsFinal == settled => status # "violations" /\ pc # "replace" /\ status # "would-fix"

\* A baseline that was written over a complete lint admits, until somebody
\* saves, everything that a check under it can find.
BaselineHolds == recorded => ~(status = "violations" /\ options.baseline)

\* "workspace": true, "all_targets": true (the coverage that execute reports): a
\* run that succeeds has had a report from every target, although a target that
\* fails keeps those that need it from being compiled.  A check under a baseline
\* is excepted: it passes once the baseline has taken away the findings that
\* made up for the failure.
CoversAll ==
    status \in {"passed", "would-fix", "fixed"} =>
        Complete \/ (options.command = "check" /\ options.baseline)

\* A workspace as module Transaction implements it, with the same promise: all
\* of a fix or nothing.  A fix makes of a text one that is formatted and has no
\* findings, with its own code or with the code of a layout.
Written == UNION {{in.project[f] : in \in Inputs} \cup Saves[f] \cup Scribbles[f] : f \in Files}
FixedTexts == [x \in Text |->
    {[y EXCEPT !.formatted = TRUE, !.findings = {}] : y \in {x} \cup LaidFrom(x)}]
\* What the project holds, once a commit that is not over has been taken back.
Undoing(f) ==
    /\ pc \in {"finalCheck", "verify", "rollback"} /\ f \in changed
    /\ project[f] = before[f] /\ (touched[f] = 0 \/ user[f] # before[f])
Resolved == [f \in Files |-> IF Undoing(f) THEN original[f] ELSE project[f]]
InFlight == pc \notin {"idle", "success"}
Atomic == INSTANCE AtomicWorkspace WITH
    Contents <- Text, Saves <- Written, Fix <- FixedTexts,
    content <- Resolved, dirty <- {f \in Files : touched[f] > 0}, active <- InFlight
ImplementsAtomic == Atomic!Spec
=============================================================================
