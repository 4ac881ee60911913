---------------------------- MODULE VerdictProofs ----------------------------
(***************************************************************************)
(* What the end of an invocation says of the project, for any number of    *)
(* files, targets, findings, saves and writes: what passes was clean or    *)
(* known to the baseline, a fix is final, a written baseline holds.        *)
(***************************************************************************)
EXTENDS WorkflowProofs, FiniteSetTheorems

OfCheck == options.command = "check"

-----------------------------------------------------------------------------
(* Types.                                                                  *)

Statuses == {"none", "running", "baselined", "passed", "violations",
             "would-fix", "fixed", "error", "interrupted"}
\* The first lint is not over.
Unmatched ==
    /\ label # "fixed"
    /\ pc \in {"scan", "fmtOriginal", "copy", "snapshot", "lint", "assert", "layout"}
\* What TypeOK says that no other invariant does.
Types ==
    /\ user \in [Files -> Text]
    /\ admitted \in [Fingerprints -> Nat] /\ document \in [Fingerprints -> Nat]
    /\ status \in Statuses /\ (pc = "idle" <=> status # "running")
    /\ \A t \in Targets : seen[t] = <<>> \/ seen[t] \in [Compiles[t] -> Text]
    /\ reported \subseteq Spoken /\ failed \subseteq Targets
    /\ \A l \in Labels : /\ found[l].findings \subseteq Files \X Findings
                         /\ found[l].files \subseteq Files
                         /\ found[l].tokens \in [found[l].files -> Codes]
    /\ remaining \subseteq found["initial"].findings
    /\ Unmatched => remaining = {}
    /\ pc = "layout" => label # "fixed"
    /\ changed \subseteq Rust
    /\ touched \in [Files -> 0..2]
    /\ settled \in BOOLEAN /\ recorded \in BOOLEAN

-----------------------------------------------------------------------------
(* What a run has read of a file that has been saved at most once.         *)

\* The files of the project, before they are replaced and once they are.
Replaced == {"finalCheck", "verify", "rollback", "success"}
Expected(f) == IF pc \in Replaced /\ f \in changed THEN before[f] ELSE original[f]
Unsaved0 ==
    /\ pc = "scan" => \A f \in 1..Len(scan) : touched[f] = 0 => scan[f] = project[f]
    /\ pc \notin {"idle", "scan"} => \A f \in Files : touched[f] = 0 => project[f] = Expected(f)

\* The project still holds, or the last scan has just found, what the first scan
\* has read: then so did all that was read in between.
Held(f) ==
    /\ touched[f] # 2
    /\ \/ project[f] = original[f]
       \/ pc = "assertOriginal" /\ f <= Len(scan) /\ scan[f] = original[f]
OfFixOnly == {"layout", "apply", "gates", "assertAgain", "undone", "replace"} \cup Replaced
AsRead ==
    OfCheck =>
        /\ pc \notin OfFixOnly
        /\ pc \notin {"idle", "scan", "fmtOriginal"} =>
              \A f \in Rust : Held(f) => original[f].formatted
        /\ pc \in {"lint", "assert", "baseline", "assertOriginal"} =>
              \A f \in Files : Held(f) => \A t \in Targets :
                  seen[t] # <<>> /\ f \in Compiles[t] => seen[t][f] = original[f]
        /\ pc \in {"assert", "baseline", "assertOriginal"} =>
              /\ found["initial"].findings = Found
              /\ found["initial"].files = CheckedFiles

-----------------------------------------------------------------------------
(* The baseline.                                                           *)

\* All that a complete lint of a tree finds, and its prints.
All(tree) == {d \in Files \X Findings :
    d[2] \in tree[d[1]].findings /\ \E t \in Targets : d[1] \in Compiles[t] /\ t \in d[2].seen}
Printed(findings, p) == {d \in findings : <<d[1], d[2].print>> = p}
Admits(counts, tree) ==
    \A p \in Fingerprints : Cardinality(Printed(All(tree), p)) <= counts[p]

\* The project as it was before a commit that may be taken back.
Standing == [f \in Files |-> IF pc \in Replaced /\ f \in changed THEN original[f] ELSE project[f]]

\* Before the last scan of a check: what is judged, and by what.
Judging == OfCheck /\ pc = "assertOriginal"
Strict == Judging /\ ~options.baseline => remaining = found["initial"].findings
Lenient == Judging /\ options.baseline /\ remaining = {} =>
    \A f \in CheckedFiles, p \in Prints :
        Held(f) => Cardinality(Occurring(f, p)) <= admitted[<<f, p>>]
Documented == Judging /\ options.write /\ Complete /\ Untouched => Admits(document, original)
Forgiven == Judging /\ options.baseline /\ recorded => remaining = {}
Recorded == recorded => Untouched /\ Admits(admitted, Standing)

-----------------------------------------------------------------------------
(* A fix, and what follows it.                                             *)

AfterGates == {"assertOriginal", "assertAgain", "replace", "finalCheck", "verify", "success"}
Gated ==
    OfFix /\ pc \in AfterGates => changed = Differs /\ \A f \in Files : Clean(before, f)

\* Linting says as much of the targets that reported; here also of those that crashed.
Spoke == OfFix /\ pc \in {"lint", "assert"} => \A t \in Spoken : Saw(t)
Same(tree) == \A f \in Files : tree[f] = original[f]
NothingToDo ==
    /\ OfFix /\ pc \in {"snapshot", "layout", "baseline", "apply"} => Same(replica)
    /\ OfFix /\ pc \in {"lint", "assert", "gates"} => Same(before)
    /\ pc = "layout" => found["declarations"].findings = {}
    /\ pc \in {"baseline", "apply"} => found["initial"].findings = {}
    /\ Judging => remaining = {}
    /\ \/ pc \in {"assertAgain", "finalCheck", "verify", "rollback", "success"}
       \/ pc = "assertOriginal" /\ OfFix
       => changed = {}
Settled == settled => Untouched /\ (\A f \in Files : Clean(project, f)) /\ NothingToDo

Verdict ==
    /\ Types /\ Unsaved0 /\ AsRead /\ Gated /\ Strict /\ Lenient /\ Documented /\ Forgiven
    /\ Recorded /\ Spoke /\ Settled
    /\ PassedIsClean /\ NothingNewHidden /\ FixIsFinal /\ BaselineHolds
-----------------------------------------------------------------------------
(* Sets of findings.                                                       *)

LEMMA FiniteFindings ==
    ASSUME NEW D, D \subseteq Files \X Findings
    PROVE  IsFiniteSet(D) /\ Cardinality(D) \in Nat
<1>1. IsFiniteSet(Files)
  BY FilesAssumption, FS_Interval DEF Files
<1>2. IsFiniteSet(Files \X Findings)
  BY <1>1, FindingsAssumption, FS_Product
<1>3. IsFiniteSet(D)
  BY <1>2, FS_Subset
<1> QED
  BY <1>3, FS_CardinalityType

LEMMA DocumentType ==
    ASSUME NEW D, D \subseteq Files \X Findings
    PROVE  Document(D) \in [Fingerprints -> Nat]
<1>1. ASSUME NEW p \in Fingerprints
      PROVE  Cardinality({x \in D : Fingerprint(x) = p}) \in Nat
  <2>1. {x \in D : Fingerprint(x) = p} \subseteq Files \X Findings
    OBVIOUS
  <2> QED
    BY <2>1, FiniteFindings
<1> QED
  BY <1>1 DEF Document

LEMMA LeftSubset ==
    ASSUME NEW D, NEW R \in Left(D) PROVE R \subseteq D
BY DEF Left

LEMMA FoundType == ASSUME Types PROVE Found \subseteq Files \X Findings
BY FilesAssumption DEF Found, Spoken, FindingsIn

\* Every file that a report covers has a token there.
LEMMA TokensType ==
    ASSUME Types, NEW f \in CheckedFiles
    PROVE  f \in Files /\ Tokens(f) \subseteq Codes /\ Tokens(f) # {}
<1>1. ASSUME NEW t \in reported
      PROVE  t \in Targets /\ seen[t] \in [Compiles[t] -> Text] /\ Compiles[t] \subseteq Files
  BY FilesAssumption DEF Types, Spoken
<1>2. ASSUME NEW t \in reported, f \in Compiles[t] PROVE seen[t][f].code \in Codes
  <2>1. seen[t][f] \in Text
    BY <1>1, <1>2
  <2> QED
    BY <2>1 DEF Text
<1>3. PICK t \in reported : f \in Compiles[t]
  BY DEF CheckedFiles
<1> QED
  BY <1>1, <1>2, <1>3 DEF Tokens

-----------------------------------------------------------------------------
(* TypeOK.                                                                 *)

LEMMA NoResultType ==
    /\ NoResult.findings \subseteq Files \X Findings /\ NoResult.files \subseteq Files
    /\ NoResult.tokens \in [NoResult.files -> Codes]
<1>1. <<>> \in [{} -> Codes]
  OBVIOUS
<1> QED
  BY <1>1 DEF NoResult

LEMMA NoDocumentType == NoDocument \in [Fingerprints -> Nat]
BY DEF NoDocument

\* Steps that leave what Types is about alone.
LEMMA TypesElsewhere ==
    ASSUME Types,
           UNCHANGED <<user, admitted, document, seen, reported, failed, found,
                       remaining, changed, touched>>,
           settled' \in BOOLEAN, recorded' \in BOOLEAN, status' \in Statuses,
           pc' = "idle" <=> status' # "running", Unmatched' => Unmatched,
           pc' = "layout" => label' # "fixed"
    PROVE  Types'
BY DEF Types, Spoken

LEMMA TypesStart == ASSUME Types, Coverage, Start PROVE Types'
<1>1. /\ pc' = "scan" /\ status' = "running"
      /\ seen' = [t \in Targets |-> <<>>] /\ reported' = {} /\ failed' = {}
      /\ found' = [l \in Labels |-> NoResult] /\ remaining' = {} /\ changed' = {}
      /\ document' = NoDocument /\ touched' = [f \in Files |-> 0]
      /\ UNCHANGED <<user, admitted, settled, recorded>>
  BY DEF Start
<1>2. touched' \in [Files -> 0..2]
  BY <1>1
<1>3. \A l \in Labels : found'[l] = NoResult
  BY <1>1
<1> QED
  BY <1>1, <1>2, <1>3, NoResultType, NoDocumentType DEF Types, Statuses, Spoken

LEMMA TypesSnapshot == ASSUME Types, Coverage, Snapshot PROVE Types'
<1>1. /\ pc = "snapshot" /\ seen' = [t \in Targets |-> <<>>] /\ reported' = {} /\ failed' = {}
      /\ \/ pc' = "idle" /\ status' = "error"
         \/ pc' = "lint" /\ status' = status
      /\ UNCHANGED <<user, admitted, document, found, remaining, changed, touched, settled,
                     recorded, label>>
  BY DEF Snapshot, Scanned, End, results, env
<1> QED
  BY <1>1 DEF Types, Statuses, Spoken, Unmatched

LEMMA TypesTargets ==
    ASSUME Types, Coverage, Trees, NEW t \in Targets, Compile(t) \/ Crash(t) PROVE Types'
<1>1. /\ pc = "lint" /\ seen' \in {seen, [seen EXCEPT ![t] = Texts(t)]}
      /\ reported' \in {reported, reported \cup {t}}
      /\ reported' # reported => seen' = [seen EXCEPT ![t] = Texts(t)]
      /\ failed' \in {failed, failed \cup {t}}
      /\ UNCHANGED <<user, admitted, document, found, remaining, changed, touched, settled,
                     recorded, label, status, pc>>
  BY DEF Compile, Crash, results, env
<1>2. Texts(t) \in [Compiles[t] -> Text] /\ Texts(t) # <<>>
  <2>1. Compiles[t] \subseteq Files /\ Compiles[t] # {}
    BY FilesAssumption
  <2>2. \A f \in Files : Tree[f] \in Text
    BY DEF Trees, Tree
  <2>3. Texts(t) \in [Compiles[t] -> Text]
    BY <2>1, <2>2 DEF Texts
  <2>4. DOMAIN Texts(t) # {}
    BY <2>1, <2>3
  <2> QED
    BY <2>3, <2>4
<1>3. DOMAIN seen = Targets
  BY DEF Coverage
<1> HIDE DEF Texts
<1>4. \A u \in Targets : seen'[u] = seen[u] \/ (u = t /\ seen'[u] = Texts(t))
  BY <1>1, <1>3
<1>5. \A u \in Targets : seen'[u] = <<>> \/ seen'[u] \in [Compiles[u] -> Text]
  BY <1>2, <1>4 DEF Types
<1>6. ASSUME NEW u \in reported' PROVE u \in Targets /\ seen'[u] # <<>>
  <2>1. CASE u \in reported
    BY <1>2, <1>4, <2>1 DEF Types, Spoken
  <2>2. CASE u = t /\ u \notin reported
    BY <1>1, <1>2, <1>3, <2>2
  <2> QED
    BY <1>1, <2>1, <2>2
<1> QED
  BY <1>1, <1>5, <1>6 DEF Types, Spoken, Unmatched

LEMMA TypesLintEnd == ASSUME Types, Coverage, LintEnd PROVE Types'
<1> DEFINE tokens == [f \in CheckedFiles |-> CHOOSE c \in Tokens(f) : TRUE]
<1>1. /\ pc = "lint"
      /\ \/ pc' = "idle" /\ status' = "error" /\ found' = found
         \/ /\ pc' = "assert" /\ status' = status
            /\ found' = [found EXCEPT ![label] =
                   [findings |-> Found, files |-> CheckedFiles, tokens |-> tokens]]
      /\ UNCHANGED <<user, admitted, document, seen, reported, failed, remaining, changed,
                     touched, settled, recorded, label>>
  BY DEF LintEnd, End, work, env
<1>2. tokens \in [CheckedFiles -> Codes] /\ CheckedFiles \subseteq Files
  BY TokensType
<1> HIDE DEF tokens
<1>3. DOMAIN found = Labels /\ label \in Labels
  BY DEF Coverage
<1>4. ASSUME NEW l \in Labels
      PROVE  /\ found'[l].findings \subseteq Files \X Findings /\ found'[l].files \subseteq Files
             /\ found'[l].tokens \in [found'[l].files -> Codes]
  <2>1. found'[l] = found[l]
        \/ found'[l] = [findings |-> Found, files |-> CheckedFiles, tokens |-> tokens]
    BY <1>1, <1>3
  <2> QED
    BY <1>2, <2>1, FoundType DEF Types
<1>5. remaining \subseteq found'["initial"].findings
  <2>1. CASE Unmatched
    BY <2>1 DEF Types
  <2>2. CASE ~Unmatched
    <3>1. label = "fixed"
      BY <1>1, <2>2 DEF Unmatched
    <3>2. found'["initial"] = found["initial"]
      BY <1>1, <1>3, <3>1 DEF Labels
    <3> QED
      BY <3>2 DEF Types
  <2> QED
    BY <2>1, <2>2
<1> QED
  BY <1>1, <1>4, <1>5 DEF Types, Statuses, Spoken, Unmatched

LEMMA TypesBaseline == ASSUME Types, Coverage, Baseline PROVE Types'
<1>1. /\ pc = "baseline" /\ pc' \in {"assertOriginal", "apply"} /\ status' = status
      /\ \/ remaining' \in Left(found["initial"].findings)
         \/ remaining' = found["initial"].findings
      /\ document' = Document(found["initial"].findings) \/ document' = document
      /\ UNCHANGED <<user, admitted, seen, reported, failed, found, changed,
                     touched, settled, recorded, label>>
  BY DEF Baseline, work, env
<1>2. found["initial"].findings \subseteq Files \X Findings
  BY DEF Types, Labels
<1>3. document' \in [Fingerprints -> Nat]
  BY <1>1, <1>2, DocumentType DEF Types
<1>4. remaining' \subseteq found["initial"].findings
  BY <1>1, LeftSubset
<1> QED
  BY <1>1, <1>3, <1>4 DEF Types, Statuses, Spoken, Unmatched

LEMMA TypesEnd == ASSUME Types, Coverage, Gates \/ AssertOriginal \/ Success PROVE Types'
<1>1. CASE Gates
  <2>1. /\ pc = "gates" /\ (changed' = changed \/ changed' \subseteq Rust)
        /\ \/ pc' = "idle" /\ status' = "error"
           \/ pc' = "assertOriginal" /\ status' = status
        /\ UNCHANGED <<user, admitted, document, seen, reported, failed, found, remaining,
                       touched, settled, recorded, label>>
    BY <1>1 DEF Gates, End, work, env
  <2> QED
    BY <2>1 DEF Types, Statuses, Spoken, Unmatched
<1>2. CASE AssertOriginal
  <2>1. /\ pc = "assertOriginal" /\ admitted' \in {admitted, document}
        /\ \/ pc' = "idle" /\ status' \in {"error", "baselined", "passed", "violations"}
           \/ pc' \in {"assertAgain", "finalCheck", "replace"} /\ status' = status
        /\ UNCHANGED <<user, document, seen, reported, failed, found, remaining, changed,
                       touched, settled, label>>
    BY <1>2 DEF AssertOriginal, Scanned, End, results
  <2>2. recorded' \in BOOLEAN
    BY <1>2 DEF AssertOriginal, Types, Complete, Untouched
  <2> QED
    BY <2>1, <2>2 DEF Types, Statuses, Spoken, Unmatched
<1>3. CASE Success
  <2>1. /\ pc = "success" /\ pc' = "idle" /\ status' \in {"passed", "fixed"}
        /\ UNCHANGED <<user, admitted, document, seen, reported, failed, found, remaining,
                       changed, touched, label>>
        /\ settled' \in BOOLEAN /\ recorded' \in BOOLEAN
    BY <1>3 DEF Success, End, work, results, Untouched
  <2> QED
    BY <2>1 DEF Types, Statuses, Spoken, Unmatched
<1> QED
  BY <1>1, <1>2, <1>3

\* A write to the project.
LEMMA Write ==
    ASSUME Types, Trees, NEW f \in Files, NEW x \in Saves[f] \cup Scribbles[f], WriteProject(f, x)
    PROVE  /\ user' \in [Files -> Text] /\ project' \in [Files -> Text]
           /\ touched' \in [Files -> 0..2]
           /\ touched'[f] = IF touched[f] = 0 THEN 1 ELSE 2
           /\ \A g \in Files : g # f => touched'[g] = touched[g] /\ project'[g] = project[g]
           /\ settled' = FALSE /\ recorded' = FALSE
<1>1. x \in Text
  BY TextsAssumption
<1>2. touched \in [Files -> 0..2] /\ touched[f] \in 0..2
  BY DEF Types
<1>3. Least(2, touched[f] + 1) = IF touched[f] = 0 THEN 1 ELSE 2
  BY <1>2 DEF Least
<1>4. touched' = [touched EXCEPT ![f] = IF touched[f] = 0 THEN 1 ELSE 2]
  BY <1>3 DEF WriteProject
<1> QED
  BY <1>1, <1>2, <1>4 DEF WriteProject, Types, Trees

LEMMA TypesWrites ==
    ASSUME Types, Trees, NEW f \in Files, NEW x \in Saves[f] \cup Scribbles[f],
           Save(f, x) \/ BuildWrite(f, x)
    PROVE  Types'
<1>1. /\ UNCHANGED <<admitted, document, seen, reported, failed, found, remaining, changed,
                     label, status, pc>>
      /\ WriteProject(f, x) \/ UNCHANGED <<user, touched, settled, recorded>>
  BY DEF Save, BuildWrite, work, results
<1>2. /\ user' \in [Files -> Text] /\ touched' \in [Files -> 0..2]
      /\ settled' \in BOOLEAN /\ recorded' \in BOOLEAN
  BY <1>1, Write DEF Types
<1> QED
  BY <1>1, <1>2 DEF Types, Spoken, Unmatched

LEMMA TypesOther ==
    ASSUME Types, Coverage,
           \/ ReadFile \/ Original \/ FmtOriginal \/ Copy \/ Assert \/ Layout \/ Apply
           \/ AssertAgain \/ Replace \/ FinalCheck \/ Verify \/ Rollback \/ Undone
           \/ Fail \/ Rest \/ UNCHANGED vars
    PROVE  Types'
<1>1. UNCHANGED <<user, admitted, document, seen, reported, failed, found,
                  remaining, changed, touched, settled, recorded>>
  BY DEF ReadFile, Original, FmtOriginal, Copy, Assert, Layout, Apply, AssertAgain, Replace,
         FinalCheck, Verify, Rollback, Undone, Fail, Rest, vars, work, results, env
<1>2. \/ UNCHANGED <<pc, status>>
      \/ pc # "idle" /\ pc' = "idle" /\ status' \in Statuses \ {"running"}
      \/ pc # "idle" /\ pc' # "idle" /\ status' = status
  <2>1. CASE ReadFile \/ Rest \/ UNCHANGED vars
    BY <2>1 DEF ReadFile, Rest, vars
  <2>2. CASE Original \/ FmtOriginal \/ Copy \/ Layout \/ Apply
    BY <2>2 DEF Original, FmtOriginal, Copy, Layout, Apply, Scanned, End, Statuses
  <2>3. CASE Assert
    BY <2>3 DEF Assert, Scanned, End, Statuses, Coverage, Labels
  <2>4. CASE AssertAgain \/ Replace \/ FinalCheck \/ Verify \/ Rollback \/ Undone \/ Fail
    BY <2>4 DEF AssertAgain, Replace, FinalCheck, Verify, Rollback, Undone, Fail, Scanned, End,
                Statuses
  <2> QED
    BY <2>1, <2>2, <2>3, <2>4
<1>3. (Unmatched' => Unmatched) /\ (pc' = "layout" => label' # "fixed")
  <2>1. CASE ReadFile \/ Rest \/ UNCHANGED vars
    BY <2>1 DEF ReadFile, Rest, vars, Unmatched, Types
  <2>2. CASE Original \/ FmtOriginal \/ Copy \/ Layout \/ Apply
    BY <2>2 DEF Original, FmtOriginal, Copy, Layout, Apply, Scanned, End, Unmatched, Types
  <2>3. CASE Assert
    BY <2>3 DEF Assert, Scanned, End, Unmatched, Coverage, Labels
  <2>4. CASE AssertAgain \/ Replace \/ FinalCheck \/ Verify \/ Rollback \/ Undone \/ Fail
    BY <2>4 DEF AssertAgain, Replace, FinalCheck, Verify, Rollback, Undone, Fail, Scanned, End,
                Unmatched
  <2> QED
    BY <2>1, <2>2, <2>3, <2>4
<1>4. status' \in Statuses /\ (pc' = "idle" <=> status' # "running")
  BY <1>2 DEF Types, Statuses
<1> QED
  BY <1>1, <1>3, <1>4, TypesElsewhere DEF Types

LEMMA TypesStep == ASSUME Types, Coverage, Trees, [Next]_vars PROVE Types'
BY TypesStart, TypesSnapshot, TypesTargets, TypesLintEnd, TypesBaseline, TypesEnd, TypesWrites,
   TypesOther DEF Next, Program, Environment

-----------------------------------------------------------------------------
(* What nobody has saved is as a run expects it.                           *)

LEMMA UnsavedElsewhere ==
    ASSUME Unsaved0, UNCHANGED <<project, touched, original>>,
           \/ pc' = "idle"
           \/ /\ {pc, pc'} \cap {"idle", "scan"} = {}
              /\ \/ pc \notin Replaced /\ pc' \notin Replaced
                 \/ pc \notin Replaced /\ changed' = {}
                 \/ pc \in Replaced /\ pc' \in Replaced /\ UNCHANGED <<before, changed>>
    PROVE  Unsaved0'
BY DEF Unsaved0, Expected

LEMMA UnsavedWrites ==
    ASSUME Unsaved0, Types, Trees, NEW f \in Files, NEW x \in Saves[f] \cup Scribbles[f],
           Save(f, x) \/ BuildWrite(f, x)
    PROVE  Unsaved0'
<1>1. UNCHANGED <<pc, scan, original, before, changed>>
  BY DEF Save, BuildWrite, work, results
<1>2. WriteProject(f, x) \/ UNCHANGED <<project, touched>>
  BY DEF Save, BuildWrite
<1>3. \A g \in Files : touched'[g] = 0 => touched[g] = 0 /\ project'[g] = project[g]
  <2>1. CASE WriteProject(f, x)
    <3>1. /\ touched'[f] = IF touched[f] = 0 THEN 1 ELSE 2
          /\ \A g \in Files : g # f => touched'[g] = touched[g] /\ project'[g] = project[g]
      BY <2>1, Write
    <3> QED
      BY <3>1
  <2> QED
    BY <1>2, <2>1
<1>4. pc = "scan" => 1..Len(scan) \subseteq Files
  BY FilesAssumption DEF Trees, Files
<1> QED
  BY <1>1, <1>3, <1>4 DEF Unsaved0, Expected

LEMMA UnsavedScan ==
    ASSUME Unsaved0, Trees, ReadFile \/ Original \/ Start PROVE Unsaved0'
<1>1. CASE ReadFile /\ pc = "scan"
  <2>1. /\ UNCHANGED <<pc, project, touched>> /\ Len(scan) < N
        /\ scan' = Append(scan, project[Len(scan) + 1])
    BY <1>1 DEF ReadFile, OfProject, env
  <2>2. scan \in Seq(Text) /\ Len(scan) + 1 \in Files
    BY <2>1, FilesAssumption DEF Trees, Files
  <2>3. project[Len(scan) + 1] \in Text
    BY <2>2 DEF Trees
  <2>4. ASSUME NEW f \in 1..Len(scan'), touched[f] = 0 PROVE scan'[f] = project[f]
    <3>1. f \in 1..Len(scan) \/ f = Len(scan) + 1
      BY <2>1, <2>2, <2>3, Longer
    <3> QED
      BY <1>1, <2>1, <2>2, <2>3, <2>4, <3>1, Longer DEF Unsaved0
  <2> QED
    BY <1>1, <2>1, <2>4 DEF Unsaved0
<1>2. CASE ReadFile /\ pc # "scan"
  BY <1>2, UnsavedElsewhere DEF ReadFile, env, results, OfProject, OfTree, Unsaved0, Expected
<1>3. CASE Original
  <2>1. /\ pc = "scan" /\ Len(scan) = N /\ original' = scan /\ pc' \in {"copy", "fmtOriginal"}
        /\ UNCHANGED <<project, touched>>
    BY <1>3 DEF Original, Scanned, env
  <2> QED
    BY <2>1 DEF Unsaved0, Expected, Replaced, Files
<1>4. CASE Start
  BY <1>4, FilesAssumption DEF Start, Unsaved0, NoScan
<1> QED
  BY <1>1, <1>2, <1>3, <1>4

LEMMA UnsavedCommit ==
    ASSUME Unsaved0, Replace \/ Rollback \/ AssertOriginal PROVE Unsaved0'
<1>1. CASE Replace
  <2>1. CASE pc' = "finalCheck"
    <3>1. /\ pc = "replace" /\ UNCHANGED <<touched, original, before, changed>>
          /\ project' = [f \in Files |-> IF f \in changed THEN before[f] ELSE project[f]]
      BY <1>1, <2>1 DEF Replace, End, env, results
    <3> QED
      BY <2>1, <3>1 DEF Unsaved0, Expected, Replaced
  <2>2. CASE pc' # "finalCheck"
    BY <1>1, <2>2, UnsavedElsewhere DEF Replace, End, env
  <2> QED
    BY <2>1, <2>2
<1>2. CASE Rollback
  <2>1. /\ pc = "rollback" /\ pc' = "undone" /\ UNCHANGED <<touched, original, before, changed>>
        /\ project' = [f \in Files |->
               IF f \in changed /\ project[f] = before[f] THEN original[f] ELSE project[f]]
    BY <1>2 DEF Rollback, env, results
  <2> QED
    BY <2>1 DEF Unsaved0, Expected, Replaced
<1>3. CASE AssertOriginal
  <2>1. /\ pc = "assertOriginal" /\ UNCHANGED <<project, touched, original, changed>>
        /\ \/ pc' = "idle"
           \/ pc' = "finalCheck" /\ changed = {}
           \/ pc' \in {"assertAgain", "replace"}
    BY <1>3 DEF AssertOriginal, End, Scanned, results
  <2> QED
    BY <2>1, UnsavedElsewhere DEF Replaced
<1> QED
  BY <1>1, <1>2, <1>3

LEMMA UnsavedOther ==
    ASSUME Unsaved0, Coverage,
           \/ FmtOriginal \/ Copy \/ Snapshot \/ LintEnd \/ Assert \/ Layout \/ Baseline \/ Apply
           \/ Gates \/ AssertAgain \/ FinalCheck \/ Verify \/ Undone \/ Success \/ Fail
           \/ (\E t \in Targets : Compile(t) \/ Crash(t)) \/ Rest \/ UNCHANGED vars
    PROVE  Unsaved0'
<1>1. UNCHANGED <<project, touched, original>>
  BY DEF FmtOriginal, Copy, Snapshot, LintEnd, Assert, Layout, Baseline, Apply, Gates, AssertAgain,
         FinalCheck, Verify, Undone, Success, Fail, Compile, Crash, Rest, vars, env
<1>2. CASE FmtOriginal \/ Copy \/ Snapshot \/ LintEnd \/ Layout \/ Baseline \/ Apply \/ Gates
  <2>1. \/ pc' = "idle"
        \/ /\ {pc, pc'} \cap {"idle", "scan"} = {} /\ pc \notin Replaced /\ pc' \notin Replaced
    BY <1>2 DEF FmtOriginal, Copy, Snapshot, LintEnd, Layout, Baseline, Apply, Gates, Scanned, End,
                Replaced
  <2> QED
    BY <1>1, <2>1, UnsavedElsewhere
<1>3. CASE Assert
  <2>1. \/ pc' = "idle"
        \/ /\ {pc, pc'} \cap {"idle", "scan"} = {} /\ pc \notin Replaced /\ pc' \notin Replaced
    BY <1>3 DEF Assert, Scanned, End, Replaced, Coverage, Labels
  <2> QED
    BY <1>1, <2>1, UnsavedElsewhere
<1>4. CASE AssertAgain \/ FinalCheck \/ Verify \/ Undone \/ Success \/ Fail
  <2>1. \/ pc' = "idle"
        \/ pc \in Replaced /\ pc' \in Replaced /\ UNCHANGED <<before, changed>>
    BY <1>4 DEF AssertAgain, FinalCheck, Verify, Undone, Success, Fail, Scanned, End, Replaced,
                results
  <2> QED
    BY <1>1, <2>1, UnsavedElsewhere DEF Replaced
<1>5. CASE (\E t \in Targets : Compile(t) \/ Crash(t)) \/ Rest \/ UNCHANGED vars
  <2>1. UNCHANGED <<pc, scan, before, changed>>
    BY <1>5 DEF Compile, Crash, Rest, vars, work, results
  <2> QED
    BY <1>1, <2>1 DEF Unsaved0, Expected
<1> QED
  BY <1>2, <1>3, <1>4, <1>5

LEMMA UnsavedStep == ASSUME Unsaved0, Types, Trees, Coverage, [Next]_vars PROVE Unsaved0'
BY UnsavedScan, UnsavedWrites, UnsavedCommit, UnsavedOther DEF Next, Program, Environment

-----------------------------------------------------------------------------
(* What a check has read.                                                  *)

\* A check never gets where only a fix does, and has one lint.
LEMMA CheckOnly ==
    ASSUME AsRead, Places, Coverage, OfCheck
    PROVE  /\ pc \notin OfFixOnly /\ ~OfFix /\ ~options.first /\ options \in Invocation
           /\ label = "initial" /\ Tree = project
<1>1. /\ options.command = "check" => ~options.first
      /\ options.command \in {"check", "fix"}
  BY DEF Coverage, Invocation, Options
<1> QED
  BY <1>1 DEF AsRead, Places, Coverage, OfCheck, OfFix, Labels, Tree

\* What is held was held before.
LEMMA HeldWrites ==
    ASSUME Unsaved0, Types, Trees, AsRead, Places, Coverage, OfCheck, pc \notin {"idle", "scan"},
           NEW f \in Files, NEW x \in Saves[f] \cup Scribbles[f],
           Save(f, x) \/ BuildWrite(f, x), NEW g \in Files, Held(g)'
    PROVE  Held(g)
<1>1. UNCHANGED <<pc, scan, original, options>>
  BY DEF Save, BuildWrite, work
<1>2. CASE WriteProject(f, x) /\ g = f
  <2>1. touched'[f] = IF touched[f] = 0 THEN 1 ELSE 2
    BY <1>2, Write
  <2>2. touched[f] = 0
    BY <1>2, <2>1 DEF Held
  <2>3. pc \notin Replaced
    BY CheckOnly DEF OfFixOnly
  <2> QED
    BY <1>2, <2>2, <2>3 DEF Unsaved0, Expected, Held
<1>3. CASE WriteProject(f, x) /\ g # f
  <2>1. touched'[g] = touched[g] /\ project'[g] = project[g]
    BY <1>3, Write
  <2> QED
    BY <1>1, <2>1 DEF Held
<1>4. CASE UNCHANGED <<project, touched>>
  BY <1>1, <1>4 DEF Held
<1> QED
  BY <1>2, <1>3, <1>4 DEF Save, BuildWrite

LEMMA HeldRead ==
    ASSUME Trees, ReadFile, NEW g \in Files, Held(g)'
    PROVE  Held(g)
<1>1. UNCHANGED <<pc, project, original, touched>> /\ Len(scan) < N
  BY DEF ReadFile, env
<1>2. CASE pc = "assertOriginal"
  <2>1. scan' = Append(scan, project[Len(scan) + 1])
    BY <1>2 DEF ReadFile, OfProject
  <2>2. scan \in Seq(Text) /\ Len(scan) + 1 \in Files
    BY <1>1, FilesAssumption DEF Trees, Files
  <2>3. project[Len(scan) + 1] \in Text
    BY <2>2 DEF Trees
  <2>4. g <= Len(scan') => g \in 1..Len(scan) \/ g = Len(scan) + 1
    BY <2>1, <2>2, <2>3, Longer, <1>1, FilesAssumption DEF Files
  <2>5. g \in 1..Len(scan) => scan'[g] = scan[g]
    BY <2>1, <2>2, <2>3, Longer, <1>1
  <2>6. scan'[Len(scan) + 1] = project[Len(scan) + 1]
    BY <2>1, <2>2, <2>3, Longer, <1>1
  <2> QED
    BY <1>1, <2>4, <2>5, <2>6 DEF Held
<1>3. CASE pc # "assertOriginal"
  BY <1>1, <1>3 DEF Held
<1> QED
  BY <1>2, <1>3

\* Every other step leaves the project alone; a scan that begins is empty.
LEMMA HeldElsewhere ==
    ASSUME NEW g \in Files, UNCHANGED <<project, touched, original>>,
           pc' = "assertOriginal" => scan' = <<>> \/ UNCHANGED <<pc, scan>>, Held(g)'
    PROVE  Held(g)
<1>1. CASE project[g] = original[g]
  BY <1>1 DEF Held
<1>2. CASE project[g] # original[g]
  <2>1. g <= Len(scan') /\ pc' = "assertOriginal"
    BY <1>2 DEF Held
  <2>2. scan' # <<>>
    BY <2>1, FilesAssumption DEF Files
  <2> QED
    BY <2>1, <2>2 DEF Held
<1> QED
  BY <1>1, <1>2

LEMMA HeldStep ==
    ASSUME Unsaved0, Types, Trees, AsRead, Places, Coverage, [Next]_vars, OfCheck,
           pc \notin {"idle", "scan"}, pc' # "idle", NEW g \in Files, Held(g)'
    PROVE  Held(g)
<1>1. pc \notin OfFixOnly
  BY CheckOnly
<1>2. CASE Environment /\ ~Fail /\ ~\E t \in Targets : Compile(t) \/ Crash(t)
  BY <1>2, HeldWrites DEF Environment
<1>3. CASE ReadFile
  BY <1>3, HeldRead
<1>4. CASE \/ FmtOriginal \/ Copy \/ Snapshot \/ LintEnd \/ Assert \/ Baseline
           \/ (\E t \in Targets : Compile(t) \/ Crash(t))
  <2>1. UNCHANGED <<project, touched, original>>
    BY <1>4 DEF FmtOriginal, Copy, Snapshot, LintEnd, Assert, Baseline, Compile, Crash, env
  <2>2. pc' = "assertOriginal" => Baseline
    <3>1. CASE Assert
      BY <3>1 DEF Assert, Scanned, End, Coverage, Labels
    <3>2. CASE \/ FmtOriginal \/ Copy \/ Snapshot \/ LintEnd
               \/ (\E t \in Targets : Compile(t) \/ Crash(t))
      BY <3>2 DEF FmtOriginal, Copy, Snapshot, LintEnd, Compile, Crash, Scanned, End
    <3> QED
      BY <1>4, <3>1, <3>2
  <2>3. Baseline => scan' = <<>>
    BY DEF Baseline, work, Places
  <2> QED
    BY <2>1, <2>2, <2>3, HeldElsewhere
<1>5. CASE Rest \/ UNCHANGED vars
  BY <1>5, HeldElsewhere DEF Rest, vars, work, env
<1>6. CASE \/ Start \/ Original \/ Layout \/ Apply \/ Gates \/ AssertOriginal \/ AssertAgain
           \/ Replace \/ FinalCheck \/ Verify \/ Rollback \/ Undone \/ Success \/ Fail
  <2>1. pc # "assertOriginal" \/ Fail \/ AssertOriginal
    BY <1>1, <1>6 DEF Start, Original, Layout, Apply, Gates, AssertAgain, Replace, FinalCheck, Verify,
                Rollback, Undone, Success, Scanned, OfFixOnly, Replaced
  <2>2. ~AssertOriginal
    BY CheckOnly DEF AssertOriginal, End, OfFix
  <2>3. ~Fail
    BY <1>1 DEF Fail, End, OfFixOnly, Replaced
  <2> QED
    BY <1>1, <1>6, <2>2, <2>3 DEF Start, Original, Layout, Apply, Gates, AssertAgain, Replace,
          FinalCheck, Verify, Rollback, Undone, Success, Scanned, OfFixOnly, Replaced
<1> QED
  BY <1>2, <1>3, <1>4, <1>5, <1>6 DEF Next, Program, Environment

\* A step of a fix, or one that ends or starts a run, leaves nothing to show.
LEMMA AsReadEnd == ASSUME pc' \in {"idle", "scan", "fmtOriginal"} \/ OfFix' PROVE AsRead'
BY DEF AsRead, OfFixOnly, Replaced, OfCheck, OfFix

\* A step that reads nothing of the project.
LEMMA AsReadElsewhere ==
    ASSUME AsRead, OfCheck, \A f \in Files : Held(f)' => Held(f),
           UNCHANGED <<seen, reported, found, original, options>>,
           \/ pc' = pc
           \/ pc = "copy" /\ pc' = "snapshot"
           \/ pc = "assert" /\ pc' = "baseline"
           \/ pc = "baseline" /\ pc' = "assertOriginal"
    PROVE  AsRead'
<1>1. OfCheck' /\ pc' \notin OfFixOnly
  BY DEF AsRead, OfCheck, OfFixOnly, Replaced
<1>2. pc' \notin {"idle", "scan", "fmtOriginal"} =>
          \A f \in Rust : Held(f)' => original[f].formatted
  BY FilesAssumption DEF AsRead
<1>3. pc' \in {"lint", "assert", "baseline", "assertOriginal"} =>
          \A f \in Files : Held(f)' => \A t \in Targets :
              seen[t] # <<>> /\ f \in Compiles[t] => seen[t][f] = original[f]
  BY DEF AsRead
<1>4. pc' \in {"assert", "baseline", "assertOriginal"} =>
          /\ found["initial"].findings = Found'
          /\ found["initial"].files = CheckedFiles'
  BY SameSeen DEF AsRead
<1> QED
  BY <1>1, <1>2, <1>3, <1>4 DEF AsRead

LEMMA AsReadFormatted ==
    ASSUME AsRead, Places, Coverage, OfCheck, Original \/ FmtOriginal PROVE AsRead'
<1>1. UNCHANGED <<project, touched, original, options>> \/ Original
  BY DEF FmtOriginal, env
<1>2. CASE Original
  BY <1>2, AsReadEnd, CheckOnly DEF Original
<1>3. CASE FmtOriginal /\ pc' # "copy"
  BY <1>3, AsReadEnd DEF FmtOriginal, End
<1>4. CASE FmtOriginal /\ pc' = "copy"
  <2>1. Formatted(project) /\ UNCHANGED <<project, touched, original, options>>
    BY <1>4 DEF FmtOriginal, End, env
  <2>2. ASSUME NEW f \in Rust, Held(f)' PROVE original[f].formatted
    BY <1>4, <2>1, <2>2 DEF Held, Formatted
  <2> QED
    BY <1>4, <2>1, <2>2 DEF AsRead, OfFixOnly, Replaced
<1> QED
  BY <1>2, <1>3, <1>4

LEMMA AsReadLint ==
    ASSUME AsRead, Types, Trees, Places, Coverage, OfCheck, \A f \in Files : Held(f)' => Held(f),
           \/ Snapshot \/ LintEnd \/ \E t \in Targets : Compile(t) \/ Crash(t)
    PROVE  AsRead'
<1>1. CASE pc' = "idle"
  BY <1>1, AsReadEnd
<1>2. pc \in {"snapshot", "lint"} /\ UNCHANGED <<project, touched, original, options>>
  BY DEF Snapshot, LintEnd, Compile, Crash, Scanned, env
<1>3. OfCheck' /\ \A f \in Rust : Held(f)' => original[f].formatted
  BY <1>2, FilesAssumption DEF AsRead, OfCheck
<1>4. CASE Snapshot /\ pc' = "lint"
  <2>1. seen' = [t \in Targets |-> <<>>]
    BY <1>4 DEF Snapshot
  <2> QED
    BY <1>2, <1>3, <1>4, <2>1 DEF AsRead, OfFixOnly, Replaced
<1>5. CASE LintEnd /\ pc' = "assert"
  <2>1. /\ found' = [found EXCEPT !["initial"] =
                   [findings |-> Found, files |-> CheckedFiles,
                    tokens |-> [f \in CheckedFiles |-> CHOOSE c \in Tokens(f) : TRUE]]]
        /\ UNCHANGED <<seen, reported>> /\ pc = "lint"
    BY <1>5, CheckOnly DEF LintEnd, End, work
  <2>2. DOMAIN found = Labels /\ "initial" \in Labels
    BY DEF Coverage, Labels
  <2>3. found'["initial"].findings = Found /\ found'["initial"].files = CheckedFiles
    BY <2>1, <2>2
  <2>4. \A f \in Files : Held(f)' => \A t \in Targets :
            seen[t] # <<>> /\ f \in Compiles[t] => seen[t][f] = original[f]
    BY <2>1 DEF AsRead
  <2> QED
    BY <1>2, <1>3, <1>5, <2>1, <2>3, <2>4, SameSeen DEF AsRead, OfFixOnly, Replaced
<1>6. ASSUME NEW t \in Targets, Compile(t) \/ Crash(t) PROVE AsRead'
  <2>1. /\ pc = "lint" /\ pc' = "lint"
        /\ seen' \in {seen, [seen EXCEPT ![t] = Texts(t)]}
    BY <1>6 DEF Compile, Crash
  <2>2. ASSUME NEW f \in Files, Held(f)', NEW u \in Targets, seen'[u] # <<>>, f \in Compiles[u]
        PROVE  seen'[u][f] = original[f]
    <3>1. Held(f) /\ project[f] = original[f]
      BY <2>1, <2>2 DEF Held
    <3>2. Texts(t) = [g \in Compiles[t] |-> project[g]]
      BY CheckOnly DEF Texts
    <3>3. CASE seen'[u] = seen[u]
      BY <2>1, <2>2, <3>1, <3>3 DEF AsRead
    <3>4. CASE seen'[u] = Texts(t) /\ u = t
      BY <2>2, <3>1, <3>2, <3>4
    <3>5. DOMAIN seen = Targets
      BY DEF Coverage
    <3> HIDE DEF Texts
    <3> QED
      BY <2>1, <3>3, <3>4, <3>5
  <2> QED
    BY <1>2, <1>3, <2>1, <2>2 DEF AsRead, OfFixOnly, Replaced
<1> QED
  <2>1. pc' \in {"idle", "lint", "assert"}
    BY <1>2 DEF Snapshot, LintEnd, Compile, Crash, End
  <2>2. (Snapshot => pc' # "assert") /\ (LintEnd => pc' # "lint")
    BY DEF Snapshot, LintEnd, End
  <2> QED
    BY <1>1, <1>4, <1>5, <1>6, <2>1, <2>2

LEMMA AsReadStep ==
    ASSUME AsRead, Unsaved0, Types, Trees, Places, Coverage, [Next]_vars PROVE AsRead'
<1> USE CoverageStep
<1>1. SUFFICES ASSUME pc' \notin {"idle", "scan", "fmtOriginal"}, OfCheck' PROVE AsRead'
  <2>1. OfCheck' \/ OfFix'
    BY DEF Coverage, Invocation, Options, OfCheck, OfFix
  <2> QED
    BY <2>1, AsReadEnd
<1>2. CASE Start
  BY <1>1, <1>2 DEF Start
<1>3. CASE ~Start
  <2>1. options' = options \/ pc' = "idle"
    BY <1>3 DEF Next, Program, Environment, ReadFile, Original, FmtOriginal, Copy, Snapshot, LintEnd,
       Assert, Layout, Baseline, Apply, Gates, AssertOriginal, AssertAgain, Replace, FinalCheck,
       Verify, Rollback, Undone, Success, Compile, Crash, Save, BuildWrite, Fail, Rest, vars
  <2>2. OfCheck
    BY <1>1, <2>1 DEF OfCheck
  <2>3. pc # "idle" /\ (pc = "scan" => Original)
    <3>1. CASE ReadFile \/ Rest \/ UNCHANGED vars \/ Environment
      BY <1>1, <3>1 DEF ReadFile, Environment, Compile, Crash, Save, BuildWrite, Fail, End, Rest, vars
    <3>2. CASE ~Environment /\ ~ReadFile /\ ~Rest /\ ~UNCHANGED vars
      BY <1>3, <3>2 DEF Next, Program, Original, FmtOriginal, Copy, Snapshot, LintEnd,
         Assert, Layout, Baseline, Apply, Gates, AssertOriginal, AssertAgain, Replace, FinalCheck,
         Verify, Rollback, Undone, Success, Scanned
    <3> QED
      BY <3>1, <3>2
  <2>4. CASE Original \/ FmtOriginal
    BY <2>2, <2>4, AsReadFormatted
  <2>5. CASE ~Original /\ ~FmtOriginal
    <3>1. \A f \in Files : Held(f)' => Held(f)
      BY <1>1, <2>2, <2>3, <2>5, HeldStep
    <3>2. CASE Snapshot \/ LintEnd \/ \E t \in Targets : Compile(t) \/ Crash(t)
      BY <2>2, <3>1, <3>2, AsReadLint
    <3>3. pc \notin OfFixOnly /\ label = "initial" /\ ~OfFix
      BY <2>2, CheckOnly
    <3>4. CASE Copy \/ Assert \/ Baseline
      <4>1. UNCHANGED <<seen, reported, found, original, options>>
        BY <3>4 DEF Copy, Assert, Baseline, work, results
      <4>2. \/ pc = "copy" /\ pc' = "snapshot"
            \/ pc = "assert" /\ pc' = "baseline"
            \/ pc = "baseline" /\ pc' = "assertOriginal"
        BY <1>1, <2>2, <3>3, <3>4 DEF Copy, Assert, Baseline, Scanned, End, OfCheck
      <4> QED
        BY <2>2, <3>1, <4>1, <4>2, AsReadElsewhere
    <3>5. CASE ReadFile \/ Rest \/ UNCHANGED vars
               \/ \E f \in Files : \/ \E x \in Saves[f] : Save(f, x)
                                   \/ \E x \in Scribbles[f] : BuildWrite(f, x)
      <4>1. UNCHANGED <<seen, reported, found, original, options>> /\ pc' = pc
        BY <3>5 DEF ReadFile, Rest, Save, BuildWrite, vars, work, results
      <4> QED
        BY <2>2, <3>1, <4>1, AsReadElsewhere
    <3>6. CASE \/ Layout \/ Apply \/ Gates \/ AssertAgain \/ Replace \/ FinalCheck \/ Verify
               \/ Rollback \/ Undone \/ Success \/ AssertOriginal \/ Fail
      BY <1>1, <3>3, <3>6 DEF Layout, Apply, Gates, AssertAgain, Replace, FinalCheck, Verify,
         Rollback, Undone, Success, AssertOriginal, Fail, Scanned, End, OfFixOnly, Replaced, OfFix
    <3> QED
      BY <1>3, <2>5, <3>2, <3>4, <3>5, <3>6 DEF Next, Program, Environment
  <2> QED
    BY <2>4, <2>5
<1> QED
  BY <1>2, <1>3

-----------------------------------------------------------------------------
(* What the gates have seen.                                               *)

LEMMA GatedElsewhere ==
    ASSUME Gated, UNCHANGED <<before, original, changed, options>>,
           pc' \in AfterGates /\ OfFix => pc \in AfterGates
    PROVE  Gated'
BY DEF Gated, OfFix, Differs, Clean

LEMMA GatesPassed == ASSUME Sound, Coverage, Gates PROVE Gated'
<1>1. Sound'
  BY GatesStep
<1>2. /\ pc' # "idle" => changed' = Differs
      /\ UNCHANGED <<before, original, options>> /\ (pc' = "idle" \/ pc' = "assertOriginal")
  BY DEF Gates, End
<1>3. OfFix' /\ pc' = "assertOriginal" => Verified'
  BY <1>1 DEF Sound, Committing
<1>4. Verified' => \A f \in Files : Clean(before', f)
  BY DEF Verified, Clean, Seen
<1> QED
  BY <1>2, <1>3, <1>4 DEF Gated, AfterGates, Differs, Clean

LEMMA GatedStep == ASSUME Gated, Sound, Coverage, [Next]_vars PROVE Gated'
<1>1. CASE Gates
  BY <1>1, GatesPassed
<1>2. CASE Start \/ Original \/ Snapshot
  BY <1>2 DEF Start, Original, Snapshot, Scanned, End, Gated, AfterGates
<1>3. CASE Assert
  <2>1. pc' \notin AfterGates
    BY <1>3 DEF Assert, Scanned, End, Coverage, Labels, AfterGates
  <2> QED
    BY <2>1 DEF Gated
<1>4. CASE \/ ReadFile \/ FmtOriginal \/ Copy \/ LintEnd \/ Layout \/ Baseline \/ Apply
           \/ AssertOriginal \/ AssertAgain \/ Replace \/ FinalCheck \/ Verify \/ Rollback
           \/ Undone \/ Success \/ Environment \/ Rest \/ UNCHANGED vars
  <2>1. UNCHANGED <<before, original, changed, options>>
    BY <1>4 DEF ReadFile, FmtOriginal, Copy, LintEnd, Layout, Baseline, Apply, AssertOriginal,
       AssertAgain, Replace, FinalCheck, Verify, Rollback, Undone, Success, Environment, Compile,
       Crash, Save, BuildWrite, Fail, Rest, vars, results
  <2>2. CASE ReadFile \/ Environment \/ Rest \/ UNCHANGED vars
    BY <2>1, <2>2, GatedElsewhere DEF ReadFile, Environment, Compile, Crash, Save, BuildWrite, Fail,
       End, Rest, vars, AfterGates
  <2>3. CASE FmtOriginal \/ Copy \/ LintEnd \/ Layout \/ Baseline \/ Apply \/ Rollback \/ Undone
    BY <2>1, <2>3, GatedElsewhere DEF FmtOriginal, Copy, LintEnd, Layout, Baseline, Apply, Rollback,
       Undone, End, AfterGates, OfFix
  <2>4. CASE AssertOriginal \/ AssertAgain \/ Replace \/ FinalCheck \/ Verify \/ Success
    <3>1. pc \in AfterGates
      BY <2>4 DEF AssertOriginal, AssertAgain, Replace, FinalCheck, Verify, Success, Scanned,
                  AfterGates
    <3> QED
      BY <2>1, <3>1, GatedElsewhere
  <2> QED
    BY <1>4, <2>2, <2>3, <2>4
<1> QED
  BY <1>1, <1>2, <1>3, <1>4 DEF Next, Program

-----------------------------------------------------------------------------
(* PassedIsClean.                                                          *)

LEMMA NeverLess ==
    ASSUME Types, Trees, NEW f \in Files, NEW x \in Saves[f] \cup Scribbles[f],
           Save(f, x) \/ BuildWrite(f, x), NEW g \in Files
    PROVE  /\ touched[g] = 2 => touched'[g] = 2
           /\ touched'[g] = 0 => touched[g] = 0
<1>1. CASE WriteProject(f, x)
  <2>1. /\ touched'[f] = IF touched[f] = 0 THEN 1 ELSE 2
        /\ g # f => touched'[g] = touched[g]
    BY <1>1, Write
  <2> QED
    BY <2>1
<1> QED
  BY <1>1 DEF Save, BuildWrite

\* The last scan of a check: what it decides was there before it began.
LEMMA LastScan ==
    ASSUME Unsaved0, Types, Trees, AsRead, Places, Coverage, [Next]_vars, Judging'
    PROVE  \/ Baseline
           \/ /\ Judging
              /\ UNCHANGED <<seen, reported, failed, found, remaining, document, admitted,
                             original, options>>
              /\ recorded' => recorded
              /\ \A f \in Files : touched'[f] = 0 => touched[f] = 0
              /\ \A f \in Files : Held(f)' => Held(f)
<1>1. CASE \/ ReadFile \/ Rest \/ UNCHANGED vars
           \/ \E f \in Files : \/ \E x \in Saves[f] : Save(f, x)
                               \/ \E x \in Scribbles[f] : BuildWrite(f, x)
  <2>1. /\ Judging
        /\ UNCHANGED <<seen, reported, failed, found, remaining, document, admitted,
                       original, options>>
        /\ recorded' => recorded
    BY <1>1 DEF Judging, OfCheck, ReadFile, Rest, Save, BuildWrite, WriteProject, vars, work,
       results, env
  <2>2. \A f \in Files : touched'[f] = 0 => touched[f] = 0
    BY <1>1, NeverLess DEF ReadFile, Rest, vars, env
  <2>3. \A f \in Files : Held(f)' => Held(f)
    BY <2>1, HeldStep DEF Judging
  <2> QED
    BY <2>1, <2>2, <2>3
<1>2. CASE Start \/ Original \/ FmtOriginal \/ Copy \/ Snapshot \/ LintEnd \/ Layout \/ Apply \/ Fail
  BY <1>2 DEF Start, Original, FmtOriginal, Copy, Snapshot, LintEnd, Layout, Apply, Fail, Scanned,
     End, Judging
<1>3. CASE Assert
  BY <1>3 DEF Assert, Scanned, End, Coverage, Labels, Judging
<1>4. CASE \/ Gates \/ AssertOriginal \/ AssertAgain \/ Replace \/ FinalCheck \/ Verify \/ Rollback
           \/ Undone \/ Success
  <2>1. Gates => OfFix
    BY DEF Gates, Places
  <2> QED
    BY <1>4, <2>1 DEF Gates, AssertOriginal, AssertAgain, Replace, FinalCheck, Verify, Rollback,
       Undone, Success, Scanned, End, Judging, OfCheck, OfFix
<1>5. CASE \E t \in Targets : Compile(t) \/ Crash(t)
  BY <1>5 DEF Compile, Crash, Judging
<1> QED
  BY <1>1, <1>2, <1>3, <1>4, <1>5 DEF Next, Program, Environment

LEMMA StrictStep ==
    ASSUME Strict, Unsaved0, Types, Trees, AsRead, Places, Coverage, [Next]_vars PROVE Strict'
<1>1. Baseline => UNCHANGED <<found, options>>
                  /\ (~options.baseline => remaining' = found["initial"].findings)
  BY DEF Baseline, work
<1> QED
  BY <1>1, LastScan DEF Strict

\* A status stays until the next run, and what it is about with it.
LEMMA StillPassed ==
    ASSUME Types, Coverage, Trees, [Next]_vars, status' = "passed",
           ~AssertOriginal, ~AssertAgain, ~Success
    PROVE  /\ status = "passed"
           /\ UNCHANGED <<seen, reported, found, admitted, original, options>>
           /\ \A f \in Files : touched[f] = 2 => touched'[f] = 2
<1>1. CASE \/ Rest \/ UNCHANGED vars
           \/ \E f \in Files : \/ \E x \in Saves[f] : Save(f, x)
                               \/ \E x \in Scribbles[f] : BuildWrite(f, x)
  <2>1. status = "passed" /\ UNCHANGED <<seen, reported, found, admitted, original, options>>
    BY <1>1 DEF Rest, Save, BuildWrite, vars, work, results, env
  <2>2. \A f \in Files : touched[f] = 2 => touched'[f] = 2
    BY <1>1, NeverLess DEF Rest, vars, env
  <2> QED
    BY <2>1, <2>2
<1>2. CASE ~ \/ Rest \/ UNCHANGED vars
             \/ \E f \in Files : \/ \E x \in Saves[f] : Save(f, x)
                                 \/ \E x \in Scribbles[f] : BuildWrite(f, x)
  <2>1. pc # "idle" \/ Start
    BY <1>2 DEF Next, Program, Environment, ReadFile, Original, FmtOriginal, Copy, Snapshot, LintEnd,
       Assert, Layout, Baseline, Apply, Gates, AssertOriginal, AssertAgain, Replace, FinalCheck,
       Verify, Rollback, Undone, Success, Scanned, OfProject, OfTree, Compile, Crash, Fail
  <2>2. status = "running" \/ Start
    BY <2>1 DEF Coverage
  <2> QED
    BY <1>2, <2>2 DEF Next, Program, Environment, Start, ReadFile, Original, FmtOriginal, Copy,
       Snapshot, LintEnd, Assert, Layout, Baseline, Apply, Gates, Replace, FinalCheck, Verify,
       Rollback, Undone, Scanned, Compile, Crash, Fail, End
<1> QED
  BY <1>1, <1>2

\* What a check has found in a file that it held.
LEMMA FoundThere ==
    ASSUME AsRead, Types, Coverage, Trees, OfCheck,
           pc \in {"baseline", "assertOriginal"}, NEW f \in Files, Held(f),
           NEW x \in original[f].findings, NEW t \in reported, f \in Compiles[t], t \in x.seen
    PROVE  <<f, x>> \in found["initial"].findings
<1>1. original[f] \in Text
  BY DEF Trees
<1>2. x \in Findings
  BY <1>1 DEF Text
<1>3. t \in Targets /\ t \in Spoken /\ seen[t] # <<>>
  BY DEF Types, Coverage, Spoken
<1>4. seen[t][f] = original[f]
  BY <1>3 DEF AsRead
<1>5. <<f, x>> \in FindingsIn(t, seen[t])
  BY <1>2, <1>4 DEF FindingsIn
<1> QED
  BY <1>3, <1>5 DEF Found, AsRead

LEMMA Unchanged ==
    ASSUME Gated, Trees, OfFix, pc \in AfterGates, changed = {}
    PROVE  before = original /\ \A f \in Files : Clean(original, f)
<1>1. before = original
  BY DEF Gated, Differs, Trees
<1> QED
  BY <1>1 DEF Gated

LEMMA PassedStep ==
    ASSUME PassedIsClean, Strict, Gated, AsRead, Unsaved0, Types, Trees, Places, Coverage, [Next]_vars
    PROVE  PassedIsClean'
<1>1. SUFFICES ASSUME status' = "passed", ~options'.baseline, NEW f \in Files, touched'[f] # 2
               PROVE  Clean(original, f)'
  BY DEF PassedIsClean
<1>2. CASE AssertAgain \/ Success
  <2>1. /\ changed = {} /\ pc \in AfterGates /\ original' = original /\ pc \in OfFixOnly
    BY <1>1, <1>2 DEF AssertAgain, Success, Scanned, End, AfterGates, OfFixOnly, Replaced
  <2>2. OfFix
    BY <2>1, CheckOnly DEF OfFix, OfCheck, Coverage, Invocation, Options
  <2> QED
    BY <2>1, <2>2, Unchanged DEF Clean
<1>3. CASE AssertOriginal
  <2>1. /\ Judging /\ ~options.baseline /\ remaining = {} /\ scan = original /\ Len(scan) = N
        /\ UNCHANGED <<original, touched>>
    <3>1. options.command # "fix"
      BY <1>1, <1>3 DEF AssertOriginal, End, Scanned, Coverage
    <3> QED
      BY <1>1, <1>3, <3>1 DEF AssertOriginal, Scanned, End, Matches, Judging, OfCheck, Coverage,
         Invocation, Options
  <2>2. Held(f)
    BY <1>1, <2>1 DEF Held, Judging, Files
  <2>3. Complete /\ found["initial"].findings = {}
    BY <2>1 DEF Strict, Coverage, Judging, OfCheck
  <2>4. f \in Rust => original[f].formatted
    BY <2>1, <2>2 DEF AsRead, Judging
  <2>5. ASSUME NEW t \in Targets, NEW x \in original[f].findings, f \in Compiles[t], t \in x.seen
        PROVE  FALSE
    <3>1. t \in reported
      BY <2>3 DEF Complete
    <3> QED
      BY <2>1, <2>2, <2>3, <2>5, <3>1, FoundThere DEF Judging
  <2> QED
    BY <2>1, <2>4, <2>5 DEF Clean, Seen
<1>4. CASE ~AssertOriginal /\ ~AssertAgain /\ ~Success
  <2>1. /\ status = "passed" /\ UNCHANGED <<original, options>>
        /\ touched[f] = 2 => touched'[f] = 2
    BY <1>1, <1>4, StillPassed
  <2> QED
    BY <1>1, <2>1 DEF PassedIsClean, Clean
<1> QED
  BY <1>2, <1>3, <1>4

-----------------------------------------------------------------------------
(* NothingNewHidden.                                                       *)

\* The finding of a file that is held has its own fingerprint.
LEMMA OwnPrint ==
    ASSUME Trees, OfCheck, NEW f \in Files, project[f] = original[f],
           NEW x \in original[f].findings
    PROVE  Fingerprint(<<f, x>>) = <<f, x.print>>
BY DEF Fingerprint, Tree, OfCheck

LEMMA PrintsType == ASSUME Trees, NEW f \in Files, NEW x \in original[f].findings
                    PROVE  x \in Findings /\ <<f, x.print>> \in Fingerprints
<1>1. original[f] \in Text
  BY DEF Trees
<1>2. x \in Findings
  BY <1>1 DEF Text
<1> QED
  BY <1>2, FindingsAssumption DEF Fingerprints

\* When the baseline leaves nothing, it admits everything.
LEMMA LeavesNothing ==
    ASSUME NEW D, D \subseteq Files \X Findings, {} \in Left(D),
           admitted \in [Fingerprints -> Nat], NEW p \in Fingerprints
    PROVE  Document(D)[p] <= admitted[p]
<1>1. PICK m \in SUBSET D : D \ m = {} /\ Document(m)[p] = Least(Document(D)[p], admitted[p])
  BY DEF Left
<1>2. m = D
  BY <1>1
<1>3. Document(D)[p] \in Nat /\ admitted[p] \in Nat
  BY DocumentType
<1> QED
  BY <1>1, <1>2, <1>3 DEF Least

LEMMA SmallerSet ==
    ASSUME NEW D, D \subseteq Files \X Findings, NEW E, E \subseteq D
    PROVE  Cardinality(E) \in Nat /\ Cardinality(D) \in Nat /\ Cardinality(E) <= Cardinality(D)
<1>1. IsFiniteSet(D) /\ IsFiniteSet(E)
  BY FiniteFindings
<1> QED
  BY <1>1, FS_Subset, FS_CardinalityType

\* As many findings as pairs of a file and a finding.
LEMMA InFile ==
    ASSUME NEW f \in Files, NEW X, X \subseteq Findings
    PROVE  Cardinality(X) = Cardinality({f} \X X) /\ {f} \X X \subseteq Files \X Findings
<1> DEFINE D == {f} \X X
           pair == [x \in X |-> <<f, x>>]
<1>1. D \subseteq Files \X Findings
  OBVIOUS
<1>2. IsFiniteSet(X)
  BY FindingsAssumption, FS_Subset
<1>3. pair \in [X -> D] /\ \A x, y \in X : pair[x] = pair[y] => x = y
  OBVIOUS
<1>4. \A d \in D : \E x \in X : pair[x] = d
  OBVIOUS
<1>5. pair \in Bijection(X, D)
  BY <1>3, <1>4 DEF Bijection, Injection, Surjection, IsInjective
<1>6. ExistsBijection(X, D)
  BY <1>5 DEF ExistsBijection
<1> QED
  BY <1>1, <1>2, <1>6, FS_Bijection

LEMMA LenientBaseline ==
    ASSUME AsRead, Unsaved0, Types, Trees, Places, Coverage, Baseline PROVE Lenient'
<1> DEFINE D == found["initial"].findings
<1>1. SUFFICES ASSUME OfCheck, options.baseline, remaining' = {}, NEW f \in CheckedFiles,
                      NEW p \in Prints, Held(f)'
               PROVE  Cardinality(Occurring(f, p)) <= admitted[<<f, p>>]
  <2>1. UNCHANGED <<options, seen, reported, original, admitted>>
    BY DEF Baseline, work
  <2>2. CheckedFiles' = CheckedFiles /\ \A f, p : Occurring(f, p)' = Occurring(f, p)
    BY <2>1 DEF CheckedFiles, Occurring
  <2> QED
    BY <1>1, <2>1, <2>2 DEF Lenient, Judging, OfCheck
<1>2. /\ pc = "baseline" /\ {} \in Left(D) /\ scan = <<>>
      /\ UNCHANGED <<project, touched, original, scan>>
  BY <1>1 DEF Baseline, work, env, Places
<1>3. f \in Files /\ <<f, p>> \in Fingerprints
  BY TokensType DEF Fingerprints
<1>4. Held(f) /\ project[f] = original[f]
  <2>1. Held(f)
    BY <1>1, <1>2, <1>3, HeldElsewhere
  <2> QED
    BY <1>2, <2>1 DEF Held
<1>5. D \subseteq Files \X Findings
  BY DEF Types, Labels
<1> DEFINE X == Occurring(f, p)
           E == {d \in D : Fingerprint(d) = <<f, p>>}
<1>6. ASSUME NEW x \in X PROVE <<f, x>> \in E /\ x \in Findings
  <2>1. /\ x \in original[f].findings /\ x.print = p
        /\ \E t \in reported : f \in Compiles[t] /\ t \in x.seen
    BY DEF Occurring
  <2>2. <<f, x>> \in D
    BY <1>1, <1>2, <1>3, <1>4, <2>1, FoundThere
  <2> QED
    BY <1>1, <1>3, <1>4, <2>1, <2>2, OwnPrint, PrintsType
<1>7. X \subseteq Findings /\ {f} \X X \subseteq E /\ E \subseteq D
  <2>1. E \subseteq D
    OBVIOUS
  <2> HIDE DEF D, X, E
  <2>2. ASSUME NEW d \in {f} \X X PROVE d \in E
    <3>1. d = <<f, d[2]>> /\ d[2] \in X
      OBVIOUS
    <3> QED
      BY <1>6, <3>1
  <2> QED
    BY <1>6, <2>1, <2>2
<1>8. Cardinality(E) = Document(D)[<<f, p>>]
  BY <1>3 DEF Document
<1>9. Cardinality(E) <= admitted[<<f, p>>]
  BY <1>2, <1>3, <1>5, <1>8, LeavesNothing DEF Types
<1> HIDE DEF D, X, E
<1>10. E \subseteq Files \X Findings
  BY <1>5, <1>7
<1>11. Cardinality({f} \X X) \in Nat /\ Cardinality(E) \in Nat /\ Cardinality({f} \X X) <= Cardinality(E)
  BY <1>7, <1>10, SmallerSet
<1>12. Cardinality(X) = Cardinality({f} \X X)
  BY <1>3, <1>7, InFile
<1>13. admitted[<<f, p>>] \in Nat
  BY <1>3 DEF Types
<1>14. Cardinality(X) <= admitted[<<f, p>>]
  BY <1>9, <1>11, <1>12, <1>13
<1> QED
  BY <1>14 DEF X

LEMMA LenientStep ==
    ASSUME Lenient, Unsaved0, Types, Trees, AsRead, Places, Coverage, [Next]_vars PROVE Lenient'
<1>1. CASE Baseline
  BY <1>1, LenientBaseline
<1>2. CASE ~Baseline
  <2>1. SUFFICES ASSUME Judging', options'.baseline, remaining' = {}, NEW f \in CheckedFiles',
                        NEW p \in Prints, Held(f)'
                 PROVE  Cardinality(Occurring(f, p)') <= admitted'[<<f, p>>]
    BY DEF Lenient
  <2>2. /\ Judging /\ UNCHANGED <<seen, reported, remaining, admitted, original, options>>
        /\ \A g \in Files : Held(g)' => Held(g)
    BY <1>2, <2>1, LastScan
  <2>3. CheckedFiles' = CheckedFiles /\ Occurring(f, p)' = Occurring(f, p)
    BY <2>2 DEF CheckedFiles, Occurring
  <2>4. f \in Files
    BY <2>1, <2>3, TokensType
  <2> QED
    BY <2>1, <2>2, <2>3, <2>4 DEF Lenient
<1> QED
  BY <1>1, <1>2

LEMMA HiddenStep ==
    ASSUME NothingNewHidden, Lenient, AsRead, Unsaved0, Types, Trees, Places, Coverage, [Next]_vars
    PROVE  NothingNewHidden'
<1>1. SUFFICES ASSUME status' = "passed", options'.baseline, NEW f \in found'["initial"].files,
                      NEW p \in Prints, touched'[f] # 2
               PROVE  Cardinality(Occurring(f, p)') <= admitted'[<<f, p>>]
  BY DEF NothingNewHidden
<1>2. CASE AssertAgain \/ Success
  <2>1. pc \in OfFixOnly /\ options' = options
    BY <1>2 DEF AssertAgain, Success, Scanned, OfFixOnly, Replaced
  <2>2. options.command = "check"
    BY <1>1, <2>1 DEF Coverage, Invocation, Options
  <2> QED
    BY <2>1, <2>2, CheckOnly DEF OfCheck
<1>3. CASE AssertOriginal
  <2>1. /\ Judging /\ options.baseline /\ remaining = {} /\ scan = original /\ Len(scan) = N
        /\ UNCHANGED <<original, touched, found, seen, reported, admitted>>
    <3>1. options.command = "check"
      BY <1>1, <1>3 DEF AssertOriginal, Coverage, Invocation, Options
    <3>2. pc' = "idle" /\ status' = "passed"
      BY <1>1, <1>3, <3>1 DEF AssertOriginal, End
    <3> QED
      BY <1>1, <1>3, <3>1, <3>2 DEF AssertOriginal, Scanned, End, Matches, Judging, OfCheck, results
  <2>2. f \in CheckedFiles
    BY <2>1 DEF AsRead, Judging
  <2>3. f \in Files
    BY <2>2, TokensType
  <2>4. Held(f)
    BY <1>1, <2>1, <2>3 DEF Held, Judging, Files
  <2>5. Cardinality(Occurring(f, p)) <= admitted[<<f, p>>]
    BY <2>1, <2>2, <2>4 DEF Lenient
  <2> QED
    BY <2>1, <2>5 DEF Occurring
<1>4. CASE ~AssertOriginal /\ ~AssertAgain /\ ~Success
  <2>1. /\ status = "passed" /\ UNCHANGED <<reported, found, admitted, original, options>>
        /\ \A g \in Files : touched[g] = 2 => touched'[g] = 2
    BY <1>1, <1>4, StillPassed
  <2>2. f \in Files
    BY <2>1 DEF Types, Labels
  <2> QED
    BY <1>1, <2>1, <2>2 DEF NothingNewHidden, Occurring
<1> QED
  BY <1>2, <1>3, <1>4

-----------------------------------------------------------------------------
(* BaselineHolds.                                                          *)

LEMMA AllHeld ==
    ASSUME Unsaved0, Untouched, pc \notin {"idle", "scan"} \cup Replaced, NEW f \in Files
    PROVE  project[f] = original[f] /\ Held(f)
BY DEF Unsaved0, Untouched, Expected, Held

LEMMA DocumentedBaseline ==
    ASSUME AsRead, Unsaved0, Types, Trees, Places, Coverage, Baseline PROVE Documented'
<1> DEFINE D == found["initial"].findings
<1>1. SUFFICES ASSUME OfCheck, options.write, Complete, Untouched, NEW q \in Fingerprints
               PROVE  Cardinality(Printed(All(original), q)) <= Document(D)[q]
  <2>1. UNCHANGED <<options, reported, original, touched>>
    BY DEF Baseline, work, env
  <2>2. options.write => document' = Document(D)
    BY DEF Baseline
  <2> HIDE DEF D
  <2> QED
    BY <1>1, <2>1, <2>2 DEF Documented, Judging, OfCheck, Complete, Untouched, Admits, All, Printed
<1>2. pc = "baseline" /\ pc \notin {"idle", "scan"} \cup Replaced
  BY DEF Baseline, Replaced
<1> DEFINE E == {d \in D : Fingerprint(d) = q}
           P == Printed(All(original), q)
<1>3. ASSUME NEW d \in P PROVE d \in E
  <2>1. PICK f \in Files, x \in Findings :
            /\ d = <<f, x>> /\ x \in original[f].findings /\ <<f, x.print>> = q
            /\ \E t \in Targets : f \in Compiles[t] /\ t \in x.seen
    BY DEF Printed, All
  <2>2. project[f] = original[f] /\ Held(f)
    BY <1>1, <1>2, AllHeld
  <2>3. d \in D
    BY <1>1, <1>2, <2>1, <2>2, FoundThere DEF Complete
  <2> QED
    BY <1>1, <2>1, <2>2, <2>3, OwnPrint
<1>4. D \subseteq Files \X Findings /\ E \subseteq D
  BY DEF Types, Labels
<1>5. Document(D)[q] = Cardinality(E)
  BY DEF Document
<1> HIDE DEF D, E, P
<1>6. P \subseteq E /\ E \subseteq Files \X Findings
  BY <1>3, <1>4
<1>7. Cardinality(P) <= Cardinality(E)
  BY <1>6, SmallerSet
<1> QED
  BY <1>5, <1>7 DEF P

LEMMA DocumentedStep ==
    ASSUME Documented, Unsaved0, Types, Trees, AsRead, Places, Coverage, [Next]_vars
    PROVE  Documented'
<1>1. CASE Baseline
  BY <1>1, DocumentedBaseline
<1>2. CASE ~Baseline
  <2>1. SUFFICES ASSUME Judging', options'.write, Complete', Untouched'
                 PROVE  Admits(document', original')
    BY DEF Documented, Admits, All, Printed
  <2>2. /\ Judging /\ UNCHANGED <<reported, document, original, options>>
        /\ \A f \in Files : touched'[f] = 0 => touched[f] = 0
    BY <1>2, <2>1, LastScan
  <2>3. Complete /\ Untouched
    BY <2>1, <2>2 DEF Complete, Untouched
  <2> QED
    BY <2>1, <2>2, <2>3 DEF Documented
<1> QED
  BY <1>1, <1>2

\* What a check finds in a project that nobody has saved is all there.
LEMMA ForgivenBaseline ==
    ASSUME Recorded, AsRead, Unsaved0, Types, Trees, Places, Coverage, Baseline PROVE Forgiven'
<1> DEFINE D == found["initial"].findings
<1>1. SUFFICES ASSUME OfCheck, options.baseline, recorded PROVE remaining' = {}
  BY DEF Forgiven, Judging, OfCheck, Baseline, env, work
<1>2. pc = "baseline" /\ pc \notin {"idle", "scan"} \cup Replaced /\ remaining' \in Left(D)
  BY <1>1 DEF Baseline, Replaced
<1>3. Untouched /\ Admits(admitted, Standing)
  BY <1>1 DEF Recorded
<1>4. Standing = project /\ \A f \in Files : project[f] = original[f] /\ Held(f)
  BY <1>2, <1>3, AllHeld DEF Standing, Trees
<1>5. D = Found /\ D \subseteq Files \X Findings
  BY <1>1, <1>2 DEF AsRead, Types, Labels
<1>6. ASSUME NEW d \in D
      PROVE  d \in All(project) /\ Fingerprint(d) = <<d[1], d[2].print>> /\ Fingerprint(d) \in Fingerprints
  <2>1. PICK t \in Spoken : d \in FindingsIn(t, seen[t])
    BY <1>5 DEF Found
  <2>2. t \in Targets /\ seen[t] # <<>> /\ Compiles[t] \subseteq Files
    BY FilesAssumption DEF Spoken
  <2>3. PICK f \in Compiles[t], x \in Findings :
            d = <<f, x>> /\ x \in seen[t][f].findings /\ t \in x.seen
    BY <2>1 DEF FindingsIn
  <2>4. f \in Files /\ seen[t][f] = original[f]
    BY <1>1, <1>2, <1>4, <2>2 DEF AsRead
  <2>5. x \in project[f].findings /\ x \in original[f].findings
    BY <1>4, <2>3, <2>4
  <2>6. d \in All(project)
    BY <2>2, <2>3, <2>4, <2>5 DEF All
  <2> QED
    BY <1>1, <1>4, <2>3, <2>4, <2>5, <2>6, OwnPrint, PrintsType
<1> HIDE DEF D
<1>7. ASSUME NEW m \in SUBSET D, NEW q \in Fingerprints,
             Document(m)[q] = Least(Document(D)[q], admitted[q])
      PROVE  {d \in m : Fingerprint(d) = q} = {d \in D : Fingerprint(d) = q}
  <2> DEFINE E == {d \in D : Fingerprint(d) = q}
             F == {d \in m : Fingerprint(d) = q}
             P == Printed(All(project), q)
  <2>1. Document(D)[q] = Cardinality(E) /\ Document(m)[q] = Cardinality(F)
    BY DEF Document
  <2>2. E \subseteq P /\ P \subseteq Files \X Findings
    BY <1>5, <1>6 DEF Printed, All
  <2>3. Cardinality(P) <= admitted[q] /\ admitted[q] \in Nat
    BY <1>3, <1>4 DEF Admits, Types
  <2>4. F \subseteq E /\ E \subseteq Files \X Findings
    BY <1>5
  <2> HIDE DEF E, F, P
  <2>5. /\ Cardinality(E) \in Nat /\ Cardinality(P) \in Nat /\ Cardinality(E) <= Cardinality(P)
    BY <2>2, SmallerSet
  <2>6. Cardinality(F) = Cardinality(E)
    BY <1>7, <2>1, <2>3, <2>5 DEF Least
  <2>7. IsFiniteSet(E)
    BY <2>4, FiniteFindings
  <2>8. F = E
    BY <2>4, <2>6, <2>7, FS_Subset
  <2> QED
    BY <2>8 DEF E, F
<1>8. PICK m \in SUBSET D : /\ remaining' = D \ m
                            /\ \A q \in Fingerprints :
                                  Document(m)[q] = Least(Document(D)[q], admitted[q])
  BY <1>2 DEF Left
<1>9. ASSUME NEW d \in D PROVE d \in m
  <2>1. Fingerprint(d) \in Fingerprints
    BY <1>6
  <2>2. {e \in m : Fingerprint(e) = Fingerprint(d)} = {e \in D : Fingerprint(e) = Fingerprint(d)}
    BY <1>7, <1>8, <2>1
  <2> QED
    BY <2>2
<1> QED
  BY <1>8, <1>9

LEMMA ForgivenStep ==
    ASSUME Forgiven, Recorded, Unsaved0, Types, Trees, AsRead, Places, Coverage, [Next]_vars
    PROVE  Forgiven'
BY LastScan, ForgivenBaseline DEF Forgiven

LEMMA RecordedElsewhere ==
    ASSUME Recorded, recorded' => recorded, admitted' = admitted, Standing' = Standing,
           \A f \in Files : touched[f] = 0 => touched'[f] = 0
    PROVE  Recorded'
BY DEF Recorded, Untouched, Admits, All, Printed

\* A commit, until it is final, leaves what was standing before it.
LEMMA RecordedCommit ==
    ASSUME Recorded, Unsaved0, Trees, Replace \/ Rollback \/ Success PROVE Recorded'
<1>1. SUFFICES ASSUME recorded' PROVE Recorded'
  BY DEF Recorded
<1>2. recorded /\ admitted' = admitted /\ UNCHANGED <<touched, changed, original>>
  BY <1>1 DEF Replace, Rollback, Success, env, results
<1>3. \A f \in Files : touched[f] = 0
  BY <1>2 DEF Recorded, Untouched
<1>4. CASE Replace
  <2>1. pc = "replace" /\ \A f \in Files : project[f] = original[f]
    BY <1>3, <1>4 DEF Replace, Unsaved0, Expected, Replaced
  <2>2. \/ project' = project /\ pc' \notin Replaced
        \/ /\ pc' = "finalCheck"
           /\ project' = [f \in Files |-> IF f \in changed THEN before[f] ELSE project[f]]
    BY <1>4 DEF Replace, End, Replaced
  <2>3. Standing' = Standing
    BY <1>2, <2>1, <2>2 DEF Standing, Replaced
  <2> QED
    BY <1>2, <2>3, RecordedElsewhere
<1>5. CASE Rollback
  <2>1. /\ pc = "rollback" /\ pc' = "undone"
        /\ project' = [f \in Files |->
               IF f \in changed /\ project[f] = before[f] THEN original[f] ELSE project[f]]
    BY <1>5 DEF Rollback
  <2>2. \A f \in Files : project[f] = IF f \in changed THEN before[f] ELSE original[f]
    BY <1>3, <2>1 DEF Unsaved0, Expected, Replaced
  <2>3. Standing' = Standing
    BY <1>2, <2>1, <2>2 DEF Standing, Replaced
  <2> QED
    BY <1>2, <2>3, RecordedElsewhere
<1>6. CASE Success
  <2>1. changed = {} /\ project' = project
    BY <1>1, <1>6 DEF Success
  <2>2. Standing' = Standing
    BY <1>2, <2>1 DEF Standing
  <2> QED
    BY <1>2, <2>2, RecordedElsewhere
<1> QED
  BY <1>4, <1>5, <1>6

LEMMA RecordedAssert ==
    ASSUME Recorded, Documented, Unsaved0, Types, Trees, Coverage, AssertOriginal PROVE Recorded'
<1>1. /\ pc = "assertOriginal" /\ UNCHANGED <<project, touched, changed, original>>
      /\ \/ pc' \notin Replaced
         \/ pc' = "finalCheck" /\ changed = {}
  BY DEF AssertOriginal, Scanned, End, results, Replaced
<1>2. Standing' = project /\ Standing = project
  BY <1>1 DEF Standing, Replaced, Trees
<1>3. CASE UNCHANGED <<admitted, recorded>>
  BY <1>1, <1>2, <1>3, RecordedElsewhere
<1>4. CASE ~UNCHANGED <<admitted, recorded>>
  <2>1. /\ pc' = "idle" /\ status' = "baselined" /\ admitted' = document
        /\ recorded' = (Complete /\ Untouched)
    BY <1>4 DEF AssertOriginal
  <2>2. options.write /\ Judging
    BY <1>1, <2>1 DEF AssertOriginal, End, Judging, OfCheck, Coverage, Invocation, Options
  <2>3. SUFFICES ASSUME Complete, Untouched PROVE Untouched' /\ Admits(document, project)
    BY <1>2, <2>1 DEF Recorded, Admits, All, Printed
  <2>4. Admits(document, original)
    BY <2>2, <2>3 DEF Documented
  <2>5. project = original
    BY <1>1, <2>3, AllHeld DEF Trees, Replaced
  <2> QED
    BY <1>1, <2>3, <2>4, <2>5 DEF Untouched
<1> QED
  BY <1>3, <1>4

LEMMA RecordedStep ==
    ASSUME Recorded, Documented, Unsaved0, Types, Trees, Coverage, [Next]_vars
    PROVE  Recorded'
<1>1. CASE Replace \/ Rollback \/ Success
  BY <1>1, RecordedCommit
<1>2. CASE AssertOriginal
  BY <1>2, RecordedAssert
<1>3. ASSUME NEW f \in Files, NEW x \in Saves[f] \cup Scribbles[f], Save(f, x) \/ BuildWrite(f, x)
      PROVE  Recorded'
  <2>1. CASE WriteProject(f, x)
    BY <2>1 DEF WriteProject, Recorded
  <2>2. CASE ~WriteProject(f, x)
    <3>1. UNCHANGED <<project, touched, recorded, admitted, pc, changed, original>>
      BY <1>3, <2>2 DEF Save, BuildWrite, results
    <3> QED
      BY <3>1, RecordedElsewhere DEF Standing
  <2> QED
    BY <2>1, <2>2
<1>4. CASE Start
  <2>1. /\ pc = "idle" /\ pc' = "scan" /\ UNCHANGED <<project, recorded, admitted>>
        /\ touched' = [f \in Files |-> 0]
    BY <1>4 DEF Start
  <2>2. Standing' = Standing
    BY <2>1 DEF Standing, Replaced
  <2> QED
    BY <2>1, <2>2, RecordedElsewhere
<1>5. CASE Gates
  <2>1. /\ UNCHANGED <<project, recorded, admitted, touched>> /\ pc = "gates"
        /\ pc' \in {"assertOriginal", "idle"}
    BY <1>5 DEF Gates, End, env
  <2>2. Standing' = Standing
    BY <2>1 DEF Standing, Replaced
  <2> QED
    BY <2>1, <2>2, RecordedElsewhere
<1>6. CASE \/ ReadFile \/ Original \/ FmtOriginal \/ Copy \/ Snapshot \/ LintEnd \/ Assert
           \/ Layout \/ Baseline \/ Apply \/ AssertAgain \/ FinalCheck \/ Verify \/ Undone \/ Fail
           \/ (\E t \in Targets : Compile(t) \/ Crash(t)) \/ Rest \/ UNCHANGED vars
  <2>1. UNCHANGED <<project, recorded, admitted, touched>>
    BY <1>6 DEF ReadFile, Original, FmtOriginal, Copy, Snapshot, LintEnd, Assert, Layout, Baseline,
       Apply, AssertAgain, FinalCheck, Verify, Undone, Fail, Compile, Crash, Rest, vars, env
  <2>2. Standing' = Standing
    <3>1. CASE \/ ReadFile \/ Rest \/ UNCHANGED vars \/ (\E t \in Targets : Compile(t) \/ Crash(t))
      BY <2>1, <3>1 DEF ReadFile, Compile, Crash, Rest, vars, results, Standing
    <3>2. CASE \/ Original \/ FmtOriginal \/ Copy \/ Snapshot \/ LintEnd \/ Assert \/ Layout
               \/ Baseline \/ Apply \/ AssertAgain \/ Undone
      <4>1. pc \notin Replaced /\ pc' \notin Replaced
        <5>1. CASE Assert
          BY <5>1 DEF Assert, Scanned, End, Replaced, Coverage, Labels
        <5> QED
          BY <3>2, <5>1 DEF Original, FmtOriginal, Copy, Snapshot, LintEnd, Layout, Baseline, Apply,
             AssertAgain, Undone, Scanned, End, Replaced
      <4> QED
        BY <2>1, <4>1 DEF Standing
    <3>3. CASE FinalCheck \/ Verify
      BY <2>1, <3>3 DEF FinalCheck, Verify, Scanned, Standing, Replaced, results
    <3>4. CASE Fail
      BY <2>1, <3>4 DEF Fail, End, Standing, Replaced, results
    <3> QED
      BY <1>6, <3>1, <3>2, <3>3, <3>4
  <2> QED
    BY <2>1, <2>2, RecordedElsewhere
<1> QED
  BY <1>1, <1>2, <1>3, <1>4, <1>5, <1>6 DEF Next, Program, Environment

\* Only the last scan of a check may report violations.
LEMMA Violations ==
    ASSUME Coverage, [Next]_vars, status' = "violations", ~AssertOriginal
    PROVE  status = "violations" /\ options' = options
<1>1. CASE \/ Rest \/ UNCHANGED vars
           \/ \E f \in Files : \/ \E x \in Saves[f] : Save(f, x)
                               \/ \E x \in Scribbles[f] : BuildWrite(f, x)
  BY <1>1 DEF Rest, Save, BuildWrite, vars, work, results, env
<1>2. CASE ~ \/ Rest \/ UNCHANGED vars
             \/ \E f \in Files : \/ \E x \in Saves[f] : Save(f, x)
                                 \/ \E x \in Scribbles[f] : BuildWrite(f, x)
  <2>1. status = "running" \/ Start
    BY <1>2 DEF Next, Program, Environment, ReadFile, Original, FmtOriginal, Copy, Snapshot, LintEnd,
       Assert, Layout, Baseline, Apply, Gates, AssertOriginal, AssertAgain, Replace, FinalCheck,
       Verify, Rollback, Undone, Success, Scanned, OfProject, OfTree, Compile, Crash, Fail, Coverage
  <2> QED
    BY <1>2, <2>1 DEF Next, Program, Environment, Start, ReadFile, Original, FmtOriginal, Copy,
       Snapshot, LintEnd, Assert, Layout, Baseline, Apply, Gates, AssertAgain, Replace, FinalCheck,
       Verify, Rollback, Undone, Success, Scanned, Compile, Crash, Fail, End
<1> QED
  BY <1>1, <1>2

LEMMA NewViolations ==
    ASSUME Coverage, AssertOriginal, status' = "violations"
    PROVE  Judging /\ remaining # {} /\ UNCHANGED <<options, recorded, settled>>
BY DEF AssertOriginal, Scanned, End, Judging, OfCheck, Coverage, Invocation, Options

LEMMA HoldsStep ==
    ASSUME BaselineHolds, Forgiven, Coverage, [Next]_vars PROVE BaselineHolds'
<1>1. SUFFICES ASSUME recorded', status' = "violations", options'.baseline PROVE FALSE
  BY DEF BaselineHolds
<1>2. CASE AssertOriginal
  BY <1>1, <1>2, NewViolations DEF Forgiven
<1>3. CASE ~AssertOriginal
  <2>1. status = "violations" /\ options.baseline
    BY <1>1, <1>3, Violations
  <2>2. recorded
    BY <1>1, <1>3 DEF Next, Program, Environment, Start, ReadFile, Original, FmtOriginal, Copy,
       Snapshot, LintEnd, Assert, Layout, Baseline, Apply, Gates, AssertAgain, Replace, FinalCheck,
       Verify, Rollback, Undone, Success, Compile, Crash, Fail, Save, BuildWrite, WriteProject,
       Rest, vars, env
  <2> QED
    BY <2>1, <2>2 DEF BaselineHolds
<1> QED
  BY <1>2, <1>3

-----------------------------------------------------------------------------
(* FixIsFinal.                                                             *)

LEMMA SpokeElsewhere ==
    ASSUME Spoke, UNCHANGED <<seen, before, replica, options>>,
           pc' \in {"lint", "assert"} /\ OfFix => pc \in {"lint", "assert"}
    PROVE  Spoke'
BY DEF Spoke, Spoken, Saw, OfFix

LEMMA SpokeTargets ==
    ASSUME Spoke, Types, Coverage, NEW t \in Targets, Compile(t) \/ Crash(t) PROVE Spoke'
<1>1. /\ pc = "lint" /\ seen' \in {seen, [seen EXCEPT ![t] = Texts(t)]}
      /\ UNCHANGED <<replica, before, options, pc>>
  BY DEF Compile, Crash
<1>2. SUFFICES ASSUME OfFix, NEW u \in Targets, seen'[u] # <<>> PROVE Saw(u)'
  BY <1>1 DEF Spoke, Spoken, OfFix
<1>3. DOMAIN seen = Targets
  BY DEF Coverage
<1>4. CASE seen'[u] = seen[u]
  BY <1>1, <1>2, <1>4 DEF Spoke, Spoken, Saw
<1>5. CASE seen'[u] = Texts(t) /\ u = t
  <2>1. Texts(t) = [f \in Compiles[t] |-> replica[f]]
    BY <1>2 DEF Texts, Tree, OfFix
  <2> HIDE DEF Texts
  <2> QED
    BY <1>1, <1>5, <2>1 DEF Saw
<1> HIDE DEF Texts
<1> QED
  BY <1>1, <1>3, <1>4, <1>5

LEMMA SpokeWrites ==
    ASSUME Spoke, Trees, NEW f \in Files, NEW x \in Saves[f] \cup Scribbles[f],
           Save(f, x) \/ BuildWrite(f, x)
    PROVE  Spoke'
<1>1. UNCHANGED <<seen, before, options, pc>>
  BY DEF Save, BuildWrite, work
<1>2. CASE replica' = replica
  BY <1>1, <1>2, SpokeElsewhere
<1>3. CASE replica' # replica
  <2>1. /\ replica' = [replica EXCEPT ![f] = x] /\ x # before[f]
        /\ replica[f] = before[f] \/ ~OfFix
    BY <1>3 DEF Save, BuildWrite, Tree, OfFix
  <2>2. \A g \in Files : replica'[g] = IF g = f THEN x ELSE replica[g]
    BY <2>1 DEF Trees
  <2>3. ASSUME OfFix, NEW t \in Targets, Saw(t) PROVE Saw(t)'
    BY <1>1, <2>1, <2>2, <2>3, FilesAssumption DEF Saw
  <2> QED
    BY <1>1, <2>3 DEF Spoke, Spoken, OfFix
<1> QED
  BY <1>2, <1>3

LEMMA SpokeStep == ASSUME Spoke, Types, Trees, Coverage, [Next]_vars PROVE Spoke'
<1>1. CASE Snapshot
  <2>1. seen' = [t \in Targets |-> <<>>]
    BY <1>1 DEF Snapshot
  <2> QED
    BY <2>1 DEF Spoke, Spoken
<1>2. CASE Assert
  <2>1. pc' \notin {"lint", "assert"}
    BY <1>2 DEF Assert, Scanned, End, Coverage, Labels
  <2> QED
    BY <2>1 DEF Spoke
<1>3. CASE ReadFile \/ LintEnd \/ Rest \/ UNCHANGED vars
  BY <1>3, SpokeElsewhere DEF ReadFile, LintEnd, End, Rest, vars, work
<1>4. CASE \/ Start \/ Original \/ FmtOriginal \/ Copy \/ Layout \/ Baseline \/ Apply \/ Gates
           \/ AssertOriginal \/ AssertAgain \/ Replace \/ FinalCheck \/ Verify \/ Rollback
           \/ Undone \/ Success \/ Fail
  <2>1. pc' \notin {"lint", "assert"}
    BY <1>4 DEF Start, Original, FmtOriginal, Copy, Layout, Baseline, Apply, Gates, AssertOriginal,
       AssertAgain, Replace, FinalCheck, Verify, Rollback, Undone, Success, Fail, Scanned, End
  <2> QED
    BY <2>1 DEF Spoke
<1> QED
  BY <1>1, <1>2, <1>3, <1>4, SpokeTargets, SpokeWrites DEF Next, Program, Environment

\* A lint of a clean project, which nobody has saved, finds nothing.
LEMMA FoundNothing ==
    ASSUME Settled, settled, Spoke, AsRead, Unsaved0, Sound, Types, Coverage, Assert, pc' # "idle"
    PROVE  label # "fixed" => found[label].findings = {}
<1>1. /\ pc = "assert" /\ Scanned("assert") /\ Matches(before)
  BY DEF Assert, Scanned, End
<1>2. OfCheck \/ OfFix
  BY DEF Coverage, Invocation, Options, OfCheck, OfFix
<1>3. Untouched /\ \A f \in Files : Clean(project, f)
  BY DEF Settled
<1>4. \A f \in Files : project[f] = original[f] /\ Held(f)
  BY <1>1, <1>3, AllHeld DEF Replaced
<1>5. ASSUME NEW t \in Spoken, NEW f \in Compiles[t] PROVE seen[t][f] = original[f] /\ f \in Files
  <2>1. t \in Targets /\ seen[t] # <<>> /\ f \in Files
    BY FilesAssumption DEF Spoken
  <2>2. CASE OfCheck
    BY <1>1, <1>4, <2>1, <2>2 DEF AsRead
  <2>3. CASE OfFix
    <3>1. replica[f] = before[f]
      BY <1>1, <2>1, <2>3, SawBefore
    <3>2. seen[t][f] = before[f]
      BY <1>1, <2>3, <3>1 DEF Spoke, Saw
    <3> QED
      BY <1>1, <2>1, <2>3, <3>2 DEF Settled, NothingToDo, Same
  <2> QED
    BY <1>2, <2>2, <2>3
<1>6. Found = {}
  <2>1. SUFFICES ASSUME NEW t \in Spoken, NEW d \in FindingsIn(t, seen[t]) PROVE FALSE
    BY DEF Found
  <2>2. PICK f \in Compiles[t], x \in Findings :
            d = <<f, x>> /\ x \in seen[t][f].findings /\ t \in x.seen
    BY DEF FindingsIn
  <2>3. f \in Files /\ x \in project[f].findings /\ t \in Targets
    BY <1>4, <1>5, <2>2 DEF Spoken
  <2> QED
    BY <1>3, <2>2, <2>3 DEF Clean, Seen
<1>7. CASE OfFix
  BY <1>1, <1>6, <1>7 DEF Sound, Result
<1>8. CASE OfCheck
  BY <1>1, <1>6, <1>8, CheckOnly DEF AsRead, Sound
<1> QED
  BY <1>2, <1>7, <1>8

\* No edits change nothing.
LEMMA NoEdits == ASSUME NEW tree \in [Files -> Text] PROVE Applied(tree, {}) = tree
<1>1. \A f : Fixes(f, {}) = {}
  BY DEF Fixes
<1>2. Applied(tree, {}) = [f \in Files |-> [code |-> tree[f].code, formatted |-> tree[f].formatted,
                                            findings |-> tree[f].findings]]
  <2>1. ASSUME NEW f \in Files
        PROVE  /\ (tree[f].formatted /\ ~\E x \in Fixes(f, {}) : x.fix = "ugly") = tree[f].formatted
               /\ tree[f].findings \ Fixes(f, {}) = tree[f].findings
               /\ ~\E x \in Fixes(f, {}) : x.fix = "breaks"
               /\ ~\E x \in Fixes(f, {}) : x.fix = "reveals"
    <3>1. tree[f] \in Text
      OBVIOUS
    <3>2. tree[f].formatted \in BOOLEAN
      BY <3>1 DEF Text
    <3> QED
      BY <1>1, <3>2
  <2> QED
    BY <2>1 DEF Applied, Edited
<1>3. ASSUME NEW f \in Files
      PROVE  [code |-> tree[f].code, formatted |-> tree[f].formatted,
              findings |-> tree[f].findings] = tree[f]
  BY DEF Text
<1> QED
  BY <1>2, <1>3

LEMMA ToDoEnd ==
    ASSUME pc' \in {"idle", "scan", "fmtOriginal", "copy", "undone", "replace"} PROVE NothingToDo'
BY DEF NothingToDo, Judging

LEMMA ToDoElsewhere ==
    ASSUME NothingToDo,
           UNCHANGED <<pc, replica, before, original, found, remaining, changed, options>>
    PROVE  NothingToDo'
BY DEF NothingToDo, Same, Judging, OfFix, OfCheck

\* A second fix of a settled project reads it ...
LEMMA ToDoLint ==
    ASSUME Settled, settled, Spoke, AsRead, Unsaved0, Sound, Types, Coverage,
           \/ Copy \/ Snapshot \/ LintEnd \/ Assert \/ (\E t \in Targets : Compile(t) \/ Crash(t))
    PROVE  NothingToDo'
<1>1. UNCHANGED <<original, remaining, changed, options, label>>
  BY DEF Copy, Snapshot, LintEnd, Assert, Compile, Crash, results
<1>2. CASE pc' = "idle"
  BY <1>2, ToDoEnd
<1>3. CASE Copy /\ pc' = "snapshot"
  <2>1. OfFix => replica' = original
    BY <1>3 DEF Copy, End, OfFix
  <2> QED
    BY <1>1, <1>3, <2>1 DEF NothingToDo, Same, Judging, OfFix
<1>4. CASE Snapshot /\ pc' = "lint"
  <2>1. pc = "snapshot" /\ before' = scan /\ Len(scan) = N
    BY <1>4 DEF Snapshot, Scanned
  <2>2. OfFix => \A f \in Files : before'[f] = replica[f]
    BY <2>1 DEF Sound, Scanning, Files
  <2> QED
    BY <1>1, <1>4, <2>1, <2>2 DEF Settled, NothingToDo, Same, Judging, OfFix
<1>5. CASE LintEnd /\ pc' = "assert"
  BY <1>1, <1>5 DEF LintEnd, Settled, NothingToDo, Same, Judging, OfFix
<1>6. CASE \E t \in Targets : Compile(t) \/ Crash(t)
  BY <1>6, ToDoElsewhere DEF Compile, Crash, results, Settled
<1>7. CASE Assert /\ pc' # "idle"
  <2>1. /\ pc = "assert" /\ Scanned("assert") /\ Matches(before) /\ UNCHANGED <<replica, before, found>>
        /\ \/ label = "declarations" /\ pc' = "layout"
           \/ label = "initial" /\ pc' = "baseline"
           \/ label = "fixed" /\ pc' = "gates"
    BY <1>7 DEF Assert, Scanned, End, results, Coverage, Labels
  <2>2. label # "fixed" => found[label].findings = {}
    BY <1>7, FoundNothing
  <2>3. OfFix => Same(before) /\ \A f \in Files : replica[f] = before[f]
    BY <2>1, SawBefore DEF Settled, NothingToDo
  <2> QED
    BY <1>1, <2>1, <2>2, <2>3 DEF NothingToDo, Same, Judging, OfFix
<1> QED
  <2>1. \/ pc' = "idle"
        \/ Copy /\ pc' = "snapshot"
        \/ Snapshot /\ pc' = "lint"
        \/ LintEnd /\ pc' = "assert"
        \/ Assert /\ pc' # "idle"
        \/ \E t \in Targets : Compile(t) \/ Crash(t)
    BY DEF Copy, Snapshot, LintEnd, End
  <2> QED
    BY <1>2, <1>3, <1>4, <1>5, <1>6, <1>7, <2>1

\* ... and has nothing to edit.
LEMMA ToDoEdits ==
    ASSUME Settled, settled, Unsaved0, Sound, Types, Coverage,
           Layout \/ Baseline \/ Apply \/ Gates
    PROVE  NothingToDo'
<1>1. UNCHANGED <<original, before, options>> /\ NothingToDo
  BY DEF Layout, Baseline, Apply, Gates, Settled
<1>2. CASE pc' = "idle"
  BY <1>2, ToDoEnd
<1>3. CASE Layout /\ pc' = "snapshot"
  <2> DEFINE laid == Applied(replica, LayoutEdits(found["declarations"].findings))
  <2>1. /\ replica' = [f \in Files |-> IF f \in Rust THEN Rustfmt[laid[f]] ELSE laid[f]]
        /\ pc = "layout"
    BY <1>3 DEF Layout, End
  <2>2. laid = replica
    <3>1. LayoutEdits(found["declarations"].findings) = {}
      BY <1>1, <2>1 DEF NothingToDo, LayoutEdits, Fixable
    <3> QED
      BY <3>1, NoEdits DEF Sound, Trees
  <2> HIDE DEF laid
  <2>3. ASSUME OfFix, NEW f \in Files PROVE replica'[f] = original[f]
    <3>1. replica[f] = original[f] /\ project[f] = original[f]
      BY <1>1, <2>1, <2>3, AllHeld DEF NothingToDo, Same, Settled, Replaced
    <3>2. f \in Rust => replica[f].formatted
      BY <3>1 DEF Settled, Clean
    <3>3. replica[f] \in Text
      BY DEF Sound, Trees
    <3>4. f \in Rust => Rustfmt[replica[f]] = replica[f]
      BY <3>2, <3>3, RustfmtAssumption
    <3> QED
      BY <2>1, <2>2, <3>1, <3>4
  <2> QED
    BY <1>1, <1>3, <2>3 DEF NothingToDo, Same, Judging, OfFix
<1>4. CASE Baseline
  <2>1. /\ pc = "baseline" /\ UNCHANGED <<replica, found>>
        /\ \/ remaining' \in Left(found["initial"].findings)
           \/ remaining' = found["initial"].findings
        /\ \/ pc' = "assertOriginal" /\ ~OfFix
           \/ pc' = "apply"
    BY <1>4 DEF Baseline, OfFix
  <2>2. found["initial"].findings = {}
    BY <1>1, <2>1 DEF NothingToDo
  <2>3. remaining' = {}
    BY <2>1, <2>2, LeftSubset
  <2> QED
    BY <1>1, <2>1, <2>2, <2>3 DEF NothingToDo, Same, Judging, OfFix
<1>5. CASE Apply /\ pc' = "snapshot"
  <2>1. replica' = Applied(replica, found["initial"].findings) /\ pc = "apply"
    BY <1>5 DEF Apply, End
  <2>2. replica' = replica
    BY <1>1, <2>1, NoEdits DEF NothingToDo, Sound, Trees
  <2> QED
    BY <1>1, <1>5, <2>1, <2>2 DEF NothingToDo, Same, Judging, OfFix
<1>6. CASE Gates /\ pc' = "assertOriginal"
  <2>1. pc = "gates" /\ changed' = Differs /\ OfFix
    BY <1>6 DEF Gates, End, Sound, Places
  <2>2. Differs = {}
    BY <1>1, <2>1 DEF NothingToDo, Same, Differs
  <2> QED
    BY <1>1, <1>6, <2>1, <2>2 DEF NothingToDo, Same, Judging, OfFix, OfCheck
<1> QED
  <2>1. \/ pc' = "idle"
        \/ Layout /\ pc' = "snapshot"
        \/ Baseline
        \/ Apply /\ pc' = "snapshot"
        \/ Gates /\ pc' = "assertOriginal"
    BY DEF Layout, Apply, Gates, End
  <2> QED
    BY <1>2, <1>3, <1>4, <1>5, <1>6, <2>1

LEMMA ToDoLate ==
    ASSUME Settled, settled, pc # "replace",
           \/ AssertOriginal \/ AssertAgain \/ Replace \/ FinalCheck \/ Verify \/ Rollback
           \/ Undone \/ Success \/ Fail \/ Start \/ Original \/ FmtOriginal
    PROVE  NothingToDo'
<1>1. CASE \/ AssertAgain \/ Undone \/ Success \/ Start \/ Original \/ FmtOriginal
  BY <1>1, ToDoEnd DEF AssertAgain, Undone, Success, Start, Original, FmtOriginal, Scanned, End
<1>2. CASE AssertOriginal
  <2>1. \/ pc' \in {"idle", "replace"}
        \/ pc = "assertOriginal" /\ pc' \in {"assertAgain", "finalCheck"} /\ OfFix /\ changed' = changed
    BY <1>2 DEF AssertOriginal, Scanned, End, OfFix, results
  <2>2. NothingToDo
    BY DEF Settled
  <2> QED
    BY <2>1, <2>2, ToDoEnd DEF NothingToDo, Judging, OfFix
<1>3. CASE Replace
  BY <1>3 DEF Replace
<1>4. CASE FinalCheck \/ Verify \/ Rollback \/ Fail
  <2>1. \/ pc' = "idle" \/ pc' = "undone"
        \/ /\ pc \in {"finalCheck", "verify"} /\ pc' \in {"rollback", "success", "verify"}
           /\ changed' = changed
    BY <1>4 DEF FinalCheck, Verify, Rollback, Fail, Scanned, End, results
  <2>2. NothingToDo
    BY DEF Settled
  <2> QED
    BY <2>1, <2>2, ToDoEnd DEF NothingToDo, Judging
<1> QED
  BY <1>1, <1>2, <1>3, <1>4

\* A settled project stays as it is.
LEMMA SettledProject ==
    ASSUME Settled, settled, FixIsFinal, Types, Trees, [Next]_vars, settled', ~Success
    PROVE  project' = project /\ Untouched'
<1>1. pc # "replace" /\ Untouched /\ NothingToDo
  BY DEF Settled, FixIsFinal
<1>2. CASE Start
  BY <1>2 DEF Start, Untouched
<1>3. CASE Rollback
  <2>1. changed = {}
    BY <1>1, <1>3 DEF Rollback, NothingToDo
  <2>2. project' = project
    BY <1>3, <2>1 DEF Rollback, Trees
  <2> QED
    BY <1>1, <1>3, <2>2 DEF Rollback, env, Untouched
<1>4. ASSUME NEW f \in Files, NEW x \in Saves[f] \cup Scribbles[f], Save(f, x) \/ BuildWrite(f, x)
      PROVE  project' = project /\ touched' = touched
  BY <1>4 DEF Save, BuildWrite, WriteProject
<1>5. CASE ~Start /\ ~Rollback /\ ~Replace
           /\ ~\E f \in Files : \/ \E x \in Saves[f] : Save(f, x)
                                \/ \E x \in Scribbles[f] : BuildWrite(f, x)
  <2>1. UNCHANGED <<project, touched>>
    BY <1>5 DEF Next, Program, Environment, ReadFile, Original, FmtOriginal, Copy, Snapshot, LintEnd,
       Assert, Layout, Baseline, Apply, Gates, AssertOriginal, AssertAgain, FinalCheck, Verify,
       Undone, Success, Compile, Crash, Fail, Rest, vars, env
  <2> QED
    BY <1>1, <2>1 DEF Untouched
<1>6. ~Replace
  BY <1>1 DEF Replace
<1> QED
  BY <1>1, <1>2, <1>3, <1>4, <1>5, <1>6 DEF Untouched

\* A fix that succeeds, with nothing saved since it began, leaves what it has linted.
LEMMA Settles ==
    ASSUME Success, Gated, AsRead, Unsaved0, Coverage, Untouched, Trees
    PROVE  project' = project /\ \A f \in Files : Clean(project, f)
<1>1. pc = "success" /\ project' = project
  BY DEF Success
<1>2. OfFix
  BY <1>1 DEF AsRead, OfFixOnly, Replaced, OfCheck, OfFix, Coverage, Invocation, Options
<1>3. changed = Differs /\ \A f \in Files : Clean(before, f)
  BY <1>1, <1>2 DEF Gated, AfterGates
<1>4. ASSUME NEW f \in Files PROVE project[f] = before[f]
  BY <1>1, <1>3 DEF Unsaved0, Expected, Replaced, Differs, Untouched
<1> QED
  BY <1>1, <1>3, <1>4, FilesAssumption DEF Clean

LEMMA SettledStep ==
    ASSUME Settled, FixIsFinal, Spoke, Gated, AsRead, Unsaved0, Types, Sound, Coverage, [Next]_vars
    PROVE  Settled'
<1>1. SUFFICES ASSUME settled' PROVE Settled'
  BY DEF Settled
<1>2. CASE Success
  <2>1. Untouched /\ Untouched' /\ pc' = "idle"
    BY <1>1, <1>2 DEF Success, End, Untouched
  <2>2. \A f \in Files : Clean(project, f)'
    BY <1>2, <2>1, Settles DEF Sound, Clean
  <2> QED
    BY <2>1, <2>2, ToDoEnd DEF Settled
<1>3. CASE ~Success
  <2>1. settled
    BY <1>1, <1>3 DEF Next, Program, Environment, Start, ReadFile, Original, FmtOriginal, Copy,
       Snapshot, LintEnd, Assert, Layout, Baseline, Apply, Gates, AssertOriginal, AssertAgain,
       Replace, FinalCheck, Verify, Rollback, Undone, Compile, Crash, Fail, Save, BuildWrite,
       WriteProject, Rest, vars, env
  <2>2. project' = project /\ Untouched'
    BY <1>1, <1>3, <2>1, SettledProject DEF Sound
  <2>3. \A f \in Files : Clean(project, f)'
    BY <2>1, <2>2 DEF Settled, Clean
  <2>4. NothingToDo /\ pc # "replace"
    BY <2>1 DEF Settled, FixIsFinal
  <2>5. NothingToDo'
    <3>1. CASE \/ Copy \/ Snapshot \/ LintEnd \/ Assert \/ (\E t \in Targets : Compile(t) \/ Crash(t))
      BY <2>1, <3>1, ToDoLint
    <3>2. CASE Layout \/ Baseline \/ Apply \/ Gates
      BY <2>1, <3>2, ToDoEdits
    <3>3. CASE \/ AssertOriginal \/ AssertAgain \/ Replace \/ FinalCheck \/ Verify \/ Rollback
               \/ Undone \/ Fail \/ Start \/ Original \/ FmtOriginal
      BY <2>1, <2>4, <3>3, ToDoLate
    <3>4. CASE ReadFile \/ Rest \/ UNCHANGED vars
      BY <2>4, <3>4, ToDoElsewhere DEF ReadFile, Rest, vars, results
    <3>5. ASSUME NEW f \in Files, NEW x \in Saves[f] \cup Scribbles[f], Save(f, x) \/ BuildWrite(f, x)
          PROVE  NothingToDo'
      <4>1. UNCHANGED <<pc, before, original, found, remaining, changed, options>>
        BY <3>5 DEF Save, BuildWrite, results
      <4>2. replica' = replica \/ pc = "lint"
        BY <3>5 DEF Save, BuildWrite
      <4> QED
        BY <2>4, <4>1, <4>2 DEF NothingToDo, Same, Judging, OfFix, OfCheck
    <3> QED
      BY <1>3, <3>1, <3>2, <3>3, <3>4, <3>5 DEF Next, Program, Environment
  <2> QED
    BY <2>2, <2>3, <2>5 DEF Settled
<1> QED
  BY <1>2, <1>3

LEMMA FinalStep ==
    ASSUME FixIsFinal, Settled, Gated, AsRead, Coverage, [Next]_vars PROVE FixIsFinal'
<1>1. SUFFICES ASSUME settled' PROVE status' # "violations" /\ pc' # "replace" /\ status' # "would-fix"
  BY DEF FixIsFinal
<1>2. CASE Success
  BY <1>2 DEF Success, End
<1>3. CASE ~Success
  <2>1. settled
    BY <1>1, <1>3 DEF Next, Program, Environment, Start, ReadFile, Original, FmtOriginal, Copy,
       Snapshot, LintEnd, Assert, Layout, Baseline, Apply, Gates, AssertOriginal, AssertAgain,
       Replace, FinalCheck, Verify, Rollback, Undone, Compile, Crash, Fail, Save, BuildWrite,
       WriteProject, Rest, vars, env
  <2>2. NothingToDo /\ pc # "replace" /\ status # "violations" /\ status # "would-fix"
    BY <2>1 DEF Settled, FixIsFinal
  <2>3. CASE AssertOriginal
    <3>1. status' = "violations" => Judging /\ remaining # {}
      BY <2>3, NewViolations
    <3>2. pc = "assertOriginal" /\ (pc' = "replace" => OfFix /\ changed # {})
      BY <2>3 DEF AssertOriginal, Scanned, End, OfFix
    <3>3. status' # "would-fix"
      BY <2>2, <2>3 DEF AssertOriginal, End
    <3> QED
      BY <2>2, <3>1, <3>2, <3>3 DEF NothingToDo
  <2>4. CASE AssertAgain
    BY <2>2, <2>4 DEF AssertAgain, Scanned, End, NothingToDo
  <2>5. CASE Assert
    BY <2>2, <2>5 DEF Assert, Scanned, End, Coverage, Labels
  <2>6. CASE ~AssertOriginal /\ ~AssertAgain /\ ~Assert
    BY <1>3, <2>2, <2>6 DEF Next, Program, Environment, Start, ReadFile, Original, FmtOriginal, Copy,
       Snapshot, LintEnd, Layout, Baseline, Apply, Gates, Replace, FinalCheck, Verify, Rollback,
       Undone, Compile, Crash, Fail, Save, BuildWrite, Scanned, End, Rest, vars
  <2> QED
    BY <2>3, <2>4, <2>5, <2>6
<1> QED
  BY <1>2, <1>3

-----------------------------------------------------------------------------
(* The theorems.                                                           *)

LEMMA VerdictInit == Init => Verdict
<1> SUFFICES ASSUME Init PROVE Verdict
  OBVIOUS
<1>1. /\ project \in [Files -> Text] /\ user = project
      /\ admitted = NoDocument /\ document = NoDocument /\ status = "none" /\ pc = "idle"
      /\ seen = [t \in Targets |-> <<>>] /\ reported = {} /\ failed = {}
      /\ found = [l \in Labels |-> NoResult] /\ remaining = {} /\ changed = {}
      /\ touched = [f \in Files |-> 0] /\ settled = FALSE /\ recorded = FALSE
  BY InputsAssumption DEF Init
<1>2. touched \in [Files -> 0..2]
  BY <1>1
<1>3. \A l \in Labels : found[l] = NoResult
  BY <1>1
<1>4. Types
  BY <1>1, <1>2, <1>3, NoResultType, NoDocumentType DEF Types, Statuses, Spoken, Unmatched
<1>5. Unsaved0 /\ AsRead /\ Gated /\ Strict /\ Lenient /\ Documented /\ Forgiven /\ Spoke
  BY <1>1 DEF Unsaved0, AsRead, OfFixOnly, Replaced, Gated, AfterGates, Judging, Strict, Lenient,
              Documented, Forgiven, Spoke
<1>6. Recorded /\ Settled /\ PassedIsClean /\ NothingNewHidden /\ FixIsFinal /\ BaselineHolds
  BY <1>1 DEF Recorded, Settled, PassedIsClean, NothingNewHidden, FixIsFinal, BaselineHolds
<1> QED
  BY <1>4, <1>5, <1>6 DEF Verdict

LEMMA VerdictStep == Verdict /\ Sound /\ Coverage /\ [Next]_vars => Verdict'
<1> SUFFICES ASSUME Verdict, Sound, Coverage, [Next]_vars PROVE Verdict'
  OBVIOUS
<1> USE DEF Verdict
<1>1. Trees /\ Places
  BY DEF Sound
<1>2. Types' /\ Unsaved0' /\ AsRead' /\ Gated'
  BY <1>1, TypesStep, UnsavedStep, AsReadStep, GatedStep
<1>3. Strict' /\ Lenient' /\ Documented' /\ Forgiven'
  BY <1>1, StrictStep, LenientStep, DocumentedStep, ForgivenStep
<1>4. Recorded' /\ Spoke' /\ Settled'
  BY <1>1, RecordedStep, SpokeStep, SettledStep
<1>5. PassedIsClean' /\ NothingNewHidden' /\ FixIsFinal' /\ BaselineHolds'
  BY <1>1, PassedStep, HiddenStep, FinalStep, HoldsStep
<1> QED
  BY <1>2, <1>3, <1>4, <1>5

LEMMA VerdictAlways == Spec => [](Verdict /\ Sound /\ Coverage)
BY VerdictInit, VerdictStep, SoundInit, SoundStep, CoverageInit, CoverageStep, PTL DEF Spec

\* Every variable keeps its type: the status is one of those that main turns
\* into an exit code, every finding and token is of a file of the workspace.
THEOREM TypesCorrect == Spec => []TypeOK
<1>1. Verdict /\ Sound /\ Coverage => TypeOK
  BY DEF Verdict, Types, Statuses, Sound, Trees, Coverage, TypeOK
<1> QED
  BY <1>1, VerdictAlways, PTL

\* A check, and a fix with nothing to do, pass only over files that are formatted
\* and clean for every target that compiles them, whatever is saved meanwhile;
\* only a file that was saved twice escapes the scans.
THEOREM PassIsClean == Spec => []PassedIsClean
<1>1. Verdict => PassedIsClean
  BY DEF Verdict
<1> QED
  BY <1>1, VerdictAlways, PTL

\* A check that passes under a baseline hides nothing new: filter takes away no
\* more of a fingerprint than the baseline admits.
THEOREM NothingIsHidden == Spec => []NothingNewHidden
<1>1. Verdict => NothingNewHidden
  BY DEF Verdict
<1> QED
  BY <1>1, VerdictAlways, PTL

\* After a fix that succeeded, and until somebody saves, no check reports a
\* violation and no fix has anything to write.
THEOREM FixStays == Spec => []FixIsFinal
<1>1. Verdict => FixIsFinal
  BY DEF Verdict
<1> QED
  BY <1>1, VerdictAlways, PTL

\* A baseline written over a complete lint forgives, until somebody saves, all
\* that a later check under it can find.
THEOREM BaselineStays == Spec => []BaselineHolds
<1>1. Verdict => BaselineHolds
  BY DEF Verdict
<1> QED
  BY <1>1, VerdictAlways, PTL

-----------------------------------------------------------------------------
(* The refinement: a fix is one step of AtomicWorkspace.                   *)

\* Every text has only findings that are seen, and what is not Rust is formatted.
SeenAll(f, text) == \A x \in text.findings : Seen(f, x)
Origins ==
    /\ \A f \in Files : /\ SeenAll(f, project[f]) /\ SeenAll(f, replica[f])
                        /\ SeenAll(f, original[f]) /\ SeenAll(f, before[f])
    /\ \A f \in Files \ Rust : project[f].formatted /\ original[f].formatted
    /\ \A f \in 1..Len(scan) : /\ SeenAll(f, scan[f])
                               /\ pc = "scan" /\ f \notin Rust => scan[f].formatted

\* The code after the layout is one that a fix may commit.
Laid(f, code) == code \in MayCommit(f, original[f])
Kept(tree) == \A f \in Rust : Laid(f, tree[f].code)
\* After the first lint, its tokens tell the code of the files that it has checked.
LaidOut(tree) ==
    /\ \A f \in Rust \cap found["initial"].files : Laid(f, found["initial"].tokens[f])
    /\ \A f \in Rust \ found["initial"].files : Laid(f, tree[f].code)
Layouts ==
    OfFix =>
        /\ pc = "layout" => Same(replica)
        /\ label = "declarations" =>
              /\ pc = "snapshot" => Same(replica)
              /\ pc \in {"lint", "assert"} => Same(before)
        /\ label = "initial" =>
              /\ pc = "snapshot" => Kept(replica)
              /\ pc \in {"lint", "assert"} => Kept(before)
        /\ pc \in {"baseline", "apply"} =>
              /\ LaidOut(replica)
              /\ \A d \in Fixable(found["initial"].findings) : d[1] \in found["initial"].files
        /\ label = "fixed" =>
              /\ pc = "snapshot" => LaidOut(replica)
              /\ pc \in {"lint", "assert", "gates"} => LaidOut(before)

\* What a fix commits is what its promise says.
Promised ==
    OfFix /\ pc \in AfterGates \cup {"rollback"} =>
        /\ changed = Differs
        /\ \A f \in Files : /\ before[f].formatted = TRUE /\ before[f].findings = {}
                            /\ Laid(f, before[f].code)

\* So it is one of the texts that a fix may make of the original, and of itself.
LEMMA PromisedText ==
    ASSUME Trees, NEW f \in Files, before[f].formatted = TRUE, before[f].findings = {},
           Laid(f, before[f].code)
    PROVE  before[f] \in FixedTexts[original[f]] /\ before[f] \in FixedTexts[before[f]]
<1>1. before[f] \in Text /\ original[f] \in Text
  BY DEF Trees
<1> DEFINE Of(y) == [y EXCEPT !.formatted = TRUE, !.findings = {}]
<1>2. ASSUME NEW y \in Text, y.code = before[f].code PROVE Of(y) = before[f]
  BY <1>1, <1>2 DEF Text
<1>3. ASSUME NEW x \in Text, NEW y \in {x} \cup LaidFrom(x), y.code = before[f].code
      PROVE  before[f] \in FixedTexts[x]
  <2>1. LaidFrom(x) \subseteq Text
    BY EditedText, RustfmtAssumption DEF LaidFrom
  <2>2. Of(y) = before[f]
    BY <1>2, <1>3, <2>1
  <2>3. FixedTexts[x] = {Of(z) : z \in {x} \cup LaidFrom(x)}
    BY DEF FixedTexts
  <2> HIDE DEF Of
  <2> QED
    BY <2>2, <2>3
<1>4. \E y \in {original[f]} \cup LaidFrom(original[f]) : y.code = before[f].code
  BY DEF Laid, MayCommit
<1> QED
  BY <1>1, <1>3, <1>4

\* What edits do to a text.
LEMMA AppliedText ==
    ASSUME NEW tree \in [Files -> Text], NEW edits, NEW f \in Files
    PROVE  /\ Applied(tree, edits)[f].code =
                  (IF \E x \in Fixes(f, edits) : x.fix = "breaks" THEN "broken" ELSE tree[f].code)
           /\ Applied(tree, edits)[f].findings =
                  (tree[f].findings \ Fixes(f, edits))
                  \cup (IF \E x \in Fixes(f, edits) : x.fix = "reveals" THEN {Hidden} ELSE {})
BY DEF Applied, Edited

-----------------------------------------------------------------------------
(* Origins.                                                                *)

LEMMA OriginsElsewhere ==
    ASSUME Origins, UNCHANGED <<project, replica, original, before>>,
           \/ scan' = scan /\ (pc' = "scan" => pc = "scan")
           \/ scan' = NoScan
    PROVE  Origins'
<1>1. CASE scan' = scan /\ (pc' = "scan" => pc = "scan")
  BY <1>1 DEF Origins, SeenAll
<1>2. CASE scan' = NoScan
  BY <1>2 DEF Origins, SeenAll, NoScan
<1> QED
  BY <1>1, <1>2

LEMMA OriginsWrites ==
    ASSUME Origins, Trees, NEW f \in Files, NEW x \in Saves[f] \cup Scribbles[f],
           Save(f, x) \/ BuildWrite(f, x)
    PROVE  Origins'
<1>1. /\ UNCHANGED <<original, before, scan, pc>>
      /\ \A g \in Files : /\ project'[g] = project[g] \/ (g = f /\ project'[g] = x)
                          /\ replica'[g] = replica[g] \/ (g = f /\ replica'[g] = x)
  BY DEF Save, BuildWrite, WriteProject, work, Trees
<1>2. SeenAll(f, x) /\ (f \notin Rust => x.formatted)
  BY SeenAssumption DEF SeenAll
<1> QED
  BY <1>1, <1>2 DEF Origins, SeenAll

LEMMA OriginsScan ==
    ASSUME Origins, Trees, Types, ReadFile \/ Original \/ Start \/ Snapshot \/ Copy PROVE Origins'
<1>1. CASE ReadFile
  <2> DEFINE f == Len(scan) + 1
             x == IF pc \in OfProject THEN project[f] ELSE Tree[f]
  <2>1. /\ UNCHANGED <<project, replica, original, before, pc>> /\ Len(scan) < N
        /\ scan' = Append(scan, x)
    BY <1>1 DEF ReadFile
  <2>2. scan \in Seq(Text) /\ Len(scan) \in Nat /\ f \in Files
    BY <2>1, FilesAssumption DEF Trees, Files
  <2>3. /\ x \in Text /\ SeenAll(f, x)
        /\ pc = "scan" /\ f \notin Rust => x.formatted
    BY <2>2 DEF Trees, Tree, Origins, OfProject
  <2> HIDE DEF x
  <2>4. ASSUME NEW i \in 1..Len(scan')
        PROVE  \/ i \in 1..Len(scan) /\ scan'[i] = scan[i]
               \/ i = f /\ scan'[i] = x
    BY <2>1, <2>2, <2>3, Longer
  <2> QED
    BY <2>1, <2>3, <2>4 DEF Origins, SeenAll
<1>2. CASE Original
  <2>1. /\ pc = "scan" /\ Len(scan) = N /\ original' = scan /\ scan' = NoScan /\ pc' # "scan"
        /\ UNCHANGED <<project, replica, before>>
    BY <1>2 DEF Original, Scanned
  <2> QED
    BY <2>1 DEF Origins, SeenAll, NoScan, Files
<1>3. CASE Start
  <2>1. /\ replica' = project /\ original' = project /\ before' = project /\ project' = project
        /\ scan' = NoScan
    BY <1>3 DEF Start
  <2> QED
    BY <2>1 DEF Origins, SeenAll, NoScan
<1>4. CASE Snapshot
  <2>1. /\ Len(scan) = N /\ before' = scan /\ scan' = NoScan
        /\ UNCHANGED <<project, replica, original>>
    BY <1>4 DEF Snapshot, Scanned
  <2> QED
    BY <2>1 DEF Origins, SeenAll, NoScan, Files
<1>5. CASE Copy
  <2>1. /\ UNCHANGED <<project, original, before, scan>> /\ pc' # "scan"
        /\ replica' = replica \/ replica' = original
    BY <1>5 DEF Copy, End, work
  <2> QED
    BY <2>1 DEF Origins, SeenAll
<1> QED
  BY <1>1, <1>2, <1>3, <1>4, <1>5

\* A fix that reveals a finding is of a file that some target compiles.
LEMMA AppliedSeen ==
    ASSUME NEW tree \in [Files -> Text], \A g \in Files : SeenAll(g, tree[g]),
           NEW edits, Current(tree, edits), NEW f \in Files
    PROVE  SeenAll(f, Applied(tree, edits)[f])
<1> SUFFICES ASSUME NEW x \in Applied(tree, edits)[f].findings PROVE Seen(f, x)
  BY DEF SeenAll
<1>1. CASE x \in tree[f].findings
  BY <1>1 DEF SeenAll
<1>2. CASE x \notin tree[f].findings
  <2>1. x = Hidden /\ \E y \in Fixes(f, edits) : y.fix = "reveals"
    BY <1>2, AppliedText
  <2>2. PICK y \in Fixes(f, edits) : y.fix = "reveals"
    BY <2>1
  <2>3. y \in tree[f].findings
    BY DEF Fixes, Current
  <2>4. \E t \in Targets : f \in Compiles[t]
    BY <2>3 DEF SeenAll, Seen
  <2> QED
    BY <2>1, <2>4, SeenAssumption
<1> QED
  BY <1>1, <1>2

LEMMA OriginsEdits == ASSUME Origins, Trees, Layout \/ Apply PROVE Origins'
<1>1. UNCHANGED <<project, original, before, scan>> /\ pc' # "scan"
  BY DEF Layout, Apply, End, work
<1>2. \A f \in Files : SeenAll(f, replica[f])
  BY DEF Origins
<1>3. \A f \in Files : SeenAll(f, replica'[f])
  <2>1. CASE replica' = replica
    BY <1>2, <2>1
  <2>2. CASE Layout /\ replica' # replica
    <3> DEFINE edits == LayoutEdits(found["declarations"].findings)
               laid == Applied(replica, edits)
    <3>1. /\ Current(replica, edits)
          /\ replica' = [f \in Files |-> IF f \in Rust THEN Rustfmt[laid[f]] ELSE laid[f]]
      BY <2>2 DEF Layout
    <3>2. \A f \in Files : SeenAll(f, laid[f])
      BY <1>2, <3>1, AppliedSeen DEF Trees
    <3>3. laid \in [Files -> Text]
      BY AppliedTexts DEF Trees
    <3> HIDE DEF laid
    <3>4. ASSUME NEW f \in Rust PROVE SeenAll(f, Rustfmt[laid[f]])
      BY <3>2, <3>3, SeenAssumption, FilesAssumption DEF SeenAll
    <3> QED
      BY <3>1, <3>2, <3>4
  <2>3. CASE Apply /\ replica' # replica
    <3> DEFINE edits == found["initial"].findings
    <3>1. Current(replica, edits) /\ replica' = Applied(replica, edits)
      BY <2>3 DEF Apply
    <3> QED
      BY <1>2, <3>1, AppliedSeen DEF Trees
  <2> QED
    BY <2>1, <2>2, <2>3
<1> QED
  BY <1>1, <1>3 DEF Origins, SeenAll

LEMMA OriginsCommit == ASSUME Origins, Trees, Types, Replace \/ Rollback PROVE Origins'
<1>1. /\ UNCHANGED <<replica, original, before, scan>> /\ pc' # "scan"
      /\ \A f \in Files : \/ project'[f] = project[f]
                          \/ f \in changed /\ project'[f] \in {before[f], original[f]}
  BY DEF Replace, Rollback, End, work, Trees
<1> QED
  BY <1>1 DEF Origins, SeenAll, Types

LEMMA OriginsStep == ASSUME Origins, Trees, Types, Coverage, [Next]_vars PROVE Origins'
<1>1. CASE \/ FmtOriginal \/ LintEnd \/ Assert \/ Baseline \/ Gates \/ AssertOriginal
           \/ AssertAgain \/ FinalCheck \/ Verify \/ Undone \/ Success \/ Fail
           \/ (\E t \in Targets : Compile(t) \/ Crash(t)) \/ Rest \/ UNCHANGED vars
  <2>1. UNCHANGED <<project, replica, original, before>>
    BY <1>1 DEF FmtOriginal, LintEnd, Assert, Baseline, Gates, AssertOriginal, AssertAgain,
       FinalCheck, Verify, Undone, Success, Fail, Compile, Crash, Rest, vars
  <2>2. scan' \in {scan, NoScan}
    BY <1>1 DEF FmtOriginal, LintEnd, Assert, Baseline, Gates, AssertOriginal, AssertAgain,
       FinalCheck, Verify, Undone, Success, Fail, Compile, Crash, Rest, vars, work, Scanned
  <2>3. pc' = "scan" => pc = "scan"
    BY <1>1 DEF FmtOriginal, LintEnd, Assert, Baseline, Gates, AssertOriginal, AssertAgain,
       FinalCheck, Verify, Undone, Success, Fail, Compile, Crash, Rest, vars, End, Scanned,
       Coverage, Labels
  <2> QED
    BY <2>1, <2>2, <2>3, OriginsElsewhere
<1> QED
  BY <1>1, OriginsWrites, OriginsScan, OriginsEdits, OriginsCommit DEF Next, Program, Environment

-----------------------------------------------------------------------------
(* Layouts.                                                                *)

LEMMA LayoutsAway ==
    ASSUME pc' \notin {"snapshot", "layout", "lint", "assert", "baseline", "apply", "gates"}
    PROVE  Layouts'
BY DEF Layouts

LEMMA LayoutsElsewhere ==
    ASSUME Layouts, UNCHANGED <<pc, before, original, found, label, options>>,
           replica' = replica \/ pc = "lint"
    PROVE  Layouts'
BY DEF Layouts, Same, Kept, LaidOut, Laid, MayCommit, OfFix

LEMMA LayoutsCopy == ASSUME Layouts, Places, Coverage, Copy PROVE Layouts'
<1>1. /\ pc = "copy" /\ pc' \in {"snapshot", "idle"} /\ UNCHANGED <<original, found, label, options>>
      /\ OfFix /\ pc' = "snapshot" => replica' = original
      /\ label # "fixed"
  BY DEF Copy, End, results, OfFix, Places
<1>2. OfFix /\ pc' = "snapshot" => Same(replica)'
  BY <1>1 DEF Same
<1>3. OfFix /\ pc' = "snapshot" /\ label = "initial" => Kept(replica)'
  BY <1>1, FilesAssumption DEF Kept, Laid, MayCommit, Places
<1> QED
  BY <1>1, <1>2, <1>3 DEF Layouts, OfFix

LEMMA LayoutsSnapshot == ASSUME Layouts, Sound, Snapshot PROVE Layouts'
<1>1. /\ pc = "snapshot" /\ pc' \in {"lint", "idle"} /\ Len(scan) = N /\ before' = scan
      /\ UNCHANGED <<replica, original, found, label, options>>
  BY DEF Snapshot, Scanned, End, results
<1>2. OfFix => \A f \in Files : before'[f] = replica[f]
  BY <1>1 DEF Sound, Scanning, Files
<1>3. ASSUME OfFix, label = "declarations" PROVE Same(before)'
  BY <1>1, <1>2, <1>3 DEF Layouts, Same
<1>4. ASSUME OfFix, label = "initial" PROVE Kept(before)'
  BY <1>1, <1>2, <1>4, FilesAssumption DEF Layouts, Kept, Laid, MayCommit
<1>5. ASSUME OfFix, label = "fixed" PROVE LaidOut(before)'
  <2>1. LaidOut(replica)
    BY <1>1, <1>5 DEF Layouts
  <2> QED
    BY <1>1, <1>2, <1>5, <2>1, FilesAssumption DEF LaidOut, Laid, MayCommit
<1> QED
  BY <1>1, <1>3, <1>4, <1>5 DEF Layouts, OfFix

LEMMA LayoutsLint == ASSUME Layouts, Coverage, LintEnd PROVE Layouts'
<1>1. /\ pc = "lint" /\ pc' \in {"assert", "idle"}
      /\ UNCHANGED <<replica, original, before, label, options>>
      /\ label = "fixed" => found'["initial"] = found["initial"]
  BY DEF LintEnd, End, Coverage, Labels
<1>2. ASSUME OfFix, label = "declarations" PROVE Same(before)'
  BY <1>1, <1>2 DEF Layouts, Same
<1>3. ASSUME OfFix, label = "initial" PROVE Kept(before)'
  BY <1>1, <1>3 DEF Layouts, Kept, Laid, MayCommit
<1>4. ASSUME OfFix, label = "fixed" PROVE LaidOut(before)'
  <2>1. LaidOut(before)
    BY <1>1, <1>4 DEF Layouts
  <2> QED
    BY <1>1, <1>4, <2>1 DEF LaidOut, Laid, MayCommit
<1> QED
  BY <1>1, <1>2, <1>3, <1>4 DEF Layouts, OfFix

LEMMA LayoutsAssert == ASSUME Layouts, Sound, Coverage, Assert PROVE Layouts'
<1>1. /\ Scanned("assert") /\ UNCHANGED <<replica, original, before, found, label, options>>
      /\ \/ pc' = "idle"
         \/ /\ Matches(before)
            /\ \/ label = "declarations" /\ pc' = "layout"
               \/ label = "initial" /\ pc' = "baseline"
               \/ label = "fixed" /\ pc' = "gates"
  BY DEF Assert, Scanned, End, results, Coverage, Labels
<1>2. SUFFICES ASSUME pc' # "idle", OfFix PROVE Layouts'
  BY <1>1, LayoutsAway DEF Layouts, OfFix
<1>3. pc = "assert" /\ Matches(before) /\ \A f \in Files : replica[f] = before[f]
  BY <1>1, <1>2, SawBefore DEF Scanned
<1>4. CASE label = "declarations"
  <2>1. Same(replica)
    BY <1>2, <1>3, <1>4 DEF Layouts, Same
  <2> QED
    BY <1>1, <1>2, <1>4, <2>1 DEF Layouts, Same
<1>5. CASE label = "initial"
  <2>1. Kept(before)
    BY <1>2, <1>3, <1>5 DEF Layouts
  <2>2. \A f \in found["initial"].files : f \in Files /\ found["initial"].tokens[f] = before[f].code
    BY <1>1, <1>2, <1>3, <1>5, SawBefore
  <2>3. LaidOut(replica)
    BY <1>3, <2>1, <2>2, FilesAssumption DEF Kept, LaidOut
  <2>4. \A d \in Fixable(found["initial"].findings) : d[1] \in found["initial"].files
    BY <1>2, <1>3, <1>5 DEF Sound, Result
  <2> QED
    BY <1>1, <1>2, <1>5, <2>3, <2>4 DEF Layouts, LaidOut, Laid, MayCommit
<1>6. CASE label = "fixed"
  <2>1. LaidOut(before)
    BY <1>2, <1>3, <1>6 DEF Layouts
  <2> QED
    BY <1>1, <1>2, <1>6, <2>1 DEF Layouts, LaidOut, Laid, MayCommit
<1> QED
  BY <1>1, <1>2, <1>4, <1>5, <1>6

LEMMA LayoutsLayout == ASSUME Layouts, Trees, Places, Layout PROVE Layouts'
<1> DEFINE edits == LayoutEdits(found["declarations"].findings)
           laid == Applied(replica, edits)
<1>1. /\ pc = "layout" /\ UNCHANGED <<original, options>> /\ options.first
      /\ \/ pc' = "idle"
         \/ /\ pc' = "snapshot" /\ label' = "initial" /\ Current(replica, edits)
            /\ replica' = [f \in Files |-> IF f \in Rust THEN Rustfmt[laid[f]] ELSE laid[f]]
  BY DEF Layout, End, Places
<1>2. SUFFICES ASSUME pc' = "snapshot", OfFix, Same(replica) PROVE Kept(replica)'
  BY <1>1, LayoutsAway DEF Layouts, OfFix
<1>3. ASSUME NEW f \in Rust PROVE replica'[f] \in LaidFrom(original[f])
  <2>1. f \in Files
    BY FilesAssumption
  <2>2. replica'[f] = Rustfmt[Edited(original[f], Fixes(f, edits))]
    BY <1>1, <1>2, <2>1 DEF Same, Applied
  <2>3. ASSUME NEW x \in Fixes(f, edits) PROVE x \in Between(original[f])
    <3>1. <<f, x>> \in edits
      BY DEF Fixes
    <3>2. x \in replica[f].findings
      BY <1>1, <1>2, <3>1 DEF Current
    <3>3. x.item /\ x.fix # "none"
      BY <3>1 DEF LayoutEdits, Fixable
    <3> QED
      BY <1>2, <2>1, <3>2, <3>3 DEF Same, Between
  <2> QED
    BY <2>2, <2>3 DEF LaidFrom
<1> HIDE DEF edits, laid
<1> QED
  BY <1>1, <1>3 DEF Kept, Laid, MayCommit

LEMMA LayoutsApply == ASSUME Layouts, Trees, Places, Apply PROVE Layouts'
<1> DEFINE edits == found["initial"].findings
<1>1. /\ pc = "apply" /\ UNCHANGED <<original, found, options>>
      /\ \/ pc' = "idle"
         \/ /\ pc' = "snapshot" /\ label' = "fixed" /\ Fixable(edits) = edits
            /\ replica' = Applied(replica, edits)
  BY DEF Apply, End, results
<1>2. SUFFICES ASSUME pc' = "snapshot" PROVE LaidOut(replica)'
  BY <1>1, LayoutsAway DEF Layouts
<1>3. LaidOut(replica) /\ \A d \in edits : d[1] \in found["initial"].files
  BY <1>1, <1>2 DEF Layouts, Places
<1>4. ASSUME NEW f \in Rust \ found["initial"].files PROVE Laid(f, replica'[f].code)
  BY <1>1, <1>2, <1>3, AppliedTexts, FilesAssumption DEF LaidOut, Trees
<1> QED
  BY <1>1, <1>3, <1>4 DEF LaidOut, Laid, MayCommit

LEMMA LayoutsStep == ASSUME Layouts, Sound, Coverage, [Next]_vars PROVE Layouts'
<1>1. Trees /\ Places
  BY DEF Sound
<1>2. CASE \/ Start \/ Original \/ FmtOriginal \/ Gates \/ AssertOriginal \/ AssertAgain
           \/ Replace \/ FinalCheck \/ Verify \/ Rollback \/ Undone \/ Success \/ Fail
  BY <1>2, LayoutsAway DEF Start, Original, FmtOriginal, Gates, AssertOriginal, AssertAgain,
     Replace, FinalCheck, Verify, Rollback, Undone, Success, Fail, Scanned, End
<1>3. CASE ReadFile \/ (\E t \in Targets : Compile(t) \/ Crash(t)) \/ Rest \/ UNCHANGED vars
  BY <1>3, LayoutsElsewhere DEF ReadFile, Compile, Crash, Rest, vars, results
<1>4. ASSUME NEW f \in Files, NEW x \in Saves[f] \cup Scribbles[f], Save(f, x) \/ BuildWrite(f, x)
      PROVE  Layouts'
  BY <1>4, LayoutsElsewhere DEF Save, BuildWrite, results
<1>5. CASE Baseline
  <2>1. /\ pc = "baseline" /\ pc' \in {"assertOriginal", "apply"}
        /\ UNCHANGED <<replica, original, found, label, options>>
    BY <1>5 DEF Baseline
  <2>2. label = "initial"
    BY <1>1, <2>1 DEF Places
  <2> QED
    BY <2>1, <2>2 DEF Layouts, LaidOut, Laid, MayCommit, OfFix
<1> QED
  BY <1>1, <1>2, <1>3, <1>4, <1>5, LayoutsCopy, LayoutsSnapshot, LayoutsLint, LayoutsAssert,
     LayoutsLayout, LayoutsApply DEF Next, Program, Environment

-----------------------------------------------------------------------------
(* Promised.                                                               *)

LEMMA PromisedElsewhere ==
    ASSUME Promised, UNCHANGED <<before, original, changed, options>>,
           pc' \in AfterGates \cup {"rollback"} /\ OfFix => pc \in AfterGates \cup {"rollback"}
    PROVE  Promised'
BY DEF Promised, OfFix, Differs, Laid, MayCommit

\* The gates let pass the code of the layout, with no finding left in it.
LEMMA PromisedGates == ASSUME Origins, Layouts, Sound, Coverage, Gates PROVE Promised'
<1>1. /\ pc = "gates" /\ UNCHANGED <<before, original, options, found>>
      /\ \/ pc' = "idle"
         \/ pc' = "assertOriginal" /\ Passes /\ Differs \subseteq Rust /\ changed' = Differs
  BY DEF Gates, End
<1>2. SUFFICES ASSUME pc' = "assertOriginal", NEW f \in Files
               PROVE  /\ before[f].formatted = TRUE /\ before[f].findings = {}
                      /\ Laid(f, before[f].code)
  BY <1>1 DEF Promised, AfterGates, Differs, Laid, MayCommit
<1>3. OfFix /\ label = "fixed" /\ Verified
  <2>1. OfFix /\ label = "fixed"
    BY <1>1 DEF Sound, Places
  <2>2. Verified'
    BY <1>1, <1>2, <2>1, GatesStep DEF Sound, Committing, OfFix
  <2> QED
    BY <1>1, <2>1, <2>2 DEF Verified
<1>4. before[f] \in Text /\ original[f] \in Text
  BY DEF Sound, Trees
<1>5. before[f].findings = {}
  BY <1>3 DEF Origins, SeenAll, Seen, Verified
<1>6. f \notin Rust => before[f] = original[f]
  BY <1>1, <1>2 DEF Differs
<1>7. Laid(f, before[f].code)
  <2>1. LaidOut(before)
    BY <1>1, <1>3 DEF Layouts
  <2>2. CASE f \in Rust \cap found["initial"].files
    <3>1. found["fixed"].tokens[f] = before[f].code
      BY <1>1, <1>2, <1>3, <2>2 DEF Sound, Candidate, Passes
    <3> QED
      BY <1>1, <1>2, <2>1, <2>2, <3>1 DEF LaidOut, Passes
  <2>3. CASE f \in Rust \ found["initial"].files
    BY <2>1, <2>3 DEF LaidOut
  <2>4. CASE f \notin Rust
    BY <1>6, <2>4 DEF Laid, MayCommit
  <2> QED
    BY <2>2, <2>3, <2>4
<1>8. before[f].formatted = TRUE
  <2>1. CASE f \in Rust
    BY <1>3, <1>4, <2>1 DEF Verified, Text
  <2>2. CASE f \notin Rust
    BY <1>4, <1>6, <2>2 DEF Origins, Text
  <2> QED
    BY <2>1, <2>2
<1> QED
  BY <1>5, <1>7, <1>8

LEMMA PromisedStep ==
    ASSUME Promised, Origins, Layouts, Sound, Coverage, [Next]_vars PROVE Promised'
<1>1. CASE Start \/ Original \/ Snapshot
  BY <1>1 DEF Start, Original, Snapshot, Scanned, End, Promised, AfterGates
<1>2. CASE Assert
  <2>1. pc' \notin AfterGates \cup {"rollback"}
    BY <1>2 DEF Assert, Scanned, End, Coverage, Labels, AfterGates
  <2> QED
    BY <2>1 DEF Promised
<1>3. CASE \/ ReadFile \/ FmtOriginal \/ Copy \/ LintEnd \/ Layout \/ Baseline \/ Apply
           \/ AssertOriginal \/ AssertAgain \/ Replace \/ FinalCheck \/ Verify \/ Rollback
           \/ Undone \/ Success \/ Environment \/ Rest \/ UNCHANGED vars
  <2>1. UNCHANGED <<before, original, changed, options>>
    BY <1>3 DEF ReadFile, FmtOriginal, Copy, LintEnd, Layout, Baseline, Apply, AssertOriginal,
       AssertAgain, Replace, FinalCheck, Verify, Rollback, Undone, Success, Environment, Compile,
       Crash, Save, BuildWrite, Fail, Rest, vars, results
  <2>2. CASE ReadFile \/ Environment \/ Rest \/ UNCHANGED vars
    BY <2>1, <2>2, PromisedElsewhere DEF ReadFile, Environment, Compile, Crash, Save, BuildWrite,
       Fail, End, Rest, vars, AfterGates
  <2>3. CASE FmtOriginal \/ Copy \/ LintEnd \/ Layout \/ Baseline \/ Apply \/ Undone
    BY <2>1, <2>3, PromisedElsewhere DEF FmtOriginal, Copy, LintEnd, Layout, Baseline, Apply,
       Undone, End, AfterGates, OfFix
  <2>4. CASE \/ AssertOriginal \/ AssertAgain \/ Replace \/ FinalCheck \/ Verify \/ Rollback
             \/ Success
    <3>1. pc \in AfterGates \cup {"rollback"}
      BY <2>4 DEF AssertOriginal, AssertAgain, Replace, FinalCheck, Verify, Rollback, Success,
                  Scanned, AfterGates
    <3> QED
      BY <2>1, <3>1, PromisedElsewhere
  <2> QED
    BY <1>3, <2>2, <2>3, <2>4
<1> QED
  BY <1>1, <1>2, <1>3, PromisedGates DEF Next, Program

-----------------------------------------------------------------------------
(* The steps of AtomicWorkspace.                                           *)

LEMMA ResolvedType == ASSUME Trees PROVE Resolved \in [Files -> Text]
BY DEF Trees, Resolved

LEMMA ResolvedNext == Trees' => Resolved' \in [Files -> Text]
BY DEF Trees, Resolved

\* A commit is under way.
Committed == {"finalCheck", "verify", "rollback"}

\* Outside of it, what the project holds counts.
LEMMA Plain == ASSUME Trees, pc \notin Committed PROVE Resolved = project
BY DEF Resolved, Undoing, Committed, Trees

LEMMA PlainNext == Trees' /\ pc' \notin Committed => Resolved' = project'
BY DEF Resolved, Undoing, Committed, Trees

\* A step that AtomicWorkspace does not see, or the end of a run that has failed.
LEMMA QuietMaps ==
    ASSUME Trees, Trees', UNCHANGED <<project, user, touched>>,
           pc \notin {"idle", "success"} \/ pc' = pc,
           pc' \notin {"success"} \/ pc' = pc,
           \/ pc \notin Committed /\ pc' \notin Committed
           \/ pc \notin Committed /\ changed' = {}
           \/ pc \in Committed /\ pc' \in Committed /\ UNCHANGED <<before, original, changed>>
    PROVE  [Atomic!Next]_(Atomic!vars)
<1>1. Resolved' = Resolved
  <2>1. CASE pc \notin Committed /\ pc' \notin Committed
    BY <2>1, Plain, PlainNext
  <2>2. CASE pc \notin Committed /\ changed' = {}
    <3>1. Resolved' = project'
      BY <2>2 DEF Resolved, Undoing, Trees
    <3> QED
      BY <2>2, <3>1, Plain
  <2>3. CASE pc \in Committed /\ pc' \in Committed /\ UNCHANGED <<before, original, changed>>
    BY <2>3 DEF Resolved, Undoing, Committed
  <2> QED
    BY <2>1, <2>2, <2>3
<1>2. CASE pc' # "idle" \/ pc' = pc
  <2>1. InFlight' = InFlight
    BY <1>2 DEF InFlight
  <2> QED
    BY <1>1, <2>1 DEF Atomic!vars
<1>3. CASE pc' = "idle" /\ pc # "idle"
  <2>1. InFlight /\ InFlight' = FALSE
    BY <1>3 DEF InFlight
  <2>2. Atomic!Abandon
    BY <1>1, <2>1 DEF Atomic!Abandon
  <2> QED
    BY <2>2 DEF Atomic!Next
<1> QED
  BY <1>2, <1>3

LEMMA StartMaps == ASSUME Trees, Trees', Start PROVE [Atomic!Next]_(Atomic!vars)
<1>1. /\ pc = "idle" /\ pc' = "scan" /\ UNCHANGED <<project, user>>
      /\ \A f \in Files : touched'[f] = 0
  BY DEF Start
<1>2. InFlight = FALSE /\ InFlight' = TRUE
  BY <1>1 DEF InFlight
<1>3. Resolved' = Resolved
  BY <1>1, Plain, PlainNext DEF Committed
<1>4. {f \in Files : touched'[f] > 0} = {}
  BY <1>1
<1>5. Atomic!Begin
  BY <1>1, <1>2, <1>3, <1>4 DEF Atomic!Begin
<1> QED
  BY <1>5 DEF Atomic!Next

LEMMA WriteMaps ==
    ASSUME Types, Trees, Trees', NEW f \in Files, NEW x \in Saves[f] \cup Scribbles[f],
           Save(f, x) \/ BuildWrite(f, x)
    PROVE  [Atomic!Next]_(Atomic!vars)
<1>1. UNCHANGED <<pc, before, original, changed>>
  BY DEF Save, BuildWrite, results
<1>2. InFlight' = InFlight
  BY <1>1 DEF InFlight
<1>3. CASE UNCHANGED <<project, user, touched>>
  <2>1. Resolved' = Resolved
    BY <1>1, <1>3 DEF Resolved, Undoing
  <2> QED
    BY <1>2, <1>3, <2>1 DEF Atomic!vars
<1>4. CASE WriteProject(f, x)
  <2>1. /\ touched' \in [Files -> 0..2] /\ touched'[f] > 0
        /\ \A g \in Files : g # f => touched'[g] = touched[g] /\ project'[g] = project[g]
    <3>1. touched'[f] = IF touched[f] = 0 THEN 1 ELSE 2
      BY <1>4, Write
    <3>2. touched'[f] > 0
      BY <3>1
    <3> QED
      BY <1>4, <3>2, Write
  <2>2. /\ user' = [user EXCEPT ![f] = x] /\ user'[f] = x /\ project'[f] = x
        /\ \A g \in Files : g # f => user'[g] = user[g]
    BY <1>4 DEF WriteProject, Types, Trees
  <2>3. {g \in Files : touched'[g] > 0} = {g \in Files : touched[g] > 0} \cup {f}
    BY <2>1 DEF Types
  <2>4. \A g \in Files : Resolved'[g] = IF g = f THEN x ELSE Resolved[g]
    <3>1. ~Undoing(f)'
      BY <1>1, <2>1, <2>2 DEF Undoing
    <3>2. \A g \in Files : g # f => (Undoing(g)' <=> Undoing(g))
      BY <1>1, <2>1, <2>2 DEF Undoing
    <3> QED
      BY <1>1, <2>1, <2>2, <3>1, <3>2 DEF Resolved
  <2>5. Resolved' = [Resolved EXCEPT ![f] = x]
    BY <2>4, ResolvedType, ResolvedNext
  <2>6. Atomic!Save(f, x)
    BY <1>2, <2>2, <2>3, <2>5 DEF Atomic!Save
  <2>7. x \in Written
    BY DEF Written
  <2> QED
    BY <2>6, <2>7 DEF Atomic!Next
<1> QED
  BY <1>3, <1>4 DEF Save, BuildWrite

\* A save of just what the fix writes is taken for its own work.
LEMMA RespaceMaps ==
    ASSUME Types, Trees, Trees', Promised, Promised', OfFix, OfFix', Replace \/ Rollback
    PROVE  [Atomic!Next]_(Atomic!vars)
<1>1. CASE pc' = "idle"
  BY <1>1, QuietMaps DEF Replace, Rollback, Committed, env
<1>2. CASE pc' # "idle"
  <2>1. /\ pc \in AfterGates \cup {"rollback"} /\ pc \notin {"idle", "success"}
        /\ pc' \notin {"idle", "success"}
        /\ UNCHANGED <<before, original, changed, user, touched>>
    BY <1>2 DEF Replace, Rollback, End, AfterGates, results, env
  <2>2. InFlight' = InFlight
    BY <2>1 DEF InFlight
  <2>3. ASSUME NEW f \in Files, Resolved'[f] # Resolved[f]
        PROVE  touched[f] > 0 /\ user[f] = before[f] /\ Resolved'[f] \in {before[f], original[f]}
    <3>1. touched[f] \in 0..2
      BY DEF Types
    <3>2. CASE Replace
      <4>1. /\ pc = "replace" /\ pc' = "finalCheck" /\ (f \in changed => project[f] = original[f])
            /\ project'[f] = IF f \in changed THEN before[f] ELSE project[f]
        BY <1>2, <3>2 DEF Replace, End, Unsaved
      <4>2. Resolved[f] = project[f]
        BY <4>1, Plain DEF Committed
      <4> QED
        BY <2>1, <2>3, <3>1, <4>1, <4>2 DEF Resolved, Undoing
    <3>3. CASE Rollback
      <4>1. /\ pc = "rollback" /\ pc' = "undone"
            /\ project'[f] = IF f \in changed /\ project[f] = before[f]
                             THEN original[f] ELSE project[f]
        BY <3>3 DEF Rollback
      <4>2. Resolved'[f] = project'[f]
        BY <4>1, PlainNext DEF Committed
      <4> QED
        BY <2>1, <2>3, <3>1, <4>1, <4>2 DEF Resolved, Undoing
    <3> QED
      BY <3>2, <3>3
  <2>4. ASSUME NEW f \in Files, Resolved'[f] # Resolved[f]
        PROVE  user[f] \in FixedTexts[user[f]] /\ user[f] \in FixedTexts[Resolved'[f]]
    <3>1. before[f] \in FixedTexts[original[f]] /\ before[f] \in FixedTexts[before[f]]
      BY <2>1, PromisedText DEF Promised
    <3> QED
      BY <2>3, <2>4, <3>1
  <2>5. Atomic!Respace
    BY <2>1, <2>2, <2>3, <2>4, ResolvedNext DEF Atomic!Respace
  <2> QED
    BY <2>5 DEF Atomic!Next
<1> QED
  BY <1>1, <1>2

\* The last look at the project ends the commit: what counts now is what was
\* written, and what was saved over it.
LEMMA CommitMaps ==
    ASSUME Types, Trees, Trees', Unsaved0, Promised, OfFix, Verify, pc' = "success"
    PROVE  [Atomic!Next]_(Atomic!vars)
<1>1. pc = "verify" /\ UNCHANGED <<project, before, original, changed, user, touched>>
  BY DEF Verify, Scanned, results, env
<1>2. InFlight = TRUE /\ InFlight' = FALSE
  BY <1>1 DEF InFlight
<1>3. Resolved' = project
  BY <1>1, PlainNext DEF Committed
<1>4. ASSUME NEW f \in Files
      PROVE  \/ Resolved'[f] \in FixedTexts[Resolved[f]]
             \/ f \in {g \in Files : touched[g] > 0} /\ Resolved'[f] = Resolved[f]
  <2>1. /\ before[f] \in FixedTexts[original[f]]
        /\ f \notin changed => before[f] = original[f]
    BY <1>1, PromisedText DEF Promised, AfterGates, Differs
  <2>2. CASE Undoing(f)
    <3>1. Resolved[f] = original[f] /\ project[f] = before[f]
      BY <2>2 DEF Resolved, Undoing
    <3> QED
      BY <1>3, <2>1, <3>1
  <2>3. CASE ~Undoing(f)
    <3>1. Resolved[f] = project[f]
      BY <2>3 DEF Resolved
    <3>2. CASE touched[f] = 0
      <4>1. project[f] = IF f \in changed THEN before[f] ELSE original[f]
        BY <1>1, <3>2 DEF Unsaved0, Expected, Replaced
      <4>2. f \notin changed
        BY <1>1, <2>3, <3>2, <4>1 DEF Undoing
      <4> QED
        BY <1>3, <2>1, <3>1, <4>1, <4>2
    <3>3. CASE touched[f] # 0
      <4>1. touched[f] > 0
        BY <3>3 DEF Types
      <4> QED
        BY <1>3, <3>1, <4>1
    <3> QED
      BY <3>2, <3>3
  <2> QED
    BY <2>2, <2>3
<1>5. Atomic!Commit
  BY <1>1, <1>2, <1>4, ResolvedNext DEF Atomic!Commit
<1> QED
  BY <1>5 DEF Atomic!Next

\* What a run that is not a check has been given.
LEMMA OnlyFixes == ASSUME AsRead, Coverage, pc \in OfFixOnly PROVE OfFix
BY DEF AsRead, OfCheck, OfFix, Coverage, Invocation, Options

LEMMA ProgramMaps ==
    ASSUME Types, Trees, Trees', Coverage, Unsaved0, AsRead, Promised, Promised',
           Program \/ Fail
    PROVE  [Atomic!Next]_(Atomic!vars)
<1>1. CASE Start
  BY <1>1, StartMaps
<1>2. CASE Replace \/ Rollback
  <2>1. pc \in OfFixOnly /\ options' = options
    BY <1>2 DEF Replace, Rollback, OfFixOnly, Replaced
  <2> QED
    BY <1>2, <2>1, OnlyFixes, RespaceMaps DEF OfFix
<1>3. CASE Verify
  <2>1. OfFix
    BY <1>3, OnlyFixes DEF Verify, Scanned, OfFixOnly, Replaced
  <2>2. /\ pc = "verify" /\ pc' \in {"success", "rollback"}
        /\ UNCHANGED <<project, user, touched, before, original, changed>>
    BY <1>3 DEF Verify, Scanned, results, env
  <2>3. CASE pc' = "success"
    BY <1>3, <2>1, <2>3, CommitMaps
  <2>4. CASE pc' = "rollback"
    BY <2>2, <2>4, QuietMaps DEF Committed
  <2> QED
    BY <2>2, <2>3, <2>4
<1>4. CASE FinalCheck
  <2>1. /\ pc = "finalCheck" /\ UNCHANGED <<project, user, touched, before, original, changed>>
        /\ pc' \in {"rollback", "verify"} \/ (pc' = "success" /\ changed = {})
    BY <1>4 DEF FinalCheck, results, env
  <2>2. CASE pc' # "success"
    BY <2>1, <2>2, QuietMaps DEF Committed
  <2>3. CASE pc' = "success"
    <3>1. Resolved' = Resolved
      BY <2>1, <2>3 DEF Resolved, Undoing
    <3>2. InFlight /\ InFlight' = FALSE
      BY <2>1, <2>3 DEF InFlight
    <3>3. Atomic!Abandon
      BY <2>1, <3>1, <3>2 DEF Atomic!Abandon
    <3> QED
      BY <3>3 DEF Atomic!Next
  <2> QED
    BY <2>2, <2>3
<1>5. CASE Success
  <2>1. /\ pc = "success" /\ pc' = "idle" /\ UNCHANGED <<project, user, touched>>
    BY <1>5 DEF Success, End
  <2>2. Resolved' = Resolved
    BY <2>1, Plain, PlainNext DEF Committed
  <2>3. InFlight' = InFlight
    BY <2>1 DEF InFlight
  <2> QED
    BY <2>1, <2>2, <2>3 DEF Atomic!vars
<1>6. CASE AssertOriginal
  <2>1. /\ pc = "assertOriginal" /\ UNCHANGED <<project, user, touched>>
        /\ \/ pc' \in {"idle", "assertAgain", "replace"}
           \/ pc' = "finalCheck" /\ changed' = {}
    BY <1>6 DEF AssertOriginal, Scanned, End, results
  <2> QED
    BY <2>1, QuietMaps DEF Committed
<1>7. CASE ReadFile
  BY <1>7, QuietMaps DEF ReadFile, OfProject, OfTree, Committed, results, env
<1>8. CASE Fail
  <2>1. /\ pc \notin {"idle", "success", "rollback"}
        /\ UNCHANGED <<project, user, touched, before, original, changed>>
        /\ \/ pc \in {"finalCheck", "verify"} /\ pc' = "rollback"
           \/ pc \notin {"finalCheck", "verify"} /\ pc' = "idle"
    BY <1>8 DEF Fail, End, results, env
  <2> QED
    BY <2>1, QuietMaps DEF Committed
<1>9. CASE \/ Original \/ FmtOriginal \/ Copy \/ Snapshot \/ LintEnd \/ Layout \/ Baseline
           \/ Apply \/ Gates \/ AssertAgain \/ Undone
  <2>1. UNCHANGED <<project, user, touched>>
    BY <1>9 DEF Original, FmtOriginal, Copy, Snapshot, LintEnd, Layout, Baseline, Apply, Gates,
       AssertAgain, Undone, env
  <2>2. {pc, pc'} \cap (Committed \cup {"success"}) = {} /\ pc # "idle"
    BY <1>9 DEF Original, FmtOriginal, Copy, Snapshot, LintEnd, Layout, Baseline, Apply, Gates,
       AssertAgain, Undone, Scanned, End, Committed
  <2> QED
    BY <2>1, <2>2, QuietMaps
<1>10. CASE Assert
  <2>1. UNCHANGED <<project, user, touched>> /\ pc = "assert"
        /\ pc' \in {"idle", "layout", "baseline", "gates"}
    BY <1>10 DEF Assert, Scanned, End, env, Coverage, Labels
  <2> QED
    BY <2>1, QuietMaps DEF Committed
<1> QED
  BY <1>1, <1>2, <1>3, <1>4, <1>5, <1>6, <1>7, <1>8, <1>9, <1>10 DEF Program

LEMMA NextMaps ==
    ASSUME Types, Trees, Trees', Coverage, Unsaved0, AsRead, Promised, Promised', [Next]_vars
    PROVE  [Atomic!Next]_(Atomic!vars)
<1>1. CASE (\E t \in Targets : Compile(t) \/ Crash(t)) \/ Rest \/ UNCHANGED vars
  <2>1. UNCHANGED <<project, user, touched, pc, before, original, changed>>
    BY <1>1 DEF Compile, Crash, Rest, vars, results, env
  <2> QED
    BY <2>1, QuietMaps
<1> QED
  BY <1>1, WriteMaps, ProgramMaps DEF Next, Environment

LEMMA AtomicStart == Init => Atomic!Init /\ Origins /\ Layouts /\ Promised
<1> SUFFICES ASSUME Init PROVE Atomic!Init /\ Origins /\ Layouts /\ Promised
  OBVIOUS
<1>1. /\ pc = "idle" /\ label = "initial" /\ scan = NoScan
      /\ user = project /\ replica = project /\ original = project /\ before = project
      /\ \A f \in Files : touched[f] = 0
  BY DEF Init
<1>2. PICK in \in Inputs : project = in.project
  BY DEF Init
<1>3. project \in [Files -> Text]
  BY <1>2, InputsAssumption
<1>4. ASSUME NEW f \in Files
      PROVE  SeenAll(f, project[f]) /\ (f \notin Rust => project[f].formatted)
             /\ project[f] \in Written
  <2>1. project[f] \in {i.project[f] : i \in Inputs}
    BY <1>2
  <2>2. project[f] \in Written
    BY <2>1 DEF Written
  <2> QED
    BY <2>1, <2>2, SeenAssumption DEF SeenAll
<1>5. Origins
  BY <1>1, <1>4 DEF Origins, NoScan
<1>6. Layouts /\ Promised
  BY <1>1 DEF Layouts, Promised, AfterGates
<1>7. Resolved = project
  BY <1>1, <1>3 DEF Resolved, Undoing
<1>8. InFlight = FALSE /\ {f \in Files : touched[f] > 0} = {}
  BY <1>1 DEF InFlight
<1>9. project \in [Files -> Written]
  BY <1>3, <1>4
<1> QED
  BY <1>1, <1>5, <1>6, <1>7, <1>8, <1>9 DEF Atomic!Init

\* With the invariant of the verdicts, what is promised of a fix holds always.
LEMMA PromisedAlways == Spec => [](Verdict /\ Sound /\ Coverage /\ Origins /\ Layouts /\ Promised)
<1>1. Init => Origins /\ Layouts /\ Promised
  BY AtomicStart
<1>2. Verdict /\ Sound /\ Coverage /\ Origins /\ Layouts /\ Promised /\ [Next]_vars
      => (Origins /\ Layouts /\ Promised)'
  BY OriginsStep, LayoutsStep, PromisedStep DEF Verdict, Sound
<1> QED
  BY <1>1, <1>2, VerdictAlways, PTL DEF Spec

\* What a fix commits is formatted and free of findings in every target that
\* compiles it, and has the code of the original or, under --format-first, a code
\* that rustfmt makes of the original with some of its own edits between
\* declarations, for every project, crash, save and write of a build script.
THEOREM OnlyVerifiedCommits == Spec => []CommitsVerified
<1>1. Sound /\ Promised => CommitsVerified
  BY DEF Sound, Places, Promised, AfterGates, Laid, CommitsVerified, Clean
<1> QED
  BY <1>1, PromisedAlways, PTL

\* Checks and fixes, one after the other, with failures, crashes, build scripts
\* and saves in the middle, implement the atomic workspace: a fix takes effect
\* on all of its files in one step or on none, it makes of every text one that is
\* formatted, without findings, and of the code of the text or of its layout, and
\* a save is never lost.
THEOREM WorkflowIsAtomic == Spec => ImplementsAtomic
<1>1. Init => Atomic!Init
  BY AtomicStart
<1>2. /\ Verdict /\ Sound /\ Coverage /\ Promised /\ Sound' /\ Promised' /\ [Next]_vars
      => [Atomic!Next]_(Atomic!vars)
  BY NextMaps DEF Verdict, Sound
<1> QED
  BY <1>1, <1>2, PromisedAlways, PTL DEF Spec, ImplementsAtomic, Atomic!Spec
=============================================================================
