--------------------------- MODULE WorkflowProofs ---------------------------
(***************************************************************************)
(* For any number of targets, files, findings and invocations: no          *)
(* invocation succeeds over a lint that left a target out, except a check  *)
(* under a baseline; and what a fix commits is formatted, without findings *)
(* in any target that compiles it and, without --format-first, of the      *)
(* original code: an invariant on which VerdictProofs builds.              *)
(***************************************************************************)
EXTENDS Workflow, TLAPS

\* A lint is complete, or it has found something.
Answered(l) == Complete \/ found[l].findings # {}

\* The steps after the last gate: from here on nothing but success or failure.
Decided ==
    \/ pc \in {"assertAgain", "replace", "finalCheck", "verify", "success"}
    \/ pc = "assertOriginal" /\ options.command = "fix"

\* CoversAll is not inductive: whether the status may be a success is decided
\* many steps before it is given.
Coverage ==
    /\ reported \subseteq Targets
    /\ DOMAIN seen = Targets
    /\ \A t \in Targets : seen[t] # <<>> => t \in reported \cup failed
    /\ DOMAIN found = Labels /\ label \in Labels
    /\ options \in Invocation /\ plan \in Seq(Invocation)
    /\ pc # "idle" => status = "running"
    /\ pc = "assert" => Answered(label)
    /\ pc = "baseline" => Answered("initial")
    /\ pc = "gates" => Answered("fixed")
    /\ pc = "assertOriginal" /\ options.command = "check" /\ ~options.baseline
          => Complete \/ remaining # {}
    /\ Decided => Complete
    /\ CoversAll

\* When no target has failed and none is left that could be compiled, then all
\* have been: what is missing would hold one that needs nothing missing.
LEMMA NothingLeft ==
    ASSUME Coverage, failed = {}, \A t \in Targets : ~Compilable(t) PROVE Complete
<1> DEFINE left == Targets \ reported
<1>1. SUFFICES ASSUME left # {} PROVE FALSE
  BY DEF Complete, Coverage
<1>2. PICK t \in left : Needs[t] \cap left = {}
  BY <1>1, NeedsAssumption
<1>3. Needs[t] \subseteq reported \ failed
  BY <1>2, NeedsAssumption
<1>4. seen[t] = <<>> /\ t \notin failed
  BY <1>2 DEF Coverage
<1> QED
  BY <1>2, <1>3, <1>4 DEF Compilable

LEMMA LintEndAnswered ==
    ASSUME Coverage, LintEnd, pc' # "idle" PROVE Answered(label)'
<1>1. Accepted /\ found' = [found EXCEPT ![label] =
                   [findings |-> Found, files |-> CheckedFiles,
                    tokens |-> [f \in CheckedFiles |-> CHOOSE c \in Tokens(f) : TRUE]]]
  BY DEF LintEnd, End
<1>2. label' = label /\ reported' = reported
  BY DEF LintEnd, work
<1>3. found'[label].findings = Found
  BY <1>1 DEF Coverage
<1>4. CASE failed = {}
  <2>1. Complete
    BY <1>4, NothingLeft DEF LintEnd
  <2> QED
    BY <1>2, <2>1 DEF Answered, Complete
<1>5. CASE failed # {}
  BY <1>1, <1>2, <1>3, <1>5 DEF Accepted, Answered
<1> QED
  BY <1>4, <1>5

\* No step but these writes what Coverage is about.
LEMMA Elsewhere ==
    ASSUME Coverage,
           UNCHANGED <<seen, reported, failed, found, remaining, label, options, plan>>,
           \/ UNCHANGED <<pc, status>>
           \/ /\ pc # "idle" /\ pc' = "idle"
              /\ status' \in {"baselined", "violations", "error", "interrupted"}
           \/ /\ pc # "idle" /\ status' = status
              /\ pc' \in {"scan", "fmtOriginal", "copy", "snapshot", "lint", "rollback", "undone"}
           \/ Decided /\ status' = status
              /\ pc' \in {"finalCheck", "verify", "success"}
           \/ Decided /\ pc' = "idle"
    PROVE  Coverage'
BY DEF Coverage, Decided, Answered, Complete, CoversAll

\* Each action in turn.
LEMMA LintSteps ==
    ASSUME Coverage, \/ \E t \in Targets : Compile(t) \/ Crash(t)
                     \/ LintEnd \/ Snapshot \/ Start
    PROVE  Coverage'
<1>1. ASSUME NEW t \in Targets, Compile(t) PROVE Coverage'
  <2>1. /\ pc = "lint" /\ pc' = pc /\ status' = status /\ seen' = [seen EXCEPT ![t] = Texts(t)]
        /\ reported' = reported \cup {t} /\ failed \subseteq failed'
        /\ UNCHANGED <<found, label, options, plan>>
    BY <1>1 DEF Compile, results, env
  <2>2. reported' \subseteq Targets /\ DOMAIN seen' = Targets
    BY <2>1 DEF Coverage
  <2>3. ASSUME NEW u \in Targets, seen'[u] # <<>> PROVE u \in reported' \cup failed'
    <3>1. CASE u = t
      BY <2>1, <3>1
    <3>2. CASE u # t
      <4>1. seen'[u] = seen[u]
        BY <2>1, <3>2 DEF Coverage
      <4> QED
        BY <2>1, <2>3, <4>1 DEF Coverage
    <3> QED
      BY <3>1, <3>2
  <2> QED
    BY <2>1, <2>2, <2>3 DEF Coverage, Decided, CoversAll
<1>2. ASSUME NEW t \in Targets, Crash(t) PROVE Coverage'
  <2>1. /\ pc = "lint" /\ pc' = pc /\ status' = status
        /\ seen' = seen \/ seen' = [seen EXCEPT ![t] = Texts(t)]
        /\ reported' = reported /\ failed' = failed \cup {t}
        /\ UNCHANGED <<found, label, options, plan>>
    BY <1>2 DEF Crash, results
  <2>2. reported' \subseteq Targets /\ DOMAIN seen' = Targets
    BY <2>1 DEF Coverage
  <2>3. ASSUME NEW u \in Targets, seen'[u] # <<>> PROVE u \in reported' \cup failed'
    <3>1. CASE u = t
      BY <2>1, <3>1
    <3>2. CASE u # t
      <4>1. seen'[u] = seen[u]
        BY <2>1, <3>2 DEF Coverage
      <4> QED
        BY <2>1, <2>3, <4>1 DEF Coverage
    <3> QED
      BY <3>1, <3>2
  <2> QED
    BY <2>1, <2>2, <2>3 DEF Coverage, Decided, CoversAll
<1>3. ASSUME LintEnd PROVE Coverage'
  <2>1. /\ pc = "lint" /\ UNCHANGED <<seen, reported, failed, remaining, label, options, plan>>
        /\ pc' \in {"assert", "idle"} /\ (pc' = "idle" => status' = "error")
        /\ pc' = "assert" => status' = status
        /\ DOMAIN found' = DOMAIN found
    BY <1>3 DEF LintEnd, End, work, env
  <2>2. pc' = "assert" => Answered(label)'
    BY <1>3, LintEndAnswered
  <2> QED
    BY <2>1, <2>2 DEF Coverage, Decided, CoversAll, Complete
<1>4. ASSUME Snapshot PROVE Coverage'
  <2>1. /\ pc = "snapshot" /\ UNCHANGED <<found, remaining, label, options, plan>>
        /\ pc' \in {"lint", "idle"} /\ (pc' = "idle" => status' = "error")
        /\ pc' = "lint" => status' = status
        /\ seen' = [t \in Targets |-> <<>>] /\ reported' = {}
    BY <1>4 DEF Snapshot, Scanned, End, results, env
  <2> QED
    BY <2>1 DEF Coverage, Decided, CoversAll
<1>5. ASSUME Start PROVE Coverage'
  <2>1. /\ pc' = "scan" /\ status' = "running" /\ reported' = {}
        /\ seen' = [t \in Targets |-> <<>>] /\ found' = [l \in Labels |-> NoResult]
        /\ label' \in Labels
    BY <1>5 DEF Start, Labels
  <2>2. options' \in Invocation /\ plan' \in Seq(Invocation)
    BY <1>5 DEF Start, Coverage
  <2> QED
    BY <2>1, <2>2 DEF Coverage, Decided, CoversAll
<1> QED
  BY <1>1, <1>2, <1>3, <1>4, <1>5

LEMMA GateSteps ==
    ASSUME Coverage, Assert \/ Layout \/ Baseline \/ Apply \/ Gates \/ AssertOriginal
    PROVE  Coverage'
<1>1. ASSUME Assert PROVE Coverage'
  <2>1. /\ pc = "assert" /\ UNCHANGED <<seen, reported, failed, found, remaining, label, options, plan>>
        /\ \/ pc' = "idle" /\ status' = "error"
           \/ status' = status /\ \/ label = "declarations" /\ pc' = "layout"
                                  \/ label = "initial" /\ pc' = "baseline"
                                  \/ label = "fixed" /\ pc' = "gates"
    BY <1>1 DEF Assert, Scanned, End, results, env, Coverage, Labels
  <2> QED
    BY <2>1 DEF Coverage, Decided, CoversAll, Complete, Answered
<1>2. ASSUME Layout \/ Apply PROVE Coverage'
  <2>1. /\ pc \in {"layout", "apply"}
        /\ UNCHANGED <<seen, reported, failed, found, remaining, options, plan>>
        /\ label' \in Labels
        /\ \/ pc' = "idle" /\ status' = "error"
           \/ status' = status /\ pc' = "snapshot"
    BY <1>2 DEF Layout, Apply, End, work, results, env, Coverage, Labels
  <2> QED
    BY <2>1 DEF Coverage, Decided, CoversAll
<1>3. ASSUME Baseline PROVE Coverage'
  <2>1. /\ pc = "baseline" /\ status' = status
        /\ UNCHANGED <<seen, reported, failed, found, label, options, plan>>
        /\ ~options.baseline => remaining' = found["initial"].findings
        /\ \/ pc' = "assertOriginal" /\ options.command = "check"
           \/ pc' = "apply"
    BY <1>3 DEF Baseline, work, env
  <2> QED
    BY <2>1 DEF Coverage, Decided, CoversAll, Complete, Answered
<1>4. ASSUME Gates PROVE Coverage'
  <2>1. /\ pc = "gates" /\ UNCHANGED <<seen, reported, failed, found, remaining, label, options, plan>>
        /\ \/ pc' = "idle" /\ status' = "error"
           \/ /\ status' = status /\ pc' = "assertOriginal"
              /\ found["fixed"].findings = {}
    BY <1>4 DEF Gates, Passes, End, work, env
  <2>2. pc' # "idle" => Complete
    BY <2>1 DEF Coverage, Answered
  <2> QED
    BY <2>1, <2>2 DEF Coverage, Decided, CoversAll, Complete
<1>5. ASSUME AssertOriginal PROVE Coverage'
  <2>1. /\ pc = "assertOriginal"
        /\ UNCHANGED <<seen, reported, failed, found, remaining, label, options, plan>>
        /\ \/ pc' = "idle" /\ status' \in {"baselined", "violations", "error"}
           \/ pc' = "idle" /\ status' = "passed" /\ remaining = {} /\ options.command # "fix"
           \/ /\ options.command = "fix" /\ status' = status
              /\ pc' \in {"assertAgain", "finalCheck", "replace"}
    BY <1>5 DEF AssertOriginal, Scanned, End, results
  <2>2. options.command \in {"check", "fix"}
    BY DEF Coverage, Invocation, Options
  <2>3. CASE options.command = "fix"
    BY <2>1, <2>3 DEF Coverage, Decided, CoversAll, Complete
  <2>4. CASE options.command = "check"
    BY <2>1, <2>4 DEF Coverage, Decided, CoversAll, Complete
  <2> QED
    BY <2>2, <2>3, <2>4
<1> QED
  BY <1>1, <1>2, <1>3, <1>4, <1>5

LEMMA OtherSteps ==
    ASSUME Coverage,
           \/ ReadFile \/ Original \/ FmtOriginal \/ Copy \/ AssertAgain
           \/ Replace \/ FinalCheck \/ Verify \/ Rollback \/ Undone \/ Success
           \/ Fail \/ Rest \/ UNCHANGED vars
           \/ \E f \in Files : \/ \E x \in Saves[f] : Save(f, x)
                               \/ \E x \in Scribbles[f] : BuildWrite(f, x)
    PROVE  Coverage'
<1>1. UNCHANGED <<seen, reported, failed, found, remaining, label, options, plan>>
  BY DEF ReadFile, Original, FmtOriginal, Copy, AssertAgain, Replace, FinalCheck, Verify,
         Rollback, Undone, Success, Fail, Rest, Save, BuildWrite, vars, work, results, env
<1>2. \/ UNCHANGED <<pc, status>>
      \/ /\ pc # "idle" /\ pc' = "idle"
         /\ status' \in {"baselined", "violations", "error", "interrupted"}
      \/ /\ pc # "idle" /\ status' = status
         /\ pc' \in {"scan", "fmtOriginal", "copy", "snapshot", "lint", "rollback", "undone"}
      \/ Decided /\ status' = status /\ pc' \in {"finalCheck", "verify", "success"}
      \/ Decided /\ pc' = "idle"
  <2>1. CASE \/ ReadFile \/ Rest \/ UNCHANGED vars
             \/ \E f \in Files : \/ \E x \in Saves[f] : Save(f, x)
                                 \/ \E x \in Scribbles[f] : BuildWrite(f, x)
    BY <2>1 DEF ReadFile, Rest, Save, BuildWrite, vars
  <2>2. CASE Original \/ FmtOriginal \/ Copy \/ Fail
    BY <2>2 DEF Original, FmtOriginal, Copy, Fail, Scanned, End
  <2>3. CASE AssertAgain \/ Replace \/ FinalCheck \/ Verify \/ Rollback \/ Undone \/ Success
    BY <2>3 DEF AssertAgain, Replace, FinalCheck, Verify, Rollback, Undone, Success, Scanned, End, Decided
  <2> QED
    BY <2>1, <2>2, <2>3
<1> QED
  BY <1>1, <1>2, Elsewhere

LEMMA CoverageInit == Init => Coverage
<1> SUFFICES ASSUME Init PROVE Coverage
  OBVIOUS
<1>1. plan \in Seq(Invocation) /\ options \in Invocation
  BY InputsAssumption DEF Init, NoOptions, Invocation, Options
<1> QED
  BY <1>1 DEF Init, Coverage, Decided, CoversAll, Labels

LEMMA CoverageStep == Coverage /\ [Next]_vars => Coverage'
BY LintSteps, GateSteps, OtherSteps DEF Next, Program, Environment

\* "workspace": true, "all_targets": true is true of every success, for every
\* project, plan of invocations, crash, save and write of a build script; only
\* a check under a baseline is excepted.
THEOREM SuccessCoversAll == Spec => []CoversAll
<1>1. Coverage => CoversAll
  BY DEF Coverage
<1> QED
  BY <1>1, CoverageInit, CoverageStep, PTL DEF Spec

-----------------------------------------------------------------------------
(* What a fix commits.                                                      *)

OfFix == options.command = "fix"

\* The four trees hold texts, and a scan is a prefix of one.
Trees ==
    /\ project \in [Files -> Text] /\ replica \in [Files -> Text]
    /\ original \in [Files -> Text] /\ before \in [Files -> Text]
    /\ scan \in Seq(Text) /\ Len(scan) <= N

\* Where a run is, which lint it has reached, and when no scan is under way.
Places ==
    /\ pc \in {"fmtOriginal", "copy", "lint", "layout", "baseline", "apply", "gates"} => scan = <<>>
    /\ pc \in {"scan", "fmtOriginal", "copy"} => label # "fixed"
    /\ pc \in {"scan", "fmtOriginal", "copy"} /\ label = "initial" => ~options.first
    /\ label = "declarations" => options.first
    /\ label = "fixed" => OfFix
    /\ pc = "layout" => options.first
    /\ pc \in {"baseline", "apply"} => label = "initial"
    /\ pc = "gates" => label = "fixed"
    /\ pc \in {"apply", "replace"} => OfFix

\* What a scan of the replica has read is still there.
Scanning == OfFix /\ pc \in {"snapshot", "assert"} => \A i \in 1..Len(scan) : scan[i] = replica[i]

\* What a target has seen is what was scanned before the lint, unless the replica
\* differs from it for the rest of the lint.
Saw(t) ==
    /\ DOMAIN seen[t] = Compiles[t]
    /\ \A f \in Compiles[t] : seen[t][f] = before[f] \/ replica[f] # before[f]
Linting == OfFix /\ pc \in {"lint", "assert"} => \A t \in reported : Saw(t)
Result ==
    OfFix /\ pc = "assert" =>
        /\ found[label].findings = Found
        /\ found[label].files = CheckedFiles
        /\ \A f \in CheckedFiles : found[label].tokens[f] \in Tokens(f)
        /\ \A d \in Fixable(Found) : d[1] \in CheckedFiles

\* Without --format-first, the first lint sees the original ...
FirstLint ==
    OfFix /\ ~options.first =>
        /\ pc = "snapshot" /\ label = "initial" => \A f \in Files : replica[f] = original[f]
        /\ pc \in {"lint", "assert"} /\ label = "initial" => \A f \in Files : before[f] = original[f]
        /\ pc \in {"baseline", "apply"} => \A f \in Files : replica[f] = original[f]

\* ... and after it, its tokens are those of the original, and only files that
\* it has checked are edited.
FirstTokens == \A f \in found["initial"].files : found["initial"].tokens[f] = original[f].code
KeptElsewhere(tree) == \A f \in Files \ found["initial"].files : tree[f].code = original[f].code
SecondLint ==
    OfFix /\ ~options.first =>
        /\ pc \in {"baseline", "apply"} =>
              /\ FirstTokens
              /\ \A d \in Fixable(found["initial"].findings) : d[1] \in found["initial"].files
        /\ label = "fixed" /\ pc \in {"snapshot", "lint", "assert", "gates"} => FirstTokens
        /\ label = "fixed" /\ pc = "snapshot" => KeptElsewhere(replica)
        /\ label = "fixed" /\ pc \in {"lint", "assert", "gates"} => KeptElsewhere(before)

\* The second lint speaks of what was scanned before it, which is formatted.
Candidate ==
    /\ OfFix /\ label = "fixed" /\ pc \in {"lint", "assert", "gates"} =>
          \A f \in Rust : before[f].formatted
    /\ OfFix /\ pc = "gates" =>
          /\ \A f \in found["fixed"].files : found["fixed"].tokens[f] = before[f].code
          /\ \A t \in reported : \A f \in Compiles[t] : \A x \in before[f].findings :
                t \in x.seen => <<f, x>> \in found["fixed"].findings

\* CommitsVerified from the gates on, not only at the commit.
Verified ==
    /\ \A f \in Rust : before[f].formatted
    /\ \A t \in Targets : \A f \in Compiles[t] : \A x \in before[f].findings : t \notin x.seen
    /\ \A f \in Files : options.first \/ before[f].code = original[f].code
Committing == OfFix /\ pc \in {"assertOriginal", "replace"} => Verified

Sound == Trees /\ Places /\ Scanning /\ Linting /\ Result
         /\ FirstLint /\ SecondLint /\ Candidate /\ Committing

-----------------------------------------------------------------------------
(* Steps that no part of the invariant is about.                           *)

LEMMA SameSeen ==
    ASSUME UNCHANGED <<seen, reported>>
    PROVE  /\ Found' = Found /\ CheckedFiles' = CheckedFiles
           /\ \A f : Tokens(f)' = Tokens(f)
BY DEF Found, FindingsIn, Spoken, CheckedFiles, Tokens

\* A run that fails, is decided or has ended.
LEMMA Quiet ==
    ASSUME Sound, UNCHANGED <<replica, original, before, label, options>>,
           project' \in [Files -> Text], scan' \in Seq(Text), Len(scan') <= N,
           pc' \in {"idle", "rollback", "undone", "finalCheck", "verify", "success", "assertAgain"}
    PROVE  Sound'
<1>1. Trees' /\ Places'
  BY DEF Sound, Trees, Places, OfFix
<1>2. Scanning' /\ Linting' /\ Result' /\ FirstLint' /\ SecondLint' /\ Candidate' /\ Committing'
  BY DEF Scanning, Linting, Result, FirstLint, SecondLint, Candidate, Committing
<1> QED
  BY <1>1, <1>2 DEF Sound

\* Writes to the project, which a fix has copied.
LEMMA Outside ==
    ASSUME Sound, project' \in [Files -> Text],
           UNCHANGED <<replica, original, before, scan, seen, reported, found,
                       options, label, pc>>
    PROVE  Sound'
<1>1. Trees' /\ Places' /\ Scanning'
  BY DEF Sound, Trees, Places, Scanning, OfFix
<1>2. Linting' /\ FirstLint' /\ Candidate' /\ Committing'
  BY DEF Sound, Linting, Saw, FirstLint, Candidate, Committing, Verified, OfFix
<1>3. Result' /\ SecondLint'
  BY SameSeen DEF Sound, Result, SecondLint, FirstTokens, KeptElsewhere, OfFix
<1> QED
  BY <1>1, <1>2, <1>3 DEF Sound

-----------------------------------------------------------------------------
(* The environment.                                                        *)

LEMMA Writing == ASSUME NEW f \in Files, NEW x \in Saves[f] \cup Scribbles[f], Trees
                 PROVE  /\ [project EXCEPT ![f] = x] \in [Files -> Text]
                        /\ [replica EXCEPT ![f] = x] \in [Files -> Text]
<1>1. x \in Text
  BY TextsAssumption
<1> QED
  BY <1>1 DEF Trees

LEMMA EnvironmentSteps ==
    ASSUME Sound, Coverage, NEW f \in Files, NEW x \in Saves[f] \cup Scribbles[f],
           Save(f, x) \/ BuildWrite(f, x)
    PROVE  Sound'
<1>1. CASE Save(f, x)
  BY <1>1, Writing, Outside DEF Save, WriteProject, work, results, Sound
<1>2. CASE BuildWrite(f, x) /\ options.command = "check"
  BY <1>2, Writing, Outside DEF BuildWrite, WriteProject, work, results, Sound
<1>3. CASE BuildWrite(f, x) /\ options.command # "check"
  <2>1. /\ replica' = [replica EXCEPT ![f] = x] /\ replica[f] = before[f] /\ replica[f] # x
        /\ pc = "lint" /\ UNCHANGED <<project, original, before, scan, seen, reported,
                                      found, options, label, pc>>
    BY <1>3 DEF BuildWrite, Tree, work, results
  <2>2. Trees' /\ Places'
    BY <2>1, Writing DEF Sound, Trees, Places, OfFix
  <2>3. ASSUME NEW t \in Targets, Saw(t) PROVE Saw(t)'
    <3>1. \A g \in Files : replica'[g] = IF g = f THEN x ELSE replica[g]
      BY <2>1 DEF Sound, Trees
    <3> QED
      BY <2>1, <2>3, <3>1, FilesAssumption DEF Saw
  <2>4. Linting'
    <3>1. reported \subseteq Targets
      BY DEF Coverage
    <3> QED
      BY <2>1, <2>3, <3>1 DEF Sound, Linting, OfFix
  <2>5. Scanning' /\ Result'
    BY <2>1 DEF Scanning, Result
  <2>6. FirstLint' /\ SecondLint' /\ Candidate' /\ Committing'
    BY <2>1 DEF Sound, FirstLint, SecondLint, FirstTokens, KeptElsewhere, Candidate,
                Committing, OfFix
  <2> QED
    BY <2>2, <2>4, <2>5, <2>6 DEF Sound
<1> QED
  BY <1>1, <1>2, <1>3

-----------------------------------------------------------------------------
(* Scans.                                                                  *)

\* The next text of a scan.
LEMMA Longer ==
    ASSUME NEW s \in Seq(Text), NEW x \in Text, Len(s) < N
    PROVE  /\ Append(s, x) \in Seq(Text) /\ Len(Append(s, x)) = Len(s) + 1
           /\ Len(Append(s, x)) <= N
           /\ Append(s, x)[Len(s) + 1] = x
           /\ \A i \in 1..Len(s) : Append(s, x)[i] = s[i]
BY FilesAssumption

LEMMA ReadFileStep == ASSUME Sound, ReadFile PROVE Sound'
<1> DEFINE f == Len(scan) + 1
           x == IF pc \in OfProject THEN project[f] ELSE Tree[f]
<1>1. /\ pc \in OfProject \cup OfTree /\ Len(scan) < N /\ scan' = Append(scan, x)
      /\ UNCHANGED <<project, replica, original, before, seen, reported, found,
                     options, label, pc>>
  BY DEF ReadFile, results
<1>2. scan \in Seq(Text) /\ Len(scan) \in Nat /\ f \in Files
  BY <1>1, FilesAssumption DEF Sound, Trees, Files
<1>3. x \in Text
  BY <1>2 DEF Sound, Trees, Tree
<1>4. x = IF OfFix /\ pc \in OfTree THEN replica[f] ELSE x
  BY DEF OfFix, OfTree, OfProject, Tree
<1> HIDE DEF x
<1>5. Trees'
  BY <1>1, <1>2, <1>3, Longer DEF Sound, Trees
<1>6. Places'
  BY <1>1 DEF Sound, Places, OfFix, OfProject, OfTree
<1>7. Scanning'
  <2> SUFFICES ASSUME OfFix, pc \in OfTree, NEW i \in 1..Len(scan')
               PROVE  scan'[i] = replica[i]
    BY <1>1 DEF Scanning, OfFix, OfTree
  <2>1. \A j \in 1..Len(scan) : scan[j] = replica[j]
    BY DEF Sound, Scanning, OfTree
  <2>2. i \in 1..Len(scan) \/ i = f
    BY <1>1, <1>2, <1>3, Longer
  <2> QED
    BY <1>1, <1>2, <1>3, <1>4, <2>1, <2>2, Longer
<1>8. Linting' /\ Result'
  BY <1>1, SameSeen DEF Sound, Linting, Saw, Result, OfFix
<1>9. FirstLint' /\ SecondLint' /\ Candidate' /\ Committing'
  BY <1>1 DEF Sound, FirstLint, SecondLint, FirstTokens, KeptElsewhere, Candidate,
              Committing, Verified, OfFix
<1> QED
  BY <1>5, <1>6, <1>7, <1>8, <1>9 DEF Sound

\* A scan of every file is a tree.
LEMMA WholeScan == ASSUME Trees, Len(scan) = N PROVE scan \in [Files -> Text]
BY DEF Trees, Files

LEMMA NoScanOK == NoScan \in Seq(Text) /\ Len(NoScan) <= N
BY FilesAssumption DEF NoScan

-----------------------------------------------------------------------------
(* The start and the lints.                                                *)

LEMMA Beginning == ASSUME Sound, Coverage, Start \/ Original \/ FmtOriginal \/ Copy PROVE Sound'
<1>1. ASSUME Start PROVE Sound'
  <2>1. /\ pc' = "scan" /\ scan' = NoScan /\ project' = project
        /\ replica' = project /\ original' = project /\ before' = project
        /\ label' = IF options'.first THEN "declarations" ELSE "initial"
    BY <1>1 DEF Start
  <2>2. Trees'
    BY <2>1, NoScanOK DEF Sound, Trees
  <2>3. Places' /\ Scanning' /\ Linting' /\ Result' /\ FirstLint' /\ SecondLint'
        /\ Candidate' /\ Committing'
    BY <2>1 DEF Places, Scanning, Linting, Result, FirstLint, SecondLint, Candidate, Committing
  <2> QED
    BY <2>2, <2>3 DEF Sound
<1>2. ASSUME Original \/ FmtOriginal PROVE Sound'
  <2>1. /\ UNCHANGED <<project, replica, before, label, options>>
        /\ pc' \in {"fmtOriginal", "copy", "idle"} /\ scan' = NoScan
        /\ original' \in [Files -> Text]
        /\ label # "fixed" /\ (label = "initial" => ~options.first)
    BY <1>2, WholeScan DEF Original, FmtOriginal, Scanned, End, work, Sound, Trees, Places, NoScan
  <2>2. Trees'
    BY <2>1, NoScanOK DEF Sound, Trees
  <2>3. Places'
    BY <2>1 DEF Sound, Places, NoScan, OfFix
  <2>4. Scanning' /\ Linting' /\ Result' /\ FirstLint' /\ SecondLint' /\ Candidate' /\ Committing'
    BY <2>1 DEF Scanning, Linting, Result, FirstLint, SecondLint, Candidate, Committing
  <2> QED
    BY <2>2, <2>3, <2>4 DEF Sound
<1>3. ASSUME Copy PROVE Sound'
  <2>1. /\ UNCHANGED <<project, original, before, label, options, scan>>
        /\ pc' \in {"snapshot", "idle"} /\ pc = "copy" /\ scan = NoScan
        /\ replica' = replica \/ replica' = original
        /\ OfFix /\ pc' = "snapshot" => replica' = original
        /\ label # "fixed"
    BY <1>3 DEF Copy, End, work, Sound, Places, NoScan, OfFix
  <2>2. Trees'
    BY <2>1 DEF Sound, Trees
  <2>3. Places' /\ Scanning'
    BY <2>1 DEF Sound, Places, Scanning, NoScan, OfFix
  <2>4. FirstLint'
    BY <2>1 DEF FirstLint, OfFix
  <2>5. Linting' /\ Result' /\ SecondLint' /\ Candidate' /\ Committing'
    BY <2>1 DEF Linting, Result, SecondLint, Candidate, Committing
  <2> QED
    BY <2>2, <2>3, <2>4, <2>5 DEF Sound
<1> QED
  BY <1>1, <1>2, <1>3

LEMMA SnapshotStep == ASSUME Sound, Snapshot PROVE Sound'
<1>1. /\ pc = "snapshot" /\ Len(scan) = N /\ scan' = NoScan /\ before' = scan /\ reported' = {}
      /\ pc' \in {"lint", "idle"}
      /\ label = "fixed" /\ pc' = "lint" => Formatted(Tree)
      /\ UNCHANGED <<project, replica, original, found, label, options>>
  BY DEF Snapshot, Scanned, End, results
<1>2. Trees'
  BY <1>1, WholeScan, NoScanOK DEF Sound, Trees
<1>3. ASSUME OfFix, NEW f \in Files PROVE before'[f] = replica[f]
  BY <1>1, <1>3 DEF Sound, Scanning, Files
<1>4. Places' /\ Scanning' /\ Linting' /\ Result' /\ Committing'
  BY <1>1 DEF Sound, Places, Scanning, Linting, Result, Committing, NoScan, OfFix
<1>5. FirstLint'
  BY <1>1, <1>3 DEF Sound, FirstLint, OfFix
<1>6. SecondLint'
  BY <1>1, <1>3 DEF Sound, SecondLint, FirstTokens, KeptElsewhere, OfFix
<1>7. Candidate'
  <2> SUFFICES ASSUME OfFix, label = "fixed", pc' = "lint", NEW f \in Rust
               PROVE  before'[f].formatted
    BY <1>1 DEF Candidate, OfFix
  <2>1. replica[f].formatted /\ f \in Files
    BY <1>1, FilesAssumption DEF Formatted, Tree, OfFix
  <2> QED
    BY <1>3, <2>1
<1> QED
  BY <1>2, <1>4, <1>5, <1>6, <1>7 DEF Sound

LEMMA TargetSteps ==
    ASSUME Sound, Coverage, NEW t \in Targets, Compile(t) \/ Crash(t) PROVE Sound'
<1>1. /\ pc = "lint" /\ seen' \in {seen, [seen EXCEPT ![t] = Texts(t)]}
      /\ reported' \in {reported, reported \cup {t}}
      /\ reported' # reported => seen' = [seen EXCEPT ![t] = Texts(t)]
      /\ UNCHANGED <<project, replica, original, before, scan, found, label, options, pc>>
  BY DEF Compile, Crash, results
<1>2. Linting'
  <2> SUFFICES ASSUME OfFix, NEW u \in reported' PROVE Saw(u)'
    BY <1>1 DEF Linting, OfFix
  <2>1. DOMAIN seen = Targets /\ u \in Targets
    BY <1>1 DEF Coverage
  <2>2. CASE seen'[u] = seen[u] /\ u \in reported
    BY <1>1, <2>2 DEF Sound, Linting, Saw
  <2>3. CASE seen'[u] = Texts(t) /\ u = t
    <3>1. Texts(t) = [f \in Compiles[t] |-> replica[f]]
      BY DEF Texts, Tree, OfFix
    <3> HIDE DEF Texts
    <3> QED
      BY <1>1, <2>3, <3>1 DEF Saw
  <2> QED
    BY <1>1, <2>1, <2>2, <2>3
<1>3. Trees' /\ Places' /\ Scanning' /\ Result' /\ FirstLint' /\ Committing'
  BY <1>1 DEF Sound, Trees, Places, Scanning, Result, FirstLint, Committing, OfFix
<1>4. SecondLint' /\ Candidate'
  BY <1>1 DEF Sound, SecondLint, FirstTokens, KeptElsewhere, Candidate, OfFix
<1> QED
  BY <1>2, <1>3, <1>4 DEF Sound

LEMMA LintEndStep == ASSUME Sound, Coverage, LintEnd PROVE Sound'
<1>1. /\ pc = "lint" /\ pc' \in {"assert", "idle"}
      /\ UNCHANGED <<project, replica, original, before, scan, seen, reported, label, options>>
  BY DEF LintEnd, End, work, env
<1>2. CASE pc' = "idle"
  BY <1>1, <1>2, Quiet DEF Sound, Trees
<1>3. CASE pc' = "assert"
  <2>1. /\ found' = [found EXCEPT ![label] =
               [findings |-> Found, files |-> CheckedFiles,
                tokens |-> [f \in CheckedFiles |-> CHOOSE c \in Tokens(f) : TRUE]]]
        /\ \A d \in Fixable(Found) : d[1] \in CheckedFiles
    BY <1>3 DEF LintEnd, Accepted, End
  <2>2. DOMAIN found = Labels /\ label \in Labels /\ "initial" \in Labels
    BY DEF Coverage, Labels
  <2>3. \A f \in CheckedFiles : (CHOOSE c \in Tokens(f) : TRUE) \in Tokens(f)
    <3>1. \A f \in CheckedFiles : Tokens(f) # {}
      BY DEF CheckedFiles, Tokens
    <3> QED
      BY <3>1
  <2>4. Result'
    BY <1>1, <2>1, <2>2, <2>3, SameSeen DEF Result
  <2>5. Trees' /\ Places' /\ Linting' /\ FirstLint' /\ Committing'
    BY <1>1, <1>3 DEF Sound, Trees, Places, Linting, Saw, FirstLint, Committing, OfFix
  <2>6. Scanning'
    BY <1>1, <1>3 DEF Sound, Places, Scanning
  <2>7. SecondLint'
    <3>1. label = "fixed" => found'["initial"] = found["initial"]
      BY <2>1, <2>2
    <3> QED
      BY <1>1, <1>3, <3>1 DEF Sound, SecondLint, FirstTokens, KeptElsewhere, OfFix
  <2>8. Candidate'
    BY <1>1, <1>3 DEF Sound, Candidate, OfFix
  <2> QED
    BY <2>4, <2>5, <2>6, <2>7, <2>8 DEF Sound
<1> QED
  BY <1>1, <1>2, <1>3

\* When the replica is again what was scanned before the lint, so is all that the
\* lint has seen.
LEMMA SawBefore ==
    ASSUME Sound, Coverage, OfFix, Scanned("assert"), Matches(before)
    PROVE  /\ \A f \in Files : replica[f] = before[f]
           /\ \A t \in reported : \A f \in Compiles[t] :
                 t \in Spoken /\ seen[t][f] = before[f]
           /\ \A f \in found[label].files :
                 f \in Files /\ found[label].tokens[f] = before[f].code
<1>1. pc = "assert" /\ Len(scan) = N /\ scan = before
  BY DEF Scanned, Matches
<1>2. \A f \in Files : replica[f] = before[f]
  BY <1>1 DEF Sound, Scanning, Files
<1>3. reported \subseteq Targets
  BY DEF Coverage
<1>4. ASSUME NEW t \in reported, NEW f \in Compiles[t]
      PROVE  t \in Spoken /\ seen[t][f] = before[f] /\ f \in Files
  <2>1. f \in Files /\ Saw(t)
    BY <1>1, <1>3, FilesAssumption DEF Sound, Linting
  <2>2. DOMAIN seen[t] # {} /\ seen[t][f] = before[f]
    BY <1>2, <2>1 DEF Saw
  <2>3. seen[t] # <<>>
    BY <2>2
  <2> QED
    BY <1>3, <2>1, <2>2, <2>3 DEF Spoken
<1>5. ASSUME NEW f \in found[label].files
      PROVE  f \in Files /\ found[label].tokens[f] = before[f].code
  <2>1. f \in CheckedFiles /\ found[label].tokens[f] \in Tokens(f)
    BY <1>1 DEF Sound, Result
  <2>2. PICK t \in reported : f \in Compiles[t] /\ found[label].tokens[f] = seen[t][f].code
    BY <2>1 DEF Tokens
  <2> QED
    BY <1>4, <2>2
<1> QED
  BY <1>2, <1>4, <1>5

LEMMA AssertStep == ASSUME Sound, Coverage, Assert PROVE Sound'
<1>1. /\ Scanned("assert") /\ scan' = NoScan
      /\ UNCHANGED <<project, replica, original, before, seen, reported, found, label, options>>
      /\ \/ pc' = "idle"
         \/ /\ Matches(before)
            /\ \/ label = "declarations" /\ pc' = "layout"
               \/ label = "initial" /\ pc' = "baseline"
               \/ label = "fixed" /\ pc' = "gates"
  BY DEF Assert, Scanned, End, results, Coverage, Labels
<1>2. CASE pc' = "idle"
  BY <1>1, <1>2, NoScanOK, Quiet DEF Sound, Trees
<1>3. CASE Matches(before) /\ pc' # "idle"
  <2>1. Trees' /\ Places'
    BY <1>1, <1>3, NoScanOK DEF Sound, Trees, Places, NoScan, OfFix
  <2>2. Scanning' /\ Linting' /\ Result' /\ Committing'
    BY <1>1, <1>3 DEF Scanning, Linting, Result, Committing
  <2>3. pc = "assert" /\ (OfFix' <=> OfFix)
    BY <1>1 DEF Scanned, OfFix
  <2>4. FirstLint'
    BY <1>1, <1>3, <2>3, SawBefore DEF Sound, FirstLint, OfFix
  <2>5. SecondLint'
    <3>1. CASE label = "initial" /\ pc' = "baseline"
      <4> SUFFICES ASSUME OfFix, ~options.first
                   PROVE  /\ FirstTokens
                          /\ \A d \in Fixable(found["initial"].findings) : d[1] \in found["initial"].files
        BY <1>1, <3>1 DEF SecondLint, FirstTokens, OfFix
      <4>1. \A f \in Files : before[f] = original[f]
        BY <2>3, <3>1 DEF Sound, FirstLint
      <4> QED
        BY <1>1, <1>3, <2>3, <3>1, <4>1, SawBefore DEF Sound, Result, FirstTokens
    <3>2. CASE label = "fixed" /\ pc' = "gates"
      BY <1>1, <2>3, <3>2 DEF Sound, SecondLint, FirstTokens, KeptElsewhere, OfFix
    <3>3. CASE label = "declarations" /\ pc' = "layout"
      BY <1>1, <3>3 DEF SecondLint
    <3> QED
      BY <1>1, <1>3, <3>1, <3>2, <3>3
  <2>6. Candidate'
    <3> SUFFICES ASSUME OfFix, label = "fixed", pc' = "gates" PROVE Candidate'
      BY <1>1, <1>3 DEF Candidate, OfFix
    <3>1. \A f \in Rust : before[f].formatted
      BY <2>3 DEF Sound, Candidate
    <3>2. ASSUME NEW t \in reported, NEW f \in Compiles[t], NEW x \in before[f].findings, t \in x.seen
          PROVE  <<f, x>> \in found["fixed"].findings
      <4>1. t \in Targets /\ f \in Files
        BY FilesAssumption DEF Coverage
      <4>2. x \in Findings
        BY <4>1 DEF Sound, Trees, Text
      <4>3. t \in Spoken /\ seen[t][f] = before[f]
        BY <1>1, <1>3, SawBefore
      <4>4. <<f, x>> \in FindingsIn(t, seen[t])
        BY <3>2, <4>2, <4>3 DEF FindingsIn
      <4>5. <<f, x>> \in Found
        BY <4>3, <4>4 DEF Found
      <4> QED
        BY <2>3, <4>5 DEF Sound, Result
    <3>3. \A f \in found["fixed"].files : found["fixed"].tokens[f] = before[f].code
      BY <1>1, <1>3, SawBefore
    <3> QED
      BY <1>1, <3>1, <3>2, <3>3 DEF Candidate
  <2> QED
    BY <2>1, <2>2, <2>4, <2>5, <2>6 DEF Sound
<1> QED
  BY <1>1, <1>2, <1>3

-----------------------------------------------------------------------------
(* Edits, gates and the commit.                                            *)

LEMMA EditedText == ASSUME NEW text \in Text, NEW fixes PROVE Edited(text, fixes) \in Text
<1> DEFINE with(kind) == \E x \in fixes : x.fix = kind
           code == IF with("breaks") THEN "broken" ELSE text.code
           formatted == text.formatted /\ ~with("ugly")
           left == (text.findings \ fixes) \cup (IF with("reveals") THEN {Hidden} ELSE {})
<1>1. Edited(text, fixes) = [code |-> code, formatted |-> formatted, findings |-> left]
  BY DEF Edited
<1>2. code \in Codes /\ formatted \in BOOLEAN /\ left \subseteq Findings
  <2>1. text.code \in Codes /\ text.formatted \in BOOLEAN /\ text.findings \subseteq Findings
    BY DEF Text
  <2> QED
    BY <2>1, TextsAssumption
<1> HIDE DEF code, formatted, left
<1> QED
  BY <1>1, <1>2 DEF Text

LEMMA AppliedTexts ==
    ASSUME NEW tree \in [Files -> Text], NEW edits
    PROVE  /\ Applied(tree, edits) \in [Files -> Text]
           /\ \A f \in Files : (\A d \in edits : d[1] # f) =>
                 Applied(tree, edits)[f].code = tree[f].code
<1>1. Applied(tree, edits) \in [Files -> Text]
  BY EditedText DEF Applied
<1>2. ASSUME NEW f \in Files, \A d \in edits : d[1] # f
      PROVE  Applied(tree, edits)[f].code = tree[f].code
  <2>1. Fixes(f, edits) = {}
    BY <1>2 DEF Fixes
  <2> QED
    BY <2>1 DEF Applied, Edited
<1> QED
  BY <1>1, <1>2

LEMMA EditSteps == ASSUME Sound, Coverage, Layout \/ Apply PROVE Sound'
<1>1. /\ UNCHANGED <<project, original, before, scan, found, options>>
      /\ pc \in {"layout", "apply"} /\ pc' \in {"snapshot", "idle"} /\ scan = <<>>
      /\ pc' = "idle" => UNCHANGED <<replica, label>>
  BY DEF Layout, Apply, End, work, results, Sound, Places
<1>2. CASE pc' = "idle"
  BY <1>1, <1>2, Quiet DEF Sound, Trees
<1>3. CASE Layout /\ pc' = "snapshot"
  <2> DEFINE laid == Applied(replica, LayoutEdits(found["declarations"].findings))
  <2>1. /\ replica' = [f \in Files |-> IF f \in Rust THEN Rustfmt[laid[f]] ELSE laid[f]]
        /\ label' = "initial" /\ pc = "layout"
    BY <1>3 DEF Layout, End
  <2>2. laid \in [Files -> Text]
    BY AppliedTexts DEF Sound, Trees
  <2> HIDE DEF laid
  <2>3. ASSUME NEW f \in Files PROVE Rustfmt[laid[f]] \in Text
    BY <2>2, RustfmtAssumption
  <2>4. replica' \in [Files -> Text]
    BY <2>1, <2>2, <2>3
  <2>5. Trees' /\ Places' /\ Scanning'
    BY <1>1, <1>3, <2>1, <2>4 DEF Sound, Trees, Places, Scanning, OfFix
  <2>6. options.first
    BY <2>1 DEF Sound, Places
  <2>7. Linting' /\ Result' /\ FirstLint' /\ SecondLint' /\ Candidate' /\ Committing'
    BY <1>1, <1>3, <2>6 DEF Linting, Result, FirstLint, SecondLint, Candidate, Committing
  <2> QED
    BY <2>5, <2>7 DEF Sound
<1>4. CASE Apply /\ pc' = "snapshot"
  <2> DEFINE edits == found["initial"].findings
  <2>1. /\ replica' = Applied(replica, edits) /\ label' = "fixed" /\ pc = "apply"
        /\ Fixable(edits) = edits
    BY <1>4 DEF Apply, End
  <2>2. OfFix /\ OfFix'
    BY <1>1, <2>1 DEF Sound, Places, OfFix
  <2>3. Trees' /\ Places' /\ Scanning'
    BY <1>1, <1>4, <2>1, <2>2, AppliedTexts DEF Sound, Trees, Places, Scanning
  <2>4. Linting' /\ Result' /\ FirstLint' /\ Candidate' /\ Committing'
    BY <1>4, <2>1 DEF Linting, Result, FirstLint, Candidate, Committing
  <2>5. SecondLint'
    <3> SUFFICES ASSUME ~options.first PROVE FirstTokens' /\ KeptElsewhere(replica)'
      BY <1>1, <1>4, <2>1, <2>2 DEF SecondLint
    <3>1. /\ FirstTokens /\ \A f \in Files : replica[f] = original[f]
          /\ \A d \in Fixable(edits) : d[1] \in found["initial"].files
      BY <2>1, <2>2 DEF Sound, FirstLint, SecondLint
    <3>2. ASSUME NEW f \in Files \ found["initial"].files
          PROVE  replica'[f].code = original[f].code
      BY <2>1, <3>1, <3>2, AppliedTexts DEF Sound, Trees
    <3> QED
      BY <1>1, <3>1, <3>2 DEF FirstTokens, KeptElsewhere
  <2> QED
    BY <2>3, <2>4, <2>5 DEF Sound
<1> QED
  BY <1>1, <1>2, <1>3, <1>4

LEMMA BaselineStep == ASSUME Sound, Coverage, Baseline PROVE Sound'
<1>1. /\ pc = "baseline" /\ scan = <<>>
      /\ UNCHANGED <<project, replica, original, before, scan, found, options, label>>
      /\ \/ pc' = "assertOriginal" /\ ~OfFix
         \/ pc' = "apply" /\ options.command # "check"
  BY DEF Baseline, work, env, Sound, Places, OfFix
<1>2. options.command \in {"check", "fix"}
  BY DEF Coverage, Invocation, Options
<1>3. Trees' /\ Places' /\ Scanning'
  BY <1>1, <1>2 DEF Sound, Trees, Places, Scanning, OfFix
<1>4. FirstLint' /\ SecondLint'
  BY <1>1 DEF Sound, FirstLint, SecondLint, FirstTokens, OfFix
<1>5. Linting' /\ Result' /\ Candidate' /\ Committing'
  BY <1>1 DEF Linting, Result, Candidate, Committing, OfFix
<1> QED
  BY <1>3, <1>4, <1>5 DEF Sound

\* The gates see through the second lint: it had a report from every target, and
\* its tokens are those of the first one in the same files.
LEMMA GatesStep == ASSUME Sound, Coverage, Gates PROVE Sound'
<1>1. /\ pc = "gates" /\ scan = <<>> /\ label = "fixed" /\ OfFix
      /\ UNCHANGED <<project, replica, original, before, scan, options, label>>
      /\ pc' \in {"assertOriginal", "idle"}
      /\ pc' = "assertOriginal" => Passes
  BY DEF Gates, End, work, env, Sound, Places
<1>2. CASE pc' = "idle"
  BY <1>1, <1>2, Quiet DEF Sound, Trees
<1>3. CASE pc' = "assertOriginal"
  <2>1. /\ found["fixed"].findings = {}
        /\ found["initial"].files = found["fixed"].files
        /\ found["initial"].tokens = found["fixed"].tokens
    BY <1>1, <1>3 DEF Passes
  <2>2. reported = Targets
    BY <1>1, <2>1 DEF Coverage, Answered, Complete
  <2>3. Verified
    <3>1. \A f \in Rust : before[f].formatted
      BY <1>1 DEF Sound, Candidate
    <3>2. \A t \in Targets : \A f \in Compiles[t] : \A x \in before[f].findings : t \notin x.seen
      BY <1>1, <2>1, <2>2 DEF Sound, Candidate
    <3>3. ASSUME NEW f \in Files, ~options.first PROVE before[f].code = original[f].code
      <4>1. CASE f \in found["initial"].files
        <5>1. found["fixed"].tokens[f] = before[f].code
          BY <1>1, <2>1, <4>1 DEF Sound, Candidate
        <5>2. found["initial"].tokens[f] = original[f].code
          BY <1>1, <3>3, <4>1 DEF Sound, SecondLint, FirstTokens
        <5> QED
          BY <2>1, <5>1, <5>2
      <4>2. CASE f \notin found["initial"].files
        BY <1>1, <3>3, <4>2 DEF Sound, SecondLint, KeptElsewhere
      <4> QED
        BY <4>1, <4>2
    <3> QED
      BY <3>1, <3>2, <3>3 DEF Verified
  <2>4. Committing'
    BY <1>1, <2>3 DEF Committing, Verified
  <2>5. Trees' /\ Places' /\ Scanning' /\ Linting' /\ Result' /\ FirstLint' /\ SecondLint' /\ Candidate'
    BY <1>1, <1>3 DEF Sound, Trees, Places, Scanning, Linting, Result, FirstLint, SecondLint,
                      Candidate, OfFix
  <2> QED
    BY <2>4, <2>5 DEF Sound
<1> QED
  BY <1>1, <1>2, <1>3

LEMMA AssertOriginalStep == ASSUME Sound, AssertOriginal PROVE Sound'
<1>1. /\ pc = "assertOriginal" /\ scan' = NoScan
      /\ UNCHANGED <<project, replica, original, before, options, label>>
      /\ \/ pc' \in {"idle", "assertAgain", "finalCheck"}
         \/ pc' = "replace" /\ OfFix
  BY DEF AssertOriginal, Scanned, End, results, OfFix
<1>2. CASE pc' # "replace"
  BY <1>1, <1>2, NoScanOK, Quiet DEF Sound, Trees
<1>3. CASE pc' = "replace"
  <2>1. Trees' /\ Places'
    BY <1>1, <1>3, NoScanOK DEF Sound, Trees, Places, OfFix
  <2>2. Scanning' /\ Linting' /\ Result' /\ FirstLint' /\ SecondLint' /\ Candidate'
    BY <1>3 DEF Scanning, Linting, Result, FirstLint, SecondLint, Candidate
  <2>3. Committing'
    BY <1>1, <1>3 DEF Sound, Committing, Verified, OfFix
  <2> QED
    BY <2>1, <2>2, <2>3 DEF Sound
<1> QED
  BY <1>2, <1>3

LEMMA EndSteps ==
    ASSUME Sound,
           \/ AssertAgain \/ Replace \/ FinalCheck \/ Verify \/ Rollback \/ Undone
           \/ Success \/ Fail
    PROVE  Sound'
<1>1. /\ UNCHANGED <<replica, original, before, label, options>>
      /\ pc' \in {"idle", "rollback", "undone", "finalCheck", "verify", "success"}
      /\ scan' = scan \/ scan' = NoScan
  BY DEF AssertAgain, Replace, FinalCheck, Verify, Rollback, Undone, Success, Fail, Scanned,
         End, work, results
<1>2. project' \in [Files -> Text]
  <2>1. project' = project
        \/ project' = [f \in Files |-> IF f \in changed THEN before[f] ELSE project[f]]
        \/ project' = [f \in Files |->
               IF f \in changed /\ project[f] = before[f] THEN original[f] ELSE project[f]]
    BY DEF AssertAgain, Replace, FinalCheck, Verify, Rollback, Undone, Success, Fail
  <2> QED
    BY <2>1 DEF Sound, Trees
<1> QED
  BY <1>1, <1>2, NoScanOK, Quiet DEF Sound, Trees

LEMMA SoundStep == ASSUME Sound, Coverage, [Next]_vars PROVE Sound'
<1>1. CASE Rest \/ UNCHANGED vars
  BY <1>1, Outside DEF Rest, vars, work, results, Sound, Trees
<1>2. CASE Program
  BY <1>2, ReadFileStep, Beginning, SnapshotStep, LintEndStep, AssertStep, EditSteps,
     BaselineStep, GatesStep, AssertOriginalStep, EndSteps DEF Program
<1>3. CASE Environment
  BY <1>3, EnvironmentSteps, TargetSteps, EndSteps DEF Environment
<1> QED
  BY <1>1, <1>2, <1>3 DEF Next

LEMMA SoundInit == Init => Sound
<1> SUFFICES ASSUME Init PROVE Sound
  OBVIOUS
<1>1. /\ project \in [Files -> Text] /\ replica = project /\ original = project
      /\ before = project /\ scan = NoScan
      /\ pc = "idle" /\ label = "initial"
  BY InputsAssumption DEF Init
<1> QED
  BY <1>1, NoScanOK DEF Sound, Trees, Places, Scanning, Linting, Result, FirstLint,
                        SecondLint, Candidate, Committing
=============================================================================
