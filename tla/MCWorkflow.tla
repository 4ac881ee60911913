----------------------------- MODULE MCWorkflow -----------------------------
(***************************************************************************)
(* A library, its tests and a manifest; one finding of every kind.         *)
(***************************************************************************)
EXTENDS Workflow

F(id, print, fix, item, denied, by) ==
    [id |-> id, print |-> print, fix |-> fix, item |-> item, denied |-> denied, seen |-> by]
Both == {"lib", "test"}
Gap     == F("gap", "p", "clean", FALSE, FALSE, Both)
Twin    == F("twin", "p", "clean", FALSE, FALSE, Both)
Items   == F("items", "q", "clean", TRUE, FALSE, Both)
Tested  == F("tested", "p", "clean", FALSE, FALSE, {"test"})
Denied  == F("denied", "q", "clean", FALSE, TRUE, Both)
Ugly    == F("ugly", "p", "ugly", FALSE, FALSE, Both)
Chain   == F("chain", "p", "reveals", FALSE, FALSE, Both)
Stuck   == F("stuck", "q", "none", FALSE, FALSE, Both)
Breaks  == F("breaks", "p", "breaks", FALSE, FALSE, Both)
Spoils  == F("spoils", "q", "breaks", TRUE, FALSE, Both)
Barred  == F("barred", "q", "clean", TRUE, TRUE, Both)

MCFindings == {Gap, Twin, Items, Tested, Denied, Ugly, Chain, Stuck, Breaks, Spoils, Barred}
MCHidden == Gap

\* Imports in groups that a blank line may part are sorted group by group; rustfmt
\* brings two gaps together.
MCRustfmt == [x \in Text |->
    IF x.formatted THEN x
    ELSE [x EXCEPT !.formatted = TRUE, !.findings = @ \ {Twin},
                   !.code = IF @ # "unsorted" THEN @
                            ELSE IF Items \in x.findings THEN "mixed" ELSE "c"]]

T(code, formatted, all) == [code |-> code, formatted |-> formatted, findings |-> all]
MCSaves == <<{T("c", TRUE, {}), T("c", TRUE, {Gap, Twin})}, {}, {}>>
MCScribbles == <<{T("c", TRUE, {}), T("d", TRUE, {})}, {}, {T("d", TRUE, {})}>>

MCCompiles == [t \in Both |-> IF t = "lib" THEN {1} ELSE {1, 2}]
MCNeeds == [t \in Both |-> IF t = "lib" THEN {} ELSE {"lib"}]

Check    == NoOptions
Record   == [Check EXCEPT !.write = TRUE]
Under    == [Check EXCEPT !.baseline = TRUE]
Fix      == [NoOptions EXCEPT !.command = "fix"]
DryRun   == [Fix EXCEPT !.dry = TRUE]
First    == [Fix EXCEPT !.first = TRUE]

Project(findings, tested) ==
    <<T("c", TRUE, findings), T("c", TRUE, tested), T("c", TRUE, {})>>
Unformatted == <<T("unsorted", FALSE, {Items, Gap, Twin}), T("c", TRUE, {}), T("c", TRUE, {})>>
Parted == <<T("unsorted", FALSE, {Barred}), T("unsorted", FALSE, {Items}), T("c", TRUE, {})>>
Plans(start, plans) == {[project |-> start, plan |-> p] : p \in plans}
MCInputs ==
    Plans(Project({}, {}), {<<Fix, Check>>, <<Record, Under>>})
    \cup Plans(Project({Gap}, {}), {<<Fix, Fix>>, <<Record, Under>>, <<DryRun>>})
    \cup Plans(Project({Gap}, {Tested}), {<<Fix, DryRun>>, <<Record, Under>>})
    \cup Plans(Project({Gap, Twin}, {}), {<<Record, Under>>})
    \cup Plans(Project({Denied}, {Tested}), {<<Fix>>, <<Record, Under>>})
    \cup Plans(Unformatted, {<<Check>>, <<First, Check>>})
    \cup Plans(Parted, {<<First>>})
    \cup Plans(Project({Chain}, {}), {<<Fix, Check>>})
    \cup UNION {Plans(Project({x}, {}), {<<Fix>>, <<First>>}) : x \in {Spoils, Breaks}}
    \cup UNION {Plans(Project({x}, {}), {<<Fix>>}) : x \in {Ugly, Stuck}}
=============================================================================
