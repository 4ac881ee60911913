------------------------------- MODULE Planner -------------------------------
(***************************************************************************)
(* The spacing planner for one list of statements: crates/core/planner.rs. *)
(*                                                                         *)
(* Decisions are built on the blank lines of the source (Build, then one   *)
(* SetupControl per control statement, in passes, then Close); they are    *)
(* built again on the blank lines that they ask for, until these stay; the *)
(* plan is reported, applied, and the result is planned once more.         *)
(***************************************************************************)
EXTENDS Setup

CONSTANT Inputs      \* sets of the [cfg, list, blank, edge] to plan

\* What is planned: a configuration, a list and the blank lines in its gaps.
ASSUME InputAssumption ==
    \A inputs \in Inputs : \A in \in inputs :
        /\ in.cfg \in Configs /\ IsList(in.list)
        /\ in.blank \in [1..(Len(in.list.units) - 1) -> Nat] /\ in.edge \in Nat

\* What follows a gap as a tail is an expression; a let statement is none
\* (is_tail in syntax/src/lower.rs).
ASSUME TailAssumption ==
    \A inputs \in Inputs : \A in \in inputs :
        LET units == in.list.units
        IN  \A i \in 1..(Len(units) - 1) : units[i + 1].tail => units[i + 1].kind # "let"

VARIABLES
    edge,        \* blank lines at an edge of the block
    written,     \* gap -> the blank lines of the source
    pc,
    decisions,   \* gap -> the slot of the build in work
    cohesive,    \* the gaps inside groups of calls on one receiver
    control, changed, pass,   \* the loops of setup::apply
    round,       \* how often settled_decisions has planned on its own output
    plan,        \* gap -> the slot that settled_decisions has so far
    applied      \* the fixes were applied and the result is planned

\* What is planned; the rest changes on the way.
input == <<cfg, list, edge, written>>
vars == <<cfg, list, blank, edge, written, pc, decisions, cohesive, control,
          changed, pass, round, plan, applied>>

NoDecisions == [i \in Gaps |-> NoDecision]

-----------------------------------------------------------------------------
\* with_decisions
WithDecisions(slots) ==
    [i \in Gaps |-> IF slots[i] = NoDecision THEN written[i] ELSE slots[i].blanks]

\* The checks at the start of plan.
Validate ==
    /\ pc = "validate"
    /\ pc' = IF Valid(cfg) THEN "build" ELSE "invalid"
    /\ UNCHANGED <<input, blank, decisions, cohesive, control, changed, pass,
                   round, plan, applied>>

\* Mutant: the groups of a replanning are those of the first build.
GroupsStale == IF round = 0 THEN CohesiveGaps ELSE cohesive
Groups == CohesiveGaps

\* build_decisions, up to the loops of setup::apply.
Build ==
    /\ pc = "build"
    /\ cohesive' = Groups
    /\ decisions' = [i \in Gaps |-> Winner(i, GapOffers(i, cohesive'))]
    /\ control' = 1 /\ changed' = FALSE /\ pass' = 1
    /\ pc' = "setup"
    /\ UNCHANGED <<input, blank, round, plan, applied>>

ControlsFrom(i) == {c \in i..Size : c > 1 /\ U(c).kind = "control"}

SetupControl ==
    /\ pc = "setup" /\ ControlsFrom(control) # {}
    /\ LET c == Min(ControlsFrom(control))
       IN  /\ decisions' = SetupStep(c, decisions, cohesive)
           /\ control' = c + 1
    /\ changed' = (changed \/ decisions' # decisions)
    /\ UNCHANGED <<input, blank, pc, cohesive, pass, round, plan, applied>>

\* Mutants: one pass; one pass too many.
AgainNever == FALSE
AgainAlways == pass <= Size
Again == changed /\ pass < Size

SetupPass ==
    /\ pc = "setup" /\ ControlsFrom(control) = {}
    /\ IF Again
       THEN control' = 1 /\ changed' = FALSE /\ pass' = pass + 1 /\ UNCHANGED pc
       ELSE pc' = "close" /\ UNCHANGED <<control, changed, pass>>
    /\ UNCHANGED <<input, blank, decisions, cohesive, round, plan, applied>>

\* cap_blank_lines
Capped(slots) ==
    [i \in Gaps |->
        IF blank[i] > 1 /\ Bids(i, slots[i], Separate("layout", 1))
        THEN Separate("layout", 1) ELSE slots[i]]

\* Mutant: settled_decisions compares with the source, not with what it planned.
UnstableSource(slots) == {i \in Gaps : slots[i] # NoDecision /\ slots[i].blanks # written[i]}
Unstable(slots) == {i \in Gaps : slots[i] # NoDecision /\ slots[i].blanks # blank[i]}

Merged(slots) == [i \in Gaps |-> IF i \in Unstable(slots) THEN slots[i] ELSE plan[i]]

\* settled_decisions: plan again on what is planned, at most Size times.
Replan(slots) ==
    /\ plan' = slots
    /\ blank' = WithDecisions(slots)
    /\ round' = round + 1
    /\ pc' = "build"

Close ==
    /\ pc = "close"
    /\ LET built == Capped(decisions)
       IN  IF round = 0 THEN Replan(built)
           ELSE IF Unstable(built) = {} THEN pc' = "planned" /\ UNCHANGED <<plan, blank, round>>
           ELSE IF round < Size THEN Replan(Merged(built))
           ELSE pc' = "unsettled" /\ UNCHANGED <<plan, blank, round>>
    /\ UNCHANGED <<input, decisions, cohesive, control, changed, pass, applied>>

\* The findings of plan: gaps whose blank lines change, and the edge.
Findings == {i \in Gaps : plan[i] # NoDecision /\ plan[i].blanks # written[i]}
Padded == edge > 0 /\ "layout" \in EnabledRules
Fixable == \A i \in Findings : list.vertical[i]

\* The fixes are applied, and the result is planned again.
Apply ==
    /\ pc = "planned" /\ ~applied /\ Fixable
    /\ written' = [i \in Gaps |-> IF i \in Findings THEN plan[i].blanks ELSE written[i]]
    /\ blank' = written'
    /\ edge' = IF Padded THEN 0 ELSE edge
    /\ applied' = TRUE
    /\ round' = 0 /\ plan' = NoDecisions
    /\ pc' = "build"
    /\ UNCHANGED <<cfg, list, decisions, cohesive, control, changed, pass>>

\* The end: the result is planned, or some finding has no fix.
Done ==
    /\ \/ pc \in {"invalid", "unsettled"}
       \/ pc = "planned" /\ (applied \/ ~Fixable)
    /\ UNCHANGED vars

Init ==
    /\ \E inputs \in Inputs : \E in \in inputs :
           /\ cfg = in.cfg /\ list = in.list /\ edge = in.edge
           /\ written = in.blank /\ blank = in.blank
    /\ pc = "validate"
    /\ decisions = NoDecisions /\ plan = NoDecisions
    /\ cohesive = {}
    /\ control = 1 /\ changed = FALSE /\ pass = 1
    /\ round = 0 /\ applied = FALSE

Next == Validate \/ Build \/ SetupControl \/ SetupPass \/ Close \/ Apply \/ Done

Spec == Init /\ [][Next]_vars

-----------------------------------------------------------------------------
(* Properties.                                                             *)

TypeOK ==
    /\ cfg \in Configs
    /\ IsList(list)
    /\ blank \in [Gaps -> Nat] /\ written \in [Gaps -> Nat]
    /\ edge \in Nat
    /\ pc \in {"validate", "invalid", "build", "setup", "close", "planned", "unsettled"}
    /\ decisions \in [Gaps -> Slot] /\ plan \in [Gaps -> Slot]
    /\ cohesive \subseteq Gaps
    /\ control \in 1..(Size + 1) /\ changed \in BOOLEAN /\ pass \in 1..Size
    /\ round \in 0..Size
    /\ applied \in BOOLEAN

\* Rules that read the blank lines they ask for settle: the internal error of
\* settled_decisions is never reported.
Settles == pc # "unsettled"

\* What the fixes leave is accepted: planning the fixed source finds nothing,
\* so that fix followed by check passes.
Idempotent == pc = "planned" /\ applied => Findings = {} /\ ~Padded

\* setup::apply stops because no control statement changes anything any more,
\* not because it has made as many passes as it may.
ClosureReached ==
    pc = "close" => \A c \in ControlsFrom(1) : SetupStep(c, decisions, cohesive) = decisions

\* A Result or Option and its immediate check are adjacent in every plan,
\* whatever the other rules and the groups around the pair ask for.
PairKept ==
    pc = "planned" =>
        \A i \in Gaps :
            ChecksResult(i) /\ list.joinable[i] /\ ~Blocked(i)
            /\ Enabled(U(i + 1), "result_check") => WithDecisions(plan)[i] = 0

\* A finding is about a gap that may change, and its rule is on both at the
\* statement after the gap and at the statement that carries the diagnostic.
Anchor(i) == IF plan[i].anchor = 0 THEN i + 1 ELSE plan[i].anchor
Licensed ==
    pc = "planned" =>
        \A i \in Findings : /\ ~Blocked(i)
                            /\ Enabled(U(i + 1), plan[i].rule)
                            /\ Enabled(U(Anchor(i)), plan[i].rule)

\* The gap before control flow, an exit or a tail is never decided by the
\* rules for bindings and expressions, also if its own rules are off; the
\* phases of a test are the exception.
SuppressedStaysSilent ==
    pc = "planned" =>
        \A i \in Gaps :
            (U(i + 1).kind \in {"control", "exit"} \/ U(i + 1).tail) /\ U(i).tests = -1 =>
                plan[i].rule \notin {"bindings", "expressions"}

\* Within one planning, what is once held together is never separated again:
\* no control statement splits it, and under join_related neither does planning
\* on the result.  Without join_related the blank lines of the source count, and
\* what planning on the result has separated can change a rule's mind, but only
\* in one direction: a gap once separated stays so.
HeldStaysHeld ==
    \A i \in Gaps : pc # "build" /\ MandatoryJoin(decisions[i]) => MandatoryJoin(decisions'[i])
PlannedStaysHeld ==
    IF cfg.join_related THEN \A i \in Gaps : MandatoryJoin(plan[i]) => MandatoryJoin(plan'[i])
    ELSE round > 0 => \A i \in Gaps : blank[i] = 1 => blank'[i] = 1
JoinsStand == [][round' >= round => HeldStaysHeld /\ PlannedStaysHeld]_vars
=============================================================================
