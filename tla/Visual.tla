------------------------------- MODULE Visual -------------------------------
(***************************************************************************)
(* Visual phases: planner/visual.rs.  Two branches of that file are not    *)
(* here because they cannot be taken: the second test for a multiline      *)
(* production in boundary repeats one that has returned already, and       *)
(* parallel_run needs a let with direct callees, which the lint records    *)
(* for expression statements only (the planner's own tests build one).     *)
(***************************************************************************)
EXTENDS Decisions

Assertion(u) == u.role = "assertion"

-----------------------------------------------------------------------------
(* Test phases.                                                            *)

MutationCheck(action, check) ==
    /\ Ordinary(action) /\ ~Assertion(action) /\ Assertion(check)
    /\ Meets(action.writes \cup action.mutating, check.reads)

CallCheck(action, check) ==
    /\ action.kind = "expression" /\ action.role = "function_call"
    /\ Assertion(check)
    /\ Meets(action.reads, check.reads)

\* From statement i to the next assertion, at most four further.
FixturePreparation(i) ==
    \E c \in i..(IF i + 4 <= Size THEN i + 4 ELSE Size) :
        /\ Assertion(U(c))
        /\ \A k \in i..(c - 1) :
               /\ ~Assertion(U(k))
               /\ \/ MutationCheck(U(k), U(c))
                  \/ /\ U(k).kind = "let"
                     /\ U(k).form \notin {"branch", "conditional", "closure", "let_else"}
                     /\ U(k).role # "extraction"
                     /\ Meets(U(k).definitions, U(c).reads)

OperationCheck(a, b) ==
    /\ a.kind = "let" /\ a.role # "extraction" /\ a.handler = ""
    /\ a.form \in {"call", "method", "value", "literal"}
    /\ Meets(a.definitions, b.reads)
ScenarioCheck(a, b) ==
    \/ MutationCheck(a, b)
    \/ /\ CallCheck(a, b)
       /\ Cardinality({k \in Gaps : CallCheck(U(k), U(k + 1))}) > 1
Reexamination(a, b) ==
    /\ a.kind = "expression"
    /\ CoveredBy(a.reads, b.reads) /\ ~CoveredBy(b.reads, a.reads)

\* A call that verifies what the assertion before it looked at.
Verification(i) ==
    /\ U(i + 1).role = "function_call"
    /\ i > 1
    /\ LET operation == U(i - 1)
       IN  /\ operation.kind = "let" /\ operation.role # "extraction"
           /\ Meets(operation.definitions, U(i).reads)
           /\ Meets(operation.reads, U(i + 1).reads)

\* assertion_boundary: whether gap i belongs to a test phase, and splits it.
AssertionBoundary(i) ==
    LET a == U(i)
        b == U(i + 1)
        long == a.tests > cfg.short_block
        phase(splits) == IF splits THEN "boundary" ELSE "together"
    IN  IF a.tests = -1 \/ ~Ordinary(a) \/ ~Ordinary(b) THEN "none"
        ELSE IF Assertion(a) /\ Assertion(b) THEN "together"
        ELSE IF Assertion(b)
        THEN phase(/\ long
                   /\ OperationCheck(a, b) \/ ScenarioCheck(a, b) => b.pins
                   /\ ~Reexamination(a, b))
        ELSE IF Assertion(a) THEN phase(long /\ ~Verification(i))
        ELSE IF \/ /\ b.role = "extraction"
                   /\ i + 2 <= Size /\ Assertion(U(i + 2))
                   /\ Meets(a.definitions, b.reads)
                \/ FixturePreparation(i)
        THEN "together" ELSE "none"

-----------------------------------------------------------------------------
(* Guards and tails.                                                       *)

ValidationStages ==
    /\ Cardinality({i \in 1..Size : U(i).guard}) > 1
    /\ \A i \in 1..Size : U(i).guard \/ U(i).kind \in {"exit", "expression"}

Conditional(u) == u.kind = "control" /\ u.form \in {"conditional", "call_check"}

GuardContinuation(a, b) ==
    Conditional(a) /\ a.guard /\ a.exiting /\ b.kind = "exit" /\ ~b.loop_exit

LoopTail(a, b) ==
    /\ b.kind = "exit" /\ ~Multiline(b)
    /\ a.kind = "control" /\ a.form = "loop" /\ "block" \in a.says
    /\ b.reads # {} \/ "mut" \notin a.says

CompactShape(a, b) ==
    \/ list.scope = "closure" /\ ExecutableCount = 2 /\ a.kind = "control"
    \/ b.tail /\ b.kind = "expression" /\ b.form \in {"value", "literal"}
    \/ b.tail /\ b.kind = "control" /\ b.guard
    \/ ExecutableCount = 2 /\ a.kind = "let" /\ b.form \in {"branch", "conditional"}
    \/ ExecutableCount = 2 /\ a.form = "loop" /\ b.form = "macro"

CompactExit(a, b) ==
    LET producer == Meets(a.definitions, b.reads)
    IN  /\ b.kind = "exit"
        /\ \/ ~Multiline(b) /\ producer
           \/ /\ a.kind = "let" /\ ~Multiline(a) /\ producer
              /\ b.form = "method" /\ Cardinality(b.reads) >= 2
           \/ /\ ~Multiline(b) /\ b.reads = {}
              /\ "closure" \in a.says \/ (a.form = "macro" /\ ~Assertion(a))
           \/ /\ ~Multiline(b) /\ ~EndsBlock(a) /\ a.lines <= 8
              /\ a.reads # {} \/ b.reads # {}
           \/ /\ Multiline(b) /\ ExecutableCount <= cfg.short_block
              /\ \A k \in 1..Size : ~Meets(U(k).definitions, b.reads)

\* compact_tail
CompactTail(a, b) ==
    IF Conditional(a) THEN GuardContinuation(a, b)
    ELSE LoopTail(a, b) \/ CompactShape(a, b) \/ CompactExit(a, b)

-----------------------------------------------------------------------------
(* Reasons to stay together.                                               *)

Adapters == {"expect", "expect_err", "unwrap", "unwrap_or", "unwrap_or_default",
             "unwrap_or_else", "map_err", "ok_or", "ok_or_else", "or", "or_else",
             "into_diagnostic", "into_report"}

PlainStep(u) == u.form \in {"other", "value", "call", "method", "literal"}
BoolFlagRun(a, b) ==
    /\ b.kind = "let" /\ PlainStep(b) /\ "flag" \in b.says
    /\ Ordinary(a) /\ PlainStep(a)

ResourcePair(a, b) ==
    \/ a.form = "method" /\ b.form = "method" /\ Meets(a.receivers, b.receivers)
    \/ Meets(a.writes, b.writes)
    \/ Meets(a.mutating, b.mutating)

\* A let between operations on one resource.
Sandwiched(i) ==
    /\ i <= Size /\ U(i).kind = "let"
    /\ \E j \in 1..(i - 1), k \in (i + 1)..Size :
           /\ \A m \in j..k : m = i \/ U(m).kind = "expression"
           /\ ResourcePair(U(j), U(k))

SameString(a, b) == a.strings \cap b.strings # {}

\* a defines what b reads, in few lines or in a form that reads as one step.
ShortProducer(a, b) ==
    /\ Meets(a.definitions, b.reads)
    /\ \/ a.form \in {"let_else", "closure"}
       \/ a.form = "value" /\ IsBinding(b)
       \/ b.kind = "assignment"
       \/ Mutates(b)
       \/ a.lines <= 2 /\ ~Multiline(b) /\ Ordinary(b)
       \/ /\ IsBinding(b)
          /\ \/ Cardinality(a.definitions) > 1 /\ ~Multiline(b)
             \/ b.handler # "" /\ b.lines <= 2

\* Both call the same function, on one line, on the same inputs or places.
SharedOperation(a, b) ==
    /\ Ordinary(a) /\ Ordinary(b)
    /\ cfg.same_callee /\ (a.callees \ Adapters) \cap b.callees # {}
    /\ \/ ~Multiline(a) /\ ~Multiline(b)
       \/ CoveredBy(a.reads, b.reads)
       \/ LocalsOf(a.reads \cup a.receivers) \cap LocalsOf(b.reads \cup b.receivers) # {}

SameHandler(a, b) ==
    /\ a.handler # "" /\ a.handler = b.handler
    /\ \/ Meets(a.definitions, b.reads)
       \/ Meets(a.reads, b.reads)
       \/ Meets(a.captures, b.captures)

Initializes(a, b) == a.mutable /\ Meets(a.definitions, b.writes \cup b.mutating)
Changed(a, b) == Ordinary(b) /\ Meets(a.writes \cup a.mutating, b.reads)

\* related_join
RelatedJoin(a, b) ==
    \/ ShortProducer(a, b)
    \/ SharedOperation(a, b)
    \/ /\ IsBinding(a) /\ IsBinding(b)
       /\ a.lines <= 2 /\ ~Multiline(b) /\ Related(a, b)
    \/ IsBinding(a) /\ IsBinding(b) /\ SameHandler(a, b)
    \/ Initializes(a, b)
    \/ Changed(a, b)
    \/ Ordinary(a) /\ Ordinary(b) /\ ResourcePair(a, b)

-----------------------------------------------------------------------------
(* boundary: whether a visual phase ends at gap i.                         *)

MatchContinuation(a, b) ==
    /\ a.form = "branch" /\ IsBinding(b) /\ b.form = "method" /\ Multiline(b)
    /\ Meets(a.definitions, b.reads \cup b.receivers)

Dispatch(u) == u.form \in {"conditional", "branch"}
DispatchRun(a, b) ==
    /\ a.kind = "let" /\ Dispatch(a) /\ b.kind = "let" /\ Dispatch(b)
    /\ b.header # {}
    /\ ~Meets(a.header, b.header) \/ "work" \notin b.says

ConditionalConfiguration(a, b) ==
    /\ IsBinding(a) /\ Multiline(a)
    /\ \/ /\ Dispatch(a) /\ IsBinding(b) /\ Multiline(b)
          /\ ~MatchContinuation(a, b) /\ ~DispatchRun(a, b)
       \/ Conditional(b) /\ ~b.exiting

KeptTogether(i) ==
    LET a == U(i)
        b == U(i + 1)
        producer == Meets(a.definitions, b.reads)
    IN  \/ cfg.join_related /\ RelatedJoin(a, b)
        \/ a.form = "let_else" /\ producer
        \/ SameHandler(a, b)
        \/ producer /\ \/ a.form = "value" /\ IsBinding(b)
                       \/ a.form = "closure"
                       \/ b.kind = "assignment"
        \/ Initializes(a, b)
        \/ Changed(a, b)
        \/ Sandwiched(i) \/ Sandwiched(i + 1)

ProducedUse(a, b) ==
    /\ IsBinding(b) /\ b.form \in {"call", "method"} /\ "default" \notin b.says
    /\ \/ ~Dispatch(a) /\ a.form # "loop"
       \/ a.form = "branch" /\ b.form = "method" /\ Multiline(b)
    /\ ~Multiline(b) \/ (b.lines <= 5 /\ b.form = "method")
    /\ Meets(a.definitions, b.reads \cup b.receivers \cup b.mutating)

DispatchRefinement(a, b) ==
    /\ b.kind = "let" /\ Dispatch(b) /\ "default" \notin b.says
    /\ ~Dispatch(a) /\ a.form # "loop"
    /\ CoveredBy(a.definitions, b.reads)

MultilineProduction(a, b) ==
    /\ Multiline(a)
    /\ ~ProducedUse(a, b) /\ ~DispatchRefinement(a, b)
    /\ ~BoolFlagRun(a, b) /\ ~DispatchRun(a, b)

ShortContinuation(a, b) ==
    LET producer == Meets(a.definitions, b.reads)
    IN  \/ /\ list.scope = "loop" /\ b.guard
           /\ \/ ExecutableCount <= 4
              \/ producer
              \/ Meets(a.definitions, b.captures)
        \/ /\ producer
           /\ \/ Mutates(b)
              \/ /\ IsBinding(b)
                 /\ \/ ~Multiline(b) /\ a.lines <= 2
                    \/ b.handler # "" /\ b.lines <= 2
                    \/ Cardinality(a.definitions) > 1 /\ ~Multiline(b)

UnfedControl(a, b) ==
    /\ a.kind = "let" /\ b.kind = "control"
    /\ ~b.exiting /\ b.form # "loop" /\ ~Meets(a.definitions, b.reads)

EarlierMultiline(i) ==
    /\ IsBinding(U(i)) /\ U(i + 1).kind = "expression"
    /\ ~Meets(U(i).definitions, U(i + 1).reads)
    /\ i > 1 /\ Multiline(U(i - 1))
    /\ Meets(U(i - 1).definitions, U(i).reads)
    /\ Meets(U(i - 1).definitions, U(i + 1).reads)

\* A binding after an operation that prepares the same thing.
BindingContinues(i) ==
    LET a == U(i)
        b == U(i + 1)
    IN  \/ SameString(a, b)
        \/ Meets(a.definitions, b.reads)
        \/ /\ ~Mutates(a)
           /\ \/ /\ ~Dispatch(b) /\ i > 1 /\ U(i - 1).kind = "let"
                 /\ Meets(U(i - 1).definitions, a.reads)
                 /\ Meets(U(i - 1).reads, b.reads)
              \/ Meets(a.reads, b.reads)
              \/ b.form \in {"literal", "value"} /\ ~b.fallible /\ ~Multiline(b)

OperationBoundary(i) ==
    LET a == U(i)
        b == U(i + 1)
    IN  \/ a.kind = "expression" /\ b.kind = "let" /\ ~BindingContinues(i)
        \/ /\ IsBinding(a) /\ b.kind = "expression"
           /\ Unrelated(a, b) /\ ~RelatedJoin(a, b)
        \/ a.kind = "expression" /\ b.kind = "expression" /\ Unrelated(a, b)

Boundary(i) ==
    LET a == U(i)
        b == U(i + 1)
    IN  \/ ConditionalConfiguration(a, b)
        \/ /\ ~KeptTogether(i)
           /\ \/ MultilineProduction(a, b)
              \/ /\ ~ShortContinuation(a, b)
                 /\ UnfedControl(a, b) \/ EarlierMultiline(i) \/ OperationBoundary(i)
=============================================================================
