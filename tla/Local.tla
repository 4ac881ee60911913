-------------------------------- MODULE Local --------------------------------
(***************************************************************************)
(* The rules that decide a gap without regard to the others:               *)
(* planner/local.rs.  Its three passes put their decisions into one slot   *)
(* per gap; here each is an offer, in the order of the code.               *)
(***************************************************************************)
EXTENDS Visual

-----------------------------------------------------------------------------
(* First pass: joins, for gaps that can be closed.                         *)

\* Mutant: a producer and its check are held like any related statements.
ImmediateCheckWeak(i) == OptionalJoin("result_check")
ImmediateCheckJoin(i) == Join("result_check")

ChecksResult(i) ==
    /\ cfg.immediate_check = "join"
    /\ U(i).kind = "let" /\ U(i + 1).known
    /\ U(i + 1).check_of \cap U(i).definitions # {}

Grouped == cfg.expressions \notin {"preserve", "strict"}

RejectionGate(i) ==
    /\ cfg.max_before_control > 0 /\ cfg.bindings # "preserve" /\ Grouped
    /\ i \in Tight
    /\ U(i).kind = "let" /\ ~Multiline(U(i))
    /\ U(i + 1).guard /\ U(i + 1).exiting
    /\ U(i + 1).check_of = {} /\ U(i + 1).form # "call_check"
FeedsGuard(i) == CoveredBy(U(i).definitions, U(i + 1).header)

RepeatsAction(i) ==
    /\ cfg.same_receiver /\ Grouped
    /\ i \in Tight
    /\ U(i).kind = "expression" /\ U(i).form = "method"
    /\ Meets(U(i).receivers, U(i + 1).receivers)
    /\ U(i + 1).action # "" /\ U(i + 1).action = U(i).text

\* fresh_after_check
FreshAfterCheck(a, b) ==
    /\ a.kind = "expression" /\ a.fallible
    /\ a.definitions = {} /\ ~Mutates(a) /\ a.reads # {}
    /\ a.handler = "" \/ a.handler # b.handler
    /\ b.kind = "let" /\ ~Dispatch(b) /\ b.form # "loop"
    /\ ~Meets(a.reads, b.reads \cup b.receivers)
    /\ ~Meets(a.receivers, b.receivers)

CompactExits == cfg.tail \in {"smart", "visual"}

RetryContinue(a, b) ==
    /\ CompactExits /\ cfg.attached_loop_exit
    /\ a.kind = "expression" /\ b.kind = "exit" /\ "continue" \in b.says

OkClose(a, b) ==
    /\ CompactExits
    /\ Ordinary(a) /\ ~a.fallible
    /\ b.kind = "exit" /\ b.reads = {} /\ "ok" \in b.says

Unpack(a, b) ==
    /\ Ordinary(a)
    /\ b.kind = "let" /\ "tuple" \in b.says
    /\ CoveredBy(a.definitions, b.reads)

Step(a) == Ordinary(a) /\ ~Assertion(a)
CleanupCall(a, b) ==
    /\ Step(a) /\ "drop" \notin a.says
    /\ b.kind = "let" /\ "ignored" \in b.says
IgnoredEmit(a, b) ==
    /\ Step(a) /\ b.kind = "let" /\ "emit" \in b.says
    /\ Meets(a.definitions, b.reads)

StepPlaces(a) ==
    IF cfg.tail = "visual" THEN Outputs(a) \cup a.reads ELSE Outputs(a)
Passthrough(a, b) ==
    /\ CompactExits /\ Ordinary(a) /\ b.kind = "exit"
    /\ \/ b.form = "literal"
       \/ /\ b.form = "value"
          /\ \/ "error" \in b.says
             \/ /\ "nested" \notin b.says
                /\ b.reads = {} \/ CoveredBy(StepPlaces(a), b.reads)
TailCall(a, b) ==
    /\ CompactExits /\ Ordinary(a) /\ b.kind = "exit"
    /\ b.form \in {"call", "method"}
    /\ {"braces", "okcall"} \cap b.says = {}
    /\ CoveredBy(StepPlaces(a), b.reads)

JoinOffers(i) ==
    LET a == U(i)
        b == U(i + 1)
    IN  IF ~list.joinable[i] THEN <<>>
        ELSE Offer(ChecksResult(i), ImmediateCheckJoin(i))
             \o Offer(RejectionGate(i) /\ FeedsGuard(i), Join("control_flow"))
             \o Offer(RejectionGate(i) /\ a.known /\ b.known /\ ~FeedsGuard(i),
                      Separate("control_flow", 60))
             \o Offer(RepeatsAction(i), Join("control_flow"))
             \o Offer(FreshAfterCheck(a, b), Separate("bindings", 100))
             \o Offer(RetryContinue(a, b) \/ OkClose(a, b), Join("exit"))
             \o Offer(\/ Unpack(a, b) \/ BoolFlagRun(a, b)
                      \/ CleanupCall(a, b) \/ IgnoredEmit(a, b), Join("bindings"))
             \o Offer(Passthrough(a, b) \/ TailCall(a, b), Join("exit"))

-----------------------------------------------------------------------------
(* Second pass: the rules that do not depend on groups.                    *)

SeparatesItems(a, b) ==
    LET kinds == {a.kind, b.kind}
    IN  \/ "function" \in kinds /\ cfg.functions = "separate"
        \/ kinds = {"constant"} /\ (Multiline(a) \/ Multiline(b))
        \/ "major" \in kinds /\ cfg.major_items = "separate"
        \/ kinds \subseteq CompactItems /\ (a.kind # b.kind \/ ~cfg.compact_declarations)

\* An assertion phase, under the configuration that asks for them.
AssertionPhase(i) ==
    IF cfg.join_related /\ cfg.expressions = "multiline" /\ cfg.bindings = "multiline"
    THEN AssertionBoundary(i) ELSE "none"

BindingRule(a, b) == IF IsBinding(a) \/ IsBinding(b) THEN "bindings" ELSE "expressions"

CompactPolicy == cfg.expressions # "strict"

CleanupExit(a, b) ==
    /\ CompactPolicy /\ cfg.compact_cleanup /\ cfg.tail # "always-separate"
    /\ a.drain \/ (Ordinary(a) /\ Mutates(a))
    /\ a.known /\ b.bare_return
AttachedExit(a, b) ==
    /\ CompactPolicy /\ cfg.attached_loop_exit
    /\ b.loop_exit /\ a.known /\ Mutates(a)

Completion(b) == b.known /\ b.reads = {} /\ ~b.loop_exit /\ ~b.bare_return
CompletionExit(b) ==
    /\ CompactPolicy /\ cfg.tail = "smart" /\ Completion(b)
    /\ b.kind = "exit" \/ (b.tail /\ b.kind = "expression")
CachedExit(a, b) ==
    /\ CompactPolicy /\ cfg.shared_inputs
    /\ a.kind = "assignment" /\ b.known /\ Meets(a.reads, b.reads)

GuardContinues(a, b) ==
    /\ CompactPolicy
    /\ \/ a.guard /\ cfg.guard_chain = "allow"
       \/ cfg.guard_chain = "contextual" /\ GuardContinuation(a, b)
GuardExit(a, b) ==
    GuardContinues(a, b) /\ (b.kind = "exit" \/ b.tail) /\ cfg.tail = "smart"
GuardPair(a, b) == cfg.guard_chain = "allow" /\ a.guard /\ b.guard

DataContinuation(a, b) ==
    /\ CompactPolicy /\ cfg.related_continuation
    /\ Ordinary(b) \/ b.kind \in {"control", "exit"} \/ b.form = "macro"
    /\ \/ DirectProducer(a, b)
       \/ b.form = "macro" /\ Meets(Outputs(a), b.reads)
       \/ /\ b.known \/ b.form = "macro"
          /\ cfg.shared_inputs /\ Meets(a.header, b.reads)

VisualTail(a, b) == cfg.tail = "visual" /\ CompactTail(a, b)

\* The exit reports or combines more than the step before it.
FailureReport(b) ==
    /\ {"err", "braces"} \subseteq b.says
    /\ \E k \in 1..Size : Meets(U(k).definitions, b.reads)
Delegates(i) ==
    LET a == U(i)
        b == U(i + 1)
        earlier == UNION {U(k).definitions : k \in 1..(i - 1)}
    IN  /\ Meets(a.definitions, b.reads)
        /\ \/ MergesFlows(a, b, earlier)
           \/ a.fallible /\ Meets(a.reads, b.reads)
ContinuesStep(i) ==
    /\ Meets(U(i).definitions, U(i + 1).reads)
    /\ ~FailureReport(U(i + 1)) /\ ~Delegates(i)

\* The exit rule; a tail in a cohesive group is spared under "smart".
SeparatesExit(i, cohesive) ==
    LET a == U(i)
        b == U(i + 1)
    IN  /\ b.kind = "exit" \/ b.tail
        /\ ~CleanupExit(a, b) /\ ~AttachedExit(a, b)
        /\ CASE cfg.tail = "always-separate" -> TRUE
             [] cfg.tail = "visual" -> ~VisualTail(a, b) /\ ~ContinuesStep(i)
             [] cfg.tail = "preserve" -> FALSE
             [] OTHER ->
                 /\ ExecutableCount > cfg.short_block
                 /\ ~Completion(b) /\ ~CachedExit(a, b) /\ ~GuardExit(a, b)
                 /\ ~DirectProducer(a, b)
                 /\ b.kind = "exit" \/ i \notin cohesive

ReceiverContinuation(a, b) ==
    /\ CompactPolicy /\ cfg.related_continuation /\ cfg.same_receiver
    /\ Ordinary(b) /\ ~b.tail /\ b.known
    /\ \/ a.known /\ Meets(a.receivers, b.receivers)
       \/ cfg.shared_inputs /\ Meets(a.header, b.receivers)
DrainChain(a, b) ==
    /\ CompactPolicy /\ cfg.compact_cleanup
    /\ a.drain /\ b.drain /\ a.known /\ b.known
UnsafeContinuation(a, b) ==
    /\ CompactPolicy /\ cfg.related_continuation
    /\ a.kind = "unsafe"
    /\ IsBinding(b) \/ b.kind = "unsafe" \/ Related(a, b)

AttachesAfterBlock(i, cohesive) ==
    LET a == U(i)
        b == U(i + 1)
    IN  \/ cfg.join_related /\ GuardContinuation(a, b)
        \/ CompletionExit(b) \/ VisualTail(a, b) \/ GuardPair(a, b)
        \/ GuardContinues(a, b) \/ UnsafeContinuation(a, b)
        \/ DataContinuation(a, b) \/ ReceiverContinuation(a, b)
        \/ DrainChain(a, b) \/ CleanupExit(a, b)
        \/ i \in cohesive
SeparatesAfterBlock(i, cohesive) ==
    /\ EndsBlock(U(i)) /\ cfg.after_block = "separate"
    /\ ~AttachesAfterBlock(i, cohesive)
SeparatesConditional(a, b) ==
    /\ cfg.join_related /\ cfg.after_block = "separate"
    /\ Conditional(a) /\ ~GuardContinuation(a, b)

SeparatesControl(i) ==
    /\ U(i + 1).kind = "control" /\ Ordinary(U(i))
    /\ IF IsBinding(U(i)) THEN cfg.bindings = "multiline" ELSE cfg.expressions = "multiline"
    /\ Boundary(i)

\* Mutant: a generic rule decides in the place of a suppressed one.
OwnsBoundaryNever(b) == FALSE
\* Control flow, exits and tails own the gap before them.
OwnsBoundary(b) == b.kind \in {"control", "exit"} \/ b.tail

FixtureAssembly(a, b) ==
    /\ b.kind = "let" /\ b.reads = {}
    /\ ~Multiline(a) /\ ~a.fallible /\ a.kind # "control"
SeparatesMacro(a, b) ==
    /\ cfg.bindings = "multiline" /\ IsBinding(a) /\ a.form # "let_else"
    /\ b.form = "macro" /\ ~Assertion(b) /\ ~FixtureAssembly(a, b)
    /\ \/ ~Meets(a.definitions, b.reads) /\ (b.reads # {} \/ ~b.fallible)
       \/ Multiline(a)

SeparatesBindings(i) ==
    LET a == U(i)
        b == U(i + 1)
    IN  CASE cfg.bindings = "same-kind" -> a.kind # b.kind
          [] cfg.bindings = "multiline" -> Boundary(i)
          [] cfg.bindings = "related"   -> Unrelated(a, b)
          [] OTHER -> FALSE
SeparatesOperations(i) ==
    LET a == U(i)
        b == U(i + 1)
    IN  CASE cfg.expressions = "strict"    -> TRUE
          [] cfg.expressions = "multiline" -> Boundary(i)
          [] cfg.expressions = "related"   -> Unrelated(a, b) /\ ~RelatedJoin(a, b)
          [] OTHER -> FALSE
SeparatesOrdinary(i, cohesive) ==
    LET a == U(i)
        b == U(i + 1)
    IN  /\ Ordinary(a) /\ Ordinary(b) /\ i \notin cohesive
        /\ IF IsBinding(a) /\ IsBinding(b) THEN SeparatesBindings(i)
           ELSE SeparatesOperations(i)

PhaseOffers(i, cohesive) ==
    LET a == U(i)
        b == U(i + 1)
        phase == AssertionPhase(i)
    IN  IF IsItem(a) \/ IsItem(b)
        THEN Offer(SeparatesItems(a, b), Separate("item_spacing", 60))
        ELSE IF phase = "boundary" THEN <<Separate(BindingRule(a, b), 90)>>
        ELSE IF phase = "together"
        THEN Offer(list.joinable[i], Join(BindingRule(a, b)))
        ELSE Offer(SeparatesExit(i, cohesive), Separate("exit", 80))
             \o Offer(SeparatesAfterBlock(i, cohesive), Separate("after_block", 70))
             \o Offer(SeparatesConditional(a, b), Separate("after_block", 95))
             \o Offer(SeparatesControl(i), Separate("control_flow", 30))
             \o (IF OwnsBoundary(b) THEN <<>>
                 ELSE Offer(SeparatesMacro(a, b), Separate("bindings", 30))
                      \o Offer(SeparatesOrdinary(i, cohesive), Separate(BindingRule(a, b), 30)))

-----------------------------------------------------------------------------
(* Third pass: join_related, for gaps that can be closed.                  *)

KeepsItems(a, b) ==
    a.kind = b.kind /\ cfg.compact_declarations /\ a.kind \in CompactItems

KeepsExit(a, b) == cfg.tail # "preserve" /\ GuardContinuation(a, b)

KeepsSetup(a, b) ==
    /\ b.check_of = {} /\ b.guard /\ b.form # "call_check"
    /\ cfg.bindings # "preserve" /\ Grouped /\ Ordinary(a)
    /\ \/ Meets(a.definitions, b.header)
       \/ /\ a.kind = "expression" /\ cfg.guard_chain = "contextual"
          /\ ~ValidationStages
          /\ Meets(a.reads, b.header)

ShortSetup(a, b) ==
    /\ cfg.bindings \in {"consecutive", "same-kind", "multiline"}
    /\ \A u \in {a, b} :
           /\ u.kind = "let" /\ ~Multiline(u)
           /\ u.form \notin {"let_else", "branch", "conditional", "macro", "closure"}
KeepsOrdinary(a, b) ==
    /\ Ordinary(a) /\ Ordinary(b)
    /\ IsBinding(a) \/ IsBinding(b) => cfg.bindings # "preserve"
    /\ ~(IsBinding(a) /\ IsBinding(b)) => Grouped
    /\ ShortSetup(a, b) \/ RelatedJoin(a, b)

KeepOffers(i) ==
    LET a == U(i)
        b == U(i + 1)
    IN  IF ~(cfg.join_related /\ list.joinable[i]) THEN <<>>
        ELSE IF IsItem(a) \/ IsItem(b)
        THEN Offer(KeepsItems(a, b), OptionalJoin("item_spacing"))
        ELSE IF b.kind = "exit" \/ (b.tail /\ b.kind # "control")
        THEN Offer(KeepsExit(a, b), OptionalJoin("exit"))
        ELSE IF b.kind = "control"
        THEN Offer(KeepsSetup(a, b), OptionalJoin("control_flow"))
        ELSE Offer(KeepsOrdinary(a, b), OptionalJoin(BindingRule(a, b)))

LocalOffers(i, cohesive) == JoinOffers(i) \o PhaseOffers(i, cohesive) \o KeepOffers(i)
=============================================================================
