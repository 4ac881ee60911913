-------------------------------- MODULE Setup --------------------------------
(***************************************************************************)
(* Setup before control flow: planner/setup.rs.  Preparation and fresh     *)
(* accumulators are attached once; then each control statement is offered  *)
(* a separator, on the decisions taken so far, until nothing changes.      *)
(***************************************************************************)
EXTENDS Local

\* The first of the statements that, up to hi, are all among those kept.
RunStart(lo, hi, kept) == Min({s \in lo..hi : s..(hi - 1) \subseteq kept})

-----------------------------------------------------------------------------
(* attach_preparation                                                      *)

OneLineBinding(u) ==
    /\ u.kind = "let" /\ ~Multiline(u)
    /\ u.form \notin {"let_else", "branch", "conditional", "closure", "macro"}
Chained(k) ==
    /\ Adjacent(k)
    /\ OneLineBinding(U(k)) /\ OneLineBinding(U(k + 1))
    /\ Related(U(k), U(k + 1))

Prepares == /\ cfg.overflow = "whole-group" /\ cfg.max_before_control # 0
            /\ cfg.bindings # "preserve" /\ Grouped
Prepared ==
    UNION {LET s == RunStart(1, c - 1, {k \in 1..(c - 2) : Chained(k)})
           IN  IF c - s > 4 THEN {} ELSE s..(c - 2) :
           c \in {c \in 3..Size : U(c).kind = "control"}}

-----------------------------------------------------------------------------
(* attach_accumulators                                                     *)

SubstantialLoop(u) ==
    /\ u.form = "loop" /\ u.body > 1
    /\ ExecutableCount > cfg.short_block \/ list.scope # "ordinary"

\* Whether the loop c stands apart from the run of accumulators before it.
SplitsRun(c, run) ==
    /\ SubstantialLoop(U(c))
    /\ ~ /\ run <= 1 /\ U(c).body <= 2 /\ U(c).tests # -1
         /\ LET setup == U(c - run)
            IN setup.kind = "let" /\ setup.mutable /\ setup.form \in {"literal", "value", "call"}
    /\ run <= 1 \/ U(c).body > 2

UpdatedBy(u) == u.writes \cup u.mutating
Accumulates(k, c) ==
    LET u == U(k)
    IN  /\ Adjacent(k)
        /\ u.kind = "let" /\ u.mutable /\ u.known /\ ~Multiline(u)
        /\ u.form \in {"literal", "value", "call", "method"}
        /\ Meets(u.definitions, UpdatedBy(U(c)))

\* The first of one to four accumulators before c; 0 if there is no such run.
RunOf(c, cohesive) ==
    LET s == RunStart(1, c, {k \in 1..(c - 1) : Accumulates(k, c)})
    IN  IF \/ U(c).kind # "control" \/ c - 1 \in cohesive
           \/ s = c \/ c - s > 4
        THEN 0 ELSE s

Attaches(c, s) ==
    /\ ~SplitsRun(c, c - s)
    /\ \/ U(c).form = "loop"
       \/ c - s > 1
       \/ CoveredBy(UNION {U(k).definitions : k \in s..(c - 1)}, U(c).header)

\* What precedes the run is its own preparation.
FeedsRun(s) ==
    LET prev == U(s - 1)
    IN  \/ /\ prev.kind = "let" /\ ~prev.fallible /\ prev.known
           /\ \/ prev.mutable /\ prev.form = "literal"
              \/ prev.form = "value"
              \/ prev.form \in {"call", "method"} /\ ~Multiline(prev)
        \/ UniqueFeederBefore(s - 1)
        \/ ~IsBinding(prev)

Accumulators == /\ cfg.max_before_control # 0 /\ cfg.use_in # "header"
                /\ cfg.bindings # "preserve" /\ Grouped
Runs(cohesive) == {c \in 2..Size : RunOf(c, cohesive) # 0}
HeldInRun(i, cohesive) ==
    \E c \in Runs(cohesive) :
        LET start == RunOf(c, cohesive)
        IN  i \in start..(c - 1) /\ (i < c - 1 \/ Attaches(c, start))
ApartFromRun(i, cohesive) ==
    \E c \in Runs(cohesive) :
        LET start == RunOf(c, cohesive)
        IN  \/ i = c - 1 /\ ~Attaches(c, start)
            \/ i = start - 1 /\ ~FeedsRun(start)
AccumulatorOffers(i, cohesive) ==
    Offer(Accumulators /\ HeldInRun(i, cohesive), Join("control_flow"))
    \o Offer(Accumulators /\ ApartFromRun(i, cohesive), Separate("control_flow", 90))

GapOffers(i, cohesive) ==
    LocalOffers(i, cohesive)
    \o Offer(Prepares /\ i \in Prepared, Join("bindings"))
    \o AccumulatorOffers(i, cohesive)

-----------------------------------------------------------------------------
(* apply: one control statement c, on the decisions taken so far.          *)

Open(slots, k) == ~Blocked(k) /\ EffectiveBlank(slots, k) = 0 /\ Ordinary(U(k))

Considered(c, slots, cohesive) ==
    /\ U(c).kind = "control" /\ Enabled(U(c), "control_flow")
    /\ Open(slots, c - 1)
    /\ ~GuardPair(U(c - 1), U(c))
    /\ c - 1 \notin cohesive
    /\ ~ /\ cfg.compact_cleanup /\ CompactPolicy
         /\ U(c).drain /\ U(c - 1).known /\ Mutates(U(c - 1))

\* The group of ordinary statements that ends before c.
GroupStart(c, slots) == RunStart(1, c - 1, {k \in 1..(c - 2) : Open(slots, k)})

ValidatesOperation(c) ==
    /\ cfg.guard_chain = "contextual" /\ CompactPolicy /\ cfg.max_before_control > 0
    /\ U(c).guard /\ U(c).form # "call_check"
    /\ U(c - 1).kind = "expression" /\ Meets(U(c - 1).reads, U(c).header)

\* A long run of bindings before a loop, under bindings = "multiline".
LoopPhase(c, slots) ==
    /\ cfg.bindings = "multiline" /\ U(c).form = "loop"
    /\ c - GroupStart(c, slots) > cfg.max_before_control
    /\ \A k \in GroupStart(c, slots)..(c - 1) : IsBinding(U(k))
LoopPhasePuts(c, slots) ==
    LET s == GroupStart(c, slots)
        scalars == {k \in s..(c - 1) :
                       U(k).kind = "let" /\ U(k).mutable /\ U(k).form = "literal"}
        spares == /\ cfg.max_before_control > 0
                  /\ U(c - 1).form = "literal" /\ U(c - 1).mutable
                  /\ Cardinality(scalars) = 1
                  /\ ~SplitsRun(c, c - s)
        feeds == cfg.max_before_control # 0 /\ Meets(U(c - 1).definitions, UpdatedBy(U(c)))
    IN  IF spares THEN {<<c - 2, Separate("control_flow", 90)>>}
        ELSE IF feeds THEN {}
        ELSE {<<c - 1, Separate("control_flow", 90)>>}

\* What statement k initializes is updated by c, also in a nested statement.
InitializesState(k, c) ==
    /\ CompactPolicy /\ cfg.use_in # "header"
    /\ U(c).known \/ U(c).form = "loop"
    /\ Meets(Outputs(U(k)), UpdatedBy(U(c)))
Fresh(k, c) == InitializesState(k, c) /\ Meets(U(k).definitions, UpdatedBy(U(c)))

\* Statement k is setup of c, if all between them are.
Provided(u) == Outputs(u) \cup (IF cfg.same_receiver THEN u.receivers ELSE {})
Accepts(k, c) ==
    LET needed == ControlInputs(U(c)) \cup UNION {U(m).reads : m \in (k + 1)..(c - 1)}
    IN  /\ U(k).known
        /\ \/ InitializesState(k, c)
           \/ U(c).known /\ Meets(Provided(U(k)), needed)
AcceptedStart(c, start) == RunStart(start, c, {k \in start..(c - 1) : Accepts(k, c)})
AccumulatorStart(c, start) ==
    RunStart(start, c, {k \in start..(c - 1) : Accepts(k, c) /\ Fresh(k, c)})

\* Nothing is accepted for want of facts.
UnknownSetup(c) ==
    ~U(c - 1).known \/ (~U(c).known /\ ~InitializesState(c - 1, c))
UnrelatedDespiteUnknown(c) ==
    LET g == U(c - 1)
    IN  /\ g.known /\ Outputs(g) = {} /\ g.receivers = {}
        /\ U(c).captures = {}
        /\ ~Meets(g.reads, U(c).header \cup U(c).first_body)

Least(x, y) == IF x < y THEN x ELSE y
Greatest(x, y) == IF x < y THEN y ELSE x

\* How many statements stay with c.
Retained(c, start, mandatory) ==
    LET limit == cfg.max_before_control
        run == c - AccumulatorStart(c, start)
        accumulators == IF SplitsRun(c, run) THEN 0 ELSE run
    IN  IF cfg.overflow = "related-suffix"
        THEN Greatest(Least(c - AcceptedStart(c, start), limit), mandatory)
        ELSE IF cfg.bindings = "multiline" /\ accumulators > limit THEN mandatory
        ELSE Greatest(Least(accumulators, limit), mandatory)

\* A whole group that fits, or that a guard checks, is not split.
Splits(c, start) ==
    LET related == c - AcceptedStart(c, start)
        total == c - start
    IN  \/ cfg.overflow = "related-suffix"
        \/ /\ ~(U(c).guard /\ U(c).exiting /\ related = total)
           /\ related # total \/ total > cfg.max_before_control

ConditionalSplit(c, start) ==
    /\ cfg.bindings # "preserve" /\ U(c).form \in {"conditional", "call_check"}
    /\ ~(U(c).guard /\ U(c).exiting)
    /\ AcceptedStart(c, start) = c - 1
    /\ U(c - 1).kind = "let" /\ ~Multiline(U(c - 1))
    /\ ~CoveredBy(U(c - 1).definitions, U(c).header)
TraversalSplit(c, start) ==
    SubstantialLoop(U(c)) /\ AccumulatorStart(c, start) = c - 1

\* The gap to separate at; 0 for none.
SplitGap(c, start, mandatory) ==
    LET retained == Retained(c, start, mandatory)
    IN  IF Splits(c, start) /\ c - retained > start THEN c - retained - 1
        ELSE IF ConditionalSplit(c, start) \/ TraversalSplit(c, start) THEN c - 1
        ELSE 0

JoinsAccumulator(c, start) ==
    /\ cfg.join_related /\ cfg.bindings # "preserve" /\ cfg.expressions # "preserve"
    /\ cfg.max_before_control > 0
    /\ U(c).form = "loop" /\ ~SubstantialLoop(U(c))
    /\ AccumulatorStart(c, start) < c
    /\ list.joinable[c - 1]

\* A separator moves back out of what is joined; 0 if all before it is.
MovedBack(slots, start, gap) ==
    LET splittable == {k \in start..gap : ~MandatoryJoin(slots[k])}
    IN  IF splittable = {} THEN 0 ELSE Max(splittable)

\* A separator before what stays with c; its diagnostic is at c.
Excess(c) == [blanks |-> 1, rule |-> "control_flow", priority |-> 90, anchor |-> c]

AtomicStart(c, start, slots) ==
    RunStart(start, c, {k \in start..(c - 1) : MandatoryJoin(slots[k])})

GroupPuts(c, slots) ==
    LET start     == GroupStart(c, slots)
        atomic    == AtomicStart(c, start, slots)
        gap       == SplitGap(c, start, c - atomic)
        moved     == IF gap = 0 THEN 0 ELSE MovedBack(slots, start, gap)
    IN  IF /\ UnknownSetup(c) /\ AcceptedStart(c, start) = c
           /\ cfg.max_before_control # 0 /\ ~UnrelatedDespiteUnknown(c)
        THEN {}
        ELSE (IF JoinsAccumulator(c, start) /\ gap # c - 1
              THEN {<<c - 1, OptionalJoin("control_flow")>>} ELSE {})
             \cup (IF moved = 0 THEN {} ELSE {<<moved, Excess(c)>>})

\* What the loop body of apply puts for c; never two decisions for one gap.
SetupPuts(c, slots, cohesive) ==
    IF ~Considered(c, slots, cohesive) THEN {}
    ELSE IF ValidatesOperation(c)
    THEN IF ValidationStages THEN {<<c - 1, Separate("control_flow", 90)>>} ELSE {}
    ELSE IF LoopPhase(c, slots) THEN LoopPhasePuts(c, slots)
    ELSE IF ~U(c).known /\ UpdatedBy(U(c)) = {} /\ cfg.max_before_control # 0 THEN {}
    ELSE GroupPuts(c, slots)

SetupStep(c, slots, cohesive) ==
    [i \in Gaps |->
        LET puts == {p \in SetupPuts(c, slots, cohesive) : p[1] = i /\ Bids(i, slots[i], p[2])}
        IN  IF puts = {} THEN slots[i] ELSE (CHOOSE p \in puts : TRUE)[2]]
=============================================================================
