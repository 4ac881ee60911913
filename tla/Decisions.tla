------------------------------ MODULE Decisions ------------------------------
(***************************************************************************)
(* Which rule decides a gap: planner/decisions.rs, and the groups of calls *)
(* on one receiver that no rule may split: planner/groups.rs.              *)
(***************************************************************************)
EXTENDS PlannerInput

\* An empty slot has a priority that every rule outbids.
NoDecision == [blanks |-> 0, rule |-> "none", priority |-> 0, anchor |-> 0]
Decision == [blanks : 0..1, rule : Rules, priority : 1..100, anchor : Nat]
Slot == Decision \cup {NoDecision}

\* Anchor 0: the statement after the gap.
Separate(rule, priority) ==
    [blanks |-> 1, rule |-> rule, priority |-> priority, anchor |-> 0]
Join(rule) == [blanks |-> 0, rule |-> rule, priority |-> 100, anchor |-> 0]
OptionalJoin(rule) == [Join(rule) EXCEPT !.priority = 20]
MandatoryJoin(slot) == slot.blanks = 0 /\ slot.priority = 100

Blocked(i) ==
    \/ list.protected[i]
    \/ \E u \in {U(i), U(i + 1)} : u.protected \/ ~u.active

\* Mutant: a statement under #[allow] is planned like any other.
BidsAnywhere(i, slot, d) == ~Blocked(i) /\ slot.priority < d.priority
\* Mutant: a later decision wins, whatever its priority.
BidsLast(i, slot, d) == ~Blocked(i) /\ Enabled(U(i + 1), d.rule)
\* put
Bids(i, slot, d) ==
    /\ ~Blocked(i) /\ Enabled(U(i + 1), d.rule)
    /\ slot.priority < d.priority

\* Decisions offered to one gap in turn: the first of the greatest priority.
Offer(condition, d) == IF condition THEN <<d>> ELSE <<>>
Bidders(i, offers) == {k \in DOMAIN offers : Bids(i, NoDecision, offers[k])}
Leading(i, offers) ==
    {k \in Bidders(i, offers) : \A j \in Bidders(i, offers) :
        \/ offers[j].priority < offers[k].priority
        \/ offers[j].priority = offers[k].priority /\ k <= j}
Winner(i, offers) ==
    IF Leading(i, offers) = {} THEN NoDecision
    ELSE offers[CHOOSE k \in Leading(i, offers) : TRUE]

EffectiveBlank(slots, i) ==
    IF slots[i] # NoDecision THEN slots[i].blanks
    ELSE IF cfg.join_related /\ list.joinable[i] /\ ~Blocked(i) THEN 0
    ELSE blank[i]

-----------------------------------------------------------------------------
(* groups.rs                                                               *)

LocalsOf(places) == {p.local : p \in places}

\* The bindings that statements between the anchor s and statement j define.
Introduced(s, j) ==
    UNION {LocalsOf(U(k).definitions) : k \in {k \in (s + 1)..(j - 1) : U(k).kind = "let"}}

OnReceiver(s, j) == Meets(U(s).receivers, U(j).receivers \cup U(j).header)
UsesGroup(s, j) ==
    \/ OnReceiver(s, j)
    \/ Meets(U(s).receivers, U(j).reads)
    \/ LocalsOf(U(j).reads) \cap Introduced(s, j) # {}

\* Gaps without a blank line, or that lose it where their statements belong together.
Tight == {i \in Gaps : cfg.join_related \/ blank[i] = 0}
Adjacent(i) == ~Blocked(i) /\ list.joinable[i] /\ i \in Tight

HasControl(s, j) == \E k \in (s + 1)..(j - 1) : U(k).kind = "control"
Continues(s, j) ==
    LET u == U(j)
    IN  /\ Adjacent(j - 1)
        /\ Ordinary(u) \/ u.kind = "control"
        /\ u.tail => u.kind = "control" /\ cfg.tail # "always-separate"
        /\ u.kind = "control" => ~HasControl(s, j)
        /\ u.kind # "let" => UsesGroup(s, j)
        /\ u.kind = "let" => ~HasControl(s, j) /\ u.definitions # {}

\* Every binding introduced so far is read, and the receiver is used again.
Closes(s, j) ==
    /\ OnReceiver(s, j)
    /\ \E k \in (s + 1)..j : U(k).kind = "let"
    /\ \A k \in (s + 1)..j : U(k).kind = "let" =>
           \A x \in LocalsOf(U(k).definitions) :
               \E m \in (k + 1)..j : x \in LocalsOf(U(m).reads)

GroupEnd(s) ==
    Max({s} \cup {j \in (s + 1)..Size : Closes(s, j) /\ \A k \in (s + 1)..j : Continues(s, k)})

Anchors(s) == U(s).kind = "expression" /\ U(s).receivers # {}

\* cohesive
CohesiveGaps ==
    LET From[s \in 1..(Size + 1)] ==
            IF s > Size THEN {}
            ELSE IF Anchors(s) /\ GroupEnd(s) > s
            THEN (s..(GroupEnd(s) - 1)) \cup From[GroupEnd(s)]
            ELSE From[s + 1]
    IN  IF /\ cfg.expressions = "related"
           /\ cfg.same_receiver /\ cfg.related_continuation
           /\ cfg.max_before_control # 0
        THEN From[1] ELSE {}
=============================================================================
